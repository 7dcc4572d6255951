--------------------------- MODULE MCDailyPortfolio ---------------------------
\* TLC instances of DailyPortfolio.
EXTENDS DailyPortfolio
=============================================================================
