--------------------------- MODULE MCWorkspaceStore ---------------------------
(***************************************************************************)
(* WorkspaceStore for two or three threads of the pool, two browsers and a  *)
(* handful of session tokens.  Threads, browsers and tokens only name their *)
(* requests, cookies and files, so the safety runs take them as symmetric; *)
(* the liveness run does not.                                              *)
(***************************************************************************)
EXTENDS WorkspaceStore, TLC

Symmetry == Permutations(Threads) \cup Permutations(Browsers) \cup Permutations(SessionIds)
=============================================================================
