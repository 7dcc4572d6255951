------------------------------- MODULE WebProofs -------------------------------
(***************************************************************************)
(* Theorems about WebClient, for every set of countries and filters, any   *)
(* number of requests and of sessions that run out.  The invariant says of *)
(* every request in flight what its answer will do to the page: the two    *)
(* effects and mutate() each have one request whose answer counts, asked    *)
(* for what is on screen; and unless the user went on while something was   *)
(* under way, nothing the page is about to show was read before a change    *)
(* that is still under way.                                                *)
(***************************************************************************)
EXTENDS WebClient, FiniteSetTheorems, SequenceTheorems, TLAPS

Version == [workspace : Nat, reset : Nat, revision : Nat]
Space == [reset : Nat, revision : Nat]
Ui == [page : {"events", "other"}, country : Countries,
       view : [country : Countries, version : Version],
       failure : BOOLEAN, busy : BOOLEAN, load : Nat, filter : Filters,
       rows : [country : Countries, filter : Filters, base : Version, version : Version],
       loading : BOOLEAN, list : Nat]
Request == [id : Nat \ {0}, kind : {"load", "retry", "post", "again", "list"},
            country : Countries, filter : Filters,
            change : {"none", "simulate", "work", "reset", "refused"},
            session : Nat, base : Version, answer : Version]

Served(c) == c.answer # Unserved
Changes(c) == c.kind \in {"post", "again"}
LoadOf(u, c) == c.kind = "load" /\ c.id = u.load
ListOf(u, c) == c.kind = "list" /\ c.id = u.list
\* The calls whose answers App shows.
ShownBy(u, c) == LoadOf(u, c) \/ c.kind = "retry"

TypeInv ==
    /\ asked \in Nat
    /\ workspaces \in Seq(Space) /\ cookie \in Nat
    /\ ui \in Ui /\ ui.load <= asked /\ ui.list <= asked
    /\ calls \subseteq Request
    /\ \A c \in calls : c.id <= asked
    /\ unheard \in BOOLEAN /\ unread \in BOOLEAN /\ crossing \in BOOLEAN /\ crossed \in BOOLEAN

\* The last version of a workspace that the visitor has got.
LatestIn(ws, version) ==
    version.workspace \in DOMAIN ws /\ version = VersionOf(version.workspace, ws[version.workspace])

\* An earlier version of the same workspace, or that one.
UpTo(reset, revision, version) ==
    reset < version.reset \/ (reset = version.reset /\ revision <= version.revision)
Follows(base, version) ==
    base.workspace = version.workspace => UpTo(base.reset, base.revision, version)

\* No version is newer than its workspace.
NotAhead(ws, version) ==
    \/ version.workspace = 0
    \/ /\ version.workspace \in DOMAIN ws
       /\ UpTo(version.reset, version.revision, ws[version.workspace])
NothingAhead(u, cs, ws) ==
    /\ NotAhead(ws, u.view.version) /\ NotAhead(ws, u.rows.version)
    /\ \A c \in cs : NotAhead(ws, c.base) /\ NotAhead(ws, c.answer)

AppInv(u, cs, ws, deaf, now, ever) ==
    /\ \A c \in cs : LoadOf(u, c) => c.country = u.country
    /\ \A c \in cs : Changes(c) => u.busy /\ (Served(c) => LatestIn(ws, c.answer))
    /\ \A c, d \in cs : Changes(c) /\ Changes(d) => c = d
    /\ now => ever
    /\ ~ now =>
        /\ \A c \in cs : Changes(c) \/ c.kind = "retry" => c.country = u.country
        /\ u.busy => \A c \in cs : ~ ShownBy(u, c)
        /\ \A c \in cs : ShownBy(u, c) /\ Served(c) => LatestIn(ws, c.answer)
    /\ ~ ever =>
        /\ Shown(u) => u.view.country = u.country \/ \E c \in cs : LoadOf(u, c)
        /\ Shown(u) /\ ~ deaf =>
              \/ LatestIn(ws, u.view.version)
              \/ \E c \in cs : c.kind = "again" \/ (c.kind = "post" /\ Served(c))

EventsInv(u, cs, missed) ==
    /\ ~ Mounted(u) => ~ u.loading /\ u.list = 0
    /\ u.loading => \E c \in cs : ListOf(u, c)
    /\ \A c \in cs : ListOf(u, c) =>
          /\ c.country = u.country /\ c.filter = u.filter
          /\ c.base.revision = u.view.version.revision
          /\ Served(c) => Follows(c.base, c.answer)
    /\ Mounted(u) /\ ~ u.loading /\ ~ missed =>
          /\ u.rows.country = u.country /\ u.rows.filter = u.filter
          /\ u.rows.base.revision = u.view.version.revision
          /\ Follows(u.rows.base, u.rows.version)
WebInv ==
    /\ TypeInv /\ NothingAhead(ui, calls, workspaces)
    /\ AppInv(ui, calls, workspaces, unheard, crossing, crossed)
    /\ EventsInv(ui, calls, unread)

-----------------------------------------------------------------------------
(* Requests and rendering.                                                  *)

Kinds == {"load", "retry", "post", "again", "list"}

\* What a new request looks like.
LEMMA RequestIs ==
    ASSUME NEW n \in Nat \ {0}, NEW kind \in Kinds, NEW country \in Countries, NEW s \in Nat
    PROVE  LET c == Call(n, kind, country, s) IN
           /\ c \in Request /\ c.id = n /\ c.kind = kind /\ c.country = country
           /\ c.base = Unserved /\ c.answer = Unserved
  BY ClientAssumption DEF Call, Request, Unserved, Version, Kinds

\* What a request of mutate() looks like.
LEMMA ChangeIs ==
    ASSUME NEW n \in Nat \ {0}, NEW kind \in Kinds, NEW country \in Countries, NEW s \in Nat,
           NEW change \in {"none", "simulate", "work", "reset", "refused"}
    PROVE  LET c == Mutation(n, kind, country, change, s) IN
           /\ c \in Request /\ c.id = n /\ c.kind = kind /\ c.country = country
           /\ c.base = Unserved /\ c.answer = Unserved
<1> DEFINE d == Call(n, kind, country, s)
           c == [d EXCEPT !.change = change]
<1>1. /\ d \in Request /\ d.id = n /\ d.kind = kind /\ d.country = country
      /\ d.base = Unserved /\ d.answer = Unserved
  BY RequestIs
<1>2. Mutation(n, kind, country, change, s) = c
  BY DEF Mutation
<1>. HIDE DEF d
<1>. QED
  BY <1>1, <1>2 DEF Request

\* What a request for the listing looks like.
LEMMA ListingIs ==
    ASSUME NEW n \in Nat \ {0}, NEW u \in Ui, NEW s \in Nat
    PROVE  LET c == Listing(n, u, s) IN
           /\ c \in Request /\ c.id = n /\ c.kind = "list" /\ c.country = u.country
           /\ c.filter = u.filter /\ c.base = u.view.version /\ c.answer = Unserved
<1> DEFINE d == Call(n, "list", u.country, s)
           e == [d EXCEPT !.filter = u.filter]
           c == [e EXCEPT !.base = u.view.version]
<1>1. u.country \in Countries /\ u.filter \in Filters /\ u.view.version \in Version
  BY DEF Ui
<1>2. d \in Request /\ d.id = n /\ d.kind = "list" /\ d.country = u.country /\ d.answer = Unserved
  BY <1>1, RequestIs DEF Kinds
<1>. HIDE DEF d
<1>3. /\ e \in Request /\ e.id = n /\ e.kind = "list" /\ e.country = u.country
      /\ e.filter = u.filter /\ e.answer = Unserved
  BY <1>1, <1>2 DEF Request
<1>4. Listing(n, u, s) = c
  BY DEF Listing, d
<1>. HIDE DEF e
<1>. QED
  BY <1>1, <1>3, <1>4 DEF Request

\* A request that is not served yet is not ahead of anything.
LEMMA UnservedIs ==
    /\ Unserved \in Version /\ \A ws : NotAhead(ws, Unserved)
    /\ \A c : c.answer = Unserved => ~ Served(c)
  BY DEF NotAhead, Unserved, Version, Served

Settled(v) ==
    IF Mounted(v) THEN v
    ELSE [v EXCEPT !.filter = NoFilter, !.rows = NoRows, !.loading = FALSE, !.list = 0]
WithReading(u, n) == [u EXCEPT !.loading = TRUE, !.list = n + 1]

\* The same to App, whatever Events holds.
SameApp(u, v) ==
    /\ u.page = v.page /\ u.country = v.country /\ u.view = v.view
    /\ u.failure = v.failure /\ u.busy = v.busy /\ u.load = v.load

\* Leaving the page of events unmounts it; nothing else changes.
LEMMA SettledIs ==
    ASSUME NEW v \in Ui
    PROVE  LET w == Settled(v) IN
           /\ w \in Ui /\ SameApp(w, v) /\ (Mounted(w) <=> Mounted(v))
           /\ Mounted(v) => w = v
           /\ ~ Mounted(v) => ~ w.loading /\ w.list = 0 /\ w.rows.version = Unserved
<1>1. CASE Mounted(v)
  BY <1>1 DEF Settled, SameApp
<1>2. CASE ~ Mounted(v)
  <2> DEFINE w == [v EXCEPT !.filter = NoFilter, !.rows = NoRows, !.loading = FALSE, !.list = 0]
  <2>1. Settled(v) = w
    BY <1>2 DEF Settled
  <2>2. /\ NoFilter \in Filters /\ NoRows.version = Unserved
        /\ NoRows \in [country : Countries, filter : Filters, base : Version, version : Version]
    BY ClientAssumption, UnservedIs DEF NoRows, Countries
  <2>3. w \in Ui /\ SameApp(w, v) /\ ~ w.loading /\ w.list = 0 /\ w.rows.version = Unserved
    BY <2>2 DEF Ui, SameApp
  <2>. HIDE DEF w
  <2>4. ~ Mounted(w)
    BY <1>2, <2>3 DEF SameApp, Mounted, Shown
  <2>. QED
    BY <1>2, <2>1, <2>3, <2>4
<1>. QED
  BY <1>1, <1>2

\* The effect of Events marks the listing as being read, and nothing else.
LEMMA WithReadingIs ==
    ASSUME NEW v \in Ui, NEW n \in Nat
    PROVE  LET w == WithReading(v, n) IN
           /\ w \in Ui /\ SameApp(w, v) /\ w.loading /\ w.list = n + 1
           /\ w.filter = v.filter /\ w.rows = v.rows
<1> DEFINE u == [v EXCEPT !.loading = TRUE]
           k == n + 1
           w == [u EXCEPT !.list = k]
<1>1. u \in Ui /\ SameApp(u, v) /\ u.loading /\ u.filter = v.filter /\ u.rows = v.rows
  BY DEF Ui, SameApp
<1>2. k \in Nat
  OBVIOUS
<1>. HIDE DEF u, k
<1>3. /\ w \in Ui /\ SameApp(w, u) /\ w.loading = u.loading /\ w.list = k
      /\ w.filter = u.filter /\ w.rows = u.rows
  BY <1>1, <1>2 DEF Ui, SameApp
<1>4. WithReading(v, n) = w
  BY DEF WithReading, u, k
<1>. HIDE DEF w
<1>. QED
  BY <1>1, <1>3, <1>4 DEF SameApp, k

\* A render reads the listing, or has nothing to read.
LEMMA RenderCases ==
    ASSUME NEW v, NEW sent, NEW heard, Render(v, sent, heard),
           NEW n \in Nat, n = asked + Cardinality(sent)
    PROVE  LET w == Settled(v)
               rest == (calls \ heard) \cup sent
           IN  \/ /\ Mounted(w) /\ asked' = n + 1
                  /\ ui' = WithReading(w, n) /\ calls' = rest \cup {Listing(n + 1, w, cookie')}
               \/ /\ Mounted(w) => Mounted(ui) /\ Dependencies(ui) = Dependencies(w)
                  /\ asked' = n /\ ui' = w /\ calls' = rest
<1> DEFINE w == Settled(v)
           rest == (calls \ heard) \cup sent
           reads == Mounted(w) /\ (Mounted(ui) => Dependencies(ui) # Dependencies(w))
           reading == IF reads THEN {Listing(n + 1, w, cookie')} ELSE {}
<1>1. /\ asked' = n + Cardinality(reading)
      /\ ui' = IF reads THEN WithReading(w, n) ELSE w
      /\ calls' = rest \cup reading
  BY DEF Render, Settled, WithReading
<1>2. CASE reads
  <2>1. Cardinality(reading) = 1
    BY <1>2, FS_Singleton
  <2>. QED
    BY <1>1, <1>2, <2>1
<1>3. CASE ~ reads
  <2>1. Cardinality(reading) = 0
    BY <1>3, FS_EmptySet
  <2>. QED
    BY <1>1, <1>3, <2>1
<1>. QED
  BY <1>2, <1>3

\* What App has to say does not depend on the listing.
LEMMA AppIgnoresEvents ==
    ASSUME NEW u, NEW v, SameApp(v, u), NEW cs, NEW ds, cs \subseteq ds,
           \A c \in ds \ cs : c.kind = "list",
           NEW ws, NEW deaf, NEW now, NEW ever, AppInv(u, cs, ws, deaf, now, ever)
    PROVE  AppInv(v, ds, ws, deaf, now, ever)
  BY DEF AppInv, SameApp, Changes, LoadOf, ShownBy, Shown

\* Rendering keeps the invariant if what is rendered satisfies it, but for a
\* listing that is left or read anew.
LEMMA RenderKeeps ==
    ASSUME NEW v \in Ui, NEW sent, NEW heard, Render(v, sent, heard), cookie' \in Nat,
           NEW n \in Nat, n = asked + Cardinality(sent),
           NEW rest, rest = (calls \ heard) \cup sent, rest \subseteq Request,
           \A c \in rest : c.id <= n, v.load <= n, v.list <= n,
           NEW ws, NEW deaf, NEW now, NEW ever, NEW missed, NothingAhead(v, rest, ws),
           AppInv(v, rest, ws, deaf, now, ever),
           Mounted(v) /\ Mounted(ui) /\ Dependencies(ui) = Dependencies(v) =>
               EventsInv(v, rest, missed)
    PROVE  /\ asked' \in Nat /\ ui' \in Ui /\ ui'.load <= asked' /\ ui'.list <= asked'
           /\ calls' \subseteq Request /\ \A c \in calls' : c.id <= asked'
           /\ NothingAhead(ui', calls', ws)
           /\ AppInv(ui', calls', ws, deaf, now, ever)
           /\ EventsInv(ui', calls', missed)
<1> DEFINE w == Settled(v)
<1>1. /\ w \in Ui /\ SameApp(w, v) /\ (Mounted(w) <=> Mounted(v))
      /\ Mounted(v) => w = v
      /\ ~ Mounted(v) => ~ w.loading /\ w.list = 0 /\ w.rows.version = Unserved
  BY SettledIs
<1>2. \A c \in rest : c.id \in Nat \ {0}
  BY DEF Request
<1>3. w.load <= n /\ w.list <= n
  <2>1. w.list = v.list \/ w.list = 0
    BY <1>1
  <2>. QED
    BY <1>1, <2>1 DEF SameApp
<1>4. NothingAhead(w, rest, ws)
  BY <1>1, UnservedIs DEF NothingAhead, SameApp
<1>5. AppInv(w, rest, ws, deaf, now, ever)
  BY <1>1, AppIgnoresEvents
<1>6. \/ /\ Mounted(w) /\ asked' = n + 1
         /\ ui' = WithReading(w, n) /\ calls' = rest \cup {Listing(n + 1, w, cookie')}
      \/ /\ Mounted(w) => Mounted(ui) /\ Dependencies(ui) = Dependencies(w)
         /\ asked' = n /\ ui' = w /\ calls' = rest
  BY RenderCases
<1>. HIDE DEF w
<1>7. CASE /\ Mounted(w) => Mounted(ui) /\ Dependencies(ui) = Dependencies(w)
           /\ asked' = n /\ ui' = w /\ calls' = rest
  <2>1. EventsInv(w, rest, missed)
    <3>1. CASE Mounted(w)
      BY <1>1, <1>7, <3>1
    <3>2. CASE ~ Mounted(w)
      BY <1>1, <1>2, <3>2 DEF EventsInv, ListOf
    <3>. QED
      BY <3>1, <3>2
  <2>. QED
    BY <1>1, <1>3, <1>4, <1>5, <1>7, <2>1
<1>8. CASE /\ Mounted(w) /\ asked' = n + 1
           /\ ui' = WithReading(w, n) /\ calls' = rest \cup {Listing(n + 1, w, cookie')}
  <2> DEFINE u == WithReading(w, n)
             r == Listing(n + 1, w, cookie')
  <2>1. /\ u \in Ui /\ SameApp(u, w) /\ u.loading /\ u.list = n + 1
        /\ u.filter = w.filter /\ u.rows = w.rows
    BY <1>1, WithReadingIs
  <2>2. /\ r \in Request /\ r.id = n + 1 /\ r.kind = "list" /\ r.country = w.country
        /\ r.filter = w.filter /\ r.base = w.view.version /\ r.answer = Unserved
    BY <1>1, ListingIs
  <2>3. ui' = u /\ calls' = rest \cup {r} /\ asked' = n + 1
    BY <1>8
  <2>. HIDE DEF u, r
  <2>4. NothingAhead(u, rest \cup {r}, ws)
    BY <1>4, <2>1, <2>2, UnservedIs DEF NothingAhead, SameApp
  <2>5. AppInv(u, rest \cup {r}, ws, deaf, now, ever)
    BY <1>5, <2>1, <2>2, AppIgnoresEvents
  <2>6. EventsInv(u, rest \cup {r}, missed)
    <3>1. Mounted(u)
      BY <1>8, <2>1 DEF SameApp, Mounted, Shown
    <3>2. \A c \in rest : ~ ListOf(u, c)
      BY <1>2, <2>1 DEF ListOf
    <3>3. /\ ListOf(u, r) /\ r.country = u.country /\ r.filter = u.filter
          /\ r.base.revision = u.view.version.revision /\ ~ Served(r)
      BY <2>1, <2>2, UnservedIs DEF ListOf, SameApp
    <3>. QED
      BY <2>1, <3>1, <3>2, <3>3 DEF EventsInv
  <2>7. u.load <= n + 1 /\ u.list <= n + 1 /\ \A c \in rest \cup {r} : c.id <= n + 1
    <3>1. u.load = w.load /\ w.load \in Nat
      BY <1>1, <2>1 DEF SameApp, Ui
    <3>. QED
      BY <1>2, <1>3, <2>1, <2>2, <3>1
  <2>8. rest \cup {r} \subseteq Request
    BY <2>2
  <2>. QED
    BY <2>1, <2>3, <2>4, <2>5, <2>6, <2>7, <2>8
<1>. QED
  BY <1>6, <1>7, <1>8

\* A request has ended.
LEMMA EndsKeep ==
    ASSUME TypeInv, NEW c \in calls, NEW v \in Ui, Render(v, {}, {c}),
           v.load <= asked, v.list <= asked,
           NothingAhead(v, calls \ {c}, workspaces), workspaces' = workspaces, cookie' \in Nat,
           AppInv(v, calls \ {c}, workspaces, unheard', crossing', crossed'),
           Mounted(v) /\ Mounted(ui) /\ Dependencies(ui) = Dependencies(v) =>
               EventsInv(v, calls \ {c}, unread'),
           unheard' \in BOOLEAN, unread' \in BOOLEAN, crossing' \in BOOLEAN, crossed' \in BOOLEAN
    PROVE  WebInv'
<1>1. /\ asked \in Nat /\ workspaces \in Seq(Space) /\ calls \subseteq Request
      /\ \A d \in calls : d.id <= asked
  BY DEF TypeInv
<1>2. Cardinality({}) = 0 /\ asked = asked + Cardinality({})
  BY <1>1, FS_EmptySet
<1> DEFINE rest == (calls \ {c}) \cup {}
<1>3. rest = calls \ {c} /\ rest \subseteq Request /\ \A d \in rest : d.id <= asked
  BY <1>1
<1>. HIDE DEF rest
<1>4. rest = (calls \ {c}) \cup {}
  BY DEF rest
<1>5. /\ asked' \in Nat /\ ui' \in Ui /\ ui'.load <= asked' /\ ui'.list <= asked'
      /\ calls' \subseteq Request /\ \A d \in calls' : d.id <= asked'
      /\ NothingAhead(ui', calls', workspaces)
      /\ AppInv(ui', calls', workspaces, unheard', crossing', crossed')
      /\ EventsInv(ui', calls', unread')
  BY <1>1, <1>2, <1>3, <1>4, RenderKeeps
<1>. QED
  BY <1>1, <1>5 DEF WebInv, TypeInv

\* App sends a request, perhaps instead of one that has ended.
LEMMA SendsKeep ==
    ASSUME TypeInv, NEW heard, NEW x \in Request, x.id = asked + 1, NEW v \in Ui,
           Render(v, {x}, heard), v.load <= asked + 1, v.list <= asked,
           NothingAhead(v, (calls \ heard) \cup {x}, workspaces),
           workspaces' = workspaces, cookie' \in Nat,
           AppInv(v, (calls \ heard) \cup {x}, workspaces, unheard', crossing', crossed'),
           Mounted(v) /\ Mounted(ui) /\ Dependencies(ui) = Dependencies(v) =>
               EventsInv(v, (calls \ heard) \cup {x}, unread'),
           unheard' \in BOOLEAN, unread' \in BOOLEAN, crossing' \in BOOLEAN, crossed' \in BOOLEAN
    PROVE  WebInv'
<1>1. /\ asked \in Nat /\ workspaces \in Seq(Space) /\ calls \subseteq Request
      /\ \A d \in calls : d.id <= asked
  BY DEF TypeInv
<1> DEFINE n == asked + 1
           rest == (calls \ heard) \cup {x}
<1>2. n \in Nat /\ n = asked + Cardinality({x})
  <2>1. Cardinality({x}) = 1
    BY FS_Singleton
  <2>. QED
    BY <1>1, <2>1
<1>3. /\ rest \subseteq Request /\ \A d \in rest : d.id <= n
      /\ v.load <= n /\ v.list <= n
  <2>1. v.list \in Nat /\ \A d \in calls : d.id \in Nat
    BY <1>1 DEF Ui, Request
  <2>. QED
    BY <1>1, <2>1
<1>4. rest = (calls \ heard) \cup {x}
  OBVIOUS
<1>5. /\ NothingAhead(v, rest, workspaces)
      /\ AppInv(v, rest, workspaces, unheard', crossing', crossed')
      /\ Mounted(v) /\ Mounted(ui) /\ Dependencies(ui) = Dependencies(v) =>
             EventsInv(v, rest, unread')
  OBVIOUS
<1>. HIDE DEF n, rest
<1>6. /\ asked' \in Nat /\ ui' \in Ui /\ ui'.load <= asked' /\ ui'.list <= asked'
      /\ calls' \subseteq Request /\ \A d \in calls' : d.id <= asked'
      /\ NothingAhead(ui', calls', workspaces)
      /\ AppInv(ui', calls', workspaces, unheard', crossing', crossed')
      /\ EventsInv(ui', calls', unread')
  BY <1>1, <1>2, <1>3, <1>4, <1>5, RenderKeeps
<1>. QED
  BY <1>1, <1>6 DEF WebInv, TypeInv

\* The page is only rendered.
LEMMA RenderedKeeps ==
    ASSUME TypeInv, NEW v \in Ui, Render(v, {}, {}), v.load <= asked, v.list <= asked,
           NothingAhead(v, calls, workspaces), workspaces' = workspaces, cookie' \in Nat,
           AppInv(v, calls, workspaces, unheard', crossing', crossed'),
           Mounted(v) /\ Mounted(ui) /\ Dependencies(ui) = Dependencies(v) =>
               EventsInv(v, calls, unread'),
           unheard' \in BOOLEAN, unread' \in BOOLEAN, crossing' \in BOOLEAN, crossed' \in BOOLEAN
    PROVE  WebInv'
<1>1. /\ asked \in Nat /\ workspaces \in Seq(Space) /\ calls \subseteq Request
      /\ \A d \in calls : d.id <= asked
  BY DEF TypeInv
<1>2. Cardinality({}) = 0 /\ asked = asked + Cardinality({})
  BY <1>1, FS_EmptySet
<1>3. calls = (calls \ {}) \cup {}
  OBVIOUS
<1>4. /\ asked' \in Nat /\ ui' \in Ui /\ ui'.load <= asked' /\ ui'.list <= asked'
      /\ calls' \subseteq Request /\ \A d \in calls' : d.id <= asked'
      /\ NothingAhead(ui', calls', workspaces)
      /\ AppInv(ui', calls', workspaces, unheard', crossing', crossed')
      /\ EventsInv(ui', calls', unread')
  BY <1>1, <1>2, <1>3, RenderKeeps
<1>. QED
  BY <1>1, <1>4 DEF WebInv, TypeInv

\* The listing on the page is as right as before if it, what it depends on, and
\* the requests that read it are the same.
SameEvents(u, v) ==
    u.filter = v.filter /\ u.rows = v.rows /\ u.loading = v.loading /\ u.list = v.list

\* What does not touch the listing, its requests and what it depends on keeps it.
LEMMA EventsStay ==
    ASSUME NEW u \in Ui, NEW cs, NEW missed, EventsInv(u, cs, missed),
           NEW still, ~ still => ~ missed, NEW v \in Ui, SameEvents(v, u),
           NEW ds, \A c : c.kind = "list" => (c \in ds <=> c \in cs),
           Mounted(v), Mounted(u), Dependencies(u) = Dependencies(v)
    PROVE  EventsInv(v, ds, still)
<1>1. /\ u.filter = v.filter /\ u.country = v.country
      /\ u.view.version.revision = v.view.version.revision
  BY DEF Dependencies
<1>2. \A c : ListOf(v, c) => (ListOf(u, c) /\ (c \in ds <=> c \in cs))
  BY DEF ListOf, SameEvents
<1>3. \A c : ListOf(u, c) => (ListOf(v, c) /\ (c \in ds <=> c \in cs))
  BY DEF ListOf, SameEvents
<1>. QED
  BY <1>1, <1>2, <1>3 DEF EventsInv, SameEvents

-----------------------------------------------------------------------------
(* The workspaces.                                                          *)

\* A workspace is the one of the cookie, or a new one.
LEMMA PlaceIs ==
    ASSUME workspaces \in Seq(Space), NEW c \in Request
    PROVE  /\ Opened(c) \in Seq(Space) /\ Place(c) \in DOMAIN Opened(c) /\ Place(c) # 0
           /\ \A i \in DOMAIN workspaces : i \in DOMAIN Opened(c) /\ Opened(c)[i] = workspaces[i]
<1>1. NewWorkspace \in Space
  BY DEF NewWorkspace, Space, Fresh
<1>2. CASE Known(c)
  <2>1. Opened(c) = workspaces /\ Place(c) = c.session /\ c.session \in DOMAIN workspaces
    BY <1>2 DEF Opened, Place, Known
  <2>. QED
    BY <2>1
<1>3. CASE ~ Known(c)
  <2>1. Opened(c) = Append(workspaces, NewWorkspace) /\ Place(c) = Len(workspaces) + 1
    BY <1>3 DEF Opened, Place
  <2>. QED
    BY <1>1, <2>1
<1>. QED
  BY <1>2, <1>3

\* A change gives a later version; nothing else changes a workspace.
LEMMA ChangingIs ==
    ASSUME NEW c, NEW space \in Space
    PROVE  /\ Changing(c, space) \in Space
           /\ UpTo(space.reset, space.revision, Changing(c, space))
           /\ c.kind # "post" => Changing(c, space) = space
<1>1. space.reset \in Nat /\ space.revision \in Nat
  BY DEF Space
<1>2. CASE c.kind # "post" \/ c.change = "refused"
  <2>1. Changing(c, space) = space
    BY <1>2 DEF Changing
  <2>. QED
    BY <1>1, <2>1 DEF UpTo
<1>3. CASE c.kind = "post" /\ c.change = "reset"
  <2>1. Changing(c, space) = [reset |-> space.reset + 1, revision |-> 1]
    BY <1>3 DEF Changing, Fresh
  <2>. QED
    BY <1>1, <1>3, <2>1 DEF UpTo, Space
<1>4. CASE c.kind = "post" /\ c.change # "reset" /\ c.change # "refused"
  <2>1. Changing(c, space) = [space EXCEPT !.revision = space.revision + 1]
    BY <1>4 DEF Changing
  <2>. QED
    BY <1>1, <1>4, <2>1 DEF UpTo, Space
<1>. QED
  BY <1>2, <1>3, <1>4

\* One workspace is earlier than another that is earlier than a third.
LEMMA UpToIsTransitive ==
    ASSUME NEW reset \in Nat, NEW revision \in Nat, NEW a \in Space, NEW b \in Space,
           UpTo(reset, revision, a), UpTo(a.reset, a.revision, b)
    PROVE  UpTo(reset, revision, b)
  BY DEF UpTo, Space

\* An element of a sequence is replaced.
LEMMA ReplacedIs ==
    ASSUME NEW S, NEW s \in Seq(S), NEW i \in DOMAIN s, NEW x \in S
    PROVE  [s EXCEPT ![i] = x] \in Seq(S) /\ DOMAIN [s EXCEPT ![i] = x] = DOMAIN s
<1>1. i \in 1 .. Len(s)
  OBVIOUS
<1>2. [s EXCEPT ![i] = x] \in Seq(S)
  BY <1>1, ExceptSeq
<1>. QED
  BY <1>2

\* Every workspace is still there after a request, and at a later version if the
\* request was a change; the answer carries the last version of its workspace.
LEMMA ServedIs ==
    ASSUME workspaces \in Seq(Space), NEW c \in Request, NEW d \in Request,
           workspaces' = [Opened(c) EXCEPT ![Place(c)] = Changing(d, @)]
    PROVE  LET version == VersionOf(Place(c), workspaces'[Place(c)]) IN
           /\ workspaces' \in Seq(Space)
           /\ version \in Version /\ version # Unserved /\ LatestIn(workspaces', version)
           /\ \A i \in DOMAIN workspaces :
                 /\ i \in DOMAIN workspaces'
                 /\ UpTo(workspaces[i].reset, workspaces[i].revision, workspaces'[i])
                 /\ d.kind # "post" => workspaces'[i] = workspaces[i]
<1> DEFINE opened == Opened(c)
           w == Place(c)
           space == Changing(d, opened[w])
<1>1. /\ opened \in Seq(Space) /\ w \in DOMAIN opened /\ w # 0
      /\ \A i \in DOMAIN workspaces : i \in DOMAIN opened /\ opened[i] = workspaces[i]
  BY PlaceIs
<1>2. workspaces' = [opened EXCEPT ![w] = space]
  OBVIOUS
<1>3. opened[w] \in Space /\ w \in Nat
  BY <1>1
<1>4. /\ space \in Space
      /\ UpTo(opened[w].reset, opened[w].revision, space)
      /\ d.kind # "post" => space = opened[w]
  BY <1>3, ChangingIs
<1>. HIDE DEF opened, w, space
<1>5. /\ workspaces' \in Seq(Space) /\ DOMAIN workspaces' = DOMAIN opened
      /\ workspaces'[w] = space /\ \A i \in DOMAIN opened : i # w => workspaces'[i] = opened[i]
  <2>1. DOMAIN opened = 1 .. Len(opened) /\ w \in 1 .. Len(opened)
    BY <1>1
  <2>2. /\ [opened EXCEPT ![w] = space] \in Seq(Space)
        /\ DOMAIN [opened EXCEPT ![w] = space] = DOMAIN opened
    BY <1>1, <1>4, ReplacedIs
  <2>. QED
    BY <1>1, <1>2, <2>1, <2>2
<1>6. ASSUME NEW i \in DOMAIN workspaces
      PROVE  /\ i \in DOMAIN workspaces'
             /\ UpTo(workspaces[i].reset, workspaces[i].revision, workspaces'[i])
             /\ d.kind # "post" => workspaces'[i] = workspaces[i]
  <2>1. i \in DOMAIN opened /\ opened[i] = workspaces[i] /\ workspaces[i] \in Space
    BY <1>1
  <2>2. CASE i = w
    BY <1>4, <1>5, <2>1, <2>2
  <2>3. CASE i # w
    <3>1. workspaces'[i] = workspaces[i]
      BY <1>5, <2>1, <2>3
    <3>. QED
      BY <1>5, <2>1, <3>1 DEF UpTo, Space
  <2>. QED
    BY <2>2, <2>3
<1> DEFINE version == VersionOf(w, workspaces'[w])
<1>7. version = [workspace |-> w, reset |-> space.reset, revision |-> space.revision]
  BY <1>5 DEF VersionOf
<1>8. version \in Version /\ version # Unserved
  BY <1>1, <1>3, <1>4, <1>7 DEF Version, Space, Unserved
<1>9. LatestIn(workspaces', version)
  BY <1>1, <1>5, <1>7 DEF LatestIn, VersionOf
<1>. QED
  BY <1>5, <1>6, <1>8, <1>9 DEF w

\* A request is served: a change makes a version that every later answer carries.
LEMMA ServeKeeps ==
    ASSUME WebInv, NEW c \in calls, NEW d \in Request, ServeAs(c, d),
           d.id = c.id, d.kind = c.kind, d.country = c.country, d.filter = c.filter,
           d.base = c.base
    PROVE  WebInv'
<1> DEFINE version == VersionOf(Place(c), workspaces'[Place(c)])
           e == [d EXCEPT !.answer = version]
           grown == workspaces'
<1>1. /\ c.answer = Unserved /\ workspaces' = [Opened(c) EXCEPT ![Place(c)] = Changing(d, @)]
      /\ calls' = (calls \ {c}) \cup {e}
      /\ cookie' = cookie /\ ui' = ui /\ asked' = asked /\ unheard' = unheard
      /\ unread' = unread /\ crossing' = crossing /\ crossed' = crossed
  BY DEF ServeAs
<1>2. /\ TypeInv /\ NothingAhead(ui, calls, workspaces)
      /\ AppInv(ui, calls, workspaces, unheard, crossing, crossed)
      /\ EventsInv(ui, calls, unread)
  BY DEF WebInv
<1>3. workspaces \in Seq(Space) /\ c \in Request /\ ui \in Ui /\ calls \subseteq Request
  BY <1>2 DEF TypeInv
<1>4. /\ grown \in Seq(Space) /\ version \in Version /\ version # Unserved
      /\ LatestIn(grown, version)
      /\ \A i \in DOMAIN workspaces :
            /\ i \in DOMAIN grown
            /\ UpTo(workspaces[i].reset, workspaces[i].revision, grown[i])
            /\ d.kind # "post" => grown[i] = workspaces[i]
  BY <1>1, <1>3, ServedIs
<1>. HIDE DEF version
<1>5. /\ e \in Request /\ e.id = c.id /\ e.kind = c.kind /\ e.country = c.country
      /\ e.filter = c.filter /\ e.base = c.base /\ e.answer = version
  BY <1>4 DEF Request
<1>6. calls' = (calls \ {c}) \cup {e} /\ workspaces' = grown
  BY <1>1
<1>. HIDE DEF e, grown
<1>7. Served(e) /\ ~ Served(c)
  BY <1>1, <1>4, <1>5 DEF Served
<1>8. TypeInv'
  BY <1>1, <1>2, <1>3, <1>4, <1>5, <1>6 DEF TypeInv
<1>9. NothingAhead(ui, calls', grown)
  <2>1. ASSUME NEW v \in Version, NotAhead(workspaces, v)
        PROVE  NotAhead(grown, v)
    <3>1. CASE v.workspace = 0
      BY <3>1 DEF NotAhead
    <3>2. CASE v.workspace # 0
      <4> DEFINE w == v.workspace
      <4>1. /\ w \in DOMAIN workspaces
            /\ UpTo(v.reset, v.revision, workspaces[w])
        BY <2>1, <3>2 DEF NotAhead
      <4>2. /\ w \in DOMAIN grown /\ workspaces[w] \in Space /\ grown[w] \in Space
            /\ UpTo(workspaces[w].reset, workspaces[w].revision, grown[w])
        BY <1>3, <1>4, <4>1
      <4>3. UpTo(v.reset, v.revision, grown[w])
        BY <4>1, <4>2, UpToIsTransitive DEF Version
      <4>. QED
        BY <4>2, <4>3 DEF NotAhead
    <3>. QED
      BY <3>1, <3>2
  <2>2. NotAhead(grown, version)
    <3>1. grown[version.workspace] \in Space
      BY <1>4 DEF LatestIn
    <3>. QED
      BY <1>4, <3>1 DEF LatestIn, NotAhead, UpTo, VersionOf, Version, Space
  <2>3. ui.view.version \in Version /\ ui.rows.version \in Version
    BY <1>3 DEF Ui
  <2>4. \A r \in calls : r.base \in Version /\ r.answer \in Version
    BY <1>3 DEF Request
  <2>. QED
    BY <1>2, <1>5, <1>6, <2>1, <2>2, <2>3, <2>4 DEF NothingAhead
<1>10. AppInv(ui, calls', grown, unheard, crossing, crossed)
  <2>1. \A u : /\ LoadOf(u, e) <=> LoadOf(u, c)
               /\ ShownBy(u, e) <=> ShownBy(u, c)
    BY <1>5 DEF LoadOf, ShownBy
  <2>2. Changes(e) <=> Changes(c)
    BY <1>5 DEF Changes
  <2>3. LatestIn(grown, e.answer)
    BY <1>4, <1>5
  <2>4. CASE c.kind # "post"
    <3>1. \A v : LatestIn(workspaces, v) => LatestIn(grown, v)
      BY <1>4, <2>4 DEF LatestIn
    <3>. QED
      BY <1>2, <1>5, <1>6, <1>7, <2>1, <2>2, <2>3, <2>4, <3>1 DEF AppInv
  <2>5. CASE c.kind = "post"
    <3>1. Changes(c) /\ ui.busy
      BY <1>2, <2>5 DEF Changes, AppInv
    <3>2. \A r \in calls \ {c} : ~ Changes(r)
      BY <1>2, <3>1 DEF AppInv
    <3>3. ~ crossing => \A r \in calls' : ~ ShownBy(ui, r)
      BY <1>2, <1>6, <2>1, <3>1 DEF AppInv
    <3>. QED
      BY <1>2, <1>5, <1>6, <1>7, <2>1, <2>2, <2>3, <2>5, <3>1, <3>2, <3>3 DEF AppInv
  <2>. QED
    BY <2>4, <2>5
<1>11. EventsInv(ui, calls', unread)
  <2>1. ListOf(ui, e) <=> ListOf(ui, c)
    BY <1>5 DEF ListOf
  <2>2. Follows(c.base, version)
    <3>1. SUFFICES ASSUME c.base.workspace = version.workspace
                   PROVE  UpTo(c.base.reset, c.base.revision, version)
      BY DEF Follows
    <3> DEFINE w == version.workspace
    <3>2. /\ w \in DOMAIN grown /\ version = VersionOf(w, grown[w]) /\ c.base \in Version
          /\ w # 0 \/ UpTo(c.base.reset, c.base.revision, version)
      <4>1. NotAhead(grown, c.base)
        BY <1>5, <1>6, <1>9 DEF NothingAhead
      <4>. QED
        BY <1>3, <1>4, <4>1 DEF LatestIn, Request
    <3>3. c.base.workspace # 0 => UpTo(c.base.reset, c.base.revision, grown[w])
      BY <1>5, <1>6, <1>9, <3>1 DEF NothingAhead, NotAhead
    <3>. QED
      BY <3>1, <3>2, <3>3 DEF UpTo, VersionOf
  <2>. QED
    BY <1>2, <1>5, <1>6, <1>7, <2>1, <2>2 DEF EventsInv
<1>. QED
  BY <1>1, <1>6, <1>8, <1>9, <1>10, <1>11 DEF WebInv

-----------------------------------------------------------------------------
(* Answers to App.                                                          *)

\* What refresh() puts on screen.
LEMMA ShowIs ==
    ASSUME NEW u \in Ui, NEW c \in Request
    PROVE  LET v == Show(c, u) IN
           /\ v \in Ui /\ v.page = u.page /\ v.country = u.country /\ v.busy = u.busy
           /\ v.load = u.load /\ ~ v.failure /\ SameEvents(v, u)
           /\ v.view.country = c.country /\ v.view.version = c.answer
<1> DEFINE view == View(c.country, c.answer)
           w == [u EXCEPT !.view = view]
           v == [w EXCEPT !.failure = FALSE]
<1>1. /\ view \in [country : Countries, version : Version]
      /\ view.country = c.country /\ view.version = c.answer
  BY DEF View, Request
<1>2. Show(c, u) = v
  BY DEF Show
<1>. HIDE DEF view
<1>3. /\ w \in Ui /\ w.page = u.page /\ w.country = u.country /\ w.busy = u.busy
      /\ w.load = u.load /\ w.view = view /\ SameEvents(w, u)
  BY <1>1 DEF Ui, SameEvents
<1>. HIDE DEF w
<1>4. /\ v \in Ui /\ v.page = w.page /\ v.country = w.country /\ v.busy = w.busy
      /\ v.load = w.load /\ v.view = w.view /\ ~ v.failure /\ SameEvents(v, w)
  BY <1>3 DEF Ui, SameEvents
<1>. HIDE DEF v
<1>. QED
  BY <1>1, <1>2, <1>3, <1>4 DEF SameEvents

\* What mutate() does at its end.
LEMMA DoneIs ==
    ASSUME NEW u \in Ui, NEW c
    PROVE  LET v == Done(c, u) IN
           /\ v \in Ui /\ v.country = u.country /\ v.view = u.view /\ v.failure = u.failure
           /\ ~ v.busy /\ v.load = u.load /\ SameEvents(v, u)
<1> DEFINE page == IF c.change = "simulate" THEN "other" ELSE u.page
           w == [u EXCEPT !.busy = FALSE]
           v == [w EXCEPT !.page = page]
<1>1. page \in {"events", "other"}
  BY DEF Ui
<1>2. Done(c, u) = v
  BY DEF Done
<1>. HIDE DEF page
<1>3. /\ w \in Ui /\ w.country = u.country /\ w.view = u.view /\ w.failure = u.failure
      /\ ~ w.busy /\ w.load = u.load /\ SameEvents(w, u)
  BY DEF Ui, SameEvents
<1>. HIDE DEF w
<1>4. /\ v \in Ui /\ v.country = w.country /\ v.view = w.view /\ v.failure = w.failure
      /\ v.busy = w.busy /\ v.load = w.load /\ SameEvents(v, w)
  BY <1>1, <1>3 DEF Ui, SameEvents
<1>. HIDE DEF v
<1>. QED
  BY <1>2, <1>3, <1>4 DEF SameEvents

\* The premises the answers have in common.
LEMMA WhileInFlight ==
    ASSUME WebInv, NEW c \in calls
    PROVE  /\ TypeInv /\ NothingAhead(ui, calls, workspaces)
           /\ AppInv(ui, calls, workspaces, unheard, crossing, crossed) /\ EventsInv(ui, calls, unread)
           /\ c \in Request /\ c.id \in Nat \ {0} /\ c.answer \in Version
      /\ c.answer.workspace \in Nat /\ ui \in Ui /\ workspaces \in Seq(Space)
      /\ cookie \in Nat
           /\ ui.load <= asked /\ ui.list <= asked
           /\ unheard \in BOOLEAN /\ unread \in BOOLEAN /\ crossing \in BOOLEAN /\ crossed \in BOOLEAN
           /\ calls \subseteq Request /\ cookie \in Nat
           /\ c.base \in Version /\ c.answer \in Version /\ c.answer.workspace \in Nat
  BY DEF WebInv, TypeInv, Request, Version

\* A load arrives: it is shown only if it is the last one asked for.
LEMMA LoadArrivesKeeps ==
    ASSUME WebInv, NEW c \in calls, LoadArrives(c)
    PROVE  WebInv'
<1>1. /\ TypeInv /\ NothingAhead(ui, calls, workspaces)
      /\ AppInv(ui, calls, workspaces, unheard, crossing, crossed) /\ EventsInv(ui, calls, unread)
      /\ c \in Request /\ c.answer \in Version /\ c.answer.workspace \in Nat
      /\ ui \in Ui /\ workspaces \in Seq(Space) /\ cookie \in Nat
      /\ ui.load <= asked /\ ui.list <= asked
      /\ unheard \in BOOLEAN /\ unread \in BOOLEAN /\ crossing \in BOOLEAN /\ crossed \in BOOLEAN
  BY WhileInFlight
<1>2. /\ c.kind = "load" /\ Served(c)
      /\ Render(IF CurrentLoad(c) THEN Show(c, ui) ELSE ui, {}, {c})
      /\ (~ unheard' => CurrentLoad(c) \/ ~ unheard)
      /\ unheard' \in BOOLEAN /\ crossed' \in BOOLEAN /\ crossing' = crossing
      /\ CurrentLoad(c) => crossed' = (crossed /\ crossing)
      /\ ~ CurrentLoad(c) => crossed' = crossed
      /\ workspaces' = workspaces /\ cookie' \in Nat /\ unread' = unread
  BY <1>1 DEF LoadArrives, Served, Hear, Heals
<1>3. /\ unheard' \in BOOLEAN /\ unread' \in BOOLEAN /\ crossing' \in BOOLEAN /\ crossed' \in BOOLEAN
      /\ crossing' <=> crossing
      /\ CurrentLoad(c) => (crossed' <=> crossed /\ crossing)
      /\ ~ CurrentLoad(c) => (crossed' <=> crossed)
      /\ ~ unread' => ~ unread
      /\ ~ unheard' => CurrentLoad(c) \/ ~ unheard
  BY <1>1, <1>2
<1>4. \A d : d.kind = "list" => (d \in calls \ {c} <=> d \in calls)
  BY <1>2
<1>5. CASE CurrentLoad(c)
  <2> DEFINE v == Show(c, ui)
  <2>1. LoadOf(ui, c) /\ Render(v, {}, {c})
    BY <1>2, <1>5 DEF CurrentLoad, LoadOf
  <2>2. /\ v \in Ui /\ v.page = ui.page /\ v.country = ui.country /\ v.busy = ui.busy
        /\ v.load = ui.load /\ ~ v.failure /\ SameEvents(v, ui)
        /\ v.view.country = c.country /\ v.view.version = c.answer
    BY <1>1, ShowIs
  <2>. HIDE DEF v
  <2>3. NothingAhead(v, calls \ {c}, workspaces)
    BY <1>1, <1>2, <2>2 DEF NothingAhead, SameEvents
  <2>4. AppInv(v, calls \ {c}, workspaces, unheard', crossing', crossed')
    BY <1>1, <1>2, <1>3, <1>5, <2>1, <2>2 DEF AppInv, LoadOf, ShownBy
  <2>5. ASSUME Mounted(v), Mounted(ui), Dependencies(ui) = Dependencies(v)
        PROVE  EventsInv(v, calls \ {c}, unread')
    BY <1>1, <1>3, <1>4, <2>2, <2>5, EventsStay
  <2>6. v.load <= asked /\ v.list <= asked
    BY <1>1, <2>2 DEF SameEvents
  <2>. QED
    BY <1>1, <1>2, <1>3, <2>1, <2>2, <2>3, <2>4, <2>5, <2>6, EndsKeep
<1>6. CASE ~ CurrentLoad(c)
  <2>1. ~ LoadOf(ui, c) /\ Render(ui, {}, {c})
    BY <1>2, <1>6 DEF CurrentLoad, LoadOf
  <2>2. NothingAhead(ui, calls \ {c}, workspaces)
    BY <1>1 DEF NothingAhead
  <2>3. AppInv(ui, calls \ {c}, workspaces, unheard', crossing', crossed')
    BY <1>1, <1>2, <1>3, <1>6, <2>1 DEF AppInv
  <2>4. ASSUME Mounted(ui)
        PROVE  EventsInv(ui, calls \ {c}, unread')
    BY <1>1, <1>3, <1>4, <2>4, EventsStay DEF SameEvents
  <2>. QED
    BY <1>1, <1>2, <1>3, <2>1, <2>2, <2>3, <2>4, EndsKeep
<1>. QED
  BY <1>5, <1>6

\* The answer to a retry is shown, whichever it is.
LEMMA RetryArrivesKeeps ==
    ASSUME WebInv, NEW c \in calls, RetryArrives(c)
    PROVE  WebInv'
<1>1. /\ TypeInv /\ NothingAhead(ui, calls, workspaces)
      /\ AppInv(ui, calls, workspaces, unheard, crossing, crossed) /\ EventsInv(ui, calls, unread)
      /\ c \in Request /\ c.answer \in Version /\ c.answer.workspace \in Nat
      /\ ui \in Ui /\ workspaces \in Seq(Space) /\ cookie \in Nat
      /\ ui.load <= asked /\ ui.list <= asked
      /\ unheard \in BOOLEAN /\ unread \in BOOLEAN /\ crossing \in BOOLEAN /\ crossed \in BOOLEAN
  BY WhileInFlight
<1> DEFINE v == Show(c, ui)
<1>2. /\ c.kind = "retry" /\ Served(c) /\ Render(v, {}, {c})
      /\ unheard' = FALSE /\ workspaces' = workspaces /\ cookie' \in Nat /\ unread' = unread
      /\ crossing' = crossing /\ crossed' = (crossed /\ crossing)
  BY <1>1 DEF RetryArrives, Served, Hear, Heals
<1>3. /\ unheard' \in BOOLEAN /\ unread' \in BOOLEAN /\ crossing' \in BOOLEAN /\ crossed' \in BOOLEAN
      /\ (crossing' <=> crossing) /\ (crossed' <=> crossed /\ crossing)
      /\ ~ unread' => ~ unread
  BY <1>1, <1>2
<1>4. \A d : d.kind = "list" => (d \in calls \ {c} <=> d \in calls)
  BY <1>2
<1>5. /\ v \in Ui /\ v.page = ui.page /\ v.country = ui.country /\ v.busy = ui.busy
      /\ v.load = ui.load /\ ~ v.failure /\ SameEvents(v, ui)
      /\ v.view.country = c.country /\ v.view.version = c.answer
  BY <1>1, ShowIs
<1>. HIDE DEF v
<1>6. NothingAhead(v, calls \ {c}, workspaces)
  BY <1>1, <1>2, <1>5 DEF NothingAhead, SameEvents
<1>7. AppInv(v, calls \ {c}, workspaces, unheard', crossing', crossed')
  BY <1>1, <1>2, <1>3, <1>5 DEF AppInv, LoadOf, ShownBy
<1>8. ASSUME Mounted(v), Mounted(ui), Dependencies(ui) = Dependencies(v)
      PROVE  EventsInv(v, calls \ {c}, unread')
  BY <1>1, <1>3, <1>4, <1>5, <1>8, EventsStay
<1>9. v.load <= asked /\ v.list <= asked
  BY <1>1, <1>5 DEF SameEvents
<1>. QED
  BY <1>1, <1>2, <1>3, <1>5, <1>6, <1>7, <1>8, <1>9, EndsKeep

\* The state read again after a change is shown, and the change is over.
LEMMA AgainArrivesKeeps ==
    ASSUME WebInv, NEW c \in calls, AgainArrives(c)
    PROVE  WebInv'
<1>1. /\ TypeInv /\ NothingAhead(ui, calls, workspaces)
      /\ AppInv(ui, calls, workspaces, unheard, crossing, crossed) /\ EventsInv(ui, calls, unread)
      /\ c \in Request /\ c.answer \in Version /\ c.answer.workspace \in Nat
      /\ ui \in Ui /\ workspaces \in Seq(Space) /\ cookie \in Nat
      /\ ui.load <= asked /\ ui.list <= asked
      /\ unheard \in BOOLEAN /\ unread \in BOOLEAN /\ crossing \in BOOLEAN /\ crossed \in BOOLEAN
  BY WhileInFlight
<1> DEFINE u == Show(c, ui)
           v == Done(c, u)
<1>2. /\ c.kind = "again" /\ Changes(c) /\ Served(c) /\ Render(v, {}, {c})
      /\ unheard' = FALSE /\ workspaces' = workspaces /\ cookie' \in Nat /\ unread' = unread
      /\ crossing' = crossing /\ crossed' = (crossed /\ crossing)
  BY <1>1 DEF AgainArrives, Served, Changes, Hear, Heals
<1>3. /\ unheard' \in BOOLEAN /\ unread' \in BOOLEAN /\ crossing' \in BOOLEAN /\ crossed' \in BOOLEAN
      /\ (crossing' <=> crossing) /\ (crossed' <=> crossed /\ crossing)
      /\ ~ unread' => ~ unread
  BY <1>1, <1>2
<1>4. \A d : d.kind = "list" => (d \in calls \ {c} <=> d \in calls)
  BY <1>2
<1>5. /\ u \in Ui /\ u.country = ui.country /\ u.load = ui.load /\ SameEvents(u, ui)
      /\ u.view.country = c.country /\ u.view.version = c.answer
  BY <1>1, ShowIs
<1>. HIDE DEF u
<1>6. /\ v \in Ui /\ v.country = u.country /\ v.view = u.view /\ ~ v.busy /\ v.load = u.load
      /\ SameEvents(v, u)
  BY <1>5, DoneIs
<1>. HIDE DEF v
<1>7. /\ v.country = ui.country /\ v.load = ui.load /\ SameEvents(v, ui)
      /\ v.view.country = c.country /\ v.view.version = c.answer
  BY <1>5, <1>6 DEF SameEvents
<1>8. NothingAhead(v, calls \ {c}, workspaces)
  BY <1>1, <1>2, <1>7 DEF NothingAhead, SameEvents
<1>9. AppInv(v, calls \ {c}, workspaces, unheard', crossing', crossed')
  <2>1. LatestIn(workspaces, c.answer) /\ \A d \in calls \ {c} : ~ Changes(d)
    BY <1>1, <1>2 DEF AppInv
  <2>. QED
    BY <1>1, <1>2, <1>3, <1>6, <1>7, <2>1 DEF AppInv, LoadOf, ShownBy
<1>10. ASSUME Mounted(v), Mounted(ui), Dependencies(ui) = Dependencies(v)
       PROVE  EventsInv(v, calls \ {c}, unread')
  BY <1>1, <1>3, <1>4, <1>6, <1>7, <1>10, EventsStay
<1>11. v.load <= asked /\ v.list <= asked
  BY <1>1, <1>7 DEF SameEvents
<1>. QED
  BY <1>1, <1>2, <1>3, <1>6, <1>8, <1>9, <1>10, <1>11, EndsKeep

\* The snapshot that comes back from a change is shown, or its country is read again.
LEMMA PostArrivesKeeps ==
    ASSUME WebInv, NEW c \in calls, PostArrives(c)
    PROVE  WebInv'
<1>1. /\ TypeInv /\ NothingAhead(ui, calls, workspaces)
      /\ AppInv(ui, calls, workspaces, unheard, crossing, crossed) /\ EventsInv(ui, calls, unread)
      /\ c \in Request /\ c.answer \in Version /\ c.answer.workspace \in Nat
      /\ ui \in Ui /\ workspaces \in Seq(Space) /\ cookie \in Nat
      /\ ui.load <= asked /\ ui.list <= asked
      /\ unheard \in BOOLEAN /\ unread \in BOOLEAN /\ crossing \in BOOLEAN /\ crossed \in BOOLEAN
  BY WhileInFlight
<1>2. /\ c.kind = "post" /\ Changes(c) /\ Served(c) /\ Changed(c)
      /\ workspaces' = workspaces /\ cookie' \in Nat /\ unread' = unread
  BY <1>1 DEF PostArrives, Served, Changes, Hear
<1>3. /\ unread' \in BOOLEAN
      /\ ~ unread' => ~ unread
  BY <1>1, <1>2
<1>4. LatestIn(workspaces, c.answer) /\ ui.busy /\ \A d \in calls \ {c} : ~ Changes(d)
  BY <1>1, <1>2 DEF AppInv
<1>5. CASE c.country = All
  <2> DEFINE view == View(All, c.answer)
             u == [ui EXCEPT !.view = view]
             v == Done(c, u)
  <2>1. /\ Render(v, {}, {c}) /\ unheard' = FALSE
        /\ crossing' = crossing /\ crossed' = (crossed /\ crossing)
    BY <1>2, <1>5 DEF Changed, Heals
  <2>2. /\ view \in [country : Countries, version : Version]
        /\ view.country = All /\ view.version = c.answer
    BY <1>1 DEF View, Countries
  <2>. HIDE DEF view
  <2>3. /\ u \in Ui /\ u.country = ui.country /\ u.load = ui.load /\ SameEvents(u, ui)
        /\ u.view = view
    BY <1>1, <2>2 DEF Ui, SameEvents
  <2>. HIDE DEF u
  <2>4. /\ v \in Ui /\ v.country = u.country /\ v.view = u.view /\ ~ v.busy /\ v.load = u.load
        /\ SameEvents(v, u)
    BY <2>3, DoneIs
  <2>. HIDE DEF v
  <2>5. /\ v.country = ui.country /\ v.load = ui.load /\ SameEvents(v, ui)
        /\ v.view.country = c.country /\ v.view.version = c.answer
    BY <1>5, <2>2, <2>3, <2>4 DEF SameEvents
  <2>11. /\ unheard' \in BOOLEAN /\ crossing' \in BOOLEAN /\ crossed' \in BOOLEAN
         /\ (crossing' <=> crossing) /\ (crossed' <=> crossed /\ crossing)
    BY <1>1, <2>1
  <2>6. NothingAhead(v, calls \ {c}, workspaces)
    BY <1>1, <1>2, <2>5 DEF NothingAhead, SameEvents
  <2>7. AppInv(v, calls \ {c}, workspaces, unheard', crossing', crossed')
    BY <1>1, <1>2, <1>3, <1>4, <2>4, <2>5, <2>11 DEF AppInv, LoadOf, ShownBy
  <2>8. \A d : d.kind = "list" => (d \in calls \ {c} <=> d \in calls)
    BY <1>2
  <2>9. ASSUME Mounted(v), Mounted(ui), Dependencies(ui) = Dependencies(v)
        PROVE  EventsInv(v, calls \ {c}, unread')
    BY <1>1, <1>3, <2>4, <2>5, <2>8, <2>9, EventsStay
  <2>10. v.load <= asked /\ v.list <= asked
    BY <1>1, <2>5 DEF SameEvents
  <2>. QED
    BY <1>1, <1>2, <1>3, <2>1, <2>4, <2>6, <2>7, <2>9, <2>10, <2>11, EndsKeep
<1>6. CASE c.country # All
  <2> DEFINE x == Mutation(asked + 1, "again", c.country, c.change, cookie')
  <2>1. /\ Render(ui, {x}, {c}) /\ unheard' = unheard
        /\ crossing' = crossing /\ crossed' = crossed
    BY <1>2, <1>6 DEF Changed
  <2>2. /\ asked \in Nat /\ asked + 1 \in Nat \ {0} /\ c.country \in Countries
        /\ c.change \in {"none", "simulate", "work", "reset", "refused"} /\ cookie' \in Nat
    BY <1>1, <1>2 DEF TypeInv, Request
  <2>3. /\ x \in Request /\ x.id = asked + 1 /\ x.kind = "again" /\ x.country = c.country
        /\ x.base = Unserved /\ x.answer = Unserved /\ ~ Served(x)
    BY <2>2, ChangeIs, UnservedIs DEF Kinds
  <2>. HIDE DEF x
  <2>4. /\ unheard' \in BOOLEAN /\ crossing' \in BOOLEAN /\ crossed' \in BOOLEAN
        /\ (~ unheard' => ~ unheard) /\ (crossing' <=> crossing) /\ (crossed' <=> crossed)
    BY <1>1, <2>1
  <2>5. NothingAhead(ui, (calls \ {c}) \cup {x}, workspaces)
    BY <1>1, <2>3, UnservedIs DEF NothingAhead
  <2>6. AppInv(ui, (calls \ {c}) \cup {x}, workspaces, unheard', crossing', crossed')
    <3>1. Changes(x) /\ ~ ShownBy(ui, x) /\ ~ LoadOf(ui, x) /\ x.kind # "retry"
      BY <2>3 DEF Changes, ShownBy, LoadOf
    <3>2. ~ ShownBy(ui, c) /\ ~ LoadOf(ui, c) /\ c.kind # "retry"
      BY <1>2 DEF ShownBy, LoadOf
    <3>. QED
      BY <1>1, <1>2, <1>3, <1>4, <2>3, <2>4, <3>1, <3>2 DEF AppInv
  <2>7. \A d : d.kind = "list" => (d \in (calls \ {c}) \cup {x} <=> d \in calls)
    BY <1>2, <2>3
  <2>8. ASSUME Mounted(ui)
        PROVE  EventsInv(ui, (calls \ {c}) \cup {x}, unread')
    BY <1>1, <1>3, <2>7, <2>8, EventsStay DEF SameEvents
  <2>9. ui.load <= asked + 1
    BY <1>1, <2>2 DEF Ui
  <2>. QED
    BY <1>1, <1>2, <1>3, <2>1, <2>3, <2>4, <2>5, <2>6, <2>8, <2>9, SendsKeep
<1>. QED
  BY <1>5, <1>6

-----------------------------------------------------------------------------
(* Answers to Events, and failures.                                         *)

\* Rows arrive: they are shown only if they are the last ones asked for.
LEMMA ListArrivesKeeps ==
    ASSUME WebInv, NEW c \in calls, ListArrives(c)
    PROVE  WebInv'
<1>1. /\ TypeInv /\ NothingAhead(ui, calls, workspaces)
      /\ AppInv(ui, calls, workspaces, unheard, crossing, crossed) /\ EventsInv(ui, calls, unread)
      /\ c \in Request /\ c.id \in Nat \ {0} /\ c.answer \in Version
      /\ c.answer.workspace \in Nat /\ ui \in Ui /\ workspaces \in Seq(Space)
      /\ cookie \in Nat
      /\ ui.load <= asked /\ ui.list <= asked
      /\ unheard \in BOOLEAN /\ unread \in BOOLEAN /\ crossing \in BOOLEAN /\ crossed \in BOOLEAN
  BY WhileInFlight
<1>2. /\ c.kind = "list" /\ Served(c)
      /\ Render(IF CurrentList(c)
                THEN [ui EXCEPT !.rows = Rows(c), !.loading = FALSE]
                ELSE ui, {}, {c})
      /\ unread' = (unread /\ ~ CurrentList(c))
      /\ workspaces' = workspaces /\ cookie' \in Nat /\ unheard' = unheard
      /\ crossing' = crossing /\ crossed' = crossed
  BY <1>1 DEF ListArrives, Served, Hear
<1>3. /\ unheard' \in BOOLEAN /\ unread' \in BOOLEAN /\ crossing' \in BOOLEAN /\ crossed' \in BOOLEAN
      /\ (crossing' <=> crossing) /\ (crossed' <=> crossed)
      /\ ~ unheard' => ~ unheard
      /\ ~ unread' => CurrentList(c) \/ ~ unread
  BY <1>1, <1>2
<1>4. CASE CurrentList(c)
  <2> DEFINE rows == Rows(c)
             u == [ui EXCEPT !.rows = rows]
             v == [u EXCEPT !.loading = FALSE]
  <2>1. ListOf(ui, c) /\ Render(v, {}, {c})
    BY <1>2, <1>4 DEF CurrentList, ListOf
  <2>2. /\ rows \in [country : Countries, filter : Filters, base : Version, version : Version]
        /\ rows.country = c.country /\ rows.filter = c.filter
        /\ rows.base = c.base /\ rows.version = c.answer
    BY <1>1 DEF Rows, Request
  <2>. HIDE DEF rows
  <2>3. /\ u \in Ui /\ SameApp(u, ui) /\ u.rows = rows /\ u.filter = ui.filter
        /\ u.list = ui.list
    BY <1>1, <2>2 DEF Ui, SameApp
  <2>. HIDE DEF u
  <2>4. /\ v \in Ui /\ SameApp(v, u) /\ v.rows = u.rows /\ v.filter = u.filter
        /\ v.list = u.list /\ ~ v.loading
    BY <2>3 DEF Ui, SameApp
  <2>. HIDE DEF v
  <2>5. SameApp(v, ui) /\ v.rows = rows /\ v.filter = ui.filter /\ v.list = ui.list
    BY <2>3, <2>4 DEF SameApp
  <2>6. NothingAhead(v, calls \ {c}, workspaces)
    BY <1>1, <2>2, <2>5 DEF NothingAhead, SameApp
  <2>7. AppInv(v, calls \ {c}, workspaces, unheard', crossing', crossed')
    <3>1. AppInv(ui, calls \ {c}, workspaces, unheard', crossing', crossed')
      BY <1>1, <1>2, <1>3 DEF AppInv, LoadOf, Changes
    <3>. QED
      BY <2>5, <3>1, AppIgnoresEvents
  <2>8. EventsInv(v, calls \ {c}, unread')
    <3>1. \A d : ListOf(v, d) <=> ListOf(ui, d)
      BY <2>5 DEF ListOf
    <3>2. v.view = ui.view
      BY <2>5 DEF SameApp
    <3>3. Follows(v.rows.base, v.rows.version) /\ v.rows.base.revision = v.view.version.revision
      BY <1>1, <1>2, <2>1, <2>2, <2>5, <3>2 DEF EventsInv
    <3>4. v.rows.country = v.country /\ v.rows.filter = v.filter
      BY <1>1, <2>1, <2>2, <2>5 DEF EventsInv, SameApp
    <3>5. ~ Mounted(v) => v.list = 0
      BY <1>1, <2>5 DEF EventsInv, SameApp, Mounted, Shown
    <3>6. \A d \in calls : ListOf(v, d) => d.country = v.country /\ d.filter = v.filter
                                           /\ d.base.revision = v.view.version.revision
                                           /\ (Served(d) => Follows(d.base, d.answer))
      BY <1>1, <2>5, <3>1, <3>2 DEF EventsInv, SameApp
    <3>. QED
      BY <2>4, <3>3, <3>4, <3>5, <3>6 DEF EventsInv
  <2>9. v.load <= asked /\ v.list <= asked
    BY <1>1, <2>5 DEF SameApp
  <2>. QED
    BY <1>1, <1>2, <1>3, <2>1, <2>4, <2>6, <2>7, <2>8, <2>9, EndsKeep
<1>5. CASE ~ CurrentList(c)
  <2>1. ~ ListOf(ui, c) /\ Render(ui, {}, {c})
    BY <1>2, <1>5 DEF CurrentList, ListOf
  <2>2. NothingAhead(ui, calls \ {c}, workspaces)
    BY <1>1 DEF NothingAhead
  <2>3. AppInv(ui, calls \ {c}, workspaces, unheard', crossing', crossed')
    BY <1>1, <1>2, <1>3 DEF AppInv, LoadOf, Changes
  <2>4. EventsInv(ui, calls \ {c}, unread')
    BY <1>1, <1>3, <1>5, <2>1 DEF EventsInv
  <2>. QED
    BY <1>1, <1>2, <1>3, <2>1, <2>2, <2>3, <2>4, EndsKeep
<1>. QED
  BY <1>4, <1>5

\* The rows could not be read.
LEMMA ListFailsKeeps ==
    ASSUME WebInv, NEW c \in calls, ListFails(c)
    PROVE  WebInv'
<1>1. /\ TypeInv /\ NothingAhead(ui, calls, workspaces)
      /\ AppInv(ui, calls, workspaces, unheard, crossing, crossed) /\ EventsInv(ui, calls, unread)
      /\ c \in Request /\ c.id \in Nat \ {0} /\ c.answer \in Version
      /\ c.answer.workspace \in Nat /\ ui \in Ui /\ workspaces \in Seq(Space)
      /\ cookie \in Nat
      /\ ui.load <= asked /\ ui.list <= asked
      /\ unheard \in BOOLEAN /\ unread \in BOOLEAN /\ crossing \in BOOLEAN /\ crossed \in BOOLEAN
  BY WhileInFlight
<1>2. /\ c.kind = "list"
      /\ Render(IF CurrentList(c) THEN [ui EXCEPT !.loading = FALSE] ELSE ui, {}, {c})
      /\ unread' = (unread \/ CurrentList(c))
      /\ workspaces' = workspaces /\ cookie' \in Nat /\ unheard' = unheard
      /\ crossing' = crossing /\ crossed' = crossed
  BY <1>1 DEF ListFails, Miss
<1>3. /\ unheard' \in BOOLEAN /\ unread' \in BOOLEAN /\ crossing' \in BOOLEAN /\ crossed' \in BOOLEAN
      /\ (crossing' <=> crossing) /\ (crossed' <=> crossed)
      /\ ~ unheard' => ~ unheard
      /\ ~ unread' => ~ CurrentList(c) /\ ~ unread
  BY <1>1, <1>2 DEF CurrentList
<1>4. NothingAhead(ui, calls \ {c}, workspaces)
  BY <1>1 DEF NothingAhead
<1>5. AppInv(ui, calls \ {c}, workspaces, unheard', crossing', crossed')
  BY <1>1, <1>2, <1>3 DEF AppInv, LoadOf, Changes
<1>6. CASE CurrentList(c)
  <2> DEFINE v == [ui EXCEPT !.loading = FALSE]
  <2>1. ListOf(ui, c) /\ Render(v, {}, {c}) /\ ~ (~ unread')
    BY <1>2, <1>3, <1>6 DEF CurrentList, ListOf
  <2>2. /\ v \in Ui /\ SameApp(v, ui) /\ ~ v.loading /\ v.filter = ui.filter
        /\ v.list = ui.list /\ v.rows = ui.rows
    BY <1>1 DEF Ui, SameApp
  <2>. HIDE DEF v
  <2>3. NothingAhead(v, calls \ {c}, workspaces)
    BY <1>4, <2>2 DEF NothingAhead, SameApp
  <2>4. AppInv(v, calls \ {c}, workspaces, unheard', crossing', crossed')
    BY <1>5, <2>2, AppIgnoresEvents
  <2>5. EventsInv(v, calls \ {c}, unread')
    <3>1. \A d : ListOf(v, d) <=> ListOf(ui, d)
      BY <2>2 DEF ListOf
    <3>2. v.view = ui.view
      BY <2>2 DEF SameApp
    <3>3. ~ Mounted(v) => v.list = 0
      BY <1>1, <2>2 DEF EventsInv, SameApp, Mounted, Shown
    <3>4. \A d \in calls : ListOf(v, d) => d.country = v.country /\ d.filter = v.filter
                                           /\ d.base.revision = v.view.version.revision
                                           /\ (Served(d) => Follows(d.base, d.answer))
      BY <1>1, <2>2, <3>1, <3>2 DEF EventsInv, SameApp
    <3>. QED
      BY <2>1, <2>2, <3>3, <3>4 DEF EventsInv
  <2>6. v.load <= asked /\ v.list <= asked
    BY <1>1, <2>2 DEF SameApp
  <2>. QED
    BY <1>1, <1>2, <1>3, <2>1, <2>2, <2>3, <2>4, <2>5, <2>6, EndsKeep
<1>7. CASE ~ CurrentList(c)
  <2>1. ~ ListOf(ui, c) /\ Render(ui, {}, {c})
    BY <1>2, <1>7 DEF CurrentList, ListOf
  <2>2. EventsInv(ui, calls \ {c}, unread')
    BY <1>1, <1>3, <1>7, <2>1 DEF EventsInv
  <2>. QED
    BY <1>1, <1>2, <1>3, <1>4, <1>5, <2>1, <2>2, EndsKeep
<1>. QED
  BY <1>6, <1>7

\* A load or a retry failed: the page says so, if the load still counts.
LEMMA LoadFailsKeeps ==
    ASSUME WebInv, NEW c \in calls, LoadFails(c)
    PROVE  WebInv'
<1>1. /\ TypeInv /\ NothingAhead(ui, calls, workspaces)
      /\ AppInv(ui, calls, workspaces, unheard, crossing, crossed) /\ EventsInv(ui, calls, unread)
      /\ c \in Request /\ c.id \in Nat \ {0} /\ c.answer \in Version
      /\ c.answer.workspace \in Nat /\ ui \in Ui /\ workspaces \in Seq(Space)
      /\ cookie \in Nat
      /\ ui.load <= asked /\ ui.list <= asked
      /\ unheard \in BOOLEAN /\ unread \in BOOLEAN /\ crossing \in BOOLEAN /\ crossed \in BOOLEAN
  BY WhileInFlight
<1> DEFINE failed == ui.failure \/ c.kind = "retry" \/ CurrentLoad(c)
           v == [ui EXCEPT !.failure = failed]
<1>2. /\ c.kind = "retry" \/ c.kind = "load"
      /\ Render(v, {}, {c})
      /\ workspaces' = workspaces /\ cookie' \in Nat /\ unheard' = unheard /\ unread' = unread
      /\ crossing' = crossing /\ crossed' = crossed
  BY <1>1 DEF LoadFails, Miss
<1>3. /\ unheard' \in BOOLEAN /\ unread' \in BOOLEAN /\ crossing' \in BOOLEAN /\ crossed' \in BOOLEAN
      /\ (crossing' <=> crossing) /\ (crossed' <=> crossed)
      /\ ~ unheard' => ~ unheard
      /\ ~ unread' => ~ unread
  BY <1>1, <1>2
<1>4. /\ failed \in BOOLEAN
      /\ failed <=> (ui.failure \/ c.kind = "retry" \/ CurrentLoad(c))
  BY <1>1 DEF Ui
<1>. HIDE DEF failed
<1>5. /\ v \in Ui /\ v.page = ui.page /\ v.country = ui.country /\ v.view = ui.view
      /\ v.busy = ui.busy /\ v.load = ui.load /\ SameEvents(v, ui)
      /\ v.failure = failed
  BY <1>1, <1>4 DEF Ui, SameEvents
<1>. HIDE DEF v
<1>6. Shown(v) => Shown(ui) /\ ~ ShownBy(ui, c)
  BY <1>2, <1>4, <1>5 DEF Shown, ShownBy, LoadOf, CurrentLoad
<1>7. NothingAhead(v, calls \ {c}, workspaces)
  BY <1>1, <1>5 DEF NothingAhead, SameEvents
<1>8. AppInv(v, calls \ {c}, workspaces, unheard', crossing', crossed')
  <2>1. \A d : /\ LoadOf(v, d) <=> LoadOf(ui, d)
               /\ ShownBy(v, d) <=> ShownBy(ui, d)
    BY <1>5 DEF LoadOf, ShownBy
  <2>2. \A d : LoadOf(ui, d) => ShownBy(ui, d)
    BY DEF ShownBy
  <2>3. c.kind # "again" /\ c.kind # "post"
    BY <1>2
  <2>. QED
    BY <1>1, <1>3, <1>5, <1>6, <2>1, <2>2, <2>3 DEF AppInv
<1>9. \A d : d.kind = "list" => (d \in calls \ {c} <=> d \in calls)
  BY <1>2
<1>10. ASSUME Mounted(v), Mounted(ui), Dependencies(ui) = Dependencies(v)
       PROVE  EventsInv(v, calls \ {c}, unread')
  BY <1>1, <1>3, <1>5, <1>9, <1>10, EventsStay
<1>11. v.load <= asked /\ v.list <= asked
  BY <1>1, <1>5 DEF SameEvents
<1>. QED
  BY <1>1, <1>2, <1>3, <1>5, <1>7, <1>8, <1>10, <1>11, EndsKeep

\* A change failed, or the reading after it, and the user is told.
LEMMA MutateFailsKeeps ==
    ASSUME WebInv, NEW c \in calls, MutateFails(c)
    PROVE  WebInv'
<1>1. /\ TypeInv /\ NothingAhead(ui, calls, workspaces)
      /\ AppInv(ui, calls, workspaces, unheard, crossing, crossed) /\ EventsInv(ui, calls, unread)
      /\ c \in Request /\ c.id \in Nat \ {0} /\ c.answer \in Version
      /\ c.answer.workspace \in Nat /\ ui \in Ui /\ workspaces \in Seq(Space)
      /\ cookie \in Nat
      /\ ui.load <= asked /\ ui.list <= asked
      /\ unheard \in BOOLEAN /\ unread \in BOOLEAN /\ crossing \in BOOLEAN /\ crossed \in BOOLEAN
  BY WhileInFlight
<1> DEFINE v == [ui EXCEPT !.busy = FALSE]
<1>2. /\ Changes(c) /\ Render(v, {}, {c})
      /\ workspaces' = workspaces /\ cookie' \in Nat /\ unheard' = TRUE /\ unread' = unread
      /\ crossing' = crossing /\ crossed' = crossed
  BY <1>1 DEF MutateFails, Changes, GivenUp, Miss
<1>3. /\ unheard' \in BOOLEAN /\ unread' \in BOOLEAN /\ crossing' \in BOOLEAN /\ crossed' \in BOOLEAN
      /\ (crossing' <=> crossing) /\ (crossed' <=> crossed)
      /\ ~ unread' => ~ unread
  BY <1>1, <1>2
<1>4. /\ v \in Ui /\ v.page = ui.page /\ v.country = ui.country /\ v.view = ui.view
      /\ ~ v.busy /\ v.load = ui.load /\ SameEvents(v, ui) /\ v.failure = ui.failure
  BY <1>1 DEF Ui, SameEvents
<1>. HIDE DEF v
<1>5. NothingAhead(v, calls \ {c}, workspaces)
  BY <1>1, <1>4 DEF NothingAhead, SameEvents
<1>6. AppInv(v, calls \ {c}, workspaces, unheard', crossing', crossed')
  <2>1. \A d : /\ LoadOf(v, d) <=> LoadOf(ui, d)
               /\ ShownBy(v, d) <=> ShownBy(ui, d)
    BY <1>4 DEF LoadOf, ShownBy
  <2>2. Shown(v) <=> Shown(ui)
    BY <1>4 DEF Shown
  <2>3. \A d \in calls \ {c} : ~ Changes(d)
    BY <1>1, <1>2 DEF AppInv
  <2>4. ~ LoadOf(ui, c)
    BY <1>2 DEF LoadOf, Changes
  <2>. QED
    BY <1>1, <1>2, <1>3, <1>4, <2>1, <2>2, <2>3, <2>4 DEF AppInv
<1>7. \A d : d.kind = "list" => (d \in calls \ {c} <=> d \in calls)
  BY <1>2 DEF Changes
<1>8. ASSUME Mounted(v), Mounted(ui), Dependencies(ui) = Dependencies(v)
      PROVE  EventsInv(v, calls \ {c}, unread')
  BY <1>1, <1>3, <1>4, <1>7, <1>8, EventsStay
<1>9. v.load <= asked /\ v.list <= asked
  BY <1>1, <1>4 DEF SameEvents
<1>. QED
  BY <1>1, <1>2, <1>3, <1>4, <1>5, <1>6, <1>8, <1>9, EndsKeep

-----------------------------------------------------------------------------
(* The user.                                                                *)

\* What the steps of the user need of the invariant.
LEMMA ReadyForTheUser ==
    ASSUME WebInv
    PROVE  /\ TypeInv /\ NothingAhead(ui, calls, workspaces)
           /\ AppInv(ui, calls, workspaces, unheard, crossing, crossed) /\ EventsInv(ui, calls, unread)
           /\ ui \in Ui /\ workspaces \in Seq(Space) /\ cookie \in Nat
           /\ asked \in Nat /\ asked + 1 \in Nat \ {0}
           /\ ui.load <= asked /\ ui.list <= asked
           /\ ui.load <= asked + 1 /\ ui.country \in Countries
           /\ unheard \in BOOLEAN /\ unread \in BOOLEAN /\ crossing \in BOOLEAN /\ crossed \in BOOLEAN
  BY DEF WebInv, TypeInv, Ui

\* The same country on another page, or another country, which is loaded: an older
\* load no longer counts, and with nothing under way every answer is of one version.
LEMMA GoKeeps ==
    ASSUME WebInv, NEW page \in {"events", "other"}, NEW country \in Countries,
           Go(page, country)
    PROVE  WebInv'
<1>1. /\ TypeInv /\ NothingAhead(ui, calls, workspaces)
      /\ AppInv(ui, calls, workspaces, unheard, crossing, crossed) /\ EventsInv(ui, calls, unread)
      /\ ui \in Ui /\ workspaces \in Seq(Space) /\ cookie \in Nat /\ asked \in Nat /\ asked + 1 \in Nat \ {0}
      /\ ui.load <= asked /\ ui.list <= asked
      /\ ui.load <= asked + 1 /\ ui.country \in Countries
      /\ unheard \in BOOLEAN /\ unread \in BOOLEAN /\ crossing \in BOOLEAN /\ crossed \in BOOLEAN
  BY ReadyForTheUser
<1>2. /\ IF country = ui.country THEN Render([ui EXCEPT !.page = page], {}, {})
         ELSE Render([ui EXCEPT !.page = page, !.country = country, !.load = asked + 1],
                     {Call(asked + 1, "load", country, cookie)}, {})
      /\ country # ui.country => crossing' = Waiting /\ crossed' = (crossed \/ Waiting)
      /\ country = ui.country => crossing' = crossing /\ crossed' = crossed
      /\ workspaces' = workspaces /\ cookie' \in Nat /\ unheard' = unheard /\ unread' = unread
  BY <1>1 DEF Go, session, Crosses
<1>3. /\ unheard' \in BOOLEAN /\ unread' \in BOOLEAN /\ crossing' \in BOOLEAN /\ crossed' \in BOOLEAN
      /\ country # ui.country =>
            /\ ~ crossing' => ~ Waiting
            /\ ~ crossed' => ~ crossed
            /\ crossing' => crossed'
      /\ country = ui.country => (crossing' <=> crossing) /\ (crossed' <=> crossed)
      /\ ~ unheard' => ~ unheard
      /\ ~ unread' => ~ unread
  <2>1. Waiting \in BOOLEAN
    BY <1>1 DEF Waiting, Ui
  <2>2. crossing' \in BOOLEAN /\ crossed' \in BOOLEAN
    BY <1>1, <1>2, <2>1
  <2>. QED
    BY <1>1, <1>2, <2>1, <2>2
<1> DEFINE u == [ui EXCEPT !.page = page]
<1>4. /\ u \in Ui /\ u.country = ui.country /\ u.view = ui.view /\ u.failure = ui.failure
      /\ u.busy = ui.busy /\ u.load = ui.load /\ SameEvents(u, ui)
  BY <1>1 DEF Ui, SameEvents
<1>5. CASE country = ui.country
  <2>1. Render(u, {}, {})
    BY <1>2, <1>5
  <2>. HIDE DEF u
  <2>2. NothingAhead(u, calls, workspaces)
    BY <1>1, <1>4 DEF NothingAhead, SameEvents
  <2>3. AppInv(u, calls, workspaces, unheard', crossing', crossed')
    BY <1>1, <1>3, <1>4, <1>5 DEF AppInv, LoadOf, ShownBy, Shown
  <2>4. ASSUME Mounted(u), Mounted(ui), Dependencies(ui) = Dependencies(u)
        PROVE  EventsInv(u, calls, unread')
    BY <1>1, <1>3, <1>4, <2>4, EventsStay
  <2>5. u.load <= asked /\ u.list <= asked
    BY <1>1, <1>4 DEF SameEvents
  <2>. QED
    BY <1>1, <1>2, <1>3, <1>4, <2>1, <2>2, <2>3, <2>4, <2>5, RenderedKeeps
<1>6. CASE country # ui.country
  <2> DEFINE n == asked + 1
             w == [u EXCEPT !.country = country]
             v == [w EXCEPT !.load = n]
             x == Call(n, "load", country, cookie)
  <2>1. Render(v, {x}, {})
    BY <1>2, <1>6
  <2>2. /\ x \in Request /\ x.id = n /\ x.kind = "load" /\ x.country = country
        /\ x.base = Unserved /\ x.answer = Unserved /\ ~ Served(x)
    BY <1>1, RequestIs, UnservedIs DEF Kinds
  <2>3. n \in Nat /\ \A c \in calls : c.id # n
    <3>1. \A c \in calls : c.id \in Nat /\ c.id <= asked
      BY <1>1 DEF TypeInv, Request
    <3>. QED
      BY <1>1, <3>1
  <2>. HIDE DEF u, n, x
  <2>4. /\ w \in Ui /\ w.country = country /\ w.view = u.view /\ w.failure = u.failure
        /\ w.busy = u.busy /\ SameEvents(w, u)
    BY <1>4 DEF Ui, SameEvents
  <2>. HIDE DEF w
  <2>5. /\ v \in Ui /\ v.country = w.country /\ v.view = w.view /\ v.failure = w.failure
        /\ v.busy = w.busy /\ v.load = n /\ SameEvents(v, w)
    BY <2>3, <2>4 DEF Ui, SameEvents
  <2>. HIDE DEF v
  <2>6. /\ v.country = country /\ v.view = ui.view /\ v.failure = ui.failure
        /\ v.busy = ui.busy /\ v.load = n /\ v.list = ui.list /\ v.rows = ui.rows
    BY <1>4, <2>4, <2>5 DEF SameEvents
  <2>7. NothingAhead(v, (calls \ {}) \cup {x}, workspaces)
    BY <1>1, <2>2, <2>6, UnservedIs DEF NothingAhead
  <2>8. AppInv(v, (calls \ {}) \cup {x}, workspaces, unheard', crossing', crossed')
    <3>1. LoadOf(v, x) /\ ~ Changes(x) /\ \A c \in calls : ~ LoadOf(v, c)
      BY <2>2, <2>3, <2>6 DEF LoadOf, Changes
    <3>2. Shown(v) <=> Shown(ui)
      BY <2>6 DEF Shown
    <3>3. ~ crossing' => /\ ~ ui.busy
                         /\ \A c \in calls : c.kind # "retry" /\ ~ Changes(c)
      BY <1>1, <1>3, <1>6 DEF Waiting, AppInv
    <3>4. (~ crossed' => ~ crossed) /\ (crossing' => crossed')
      BY <1>3, <1>6
    <3>. QED
      BY <1>1, <1>3, <2>2, <2>6, <3>1, <3>2, <3>3, <3>4 DEF AppInv, ShownBy
  <2>9. Dependencies(ui) # Dependencies(v)
    BY <1>6, <2>6 DEF Dependencies
  <2>10. x.id = asked + 1 /\ v.load <= asked + 1 /\ v.list <= asked
    BY <1>1, <2>2, <2>6 DEF n
  <2>. QED
    BY <1>1, <1>2, <1>3, <2>1, <2>2, <2>5, <2>7, <2>8, <2>9, <2>10, SendsKeep
<1>. QED
  BY <1>5, <1>6

\* A filter is chosen: the listing is read again.
LEMMA ChooseFilterKeeps ==
    ASSUME WebInv, NEW filter \in Filters, ChooseFilter(filter)
    PROVE  WebInv'
<1>1. /\ TypeInv /\ NothingAhead(ui, calls, workspaces)
      /\ AppInv(ui, calls, workspaces, unheard, crossing, crossed) /\ EventsInv(ui, calls, unread)
      /\ ui \in Ui /\ workspaces \in Seq(Space) /\ cookie \in Nat /\ asked \in Nat /\ asked + 1 \in Nat \ {0}
      /\ ui.load <= asked /\ ui.list <= asked
      /\ ui.load <= asked + 1 /\ ui.country \in Countries
      /\ unheard \in BOOLEAN /\ unread \in BOOLEAN /\ crossing \in BOOLEAN /\ crossed \in BOOLEAN
  BY ReadyForTheUser
<1> DEFINE v == [ui EXCEPT !.filter = filter]
<1>2. /\ filter # ui.filter /\ Render(v, {}, {})
      /\ workspaces' = workspaces /\ cookie' \in Nat /\ unheard' = unheard /\ unread' = unread
      /\ crossing' = crossing /\ crossed' = crossed
  BY <1>1 DEF ChooseFilter, session
<1>3. /\ unheard' \in BOOLEAN /\ unread' \in BOOLEAN /\ crossing' \in BOOLEAN /\ crossed' \in BOOLEAN
      /\ (crossing' <=> crossing) /\ (crossed' <=> crossed)
      /\ ~ unheard' => ~ unheard
  BY <1>1, <1>2
<1>4. /\ v \in Ui /\ SameApp(v, ui) /\ v.filter = filter /\ v.list = ui.list
      /\ v.rows = ui.rows
  BY <1>1 DEF Ui, SameApp
<1>. HIDE DEF v
<1>5. NothingAhead(v, calls, workspaces)
  BY <1>1, <1>4 DEF NothingAhead, SameApp
<1>6. AppInv(v, calls, workspaces, unheard', crossing', crossed')
  <2>1. AppInv(ui, calls, workspaces, unheard', crossing', crossed')
    BY <1>1, <1>3 DEF AppInv
  <2>. QED
    BY <1>4, <2>1, AppIgnoresEvents
<1>7. Dependencies(ui) # Dependencies(v)
  BY <1>2, <1>4 DEF Dependencies
<1>8. v.load <= asked /\ v.list <= asked
  BY <1>1, <1>4 DEF SameApp
<1>. QED
  BY <1>1, <1>2, <1>3, <1>4, <1>5, <1>6, <1>7, <1>8, RenderedKeeps

\* The user asks for the workspace again.
LEMMA RetryKeeps ==
    ASSUME WebInv, Retry
    PROVE  WebInv'
<1>1. /\ TypeInv /\ NothingAhead(ui, calls, workspaces)
      /\ AppInv(ui, calls, workspaces, unheard, crossing, crossed) /\ EventsInv(ui, calls, unread)
      /\ ui \in Ui /\ workspaces \in Seq(Space) /\ cookie \in Nat /\ asked \in Nat /\ asked + 1 \in Nat \ {0}
      /\ ui.load <= asked /\ ui.list <= asked
      /\ ui.load <= asked + 1 /\ ui.country \in Countries
      /\ unheard \in BOOLEAN /\ unread \in BOOLEAN /\ crossing \in BOOLEAN /\ crossed \in BOOLEAN
  BY ReadyForTheUser
<1> DEFINE x == Call(asked + 1, "retry", ui.country, cookie)
<1>2. /\ ui.failure /\ Render(ui, {x}, {})
      /\ crossing' = (Waiting \/ (Loading /\ crossing))
      /\ crossed' = (crossed \/ Waiting \/ (Loading /\ crossing))
      /\ workspaces' = workspaces /\ cookie' \in Nat /\ unheard' = unheard /\ unread' = unread
  BY <1>1 DEF Retry, session, Crosses
<1>3. /\ unheard' \in BOOLEAN /\ unread' \in BOOLEAN /\ crossing' \in BOOLEAN /\ crossed' \in BOOLEAN
      /\ ~ crossing' => ~ Waiting /\ (Loading => ~ crossing)
      /\ crossing' => crossed'
      /\ ~ unread' => ~ unread
  BY <1>1, <1>2
<1>4. /\ x \in Request /\ x.id = asked + 1 /\ x.kind = "retry" /\ x.country = ui.country
      /\ x.base = Unserved /\ x.answer = Unserved /\ ~ Served(x)
  BY <1>1, RequestIs, UnservedIs DEF Kinds
<1>. HIDE DEF x
<1>5. NothingAhead(ui, (calls \ {}) \cup {x}, workspaces)
  BY <1>1, <1>4, UnservedIs DEF NothingAhead
<1>6. AppInv(ui, (calls \ {}) \cup {x}, workspaces, unheard', crossing', crossed')
  <2>1. ~ Changes(x) /\ ~ LoadOf(ui, x) /\ ~ Shown(ui)
    BY <1>2, <1>4 DEF Changes, LoadOf, Shown
  <2>2. ~ crossing' => ~ ui.busy /\ \A c \in calls : c.kind # "retry" /\ ~ Changes(c)
    BY <1>1, <1>3 DEF Waiting, AppInv
  <2>3. ~ crossing' => \A c \in calls : LoadOf(ui, c) /\ Served(c) => LatestIn(workspaces, c.answer)
    BY <1>1, <1>3 DEF Loading, LoadOf, ShownBy, AppInv
  <2>. QED
    BY <1>1, <1>3, <1>4, <2>1, <2>2, <2>3 DEF AppInv, ShownBy
<1>7. \A d : d.kind = "list" => (d \in (calls \ {}) \cup {x} <=> d \in calls)
  BY <1>4
<1>8. ASSUME Mounted(ui)
      PROVE  EventsInv(ui, (calls \ {}) \cup {x}, unread')
  BY <1>1, <1>3, <1>7, <1>8, EventsStay DEF SameEvents
<1>. QED
  BY <1>1, <1>2, <1>3, <1>4, <1>5, <1>6, <1>8, SendsKeep

\* A change is asked for, which the page allows one at a time.
LEMMA MutateKeeps ==
    ASSUME WebInv, NEW change \in {"simulate", "work", "reset"}, Mutate(change)
    PROVE  WebInv'
<1>1. /\ TypeInv /\ NothingAhead(ui, calls, workspaces)
      /\ AppInv(ui, calls, workspaces, unheard, crossing, crossed) /\ EventsInv(ui, calls, unread)
      /\ ui \in Ui /\ workspaces \in Seq(Space) /\ cookie \in Nat /\ asked \in Nat /\ asked + 1 \in Nat \ {0}
      /\ ui.load <= asked /\ ui.list <= asked
      /\ ui.load <= asked + 1 /\ ui.country \in Countries
      /\ unheard \in BOOLEAN /\ unread \in BOOLEAN /\ crossing \in BOOLEAN /\ crossed \in BOOLEAN
  BY ReadyForTheUser
<1> DEFINE x == Mutation(asked + 1, "post", ui.country, change, cookie)
           v == [ui EXCEPT !.busy = TRUE]
<1>2. /\ ~ ui.busy /\ Render(v, {x}, {})
      /\ crossing' = (Waiting \/ Loading) /\ crossed' = (crossed \/ Waiting \/ Loading)
      /\ workspaces' = workspaces /\ cookie' \in Nat /\ unheard' = unheard /\ unread' = unread
  BY <1>1 DEF Mutate, session, Crosses
<1>3. /\ unheard' \in BOOLEAN /\ unread' \in BOOLEAN
      /\ ~ unheard' => ~ unheard
      /\ ~ unread' => ~ unread
  BY <1>1, <1>2
<1>4. /\ crossing' \in BOOLEAN /\ crossed' \in BOOLEAN
      /\ ~ crossing' => \A c \in calls : ~ ShownBy(ui, c)
      /\ (~ crossed' => ~ crossed) /\ (crossing' => crossed')
  BY <1>1, <1>2 DEF Waiting, Loading, ShownBy, LoadOf
<1>5. /\ x \in Request /\ x.id = asked + 1 /\ x.kind = "post" /\ x.country = ui.country
      /\ x.base = Unserved /\ x.answer = Unserved /\ ~ Served(x)
  BY <1>1, ChangeIs, UnservedIs DEF Kinds
<1>6. /\ v \in Ui /\ v.page = ui.page /\ v.country = ui.country /\ v.view = ui.view
      /\ v.busy /\ v.load = ui.load /\ SameEvents(v, ui) /\ v.failure = ui.failure
  BY <1>1 DEF Ui, SameEvents
<1>. HIDE DEF v, x
<1>7. NothingAhead(v, (calls \ {}) \cup {x}, workspaces)
  BY <1>1, <1>5, <1>6, UnservedIs DEF NothingAhead, SameEvents
<1>8. AppInv(v, (calls \ {}) \cup {x}, workspaces, unheard', crossing', crossed')
  <2>1. \A d : /\ LoadOf(v, d) <=> LoadOf(ui, d)
               /\ ShownBy(v, d) <=> ShownBy(ui, d)
    BY <1>6 DEF LoadOf, ShownBy
  <2>2. Shown(v) <=> Shown(ui)
    BY <1>6 DEF Shown
  <2>3. \A d \in calls : ~ Changes(d)
    BY <1>1, <1>2 DEF AppInv
  <2>4. ~ LoadOf(ui, x) /\ ~ ShownBy(ui, x) /\ Changes(x)
    BY <1>5 DEF LoadOf, ShownBy, Changes
  <2> DEFINE ds == (calls \ {}) \cup {x}
  <2>5. ds = calls \cup {x}
    OBVIOUS
  <2>. HIDE DEF ds
  <2>6. /\ \A c \in ds : LoadOf(v, c) => c.country = v.country
        /\ \A c \in ds : Changes(c) => v.busy /\ ~ Served(c)
        /\ \A c, d \in ds : Changes(c) /\ Changes(d) => c = d
    BY <1>1, <1>5, <1>6, <2>1, <2>3, <2>4, <2>5 DEF AppInv
  <2>7. ASSUME ~ crossing'
        PROVE  \A c \in ds : /\ Changes(c) \/ c.kind = "retry" => c.country = v.country
                             /\ ~ ShownBy(v, c)
    BY <1>4, <1>5, <1>6, <2>1, <2>3, <2>4, <2>5, <2>7 DEF ShownBy
  <2>8. ASSUME ~ crossed', Shown(v)
        PROVE  /\ v.view.country = v.country \/ \E c \in ds : LoadOf(v, c)
               /\ ~ unheard' => \/ LatestIn(workspaces, v.view.version)
                                \/ \E c \in ds : c.kind = "again" \/ (c.kind = "post" /\ Served(c))
    BY <1>1, <1>3, <1>4, <1>6, <2>1, <2>2, <2>5, <2>8 DEF AppInv
  <2>9. AppInv(v, ds, workspaces, unheard', crossing', crossed')
    <3>1. crossing' => crossed'
      BY <1>4
    <3>2. ~ crossing' =>
              /\ \A c \in ds : Changes(c) \/ c.kind = "retry" => c.country = v.country
              /\ v.busy => \A c \in ds : ~ ShownBy(v, c)
              /\ \A c \in ds : ShownBy(v, c) /\ Served(c) => LatestIn(workspaces, c.answer)
      BY <2>7
    <3>3. ~ crossed' =>
              /\ Shown(v) => v.view.country = v.country \/ \E c \in ds : LoadOf(v, c)
              /\ Shown(v) /\ ~ unheard' =>
                    \/ LatestIn(workspaces, v.view.version)
                    \/ \E c \in ds : c.kind = "again" \/ (c.kind = "post" /\ Served(c))
      BY <2>8
    <3>. QED
      BY <2>6, <3>1, <3>2, <3>3, Zenon DEF AppInv
  <2>. QED
    BY <2>9 DEF ds
<1>9. \A d : d.kind = "list" => (d \in (calls \ {}) \cup {x} <=> d \in calls)
  BY <1>5
<1>10. ASSUME Mounted(v), Mounted(ui), Dependencies(ui) = Dependencies(v)
       PROVE  EventsInv(v, (calls \ {}) \cup {x}, unread')
  BY <1>1, <1>3, <1>6, <1>9, <1>10, EventsStay
<1>11. v.load <= asked + 1 /\ v.list <= asked
  BY <1>1, <1>6 DEF SameEvents
<1>. QED
  BY <1>1, <1>2, <1>3, <1>4, <1>5, <1>6, <1>7, <1>8, <1>10, <1>11, SendsKeep

-----------------------------------------------------------------------------
(* The theorems.                                                            *)

\* The page as it opens, its first load under way.
LEMMA WebInit ==
    ASSUME Init
    PROVE  WebInv
<1> DEFINE x == Call(1, "load", All, cookie)
<1>1. PICK page \in {"events", "other"} :
          ui = [page |-> page, country |-> All, view |-> NoView, failure |-> FALSE, busy |-> FALSE,
                load |-> 1, filter |-> NoFilter, rows |-> NoRows, loading |-> FALSE, list |-> 0]
  BY DEF Init
<1>2. /\ calls = {x} /\ asked = 1
      /\ unheard = FALSE /\ unread = FALSE /\ crossing = FALSE /\ crossed = FALSE
  BY DEF Init
<1>3. workspaces \in Seq(Space) /\ cookie \in Nat
  <2>1. NewWorkspace \in Space
    BY DEF NewWorkspace, Space, Fresh
  <2>2. <<>> \in Seq(Space) /\ <<NewWorkspace>> \in Seq(Space) /\ 0 \in Nat /\ 1 \in Nat
    BY <2>1
  <2>3. \/ workspaces = <<>> /\ cookie = 0
        \/ workspaces = <<NewWorkspace>> /\ cookie = 1
    BY DEF Init
  <2>. QED
    BY <2>2, <2>3, Zenon
<1>4. /\ All \in Countries /\ NoFilter \in Filters
      /\ NoView \in [country : Countries, version : Version] /\ NoView.version = Unserved
      /\ NoRows \in [country : Countries, filter : Filters, base : Version, version : Version]
      /\ NoRows.version = Unserved
  BY ClientAssumption, UnservedIs DEF Countries, NoView, NoRows
<1>5. /\ ui \in Ui /\ ui.country = All /\ ui.view = NoView /\ ui.rows = NoRows
      /\ ui.load = 1 /\ ui.list = 0 /\ ~ ui.loading /\ ~ ui.busy
  BY <1>1, <1>4 DEF Ui
<1>6. /\ x \in Request /\ x.id = 1 /\ x.kind = "load" /\ x.country = All
      /\ x.base = Unserved /\ x.answer = Unserved /\ ~ Served(x)
  BY <1>3, <1>4, RequestIs, UnservedIs DEF Kinds
<1>. HIDE DEF x
<1>7. TypeInv
  <2>1. unheard \in BOOLEAN /\ unread \in BOOLEAN /\ crossing \in BOOLEAN /\ crossed \in BOOLEAN
    BY <1>2
  <2>2. /\ asked \in Nat /\ ui.load <= asked /\ ui.list <= asked
        /\ calls \subseteq Request /\ \A c \in calls : c.id <= asked
    BY <1>2, <1>5, <1>6
  <2>. QED
    BY <1>3, <1>5, <2>1, <2>2 DEF TypeInv
<1>8. NothingAhead(ui, calls, workspaces)
  BY <1>2, <1>4, <1>5, <1>6, UnservedIs DEF NothingAhead
<1>9. ~ Shown(ui) /\ ~ Mounted(ui)
  BY <1>5 DEF Shown, Mounted
<1>10. AppInv(ui, calls, workspaces, unheard, crossing, crossed)
  BY <1>2, <1>5, <1>6, <1>9 DEF AppInv, LoadOf, Changes
<1>11. EventsInv(ui, calls, unread)
  BY <1>2, <1>5, <1>6, <1>9 DEF EventsInv, ListOf
<1>. QED
  BY <1>7, <1>8, <1>10, <1>11 DEF WebInv

\* Every step of the user, the network, the workspaces and time keeps the invariant.
LEMMA WebNext ==
    ASSUME WebInv, [Next]_vars
    PROVE  WebInv'
<1>1. CASE User
  BY <1>1, GoKeeps, ChooseFilterKeeps, RetryKeeps, MutateKeeps DEF User
<1>2. CASE \E w \in DOMAIN workspaces : Expire(w)
  BY <1>2 DEF Expire, WebInv, TypeInv
<1>3. ASSUME NEW id \in CallIds, Network(id)
      PROVE  WebInv'
  <2>1. PICK c \in calls : Serve(c) \/ Refuse(c) \/ Arrives(c) \/ Fails(c)
    BY <1>3 DEF Network
  <2>2. c \in Request
    BY <2>1 DEF WebInv, TypeInv
  <2>3. CASE Serve(c)
    BY <2>2, <2>3, ServeKeeps DEF Serve
  <2>4. CASE Refuse(c)
    <3> DEFINE d == [c EXCEPT !.change = "refused"]
    <3>1. ServeAs(c, d)
      BY <2>4 DEF Refuse
    <3>2. /\ d \in Request /\ d.id = c.id /\ d.kind = c.kind /\ d.country = c.country
          /\ d.filter = c.filter /\ d.base = c.base
      BY <2>2 DEF Request
    <3>. HIDE DEF d
    <3>. QED
      BY <3>1, <3>2, ServeKeeps
  <2>5. CASE Arrives(c)
    BY <2>5, LoadArrivesKeeps, RetryArrivesKeeps, PostArrivesKeeps, AgainArrivesKeeps,
       ListArrivesKeeps DEF Arrives
  <2>6. CASE Fails(c)
    BY <2>6, LoadFailsKeeps, MutateFailsKeeps, ListFailsKeeps DEF Fails
  <2>. QED
    BY <2>1, <2>3, <2>4, <2>5, <2>6
<1>4. CASE UNCHANGED vars
  BY <1>4 DEF vars, WebInv, TypeInv
<1>. QED
  BY <1>1, <1>2, <1>3, <1>4 DEF Next

\* Every request in flight is known for what its answer will do to the page (the
\* effects of App and Events, mutate() and refresh() of App.jsx).
THEOREM RequestsAreAccountedFor == Spec => []WebInv
<1>1. Init => WebInv
  BY WebInit
<1>2. WebInv /\ [Next]_vars => WebInv'
  BY WebNext
<1>. QED
  BY <1>1, <1>2, PTL DEF Spec

\* However answers are delayed, reordered or lost, data under the notice
\* "Showing (country)" is that country's or about to be, unless the answer shown
\* crossed a choice of the user (refresh() of App.jsx:1371 has no guard); and rows
\* not being read are of the country and the filters chosen, always.
THEOREM PageShowsWhatWasAsked == Spec => []ShownAsAsked
<1>1. ASSUME WebInv
      PROVE  ShownAsAsked
  <2>1. /\ AppInv(ui, calls, workspaces, unheard, crossing, crossed)
        /\ EventsInv(ui, calls, unread)
    BY <1>1 DEF WebInv
  <2>. QED
    BY <2>1 DEF ShownAsAsked, AppInv, EventsInv, Loading, LoadOf
<1>. QED
  BY <1>1, RequestsAreAccountedFor, PTL

\* With no request in flight, no answer that crossed another and no error told, the
\* data shown are the last of the workspace they were read from, which another
\* request may have left behind when the session ran out (session() of store.py);
\* so are rows of that workspace that were asked for after its last reset.
THEOREM PageIsCurrentAtRest == Spec => []CurrentAtRest
<1>1. ASSUME WebInv, calls = {}, Shown(ui), ~ crossed, ~ unheard
      PROVE  Latest(ui.view.version)
  <2>1. AppInv(ui, calls, workspaces, unheard, crossing, crossed)
    BY <1>1 DEF WebInv
  <2>. QED
    BY <1>1, <2>1 DEF AppInv, LatestIn, Latest
<1>2. ASSUME WebInv, calls = {}, Latest(ui.view.version), Mounted(ui), ~ unread,
             ui.rows.version.workspace = ui.view.version.workspace,
             ui.rows.base.workspace = ui.view.version.workspace,
             ui.rows.base.reset = ui.view.version.reset
      PROVE  ui.rows.version = ui.view.version
  <2> DEFINE w == ui.view.version.workspace
             space == workspaces[w]
  <2>1. /\ EventsInv(ui, calls, unread) /\ NothingAhead(ui, calls, workspaces)
        /\ ui \in Ui /\ workspaces \in Seq(Space)
    BY <1>2 DEF WebInv, TypeInv
  <2>2. /\ ui.view.version \in Version /\ ui.rows.version \in Version
        /\ ui.rows.base \in Version
    BY <2>1 DEF Ui
  <2>3. /\ w \in DOMAIN workspaces /\ space \in Space
        /\ ui.view.version.reset = space.reset /\ ui.view.version.revision = space.revision
    BY <1>2, <2>1 DEF Latest, VersionOf
  <2>4. /\ ui.rows.base.revision = ui.view.version.revision
        /\ UpTo(ui.rows.base.reset, ui.rows.base.revision, ui.rows.version)
    BY <1>2, <2>1 DEF EventsInv, Follows
  <2>5. UpTo(ui.rows.version.reset, ui.rows.version.revision, space)
    BY <1>2, <2>1, <2>3 DEF NothingAhead, NotAhead
  <2>. HIDE DEF w, space
  <2>6. /\ ui.rows.version.reset = ui.view.version.reset
        /\ ui.rows.version.revision = ui.view.version.revision
    BY <1>2, <2>2, <2>3, <2>4, <2>5 DEF UpTo, Version, Space
  <2>. QED
    BY <1>2, <2>2, <2>6 DEF Version
<1>3. WebInv => CurrentAtRest
  BY <1>1, <1>2 DEF CurrentAtRest
<1>. QED
  BY <1>3, RequestsAreAccountedFor, PTL
=============================================================================
