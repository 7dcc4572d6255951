------------------------------ MODULE WebClient ------------------------------
(***************************************************************************)
(* The browser client (web/src/App.jsx, api.js) of one visitor and the     *)
(* workspaces it gets: the data on screen, the country it is filtered by,  *)
(* the event listing, the session cookie, and the requests in flight,      *)
(* which are served and answered in any order or fail.  A request whose    *)
(* session is unknown or has run out is served in a new workspace.  What    *)
(* the user sees of a workspace is its version: how often it was reset and *)
(* its revision.  Modals, the search field and what the pages draw are     *)
(* left out.                                                               *)
(***************************************************************************)
EXTENDS Naturals, Sequences, FiniteSets

CONSTANTS
    Markets, All,   \* the country select: a market, or all of them
    Filters, NoFilter,  \* status, type and offset of the event listing
    MaxCalls,       \* bounds what the user does
    MaxExpired      \* bounds how many sessions run out

ASSUME ClientAssumption == All \notin Markets /\ NoFilter \in Filters

VARIABLES
    workspaces, \* those the visitor has got, with their resets and revisions
    expired,    \* those whose session has run out
    cookie,     \* the workspace that requests are sent for, or 0
    ui,         \* the state of App and of Events
    calls,      \* requests in flight, with their answers once they are served
    asked,      \* number of the last request
    unheard,    \* a change was reported as failed: it may have been made
    unread,     \* the last reading of the listing failed
    crossing,   \* the user went on while something was under way that still is
    crossed     \* what is on screen may have come from there

vars == <<workspaces, expired, cookie, ui, calls, asked, unheard, unread, crossing, crossed>>

-----------------------------------------------------------------------------

Countries == Markets \cup {All}
CallIds == 1 .. MaxCalls + 4
\* initialize() leaves the same revision in every new workspace.
Fresh == 1
NewWorkspace == [reset |-> 0, revision |-> Fresh]
VersionOf(w, space) == [workspace |-> w, reset |-> space.reset, revision |-> space.revision]
Unserved == [workspace |-> 0, reset |-> 0, revision |-> 0]

\* load: the effect of App; retry: "Try again"; post and again: the two
\* requests of mutate(); list: the effect of Events, for the view it is at.
Call(id, kind, country, session) ==
    [id |-> id, kind |-> kind, country |-> country, filter |-> NoFilter, change |-> "none",
     session |-> session, base |-> Unserved, answer |-> Unserved]
Mutation(id, kind, country, change, session) ==
    [Call(id, kind, country, session) EXCEPT !.change = change]

\* Data on screen: what was asked for, and the version it was read from.
NoView == [country |-> All, version |-> Unserved]
NoRows == [country |-> All, filter |-> NoFilter, base |-> Unserved, version |-> Unserved]
View(country, version) == [country |-> country, version |-> version]
Rows(c) == [country |-> c.country, filter |-> c.filter, base |-> c.base, version |-> c.answer]

Shown(u) == u.view # NoView /\ ~ u.failure
Mounted(u) == u.page = "events" /\ Shown(u)
\* The dependencies of the effect that reads the listing.
Dependencies(u) == <<u.filter, u.country, u.view.version.revision>>

Listing(id, u, session) ==
    [Call(id, "list", u.country, session) EXCEPT !.filter = u.filter, !.base = u.view.version]

\* React renders v: Events forgets everything when it leaves the page, and
\* asks for its rows when it enters it or a dependency has changed.
Render(v, sent, heard) ==
    LET w == IF Mounted(v) THEN v
             ELSE [v EXCEPT !.filter = NoFilter, !.rows = NoRows, !.loading = FALSE, !.list = 0]
        n == asked + Cardinality(sent)
        reads == Mounted(w) /\ (Mounted(ui) => Dependencies(ui) # Dependencies(w))
        reading == IF reads THEN {Listing(n + 1, w, cookie')} ELSE {} IN
    /\ asked' = n + Cardinality(reading)
    /\ ui' = IF reads THEN [w EXCEPT !.loading = TRUE, !.list = n + 1] ELSE w
    /\ calls' = (calls \ heard) \cup sent \cup reading

-----------------------------------------------------------------------------

\* The visitor comes for the first time, or back.
Init ==
    /\ \/ workspaces = <<>> /\ cookie = 0
       \/ workspaces = <<NewWorkspace>> /\ cookie = 1
    /\ expired = {}
    /\ \E page \in {"events", "other"} :
           ui = [page |-> page, country |-> All, view |-> NoView, failure |-> FALSE, busy |-> FALSE,
                 load |-> 1, filter |-> NoFilter, rows |-> NoRows, loading |-> FALSE, list |-> 0]
    /\ calls = {Call(1, "load", All, cookie)} /\ asked = 1
    /\ unheard = FALSE /\ unread = FALSE /\ crossing = FALSE /\ crossed = FALSE

Waiting == ui.busy \/ \E c \in calls : c.kind = "retry"
Loading == \E c \in calls : c.kind = "load" /\ c.id = ui.load

session == <<workspaces, expired, cookie>>

\* The user has gone on: answers that are shown may cross from now on.
Crosses(condition) == crossing' = condition /\ crossed' = (crossed \/ condition)

\* navigate(): to a page, or from the overview to a market; and the country
\* select, which changes only the country.  A new country is loaded.
Go(page, country) ==
    /\ asked < MaxCalls
    /\ page # ui.page \/ country # ui.country
    /\ page # ui.page /\ page = "events" => country = ui.country
    /\ UNCHANGED <<session, unheard, unread>>
    /\ IF country = ui.country
       THEN Render([ui EXCEPT !.page = page], {}, {}) /\ UNCHANGED <<crossing, crossed>>
       ELSE /\ Render([ui EXCEPT !.page = page, !.country = country, !.load = asked + 1],
                      {Call(asked + 1, "load", country, cookie)}, {})
            /\ Crosses(Waiting)

\* change() and the buttons of the pagination, which wait for the rows.
ChooseFilter(filter) ==
    /\ asked < MaxCalls /\ Mounted(ui) /\ filter # ui.filter
    /\ UNCHANGED <<session, unheard, unread, crossing, crossed>>
    /\ Render([ui EXCEPT !.filter = filter], {}, {})

\* "Try again" on the error panel: refresh().
Retry ==
    /\ asked < MaxCalls /\ ui.failure
    /\ UNCHANGED <<session, unheard, unread>>
    /\ Render(ui, {Call(asked + 1, "retry", ui.country, cookie)}, {})
    /\ Crosses(Waiting \/ (Loading /\ crossing))

\* mutate(): the buttons are disabled while it is busy.  Runs and replays are
\* asked for on pages of their own.
Mutate(change) ==
    /\ asked < MaxCalls /\ ~ ui.busy
    /\ change = "work" => ui.page = "other" /\ Shown(ui)
    /\ UNCHANGED <<session, unheard, unread>>
    /\ Render([ui EXCEPT !.busy = TRUE], {Mutation(asked + 1, "post", ui.country, change, cookie)}, {})
    /\ Crosses(Waiting \/ Loading)

-----------------------------------------------------------------------------

\* Two hours without a request: the session runs out, and its file is removed.
\* (A request takes less than that.)
Expire(w) ==
    /\ w \notin expired /\ Cardinality(expired) < MaxExpired
    /\ \A c \in calls : c.answer.workspace # w
    /\ expired' = expired \cup {w}
    /\ UNCHANGED <<workspaces, cookie, ui, calls, asked, unheard, unread, crossing, crossed>>

\* session(): the workspace that a request is served in, known or new.
Known(c) == c.session \in DOMAIN workspaces \ expired
Place(c) == IF Known(c) THEN c.session ELSE Len(workspaces) + 1
Opened(c) == IF Known(c) THEN workspaces ELSE Append(workspaces, NewWorkspace)

\* What a change makes of a workspace.
Changing(c, space) ==
    CASE c.kind # "post" \/ c.change = "refused" -> space
      [] c.kind = "post" /\ c.change = "reset" -> [reset |-> space.reset + 1, revision |-> Fresh]
      [] OTHER -> [space EXCEPT !.revision = @ + 1]

\* A request is served, in a transaction of its own.
ServeAs(c, d) ==
    /\ c.answer = Unserved
    /\ workspaces' = [Opened(c) EXCEPT ![Place(c)] = Changing(d, @)]
    /\ calls' = (calls \ {c}) \cup {[d EXCEPT !.answer = VersionOf(Place(c), workspaces'[Place(c)])]}
    /\ UNCHANGED <<expired, cookie, ui, asked, unheard, unread, crossing, crossed>>

Serve(c) == ServeAs(c, c)
\* The change is refused: there is nothing to run or to replay in this
\* workspace, or too much is asked of it.
Refuse(c) == c.kind = "post" /\ ServeAs(c, [c EXCEPT !.change = "refused"])

-----------------------------------------------------------------------------

\* Every answer sets the cookie; an answer that is lost does not.
Hear(c) == cookie' = c.answer.workspace /\ UNCHANGED <<workspaces, expired>>
Miss(c) ==
    /\ cookie' \in {cookie} \cup (IF c.answer = Unserved THEN {} ELSE {c.answer.workspace})
    /\ UNCHANGED <<workspaces, expired>>

\* active: the answer is for the last run of the effect.
CurrentLoad(c) == c.id = ui.load
SlipEveryList(c) == Mounted(ui)
CurrentList(c) == c.id = ui.list

\* The answer to a load or to refresh() is shown.
Show(c, v) == [v EXCEPT !.view = View(c.country, c.answer), !.failure = FALSE]
\* What is shown is right again if nothing crossed it.
Heals == crossed' = (crossed /\ crossing) /\ UNCHANGED crossing

LoadArrives(c) ==
    /\ c.kind = "load" /\ c.answer # Unserved /\ Hear(c)
    /\ Render(IF CurrentLoad(c) THEN Show(c, ui) ELSE ui, {}, {c})
    /\ IF CurrentLoad(c) THEN unheard' = FALSE /\ Heals
       ELSE UNCHANGED <<unheard, crossing, crossed>>
    /\ UNCHANGED unread

RetryArrives(c) ==
    /\ c.kind = "retry" /\ c.answer # Unserved /\ Hear(c)
    /\ Render(Show(c, ui), {}, {c})
    /\ unheard' = FALSE /\ Heals
    /\ UNCHANGED unread

\* mutate() returns the result, and a simulation goes to the pipeline page.
Done(c, v) ==
    [v EXCEPT !.busy = FALSE, !.page = IF c.change = "simulate" THEN "other" ELSE @]

SlipNoRefresh(c) ==
    /\ Render(Done(c, IF c.country = All THEN [ui EXCEPT !.view = View(All, c.answer)] ELSE ui),
              {}, {c})
    /\ unheard' = FALSE /\ Heals
\* The answer to a change is the unfiltered snapshot: it is shown if all
\* countries were selected at its start; otherwise that country is read again.
Changed(c) ==
    IF c.country = All
    THEN /\ Render(Done(c, [ui EXCEPT !.view = View(All, c.answer)]), {}, {c})
         /\ unheard' = FALSE /\ Heals
    ELSE /\ Render(ui, {Mutation(asked + 1, "again", c.country, c.change, cookie')}, {c})
         /\ UNCHANGED <<unheard, crossing, crossed>>

PostArrives(c) ==
    /\ c.kind = "post" /\ c.change # "refused" /\ c.answer # Unserved /\ Hear(c)
    /\ Changed(c)
    /\ UNCHANGED unread

AgainArrives(c) ==
    /\ c.kind = "again" /\ c.answer # Unserved /\ Hear(c)
    /\ Render(Done(c, Show(c, ui)), {}, {c})
    /\ unheard' = FALSE /\ Heals
    /\ UNCHANGED unread

ListArrives(c) ==
    /\ c.kind = "list" /\ c.answer # Unserved /\ Hear(c)
    /\ Render(IF CurrentList(c) THEN [ui EXCEPT !.rows = Rows(c), !.loading = FALSE] ELSE ui,
              {}, {c})
    /\ unread' = (unread /\ ~ CurrentList(c))
    /\ UNCHANGED <<unheard, crossing, crossed>>

-----------------------------------------------------------------------------

\* A request fails, served or not: the network, a refusal, or an answer that
\* is not JSON.
LoadFails(c) ==
    /\ c.kind = "retry" \/ c.kind = "load"
    /\ Miss(c)
    /\ Render([ui EXCEPT !.failure = @ \/ c.kind = "retry" \/ CurrentLoad(c)], {}, {c})
    /\ UNCHANGED <<unheard, unread, crossing, crossed>>

SlipBusyStays(c) == ui
\* catch and finally of mutate(): the error is announced.
GivenUp(c) == [ui EXCEPT !.busy = FALSE]

MutateFails(c) ==
    /\ c.kind = "post" \/ c.kind = "again"
    /\ Miss(c)
    /\ Render(GivenUp(c), {}, {c})
    /\ unheard' = TRUE
    /\ UNCHANGED <<unread, crossing, crossed>>

ListFails(c) ==
    /\ c.kind = "list"
    /\ Miss(c)
    /\ Render(IF CurrentList(c) THEN [ui EXCEPT !.loading = FALSE] ELSE ui, {}, {c})
    /\ unread' = (unread \/ CurrentList(c))
    /\ UNCHANGED <<unheard, crossing, crossed>>

User ==
    \/ \E page \in {"events", "other"}, country \in Countries : Go(page, country)
    \/ \E filter \in Filters : ChooseFilter(filter)
    \/ Retry
    \/ \E change \in {"simulate", "work", "reset"} : Mutate(change)

Arrives(c) ==
    \/ LoadArrives(c) \/ RetryArrives(c) \/ PostArrives(c) \/ AgainArrives(c) \/ ListArrives(c)
Fails(c) == LoadFails(c) \/ MutateFails(c) \/ ListFails(c)
Network(id) ==
    \E c \in calls : c.id = id /\ (Serve(c) \/ Refuse(c) \/ Arrives(c) \/ Fails(c))

Next ==
    \/ User
    \/ \E w \in DOMAIN workspaces : Expire(w)
    \/ \E id \in CallIds : Network(id)

Spec == Init /\ [][Next]_vars
\* The browser ends every request, with an answer or an error.
FairSpec == Spec /\ \A id \in CallIds : WF_vars(Network(id))

-----------------------------------------------------------------------------

\* What is on screen is what was asked for, whatever order the answers come in:
\* data under the notice "Showing (country)" (App.jsx:1583) is that country's,
\* or until its own answer is there, unless the answer shown crossed a choice of
\* the user; and rows are of the country and the filters chosen, unless they are
\* being read or it was announced that they could not be.
ShownAsAsked ==
    /\ Shown(ui) /\ ~ crossed => ui.view.country = ui.country \/ Loading
    /\ Mounted(ui) /\ ~ ui.loading /\ ~ unread =>
           ui.rows.country = ui.country /\ ui.rows.filter = ui.filter

\* A version is the last one of its workspace, which may have run out since.
Latest(version) ==
    version.workspace \in DOMAIN workspaces
    /\ version = VersionOf(version.workspace, workspaces[version.workspace])

\* At rest the data shown are the last version of the workspace they were read
\* from, unless the answer crossed another or an error was announced.  So are
\* the rows, if they are of that workspace and were asked for after the same
\* reset (after a reset, or in a new workspace, the page may be at the revision
\* it was at before: then the listing is not read again).
CurrentAtRest ==
    calls = {} /\ Shown(ui) /\ ~ crossed /\ ~ unheard =>
        /\ Latest(ui.view.version)
        /\ LET rows == ui.rows IN
           /\ Mounted(ui) /\ ~ unread
           /\ rows.version.workspace = ui.view.version.workspace
           /\ rows.base.workspace = ui.view.version.workspace
           /\ rows.base.reset = ui.view.version.reset
           => rows.version = ui.view.version

\* The page does not wait for ever: buttons are enabled again, and the rows
\* are there or could not be read.
WaitingEnds == [](ui.busy \/ ui.loading => <>(~ ui.busy /\ ~ ui.loading))
=============================================================================
