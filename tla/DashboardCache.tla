--------------------------- MODULE DashboardCache ---------------------------
(***************************************************************************)
(* The answers of the loan intelligence dashboard, kept by each process of *)
(* the server for a minute (services/commission_analytics_service.py): the *)
(* panels of RevenueReports under a filter, while the steps of LenderFiles *)
(* change the book.  A money move invalidates nothing.  A dashboard is two *)
(* reads, its first three queries and its last three; what it kept is of   *)
(* the time at which it was stored.  The pages are RevenueReports' own.    *)
(***************************************************************************)
EXTENDS RevenueReports

CONSTANTS
    Servers,     \* processes of the server
    Watched,     \* filters whose dashboard is opened
    PanelTTL,    \* _CACHE_TTL_S, in ticks
    MaxTicks,    \* bound: the last tick
    MaxPanels    \* bound: answers kept at a time

ASSUME CacheAssumption ==
    /\ Watched \subseteq Filters /\ PanelTTL \in Nat
    /\ MaxTicks \in Nat /\ MaxPanels \in Nat

VARIABLES
    kept,     \* _cache of each process
    drawing,  \* a dashboard between its queries
    tick,     \* time.monotonic
    revised   \* history: when the book last changed

dashboardState == <<kept, drawing, tick, revised>>

\* What the panels are read from.
bookState == <<status, loan, rate, tranches, deleted>>

NotDrawing == [server |-> "none"]

\* overtaken: history, the book changed between the queries.
Drawing(p, f) == [server |-> p, filter |-> f, top |-> TopPanels(f), overtaken |-> FALSE]

DashboardInit ==
    /\ Init
    /\ kept = {} /\ drawing = NotDrawing /\ tick = 0 /\ revised = -1 - PanelTTL

\* Variant: nothing gets too old.
ServableAlways(e) == tick <= e.until \/ tick > e.until

\* _cache_get.
Servable(e) == tick <= e.until

KeptFor(p, f) == {e \in kept : e.server = p /\ e.filter = f}

\* dashboard: not in the cache, or too old.
Begins(p, f) ==
    /\ drawing = NotDrawing /\ Cardinality(kept \ KeptFor(p, f)) < MaxPanels
    /\ \A e \in KeptFor(p, f) : ~Servable(e)
    /\ drawing' = Drawing(p, f)
    /\ kept' = kept \ KeptFor(p, f)
    /\ UNCHANGED <<vars, tick, revised>>

\* _cache_set, for as long from now.
Stores ==
    /\ drawing # NotDrawing
    /\ kept' = (kept \ KeptFor(drawing.server, drawing.filter))
               \cup {[server |-> drawing.server, filter |-> drawing.filter,
                      until |-> tick + PanelTTL, overtaken |-> drawing.overtaken,
                      panels |-> [top |-> drawing.top, bottom |-> BottomPanels(drawing.filter)]]}
    /\ drawing' = NotDrawing
    /\ UNCHANGED <<vars, tick, revised>>

\* The request is cut off.
Fails ==
    /\ drawing # NotDrawing /\ drawing' = NotDrawing
    /\ UNCHANGED <<vars, kept, tick, revised>>

\* The cache is full, or the process restarts.
Evicts(e) ==
    /\ kept' = kept \ {e}
    /\ UNCHANGED <<vars, drawing, tick, revised>>

\* A request that writes: no cache hears of it.
BookStep ==
    /\ Next
    /\ IF bookState' = bookState THEN UNCHANGED <<drawing, revised>>
       ELSE /\ revised' = tick
            /\ drawing' = IF drawing = NotDrawing THEN drawing
                          ELSE [drawing EXCEPT !.overtaken = TRUE]
    /\ UNCHANGED <<kept, tick>>

Passes ==
    /\ tick < MaxTicks /\ tick' = tick + 1
    /\ UNCHANGED <<vars, kept, drawing, revised>>

DashboardNext ==
    \/ \E p \in Servers, f \in Watched : Begins(p, f)
    \/ Stores
    \/ Fails
    \/ \E e \in kept : Evicts(e)
    \/ BookStep
    \/ Passes

-----------------------------------------------------------------------------
(* Properties.                                                             *)

\* What the dashboard may answer once the book has not changed for as long as an answer
\* is kept: an answer that was not overtaken while it was read.
LateAnswers(f) ==
    {e.panels : e \in {e \in kept : /\ e.filter = f /\ Servable(e) /\ ~e.overtaken
                                    /\ tick > revised + PanelTTL}}

\* A minute after a change, whatever the dashboard answers shows no figure that another
\* panel or another page contradicts; nor does what it reads anew, at any time.
AnswersAgree(f) ==
    \A d \in LateAnswers(f) \cup {Panels(f)} : FiguresAgree(f, d)

\* And the rows of each of its figures come to that figure.
AnswersHaveRows(f) ==
    \A d \in LateAnswers(f) \cup {Panels(f)} : RowsAgree(f, d)

\* A book that is met with a dashboard kept or under way is met without, and its fresh
\* panels are looked at there.
ToLookAt == {f \in Filters : LateAnswers(f) # {} \/ (kept = {} /\ drawing = NotDrawing)}
=============================================================================
