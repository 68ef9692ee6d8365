----------------------------- MODULE BankShares -----------------------------
(***************************************************************************)
(* Which lender a lead's file was shown to, the conversation with each,    *)
(* and the list of lenders (services/lead_service.py, api/v1/leads.py,     *)
(* services/bank_registry.py).  A WhatsApp bot records shares and          *)
(* messages and may send each of them again; the CRM runs in several       *)
(* processes, each with its own cache of the list.                         *)
(*                                                                         *)
(* The status of a file, the card's primary lender and the rates are in    *)
(* LenderFiles.  Of a share's four columns two are here: the time, and     *)
(* who; the channel and the group are filled like who.  Who may see the    *)
(* lead is in LeadBoards.                                                  *)
(***************************************************************************)
EXTENDS Integers, FiniteSets

CONSTANTS
    Leads,
    Names,      \* names of lenders
    Default,    \* FMC_BANKS, for when the table gives none
    Nobody,     \* shared_by is NULL
    Users,
    Times,      \* shared_at as the bot may give it
    MessageIds, \* wa_message_id
    NoId,       \* of a message added by hand
    About,      \* the file a message of the group is about
    Requests,
    Processes,
    TTL,        \* _TTL_S, in ticks
    MaxTime,    \* bound: the last tick
    MaxWrites,  \* bound: writes of users and of the bot
    MaxLoads    \* bound: queries for a list that is to be cached

ConstantsAssumption ==
    /\ Times \subseteq Nat /\ About \in [MessageIds -> Leads \X Names]
    /\ TTL \in Nat /\ MaxTime \in Nat /\ MaxWrites \in Nat /\ MaxLoads \in Nat

VARIABLES
    file,     \* lead_banks: the share of a lead with a lender
    lines,    \* lead_bank_messages
    listed,   \* banks: a name's row
    known,    \* _cache of a process
    loading,  \* a list a process has queried and not stored
    request,  \* a request of the bot between its read and its write
    now,      \* the clock
    stored,   \* history: messages the bot was told are stored
    changed,  \* history: when and where a name's row was last changed
    writes,   \* bound counters
    loads

threads == <<file, lines, stored>>
list == <<listed, changed>>
caches == <<known, loading>>
vars == <<threads, list, caches, request, now, writes, loads>>

Files == Leads \X Names
NoTime == 0
Absent == [there |-> FALSE, at |-> NoTime, by |-> Nobody]
Kinds == {"active", "all"}
NotCached == [names |-> {}, until |-> -1, overtaken |-> FALSE]
Resting == [at |-> "rest"]

Row == [there : BOOLEAN, at : Nat, by : Users \cup {Nobody}]
Share == [at : {"share"}, file : Files, seen : Row, shared : Nat, by : Users \cup {Nobody}]
Message == [at : {"message"}, file : Files, id : MessageIds \cup {NoId}]
Entry == [names : SUBSET Names, until : -1..MaxTime + TTL, overtaken : BOOLEAN]
Loaded == [at : {"loaded"}, kind : Kinds, names : SUBSET Names, overtaken : BOOLEAN]

ThreadTypes ==
    /\ file \in [Files -> Row]
    /\ \A m \in lines : m.id \in MessageIds \cup {NoId} /\ m.file \in Files
    /\ stored \subseteq [id : MessageIds, file : Files]
    /\ request \in [Requests -> Share \cup Message \cup {Resting}]

ListTypes ==
    /\ listed \in [Names -> {"none", "active", "inactive"}]
    /\ changed \in [Names -> [at : Nat, by : Processes \cup {Nobody}]]
    /\ known \in [Processes -> [Kinds -> Entry]]
    /\ loading \in [Processes -> Loaded \cup {Resting}]

BoundTypes == now \in 0..MaxTime /\ writes \in 0..MaxWrites /\ loads \in 0..MaxLoads

TypeOK == ThreadTypes /\ ListTypes /\ BoundTypes

\* A list of lenders, no files.
Init ==
    /\ file = [f \in Files |-> Absent] /\ lines = {} /\ stored = {}
    /\ listed \in [Names -> {"none", "active"}]
    /\ known = [p \in Processes |-> [k \in Kinds |-> NotCached]]
    /\ loading = [p \in Processes |-> Resting]
    /\ request = [r \in Requests |-> Resting]
    /\ changed = [n \in Names |-> [at |-> 0, by |-> Nobody]]
    /\ now = 0 /\ writes = 0 /\ loads = 0

Write == writes < MaxWrites /\ writes' = writes + 1 /\ UNCHANGED loads

-----------------------------------------------------------------------------
(* The list of lenders and its caches.                                     *)

Listed(kind) == {n \in Names : listed[n] = "active" \/ (kind = "all" /\ listed[n] = "inactive")}

\* Variant: an entry is good for ever.
FreshEver(p, kind) == known[p][kind] # NotCached
Fresh(p, kind) == known[p][kind] # NotCached /\ now < known[p][kind].until

\* get_bank_names, get_all_bank_names: from the cache, or else from the table.
NamesAt(p, kind) ==
    CASE Fresh(p, kind) -> known[p][kind].names
      [] ~Fresh(p, kind) /\ Listed(kind) # {} -> Listed(kind)
      [] OTHER -> Default

\* Any request that needs a list: the query ...
LoadNames(p, kind) ==
    /\ ~Fresh(p, kind) /\ loading[p] = Resting
    /\ loads < MaxLoads /\ loads' = loads + 1
    /\ loading' = [loading EXCEPT ![p] = [at |-> "loaded", kind |-> kind, names |-> Listed(kind),
                                          overtaken |-> FALSE]]
    /\ UNCHANGED <<threads, list, known, request, now, writes>>

\* ... and its answer kept, whatever has happened since; an empty one is not.
StoreNames(p) ==
    /\ loading[p] # Resting
    /\ loading' = [loading EXCEPT ![p] = Resting]
    /\ LET l == loading[p] IN
          known' = IF l.names = {} THEN known
                   ELSE [known EXCEPT ![p][l.kind] =
                           [names |-> l.names, until |-> now + TTL, overtaken |-> l.overtaken]]
    /\ UNCHANGED <<threads, list, request, now, writes, loads>>

\* Variant: invalidate_bank_cache is not called.
KeptCaches(p) ==
    /\ loading' = [q \in Processes |->
                     IF loading[q] = Resting THEN Resting ELSE [loading[q] EXCEPT !.overtaken = TRUE]]
    /\ UNCHANGED known

\* invalidate_bank_cache, in the process of the request.
Invalidated(p) ==
    /\ known' = [known EXCEPT ![p] = [k \in Kinds |-> NotCached]]
    /\ loading' = [q \in Processes |->
                     IF loading[q] = Resting THEN Resting ELSE [loading[q] EXCEPT !.overtaken = TRUE]]

ListChanged(p, new) ==
    /\ Write /\ Invalidated(p)
    /\ listed' = new
    /\ changed' = [n \in Names |-> IF new[n] = listed[n] THEN changed[n] ELSE [at |-> now, by |-> p]]
    /\ UNCHANGED <<threads, request, now>>

\* A new name, or one that is taken off the list or put back on it.
AddName(p, n) == listed[n] = "none" /\ ListChanged(p, [listed EXCEPT ![n] = "active"])

SetActive(p, n) ==
    /\ listed[n] # "none"
    /\ \E state \in {"active", "inactive"} \ {listed[n]} : ListChanged(p, [listed EXCEPT ![n] = state])

\* The files keep the old name.
Rename(p, n, m) ==
    /\ listed[n] # "none" /\ listed[m] = "none"
    /\ ListChanged(p, [listed EXCEPT ![n] = "none", ![m] = listed[n]])

-----------------------------------------------------------------------------
(* Shares.                                                                 *)

\* The name is checked and the row read; the write comes later.
ShareRead(r, p, f, at, by) ==
    /\ request[r] = Resting /\ Write
    /\ f[2] \in NamesAt(p, "active")
    /\ request' = [request EXCEPT ![r] = [at |-> "share", file |-> f, seen |-> file[f],
                                          shared |-> at, by |-> by]]
    /\ UNCHANGED <<threads, list, caches, now>>

\* Only what was missing in the row as it was read is written.
Filled(old, q) ==
    [old EXCEPT !.at = IF q.seen.at = NoTime /\ q.shared # NoTime THEN q.shared ELSE @,
                !.by = IF q.seen.by = Nobody /\ q.by # Nobody THEN q.by ELSE @]

\* A row is inserted where none was seen, unless (lead, bank) is there by now; a row that
\* was seen is filled in, unless it is gone by now.  Otherwise the request fails.
ShareWrite(r) ==
    LET q == request[r]  f == q.file IN
    /\ q.at = "share"
    /\ request' = [request EXCEPT ![r] = Resting]
    /\ file' = CASE ~q.seen.there /\ ~file[f].there ->
                       [file EXCEPT ![f] = [there |-> TRUE, by |-> q.by,
                            at |-> IF q.shared # NoTime THEN q.shared ELSE now + 1]]
                 [] q.seen.there /\ file[f].there -> [file EXCEPT ![f] = Filled(@, q)]
                 [] OTHER -> file
    /\ UNCHANGED <<lines, stored, list, caches, now, writes, loads>>

\* add_bank, from the screen: nothing is said of the share.
AddFile(p, f) ==
    /\ Write /\ f[2] \in NamesAt(p, "active") /\ ~file[f].there
    /\ file' = [file EXCEPT ![f] = [Absent EXCEPT !.there = TRUE]]
    /\ UNCHANGED <<lines, stored, list, caches, request, now>>

\* delete_bank_entry: its conversation goes with it.
DeleteFile(f) ==
    /\ Write /\ file[f].there
    /\ file' = [file EXCEPT ![f] = Absent]
    /\ lines' = {m \in lines : m.file # f}
    /\ stored' = {s \in stored : s.file # f}
    /\ UNCHANGED <<list, caches, request, now>>

-----------------------------------------------------------------------------
(* Messages.                                                               *)

Dupes(id) == {m \in lines : m.id = id /\ id # NoId}

Answered(id, f) == stored' = stored \cup (IF id = NoId THEN {} ELSE {[id |-> id, file |-> f]})

\* The share must be there; a message that is known is answered with its row.
MessageRead(r, f, id) ==
    /\ request[r] = Resting /\ Write /\ file[f].there
    /\ IF Dupes(id) # {}
       THEN Answered(id, f) /\ UNCHANGED request
       ELSE /\ request' = [request EXCEPT ![r] = [at |-> "message", file |-> f, id |-> id]]
            /\ UNCHANGED stored
    /\ UNCHANGED <<file, lines, list, caches, now>>

\* Variant: the id is not unique in the table.
InsertsAnyway(q) == file[q.file].there

\* The partial unique index on the id, the foreign key to the file.
Inserts(q) == Dupes(q.id) = {} /\ file[q.file].there

\* The loser of a race answers with the winner's row.
MessageWrite(r) ==
    LET q == request[r] IN
    /\ q.at = "message"
    /\ request' = [request EXCEPT ![r] = Resting]
    /\ IF Inserts(q)
       THEN /\ lines' = lines \cup {[id |-> q.id, file |-> q.file, no |-> Cardinality(lines)]}
            /\ Answered(q.id, q.file)
       ELSE /\ UNCHANGED lines
            /\ IF Dupes(q.id) # {} THEN Answered(q.id, q.file) ELSE UNCHANGED stored
    /\ UNCHANGED <<file, list, caches, now, writes, loads>>

Tick == now < MaxTime /\ now' = now + 1 /\ UNCHANGED <<threads, list, caches, request, writes, loads>>

-----------------------------------------------------------------------------
(* The grid: a row for a lead, a column for a name.                        *)

GridLeads(sharedOnly, names) ==
    {l \in Leads : (sharedOnly \/ names # {}) =>
        \E n \in Names : file[<<l, n>>].there /\ (names # {} => n \in names)}

Cells(l) == {n \in Names : file[<<l, n>>].there}
Columns(p) == NamesAt(p, "all")

-----------------------------------------------------------------------------
ListStep(p) ==
    \/ \E kind \in Kinds : LoadNames(p, kind)
    \/ StoreNames(p)
    \/ \E n \in Names : AddName(p, n) \/ SetActive(p, n) \/ (\E m \in Names : Rename(p, n, m))

BotStep(r) ==
    \/ \E p \in Processes, f \in Files, at \in Times \cup {NoTime}, by \in Users \cup {Nobody} :
          ShareRead(r, p, f, at, by)
    \/ ShareWrite(r)
    \/ \E id \in MessageIds : MessageRead(r, About[id], id)
    \/ \E f \in Files : MessageRead(r, f, NoId)
    \/ MessageWrite(r)

Next ==
    \/ \E p \in Processes : ListStep(p) \/ (\E f \in Files : AddFile(p, f))
    \/ \E r \in Requests : BotStep(r)
    \/ \E f \in Files : DeleteFile(f)
    \/ Tick

Spec == Init /\ [][Next]_vars

-----------------------------------------------------------------------------
(* Properties.                                                             *)

\* "Redelivery is a no-op": a message of WhatsApp is in one conversation once, and one
\* that the bot was told is stored is in the conversation of the file it is about for
\* as long as the file is there.
ThreadsRight ==
    /\ \A m, k \in lines : (m.id = k.id /\ m.id # NoId) => m = k
    /\ \A s \in stored : \E m \in lines : m.id = s.id /\ m.file = s.file

\* "Takes effect within 60 seconds everywhere", and at once where the change was made:
\* a process is wrong about a name for the time to live at most, unless it stored a list
\* that it queried before the change; so a file has its column in the grid, unless the
\* lender was given another name.  (A table that gives no name is taken for a lost one.)
ListIsCurrent ==
    \A p \in Processes, kind \in Kinds :
      ((Fresh(p, kind) => ~known[p][kind].overtaken) /\ Listed(kind) # {}) =>
        /\ \A n \in Names :
              \/ n \in NamesAt(p, kind) <=> n \in Listed(kind)
              \/ (changed[n].by # p /\ now <= changed[n].at + TTL)
        /\ kind = "all" =>
              \A l \in GridLeads(TRUE, {}) : \A n \in Cells(l) :
                  n \in Columns(p) \/ listed[n] = "none" \/ now <= changed[n].at + TTL

-----------------------------------------------------------------------------
(* What comments and docstrings say and the code does not do.              *)

\* "Never overwrite": two requests that found the row without a time both write theirs.
NeverOverwritten ==
    [][\A f \in Files : (file[f].there /\ file'[f].there /\ file[f].at # NoTime) =>
          file'[f].at = file[f].at]_vars

\* "Dropping its column would make that history invisible": a rename does.
EveryCellHasAColumn ==
    \A p \in Processes, l \in Leads : Cells(l) \subseteq Columns(p)
=============================================================================
