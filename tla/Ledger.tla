------------------------------- MODULE Ledger -------------------------------
(***************************************************************************)
(* The ledger as it is written and as it is read.  Recorder.Record takes   *)
(* the time of an entry and appends it afterwards, so entries of two       *)
(* requests may be stored in the other order and, the time being kept in   *)
(* milliseconds, at the same instant.  A reader of GET /v1/audit-events    *)
(* follows next_cursor from the newest page until a page is empty.         *)
(*                                                                         *)
(* The clock ticks in milliseconds: encodeTime and formatTime both cut a   *)
(* time down to them.  Entries are never changed and, as no Pruner is      *)
(* assembled, never deleted.                                               *)
(***************************************************************************)
EXTENDS Naturals, FiniteSets

CONSTANTS
    Entries,       \* entries, each recorded at most once
    AgentOf,       \* AgentOf[e], ServiceOf[e]: the columns one may filter by
    ServiceOf,
    PageLimit,     \* limit of the request (1..maxLimit)
    MaxTime        \* bound: the clock stops here

VARIABLES
    now,        \* the clock, in milliseconds
    prepared,   \* entries with their time taken, not yet appended: a set of rows
    rows,       \* the table audit_events: a set of [id, at]
    reader      \* [at, filter, cursor, wanted, seen]

vars == <<now, prepared, rows, reader>>

Rows == [id : Entries, at : 0..MaxTime]

Filters == [by : {"agent_id"}, value : {AgentOf[e] : e \in Entries}]
              \cup [by : {"service"}, value : {ServiceOf[e] : e \in Entries}]
              \cup [by : {"nothing"}, value : {"none"}]

Unread == [by |-> "nothing", value |-> "none"]

\* Later than any entry: what encodeCursor makes of the zero time.
Newest == MaxTime + 1

\* The rows that have an id, once their time is taken or once they are stored.
Known == {r.id : r \in prepared \cup rows}

Init ==
    /\ now = 0
    /\ prepared = {} /\ rows = {}
    /\ reader = [at |-> "away", filter |-> Unread, cursor |-> Newest,
                 wanted |-> {}, seen |-> {}]

Tick ==
    /\ now < MaxTime
    /\ now' = now + 1
    /\ UNCHANGED <<prepared, rows, reader>>

\* Recorder.prepare: the entry gets its time, whatever the caller said.
Prepare(e) ==
    /\ e \notin Known
    /\ prepared' = prepared \cup {[id |-> e, at |-> now]}
    /\ UNCHANGED <<now, rows, reader>>

\* AuditEvents.Append, called by Recorder.Record.  A write that fails fails
\* the request; the entry is not there.
Append(r) ==
    /\ r \in prepared
    /\ prepared' = prepared \ {r}
    /\ rows' = rows \cup {r}
    /\ UNCHANGED <<now, reader>>

AppendFails(r) ==
    /\ r \in prepared
    /\ prepared' = prepared \ {r}
    /\ UNCHANGED <<now, rows, reader>>

-----------------------------------------------------------------------------
(* Reading page by page *)

EventsByAgent(agent) == {r \in rows : AgentOf[r.id] = agent}

EventsByService(service) == {r \in rows : ServiceOf[r.id] = service}

\* endpoints.ledgerEvents: at most one of the two conditions.
ledgerEvents(filter) ==
    CASE filter.by = "agent_id" -> EventsByAgent(filter.value)
      [] filter.by = "service"  -> EventsByService(filter.value)
      [] OTHER                  -> rows

\* ... WHERE created_at < ? ORDER BY created_at DESC LIMIT ?: the newest rows
\* before the cursor.  Nothing orders the rows of one instant.
Pages(found, before) ==
    LET older == {r \in found : r.at < before}
    IN  {page \in SUBSET older :
            /\ Cardinality(page) <= PageLimit
            /\ Cardinality(page) < PageLimit => page = older
            /\ \A r \in page, s \in older \ page : r.at >= s.at}

\* The time of the last row of a page.
nextCursor(page) == CHOOSE t \in {r.at : r \in page} : \A r \in page : t <= r.at

\* The reader chooses a filter; the first page is read without a cursor.
Open ==
    /\ reader.at = "away"
    /\ \E filter \in Filters :
          reader' = [at |-> "paging", filter |-> filter, cursor |-> Newest,
                     wanted |-> ledgerEvents(filter), seen |-> {}]
    /\ UNCHANGED <<now, prepared, rows>>

\* endpoints.listEvents: a page and its cursor.  An empty page has none:
\* there is nothing older, and the reader stops.
listEvents ==
    /\ reader.at = "paging"
    /\ \E page \in Pages(ledgerEvents(reader.filter), reader.cursor) :
          reader' = IF page = {} THEN [reader EXCEPT !.at = "through"]
                    ELSE [reader EXCEPT !.seen = @ \cup page, !.cursor = nextCursor(page)]
    /\ UNCHANGED <<now, prepared, rows>>

Next ==
    \/ Tick
    \/ \E e \in Entries : Prepare(e)
    \/ \E r \in Rows : Append(r) \/ AppendFails(r)
    \/ Open \/ listEvents

Spec == Init /\ [][Next]_vars

-----------------------------------------------------------------------------
(* Properties *)

\* A reader who follows the cursor until a page is empty has been shown every
\* entry that matched when it began: "Events 按时间倒序翻页", and an empty page
\* means that there are no earlier entries.
PagesShowEverything == reader.at = "through" => reader.wanted \subseteq reader.seen

=============================================================================
