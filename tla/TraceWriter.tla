----------------------------- MODULE TraceWriter -----------------------------
(***************************************************************************)
(* TraceWriter (packages/tracing) over a TracePersistence, which in the    *)
(* program is SqliteTraceStore (packages/storage).  One writer serves one  *)
(* run and is driven from one JavaScript thread, so a call is one step;    *)
(* what makes it delicate is that a call may fail half-way, after the      *)
(* in-memory half and before the persisted half, and that its callers do   *)
(* not have to end spans in the order they opened them.                    *)
(*                                                                         *)
(* Two kinds of failure are modelled, each enabled by a member of Faults:  *)
(*   "store"   persistence.upsertSpan throws (disk full, SQLITE_BUSY)      *)
(*   "schema"  SpanSchema.parse throws in finishSpan (the clock stepped    *)
(*             back, the error message is longer than 8192 characters)     *)
(* A throw that changes nothing (an unknown parent, a payload the schema   *)
(* rejects in startSpan or update, appendEvent failing) is a stutter.      *)
(***************************************************************************)
EXTENDS Naturals, Sequences, SequencesExt

CONSTANTS
  Span,       \* identifiers of spans
  NoSpan,     \* "null" for a parent or an event's span
  MaxRev,     \* bound: updates of one span
  MaxEvents,  \* bound: events of one trace
  Faults      \* the failures that may happen

ASSUME WriterAssumption ==
  /\ NoSpan \notin Span
  /\ MaxRev \in Nat
  /\ MaxEvents \in Nat
  /\ Faults \subseteq {"store", "schema"}

VARIABLES
  openSpans,      \* the keys of the openSpans map
  parent,         \* parentSpanId of the span held in memory
  rev,            \* which revision of its payload is held in memory
  activeSpanIds,  \* the nesting stack, innermost last
  handle,         \* the SpanHandle its caller holds: "none", "live", "ended"
  rows,           \* the spans table of the store
  events          \* the events table of the store

memory == <<openSpans, parent, rev, activeSpanIds, handle>>
vars == <<openSpans, parent, rev, activeSpanIds, handle, rows, events>>

SpanOrNone == Span \cup {NoSpan}

FinalStatus == {"ok", "error"}

Row == [status : {"absent", "running"} \cup FinalStatus,
        parent : SpanOrNone,
        rev : 0..MaxRev]

NoRow == [status |-> "absent", parent |-> NoSpan, rev |-> 0]

Init ==
  /\ openSpans = {}
  /\ parent = [s \in Span |-> NoSpan]
  /\ rev = [s \in Span |-> 0]
  /\ activeSpanIds = <<>>
  /\ handle = [s \in Span |-> "none"]
  /\ rows = [s \in Span |-> NoRow]
  /\ events = <<>>

-----------------------------------------------------------------------------
(* SqliteTraceStore: an upsert replaces the whole row of its key. *)
UpsertSpan(s, row) == rows' = [rows EXCEPT ![s] = row]

(* A throwing upsert leaves the table as it was. *)
UpsertFails ==
  /\ "store" \in Faults
  /\ UNCHANGED rows

(* A fresh identifier: randomUUID() never repeats one. *)
Fresh(s) == s \notin openSpans /\ handle[s] = "none"

(* options.parentSpanId ?? this.activeSpanIds.at(-1) ?? null *)
ResolvedParent(explicit) ==
  IF explicit # NoSpan THEN explicit
  ELSE IF activeSpanIds # <<>> THEN Last(activeSpanIds)
  ELSE NoSpan

(* Mutants of OpenInMemory: the stack is extended at the wrong end; the     *)
(* parent's identifier is pushed instead of the span's.                    *)
OpenUnshifts(s, explicit) ==
  /\ Fresh(s)
  /\ ResolvedParent(explicit) \in openSpans \cup {NoSpan}
  /\ openSpans' = openSpans \cup {s}
  /\ parent' = [parent EXCEPT ![s] = ResolvedParent(explicit)]
  /\ activeSpanIds' = <<s>> \o activeSpanIds
  /\ UNCHANGED <<rev, events>>

OpenPushesParent(s, explicit) ==
  /\ Fresh(s)
  /\ ResolvedParent(explicit) \in openSpans \cup {NoSpan}
  /\ openSpans' = openSpans \cup {s}
  /\ parent' = [parent EXCEPT ![s] = ResolvedParent(explicit)]
  /\ activeSpanIds' = Append(activeSpanIds, ResolvedParent(explicit))
  /\ UNCHANGED <<rev, events>>

(* The in-memory half of startSpan, done before the row is written. *)
OpenInMemory(s, explicit) ==
  LET p == ResolvedParent(explicit)
  IN  /\ Fresh(s)
      /\ p # NoSpan => p \in openSpans
      /\ openSpans' = openSpans \cup {s}
      /\ parent' = [parent EXCEPT ![s] = p]
      /\ activeSpanIds' = Append(activeSpanIds, s)
      /\ rev' = [rev EXCEPT ![s] = 0]
      /\ UNCHANGED events

(* startSpan: the caller gets a handle only when the row was written... *)
StartSpan(s, explicit) ==
  /\ OpenInMemory(s, explicit)
  /\ UpsertSpan(s, [status |-> "running", parent |-> parent'[s], rev |-> 0])
  /\ handle' = [handle EXCEPT ![s] = "live"]

(* Mutant: the failed insert is swallowed and a handle returned. *)
StartSpanSwallows(s, explicit) ==
  /\ OpenInMemory(s, explicit)
  /\ UpsertFails
  /\ handle' = [handle EXCEPT ![s] = "live"]

(* ... and otherwise an exception, with the span left open in memory. *)
StartSpanUnstored(s, explicit) ==
  /\ OpenInMemory(s, explicit)
  /\ UpsertFails
  /\ UNCHANGED handle

(* Mutant: neither the ended flag nor the openSpans map is consulted. *)
UpdateUnguarded(s) ==
  /\ handle[s] # "none"
  /\ rev[s] < MaxRev
  /\ rev' = [rev EXCEPT ![s] = @ + 1]
  /\ UNCHANGED <<openSpans, parent, activeSpanIds, handle, events>>

(* The in-memory half of update. *)
UpdateInMemory(s) ==
  /\ handle[s] = "live"
  /\ s \in openSpans
  /\ rev[s] < MaxRev
  /\ rev' = [rev EXCEPT ![s] = @ + 1]
  /\ UNCHANGED <<openSpans, parent, activeSpanIds, handle, events>>

UpdateSpan(s) ==
  /\ UpdateInMemory(s)
  /\ UpsertSpan(s, [status |-> "running", parent |-> parent[s], rev |-> rev'[s]])

UpdateSpanUnstored(s) ==
  /\ UpdateInMemory(s)
  /\ UpsertFails

(* Mutant: the innermost span is popped, whichever span ended. *)
FinishPops(s) ==
  /\ handle[s] = "live"
  /\ handle' = [handle EXCEPT ![s] = "ended"]
  /\ s \in openSpans
  /\ openSpans' = openSpans \ {s}
  /\ activeSpanIds' = Front(activeSpanIds)
  /\ UNCHANGED <<parent, rev, events>>

(* The in-memory half of end: the handle is spent first, then the span     *)
(* leaves the map and the stack, wherever it stands in it.                 *)
FinishInMemory(s) ==
  /\ handle[s] = "live"
  /\ handle' = [handle EXCEPT ![s] = "ended"]
  /\ s \in openSpans
  /\ openSpans' = openSpans \ {s}
  /\ activeSpanIds' = RemoveFirst(activeSpanIds, s)
  /\ UNCHANGED <<parent, rev, events>>

FinishSpan(s, status) ==
  /\ FinishInMemory(s)
  /\ UpsertSpan(s, [status |-> status, parent |-> parent[s], rev |-> rev[s]])

FinishSpanUnstored(s) ==
  /\ FinishInMemory(s)
  /\ UpsertFails

(* SpanSchema.parse throws after the handle was spent: nothing else moves, *)
(* and the span can never be ended again.                                  *)
FinishSpanRejected(s) ==
  /\ "schema" \in Faults
  /\ handle[s] = "live"
  /\ handle' = [handle EXCEPT ![s] = "ended"]
  /\ UNCHANGED <<openSpans, parent, rev, activeSpanIds, rows, events>>

(* recordEvent: for the run, or for a span that is in the openSpans map    *)
(* (its identifier is known from its handle).                              *)
RecordEvent(e) ==
  /\ e # NoSpan => e \in openSpans /\ handle[e] # "none"
  /\ Len(events) < MaxEvents
  /\ events' = Append(events, e)
  /\ UNCHANGED <<memory, rows>>

(* SpanHandle.event *)
HandleEvent(s) ==
  /\ handle[s] = "live"
  /\ RecordEvent(s)

Next ==
  \/ \E s \in Span, explicit \in SpanOrNone :
        StartSpan(s, explicit) \/ StartSpanUnstored(s, explicit)
  \/ \E s \in Span :
        \/ UpdateSpan(s)
        \/ UpdateSpanUnstored(s)
        \/ \E status \in FinalStatus : FinishSpan(s, status)
        \/ FinishSpanUnstored(s)
        \/ FinishSpanRejected(s)
        \/ HandleEvent(s)
  \/ \E e \in SpanOrNone : RecordEvent(e)

Spec == Init /\ [][Next]_vars

-----------------------------------------------------------------------------
\* Every variable keeps its type: the shape of the writer's maps and of the
\* store's tables.
TypeOK ==
  /\ openSpans \subseteq Span
  /\ parent \in [Span -> SpanOrNone]
  /\ rev \in [Span -> 0..MaxRev]
  /\ activeSpanIds \in Seq(Span)
  /\ handle \in [Span -> {"none", "live", "ended"}]
  /\ rows \in [Span -> Row]
  /\ events \in Seq(SpanOrNone)

\* The two in-memory views of "what is running" agree after every call,
\* failed ones included: the stack used to default a parent (startSpan) holds
\* exactly the keys of the openSpans map, each once.
ActiveIsOpen ==
  /\ ToSet(activeSpanIds) = openSpans
  /\ \A i, j \in DOMAIN activeSpanIds :
        activeSpanIds[i] = activeSpanIds[j] => i = j

\* However spans are ended, an open span stands above its parent in the
\* stack as long as both are open, so nesting never has a cycle and the
\* innermost span is never an ancestor of another open one.
ParentBelowChild ==
  \A i, j \in DOMAIN activeSpanIds :
     parent[activeSpanIds[i]] = activeSpanIds[j] => j < i

\* An open span's parent is open, or was ended by its caller; it is never an
\* identifier the writer does not know.
ParentWasOpened ==
  \A s \in openSpans :
     parent[s] # NoSpan => parent[s] \in openSpans \/ handle[parent[s]] = "ended"

\* Store, memory and callers agree on each span's stage, whatever failed: a
\* row exists exactly when the caller got a handle; while the span is open
\* the row is running, under the same parent, and never ahead of memory.
RowsFollowHandles ==
  \A s \in Span :
     /\ rows[s].status = "absent" <=> handle[s] = "none"
     /\ handle[s] = "live" => s \in openSpans
     /\ s \in openSpans /\ handle[s] # "none" =>
           /\ rows[s].status = "running"
           /\ rows[s].parent = parent[s]
           /\ rows[s].rev <= rev[s]

\* A persisted span's parent is persisted too, so a reader can rebuild the
\* tree; the one exception is a parent whose own insert failed, which stays
\* open in memory with no handle to end it (startSpan 98-100).
NoOrphanRows ==
  \A s \in Span :
     LET p == rows[s].parent
     IN  p # NoSpan => \/ rows[p].status # "absent"
                       \/ p \in openSpans /\ handle[p] = "none"

\* A row is left "running" by an ended handle only through a failure, and the
\* two failures differ in what they leave behind: a rejected end leaves the
\* span on the nesting stack, where it adopts later spans; a failed final
\* write does not.
StuckRowExplained ==
  \A s \in Span :
     handle[s] = "ended" /\ rows[s].status = "running"
        => IF s \in openSpans THEN "schema" \in Faults ELSE "store" \in Faults

\* With a store that does not fail, a crash between any two calls loses
\* nothing ("trace writes should be incremental so crashes preserve partial
\* history", docs/build-spec.md): the table holds what memory holds for every
\* open span, and a final row for every ended one.
StoreMirrorsMemory ==
  "store" \notin Faults =>
     \A s \in Span :
        /\ s \in openSpans =>
              rows[s] = [status |-> "running", parent |-> parent[s], rev |-> rev[s]]
        /\ handle[s] = "ended" /\ s \notin openSpans => rows[s].status \in FinalStatus

\* The tree in memory is sound after every call: map and stack agree, and
\* nesting follows the order of opening, so the default parent is right.
NestingIsSound == ActiveIsOpen /\ ParentBelowChild

\* The store tells of every span what its caller did, and under its parent.
RowsAreTrue == RowsFollowHandles /\ NoOrphanRows

\* What a reader of the store sees, whatever fails: rows only get more final,
\* an event never names a span that is unknown or finished.
Log == INSTANCE TraceLog WITH Span <- Span, NoSpan <- NoSpan, MaxRev <- MaxRev,
                              rows <- rows, events <- events
RefinesTraceLog == Log!Spec
=============================================================================
