------------------------------ MODULE TraceLog ------------------------------
(***************************************************************************)
(* What the trace of one run promises to whoever reads it: a table of span *)
(* rows and a log of events that only ever grow more final.  It says       *)
(* nothing of the writer, of its memory or of what it does when a write    *)
(* fails; TraceWriter is shown to implement it.                            *)
(***************************************************************************)
EXTENDS Naturals, Sequences

CONSTANTS
  Span,    \* identifiers of spans (randomUUID: never reused)
  NoSpan,  \* "no span": the parent of a root, the span of a run-level event
  MaxRev   \* bound: revisions of one span's payload

VARIABLES
  rows,    \* the spans table, rows[s].status = "absent" before the insert
  events   \* the events table in rowid order, one entry per event: its span

logVars == <<rows, events>>

FinalStatus == {"ok", "error"}   \* stands for "completed", "cancelled" too

RowStatus == {"absent", "running"} \cup FinalStatus

Row == [status : RowStatus, parent : Span \cup {NoSpan}, rev : 0..MaxRev]

NoRow == [status |-> "absent", parent |-> NoSpan, rev |-> 0]

Init ==
  /\ rows = [s \in Span |-> NoRow]
  /\ events = <<>>

\* A span appears as running, under nothing or under a span that has not
\* been seen to finish.
Open(s, p) ==
  /\ rows[s].status = "absent"
  /\ p = NoSpan \/ rows[p].status \notin FinalStatus
  /\ rows' = [rows EXCEPT ![s] = [status |-> "running", parent |-> p, rev |-> 0]]
  /\ UNCHANGED events

\* A running span moves on to a later revision of its payload.
Revise(s, r) ==
  /\ rows[s].status = "running"
  /\ r > rows[s].rev
  /\ rows' = [rows EXCEPT ![s].rev = r]
  /\ UNCHANGED events

\* A running span finishes; the final payload is never an older one.
Close(s, st, r) ==
  /\ rows[s].status = "running"
  /\ r >= rows[s].rev
  /\ rows' = [rows EXCEPT ![s] = [status |-> st, parent |-> @.parent, rev |-> r]]
  /\ UNCHANGED events

\* An event is appended for the run or for a span that is known to the
\* reader and has not finished.
Record(e) ==
  /\ e = NoSpan \/ rows[e].status = "running"
  /\ events' = Append(events, e)
  /\ UNCHANGED rows

Next ==
  \/ \E s \in Span, p \in Span \cup {NoSpan} : Open(s, p)
  \/ \E s \in Span, r \in 0..MaxRev : Revise(s, r)
  \/ \E s \in Span, st \in FinalStatus, r \in 0..MaxRev : Close(s, st, r)
  \/ \E e \in Span \cup {NoSpan} : Record(e)

Spec == Init /\ [][Next]_logVars
=============================================================================
