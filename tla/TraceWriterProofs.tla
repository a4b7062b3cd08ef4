-------------------------- MODULE TraceWriterProofs --------------------------
(***************************************************************************)
(* Theorems about TraceWriter for every set of spans, every bound and      *)
(* every set of faults.                                                    *)
(***************************************************************************)
EXTENDS TraceWriter, SequenceTheorems, TLAPS

-----------------------------------------------------------------------------
\* Splicing one position out of a stack: every later element moves down by
\* one and nothing else changes.
LEMMA RemoveAtFacts ==
  ASSUME NEW S, NEW seq \in Seq(S), NEW i \in 1..Len(seq)
  PROVE  /\ RemoveAt(seq, i) \in Seq(S)
         /\ Len(RemoveAt(seq, i)) = Len(seq) - 1
         /\ \A j \in 1..(Len(seq) - 1) :
               RemoveAt(seq, i)[j] = IF j < i THEN seq[j] ELSE seq[j + 1]
  <1> DEFINE l == SubSeq(seq, 1, i - 1)
             r == SubSeq(seq, i + 1, Len(seq))
  <1>1. l \in Seq(S) /\ Len(l) = i - 1 /\ \A k \in 1..(i - 1) : l[k] = seq[k]
    OBVIOUS
  <1>2. /\ r \in Seq(S) /\ Len(r) = Len(seq) - i
        /\ \A k \in 1..(Len(seq) - i) : r[k] = seq[i + k]
    OBVIOUS
  <1>3. RemoveAt(seq, i) = l \o r
    BY DEF RemoveAt
  <1> HIDE DEF l, r
  <1>4. l \o r \in Seq(S) /\ Len(l \o r) = Len(seq) - 1
    <2>1. l \o r \in Seq(S) /\ Len(l \o r) = Len(l) + Len(r)
      BY <1>1, <1>2, ConcatProperties, Zenon
    <2>2. Len(seq) \in Nat /\ i \in Int
      OBVIOUS
    <2> QED BY <2>1, <2>2, <1>1, <1>2
  <1>5. ASSUME NEW j \in 1..(Len(seq) - 1)
        PROVE  (l \o r)[j] = IF j < i THEN seq[j] ELSE seq[j + 1]
    <2>1. CASE j < i
      BY <2>1, <1>1, <1>2
    <2>2. CASE ~(j < i)
      <3>1. (l \o r)[j] = r[j - (i - 1)]
        BY <2>2, <1>1, <1>2
      <3>2. j - (i - 1) \in 1..(Len(seq) - i) /\ i + (j - (i - 1)) = j + 1
        BY <2>2
      <3> QED BY <3>1, <3>2, <2>2, <1>2
    <2> QED BY <2>1, <2>2
  <1> QED BY <1>3, <1>4, <1>5

\* In a stack that holds each element once, RemoveFirst splices out the one
\* position of the element.
LEMMA RemoveFirstIsRemoveAt ==
  ASSUME NEW S, NEW seq \in Seq(S), NEW i \in 1..Len(seq),
         \A j, k \in 1..Len(seq) : seq[j] = seq[k] => j = k
  PROVE  RemoveFirst(seq, seq[i]) = RemoveAt(seq, i)
  <1>1. {j \in 1..Len(seq) : seq[j] = seq[i]} = {i}
    OBVIOUS
  <1>2. Min({i}) = i
    BY DEF Min
  <1>3. SelectInSeq(seq, LAMBDA v : v = seq[i]) = i
    BY <1>1, <1>2 DEF SelectInSeq
  <1> QED BY <1>3 DEF RemoveFirst

\* Removing the element at position i of such a stack keeps the other
\* elements, each once and in their order.
LEMMA RemoveFirstFacts ==
  ASSUME NEW S, NEW seq \in Seq(S), NEW e \in ToSet(seq),
         \A j, k \in DOMAIN seq : seq[j] = seq[k] => j = k
  PROVE  LET rest == RemoveFirst(seq, e)
         IN  /\ rest \in Seq(S)
             /\ ToSet(rest) = ToSet(seq) \ {e}
             /\ \E at \in [DOMAIN rest -> DOMAIN seq] :
                   /\ \A j \in DOMAIN rest : rest[j] = seq[at[j]]
                   /\ \A j, k \in DOMAIN rest : at[j] < at[k] <=> j < k
  <1> DEFINE rest == RemoveFirst(seq, e)
  <1>1. PICK i \in 1..Len(seq) : seq[i] = e
    BY DEF ToSet
  <1>2. rest = RemoveAt(seq, i)
    BY <1>1, RemoveFirstIsRemoveAt
  <1> HIDE DEF rest
  <1>3. /\ rest \in Seq(S)
        /\ Len(rest) = Len(seq) - 1
        /\ \A j \in 1..(Len(seq) - 1) :
              rest[j] = IF j < i THEN seq[j] ELSE seq[j + 1]
    <2>1. /\ RemoveAt(seq, i) \in Seq(S)
          /\ Len(RemoveAt(seq, i)) = Len(seq) - 1
          /\ \A j \in 1..(Len(seq) - 1) :
                RemoveAt(seq, i)[j] = IF j < i THEN seq[j] ELSE seq[j + 1]
      BY RemoveAtFacts, Zenon
    <2> QED BY <1>2, <2>1, Zenon
  <1> DEFINE at == [j \in DOMAIN rest |-> IF j < i THEN j ELSE j + 1]
  <1>4. DOMAIN rest = 1..(Len(seq) - 1) /\ DOMAIN seq = 1..Len(seq)
    BY <1>3
  <1>5. /\ at \in [DOMAIN rest -> DOMAIN seq]
        /\ \A j \in DOMAIN rest : rest[j] = seq[at[j]]
        /\ \A j, k \in DOMAIN rest : at[j] < at[k] <=> j < k
    BY <1>3, <1>4
  <1>6. ToSet(rest) \subseteq ToSet(seq) \ {e}
    <2> SUFFICES ASSUME NEW j \in DOMAIN rest
                 PROVE  rest[j] \in ToSet(seq) \ {e}
      BY DEF ToSet
    <2>1. rest[j] = seq[at[j]] /\ at[j] \in DOMAIN seq /\ at[j] # i
      BY <1>4, <1>5
    <2> QED BY <2>1, <1>1, <1>4 DEF ToSet
  <1>7. ToSet(seq) \ {e} \subseteq ToSet(rest)
    <2> SUFFICES ASSUME NEW k \in DOMAIN seq, seq[k] # e
                 PROVE  seq[k] \in ToSet(rest)
      BY DEF ToSet
    <2>1. CASE k < i
      BY <2>1, <1>3, <1>4 DEF ToSet
    <2>2. CASE ~(k < i)
      <3>1. k - 1 \in DOMAIN rest /\ rest[k - 1] = seq[k]
        BY <2>2, <1>1, <1>3, <1>4
      <3> QED BY <3>1 DEF ToSet
    <2> QED BY <2>1, <2>2
  <1> QED BY <1>3, <1>5, <1>6, <1>7 DEF rest

\* What ending a span does to the stacks a sequential client builds: the
\* innermost of two or three spans, and the middle one of three.
LEMMA RemoveFromShortStack ==
  ASSUME NEW S, NEW a \in S, NEW b \in S, a # b
  PROVE  /\ RemoveFirst(<<a, b>>, b) = <<a>>
         /\ \A c \in S : c # a /\ c # b =>
               /\ RemoveFirst(<<a, b, c>>, c) = <<a, b>>
               /\ RemoveFirst(<<a, b, c>>, b) = <<a, c>>
  <1>1. RemoveFirst(<<a, b>>, b) = <<a>>
    <2> DEFINE seq == <<a, b>>
    <2>1. seq \in Seq(S) /\ Len(seq) = 2 /\ seq[1] = a /\ seq[2] = b
      OBVIOUS
    <2>2. \A j, k \in 1..Len(seq) : seq[j] = seq[k] => j = k
      OBVIOUS
    <2> HIDE DEF seq
    <2>3. 2 \in 1..Len(seq)
      BY <2>1
    <2>4. RemoveFirst(seq, seq[2]) = RemoveAt(seq, 2)
      BY <2>1, <2>2, <2>3, RemoveFirstIsRemoveAt
    <2>5. /\ RemoveAt(seq, 2) \in Seq(S) /\ Len(RemoveAt(seq, 2)) = Len(seq) - 1
          /\ \A j \in 1..(Len(seq) - 1) :
                RemoveAt(seq, 2)[j] = IF j < 2 THEN seq[j] ELSE seq[j + 1]
      BY <2>1, <2>3, RemoveAtFacts, Zenon
    <2> DEFINE rest == RemoveAt(seq, 2)
    <2>6. rest \in Seq(S) /\ Len(rest) = 1 /\ rest[1] = a
      BY <2>1, <2>5
    <2> HIDE DEF rest
    <2>7. rest = <<a>>
      BY <2>6
    <2> QED BY <2>1, <2>4, <2>7 DEF seq, rest
  <1>2. ASSUME NEW c \in S, c # a, c # b
        PROVE  /\ RemoveFirst(<<a, b, c>>, c) = <<a, b>>
               /\ RemoveFirst(<<a, b, c>>, b) = <<a, c>>
    <2> DEFINE seq == <<a, b, c>>
    <2>1. /\ seq \in Seq(S) /\ Len(seq) = 3
          /\ seq[1] = a /\ seq[2] = b /\ seq[3] = c
      OBVIOUS
    <2>2. \A j, k \in 1..Len(seq) : seq[j] = seq[k] => j = k
      BY <1>2
    <2> HIDE DEF seq
    <2>3. 2 \in 1..Len(seq) /\ 3 \in 1..Len(seq)
      BY <2>1
    <2>4. ASSUME NEW i \in {2, 3}
          PROVE  /\ RemoveFirst(seq, seq[i]) = RemoveAt(seq, i)
                 /\ RemoveAt(seq, i) \in Seq(S) /\ Len(RemoveAt(seq, i)) = 2
                 /\ RemoveAt(seq, i)[1] = a
                 /\ RemoveAt(seq, i)[2] = IF i = 2 THEN c ELSE b
      <3>1. i \in 1..Len(seq)
        BY <2>3
      <3>2. RemoveFirst(seq, seq[i]) = RemoveAt(seq, i)
        BY <2>1, <2>2, <3>1, RemoveFirstIsRemoveAt
      <3>3. /\ RemoveAt(seq, i) \in Seq(S) /\ Len(RemoveAt(seq, i)) = Len(seq) - 1
            /\ \A j \in 1..(Len(seq) - 1) :
                  RemoveAt(seq, i)[j] = IF j < i THEN seq[j] ELSE seq[j + 1]
        BY <2>1, <3>1, RemoveAtFacts, Zenon
      <3> QED BY <2>1, <3>2, <3>3
    <2> DEFINE without(i) == RemoveAt(seq, i)
    <2>5. /\ without(2) \in Seq(S) /\ Len(without(2)) = 2
          /\ without(2)[1] = a /\ without(2)[2] = c
          /\ without(3) \in Seq(S) /\ Len(without(3)) = 2
          /\ without(3)[1] = a /\ without(3)[2] = b
          /\ RemoveFirst(seq, seq[2]) = without(2)
          /\ RemoveFirst(seq, seq[3]) = without(3)
      BY <2>4
    <2> HIDE DEF without
    <2>6. without(2) = <<a, c>> /\ without(3) = <<a, b>>
      BY <2>5
    <2> QED BY <2>1, <2>5, <2>6 DEF seq
  <1> QED BY <1>1, <1>2

-----------------------------------------------------------------------------
\* The in-memory invariant: none of its parts is inductive alone.  The stack
\* order needs to know that a fresh span is nobody's parent (ParentWasOpened),
\* and what the rows say of a span follows from its handle (RowsFollowHandles).
Inv ==
  /\ TypeOK
  /\ ActiveIsOpen
  /\ ParentBelowChild
  /\ ParentWasOpened
  /\ RowsFollowHandles
  /\ NoOrphanRows

\* startSpan's in-memory half keeps the stack and the map in step: the new
\* span is on top and its parent below it.
LEMMA OpenStep ==
  ASSUME Inv, NEW s \in Span, NEW explicit \in SpanOrNone, OpenInMemory(s, explicit)
  PROVE  /\ ActiveIsOpen'
         /\ ParentBelowChild'
         /\ openSpans' = openSpans \cup {s}
         /\ s \notin openSpans /\ handle[s] = "none"
         /\ \E p \in SpanOrNone : /\ p # NoSpan => p \in openSpans
                                  /\ parent' = [parent EXCEPT ![s] = p]
         /\ activeSpanIds' \in Seq(Span)
  <1> DEFINE p == ResolvedParent(explicit)
             n == Len(activeSpanIds)
  <1>1. /\ activeSpanIds \in Seq(Span) /\ n \in Nat /\ DOMAIN activeSpanIds = 1..n
        /\ parent \in [Span -> SpanOrNone]
    BY DEF Inv, TypeOK
  <1>2. p \in SpanOrNone /\ (p # NoSpan => p \in openSpans)
    <2>1. ASSUME activeSpanIds # <<>>
          PROVE  Last(activeSpanIds) \in Span
      BY <2>1, <1>1 DEF Last
    <2> QED BY <2>1 DEF OpenInMemory, ResolvedParent, SpanOrNone
  <1>3. /\ s \notin openSpans /\ handle[s] = "none"
        /\ openSpans' = openSpans \cup {s}
        /\ parent' = [parent EXCEPT ![s] = p]
        /\ activeSpanIds' = Append(activeSpanIds, s)
    BY DEF OpenInMemory, Fresh
  <1> HIDE DEF p
  <1>4. /\ activeSpanIds' \in Seq(Span)
        /\ DOMAIN activeSpanIds' = 1..(n + 1)
        /\ \A j \in 1..n : activeSpanIds'[j] = activeSpanIds[j]
        /\ activeSpanIds'[n + 1] = s
    BY <1>1, <1>3
  <1>5. \A j \in 1..n : activeSpanIds[j] \in openSpans /\ activeSpanIds[j] # s
    BY <1>1, <1>3 DEF Inv, ActiveIsOpen, ToSet
  <1>6. ActiveIsOpen'
    <2>1. ToSet(activeSpanIds)' = openSpans'
      BY <1>1, <1>3, <1>4 DEF ToSet, Inv, ActiveIsOpen
    <2>2. ASSUME NEW i \in 1..(n + 1), NEW j \in 1..(n + 1),
                 activeSpanIds'[i] = activeSpanIds'[j]
          PROVE  i = j
      <3>1. CASE i \in 1..n /\ j \in 1..n
        BY <3>1, <2>2, <1>1, <1>4 DEF Inv, ActiveIsOpen
      <3>2. CASE i = n + 1 \/ j = n + 1
        BY <3>2, <2>2, <1>1, <1>4, <1>5
      <3> QED BY <3>1, <3>2, <1>1
    <2> QED BY <2>1, <2>2, <1>4 DEF ActiveIsOpen
  <1>7. ParentBelowChild'
    <2> SUFFICES ASSUME NEW i \in 1..(n + 1), NEW j \in 1..(n + 1),
                        parent'[activeSpanIds'[i]] = activeSpanIds'[j]
                 PROVE  j < i
      BY <1>4 DEF ParentBelowChild
    <2>1. CASE i = n + 1
      <3>1. parent'[s] = p
        BY <1>1, <1>3
      <3>2. activeSpanIds'[j] # s
        BY <2>1, <3>1, <1>2, <1>3, <1>4, WriterAssumption
      <3> QED BY <2>1, <3>2, <1>1, <1>4
    <2>2. CASE i \in 1..n /\ j = n + 1
      <3>1. parent[activeSpanIds[i]] = s
        BY <2>2, <1>1, <1>3, <1>4, <1>5
      <3>2. activeSpanIds[i] \in openSpans
        BY <2>2, <1>5
      <3>3. parent[activeSpanIds[i]] # NoSpan
        BY <3>1, WriterAssumption
      <3>4. s \in openSpans \/ handle[s] = "ended"
        BY <3>1, <3>2, <3>3 DEF Inv, ParentWasOpened
      <3> QED BY <3>4, <1>3
    <2>3. CASE i \in 1..n /\ j \in 1..n
      <3>1. parent[activeSpanIds[i]] = activeSpanIds[j]
        BY <2>3, <1>1, <1>3, <1>4, <1>5
      <3> QED BY <2>3, <3>1, <1>1 DEF Inv, ParentBelowChild
    <2> QED BY <2>1, <2>2, <2>3, <1>1
  <1> QED BY <1>2, <1>3, <1>4, <1>6, <1>7

\* end's in-memory half takes the span out of both, wherever it stands.
LEMMA FinishStep ==
  ASSUME Inv, NEW s \in Span, FinishInMemory(s)
  PROVE  /\ ActiveIsOpen'
         /\ ParentBelowChild'
         /\ activeSpanIds' \in Seq(Span)
  <1> DEFINE rest == RemoveFirst(activeSpanIds, s)
  <1>1. /\ activeSpanIds \in Seq(Span)
        /\ ToSet(activeSpanIds) = openSpans
        /\ \A j, k \in DOMAIN activeSpanIds :
              activeSpanIds[j] = activeSpanIds[k] => j = k
    BY DEF Inv, TypeOK, ActiveIsOpen
  <1>2. /\ s \in openSpans /\ openSpans' = openSpans \ {s}
        /\ activeSpanIds' = rest /\ parent' = parent
    BY DEF FinishInMemory
  <1>3. /\ rest \in Seq(Span)
        /\ ToSet(rest) = openSpans \ {s}
        /\ \E at \in [DOMAIN rest -> DOMAIN activeSpanIds] :
              /\ \A j \in DOMAIN rest : rest[j] = activeSpanIds[at[j]]
              /\ \A j, k \in DOMAIN rest : at[j] < at[k] <=> j < k
    <2>1. s \in ToSet(activeSpanIds)
      BY <1>1, <1>2
    <2> USE <1>1, <2>1, RemoveFirstFacts
    <2>2. rest \in Seq(Span)
      OBVIOUS
    <2>3. ToSet(rest) = ToSet(activeSpanIds) \ {s}
      OBVIOUS
    <2>4. \E at \in [DOMAIN rest -> DOMAIN activeSpanIds] :
              /\ \A j \in DOMAIN rest : rest[j] = activeSpanIds[at[j]]
              /\ \A j, k \in DOMAIN rest : at[j] < at[k] <=> j < k
      BY Zenon
    <2> QED BY <2>2, <2>3, <2>4, <1>1
  <1> HIDE DEF rest
  <1>4. PICK at \in [DOMAIN rest -> DOMAIN activeSpanIds] :
              /\ \A j \in DOMAIN rest : rest[j] = activeSpanIds[at[j]]
              /\ \A j, k \in DOMAIN rest : at[j] < at[k] <=> j < k
    BY <1>3
  <1>5. DOMAIN rest \subseteq Nat /\ DOMAIN activeSpanIds \subseteq Nat
    BY <1>1, <1>3
  <1>6. ASSUME NEW i \in DOMAIN rest, NEW j \in DOMAIN rest, rest[i] = rest[j]
        PROVE  i = j
    <2>1. at[i] = at[j]
      BY <1>1, <1>4, <1>6
    <2>2. ~(i < j) /\ ~(j < i)
      BY <2>1, <1>4, <1>5
    <2> QED BY <2>2, <1>5
  <1>7. ASSUME NEW i \in DOMAIN rest, NEW j \in DOMAIN rest, parent[rest[i]] = rest[j]
        PROVE  j < i
    <2>1. at[j] < at[i]
      BY <1>4, <1>7 DEF Inv, ParentBelowChild
    <2> QED BY <2>1, <1>4
  <1> QED BY <1>2, <1>3, <1>6, <1>7 DEF ActiveIsOpen, ParentBelowChild

LEMMA InitInv == Init => Inv
  <1> SUFFICES ASSUME Init PROVE Inv
    OBVIOUS
  <1> USE WriterAssumption DEF Init
  <1>1. TypeOK
    BY DEF TypeOK, SpanOrNone, Row, NoRow
  <1>2. ActiveIsOpen
    BY DEF ActiveIsOpen, ToSet
  <1>3. ParentBelowChild /\ ParentWasOpened
    BY DEF ParentBelowChild, ParentWasOpened
  <1>4. RowsFollowHandles /\ NoOrphanRows
    BY DEF RowsFollowHandles, NoOrphanRows, NoRow
  <1> QED BY <1>1, <1>2, <1>3, <1>4 DEF Inv

\* Both outcomes of startSpan keep the invariant.
LEMMA StartInv ==
  ASSUME Inv, NEW s \in Span, NEW explicit \in SpanOrNone,
         StartSpan(s, explicit) \/ StartSpanUnstored(s, explicit)
  PROVE  Inv'
  <1>1. OpenInMemory(s, explicit)
    BY DEF StartSpan, StartSpanUnstored
  <1>2. /\ ActiveIsOpen' /\ ParentBelowChild'
        /\ openSpans' = openSpans \cup {s}
        /\ s \notin openSpans /\ handle[s] = "none"
        /\ activeSpanIds' \in Seq(Span)
    BY <1>1, OpenStep
  <1>3. PICK p \in SpanOrNone : /\ p # NoSpan => p \in openSpans
                                /\ parent' = [parent EXCEPT ![s] = p]
    BY <1>1, OpenStep
  <1>4. rev' = [rev EXCEPT ![s] = 0] /\ events' = events
    BY <1>1 DEF OpenInMemory
  <1>5. TypeOK
    BY DEF Inv
  <1>6. parent'[s] = p /\ \A x \in Span : x # s => parent'[x] = parent[x]
    BY <1>3, <1>5 DEF TypeOK
  <1> DEFINE new == [status |-> "running", parent |-> p, rev |-> 0]
  <1>7. \/ rows' = [rows EXCEPT ![s] = new] /\ handle' = [handle EXCEPT ![s] = "live"]
        \/ rows' = rows /\ handle' = handle
    BY <1>6 DEF StartSpan, StartSpanUnstored, UpsertSpan, UpsertFails
  <1>12. new \in Row /\ new.status = "running" /\ new.parent = p /\ new.rev = 0
    BY WriterAssumption DEF Row
  <1> HIDE DEF new
  <1>13. /\ rows' \in [Span -> Row] /\ handle' \in [Span -> {"none", "live", "ended"}]
         /\ \A x \in Span : x # s => rows'[x] = rows[x] /\ handle'[x] = handle[x]
         /\ \/ rows'[s] = new /\ handle'[s] = "live"
            \/ rows'[s] = rows[s] /\ handle'[s] = handle[s]
    BY <1>5, <1>7, <1>12 DEF TypeOK
  <1>8. TypeOK'
    <2>1. parent' \in [Span -> SpanOrNone]
      BY <1>3, <1>5 DEF TypeOK
    <2>2. rev' \in [Span -> 0..MaxRev]
      BY <1>4, <1>5, WriterAssumption DEF TypeOK
    <2> QED BY <2>1, <2>2, <1>2, <1>4, <1>5, <1>13 DEF TypeOK
  <1>9. ParentWasOpened'
    <2> SUFFICES ASSUME NEW x \in openSpans', parent'[x] # NoSpan
                 PROVE  parent'[x] \in openSpans' \/ handle'[parent'[x]] = "ended"
      BY DEF ParentWasOpened
    <2>1. CASE x = s
      BY <2>1, <1>2, <1>3, <1>6
    <2>2. CASE x # s
      <3>1. x \in openSpans /\ x \in Span /\ parent'[x] = parent[x]
        BY <2>2, <1>2, <1>5, <1>6 DEF TypeOK
      <3>2. parent[x] \in Span
        BY <3>1, <1>5 DEF TypeOK, SpanOrNone
      <3>3. parent[x] \in openSpans \/ handle[parent[x]] = "ended"
        BY <3>1 DEF Inv, ParentWasOpened
      <3> QED BY <3>1, <3>2, <3>3, <1>2, <1>13
    <2> QED BY <2>1, <2>2
  <1>10. RowsFollowHandles'
    <2> SUFFICES ASSUME NEW x \in Span
                 PROVE  /\ rows'[x].status = "absent" <=> handle'[x] = "none"
                        /\ handle'[x] = "live" => x \in openSpans'
                        /\ x \in openSpans' /\ handle'[x] # "none" =>
                              /\ rows'[x].status = "running"
                              /\ rows'[x].parent = parent'[x]
                              /\ rows'[x].rev <= rev'[x]
      BY DEF RowsFollowHandles
    <2>1. CASE x # s
      BY <2>1, <1>2, <1>4, <1>5, <1>6, <1>13 DEF Inv, RowsFollowHandles, TypeOK
    <2>2. CASE x = s
      BY <2>2, <1>2, <1>4, <1>5, <1>6, <1>12, <1>13, WriterAssumption
         DEF Inv, RowsFollowHandles, TypeOK, Row
    <2> QED BY <2>1, <2>2
  <1>11. NoOrphanRows'
    <2> SUFFICES ASSUME NEW x \in Span, rows'[x].parent # NoSpan
                 PROVE  \/ rows'[rows'[x].parent].status # "absent"
                        \/ rows'[x].parent \in openSpans' /\ handle'[rows'[x].parent] = "none"
      BY DEF NoOrphanRows
    <2>1. ASSUME NEW y \in Span, rows[y].status # "absent"
          PROVE  rows'[y].status # "absent"
      <3>1. CASE y # s
        BY <3>1, <2>1, <1>13
      <3>2. CASE y = s /\ rows'[s] = new
        BY <3>2, <1>12
      <3>3. CASE y = s /\ rows'[s] = rows[s]
        BY <3>3, <2>1
      <3> QED BY <3>1, <3>2, <3>3, <1>13
    <2>2. \A y \in Span : y \in openSpans /\ handle[y] = "none" =>
             rows'[y].status # "absent" \/ (y \in openSpans' /\ handle'[y] = "none")
      BY <1>2, <1>12, <1>13
    <2>3. CASE rows'[x].parent = rows[x].parent
      <3>1. rows[x].parent \in Span
        BY <2>3, <1>5 DEF TypeOK, Row, SpanOrNone
      <3> QED BY <3>1, <2>1, <2>2, <2>3 DEF Inv, NoOrphanRows
    <2>4. CASE rows'[x].parent = p
      <3>1. p \in openSpans /\ p \in Span
        BY <2>4, <1>3, <1>5 DEF TypeOK
      <3>2. rows[p].status # "absent" \/ handle[p] = "none"
        BY <3>1 DEF Inv, RowsFollowHandles
      <3> QED BY <3>1, <3>2, <2>1, <2>2, <2>4
    <2>5. rows'[x].parent = rows[x].parent \/ rows'[x].parent = p
      <3>1. CASE x # s
        BY <3>1, <1>13
      <3>2. CASE x = s /\ rows'[s] = new
        BY <3>2, <1>12
      <3>3. CASE x = s /\ rows'[s] = rows[s]
        BY <3>3
      <3> QED BY <3>1, <3>2, <3>3, <1>13
    <2> QED BY <2>3, <2>4, <2>5
  <1> QED BY <1>2, <1>8, <1>9, <1>10, <1>11 DEF Inv

\* NoOrphanRows only depends on which rows exist, under which parents, and on
\* which spans are open without a handle.
LEMMA NoOrphanFrame ==
  ASSUME Inv,
         \A x \in Span : rows'[x].parent = rows[x].parent,
         \A x \in Span : rows[x].status # "absent" => rows'[x].status # "absent",
         \A x \in openSpans : handle[x] = "none" => x \in openSpans' /\ handle'[x] = "none"
  PROVE  NoOrphanRows'
  <1> SUFFICES ASSUME NEW x \in Span, rows'[x].parent # NoSpan
               PROVE  \/ rows'[rows'[x].parent].status # "absent"
                      \/ rows'[x].parent \in openSpans' /\ handle'[rows'[x].parent] = "none"
    BY DEF NoOrphanRows
  <1>1. rows[x].parent \in Span
    BY DEF Inv, TypeOK, Row, SpanOrNone
  <1> QED BY <1>1 DEF Inv, NoOrphanRows

\* Both outcomes of update keep the invariant.
LEMMA UpdateInv ==
  ASSUME Inv, NEW s \in Span, UpdateSpan(s) \/ UpdateSpanUnstored(s)
  PROVE  Inv'
  <1>1. UpdateInMemory(s) /\ TypeOK
    BY DEF UpdateSpan, UpdateSpanUnstored, Inv
  <1>2. /\ handle[s] = "live" /\ s \in openSpans /\ rev[s] < MaxRev
        /\ rev' = [rev EXCEPT ![s] = @ + 1]
        /\ openSpans' = openSpans /\ parent' = parent /\ handle' = handle
        /\ activeSpanIds' = activeSpanIds /\ events' = events
    BY <1>1 DEF UpdateInMemory
  <1>3. /\ rev' \in [Span -> 0..MaxRev] /\ rev'[s] = rev[s] + 1
        /\ \A x \in Span : x # s => rev'[x] = rev[x]
    BY <1>1, <1>2, WriterAssumption DEF TypeOK
  <1> DEFINE new == [status |-> "running", parent |-> parent[s], rev |-> rev'[s]]
  <1>4. rows' = [rows EXCEPT ![s] = new] \/ rows' = rows
    BY DEF UpdateSpan, UpdateSpanUnstored, UpsertSpan, UpsertFails
  <1>5. /\ new \in Row /\ new.status = "running"
        /\ new.parent = parent[s] /\ new.rev = rev'[s]
    BY <1>1, <1>3 DEF Row, TypeOK
  <1> HIDE DEF new
  <1>6. /\ rows' \in [Span -> Row]
        /\ \A x \in Span : x # s => rows'[x] = rows[x]
        /\ rows'[s] = new \/ rows'[s] = rows[s]
    BY <1>1, <1>4, <1>5 DEF TypeOK
  <1>7. TypeOK'
    BY <1>1, <1>2, <1>3, <1>6 DEF TypeOK
  <1>8. ActiveIsOpen' /\ ParentBelowChild' /\ ParentWasOpened'
    BY <1>2 DEF Inv, ActiveIsOpen, ParentBelowChild, ParentWasOpened
  <1>9. /\ rows[s].status = "running" /\ rows[s].parent = parent[s] /\ rows[s].rev <= rev[s]
        /\ rows[s].rev \in Int /\ rev[s] \in Int
    BY <1>1, <1>2 DEF Inv, RowsFollowHandles, TypeOK, Row
  <1>10. /\ rows'[s].status = "running" /\ rows'[s].parent = parent[s]
         /\ rows'[s].rev <= rev'[s]
    BY <1>3, <1>5, <1>6, <1>9
  <1>11. RowsFollowHandles'
    <2> SUFFICES ASSUME NEW x \in Span
                 PROVE  /\ rows'[x].status = "absent" <=> handle'[x] = "none"
                        /\ handle'[x] = "live" => x \in openSpans'
                        /\ x \in openSpans' /\ handle'[x] # "none" =>
                              /\ rows'[x].status = "running"
                              /\ rows'[x].parent = parent'[x]
                              /\ rows'[x].rev <= rev'[x]
      BY DEF RowsFollowHandles
    <2>1. CASE x # s
      BY <2>1, <1>2, <1>3, <1>6 DEF Inv, RowsFollowHandles
    <2>2. CASE x = s
      BY <2>2, <1>2, <1>10
    <2> QED BY <2>1, <2>2
  <1>12. NoOrphanRows'
    <2>1. \A x \in Span : rows'[x].parent = rows[x].parent
      BY <1>6, <1>9, <1>10
    <2>2. \A x \in Span : rows[x].status # "absent" => rows'[x].status # "absent"
      BY <1>6, <1>10
    <2> QED BY <2>1, <2>2, <1>2, NoOrphanFrame
  <1> QED BY <1>7, <1>8, <1>11, <1>12 DEF Inv

\* Both outcomes of end that get past validation keep the invariant.
LEMMA FinishInv ==
  ASSUME Inv, NEW s \in Span,
         (\E status \in FinalStatus : FinishSpan(s, status)) \/ FinishSpanUnstored(s)
  PROVE  Inv'
  <1>1. FinishInMemory(s) /\ TypeOK
    BY DEF FinishSpan, FinishSpanUnstored, Inv
  <1>2. ActiveIsOpen' /\ ParentBelowChild' /\ activeSpanIds' \in Seq(Span)
    BY <1>1, FinishStep
  <1>3. /\ handle[s] = "live" /\ s \in openSpans
        /\ handle' = [handle EXCEPT ![s] = "ended"]
        /\ openSpans' = openSpans \ {s}
        /\ parent' = parent /\ rev' = rev /\ events' = events
    BY <1>1 DEF FinishInMemory
  <1>4. PICK status \in FinalStatus :
           \/ rows' = [rows EXCEPT ![s] = [status |-> status, parent |-> parent[s], rev |-> rev[s]]]
           \/ rows' = rows
    BY DEF FinishSpan, FinishSpanUnstored, UpsertSpan, UpsertFails, FinalStatus
  <1> DEFINE new == [status |-> status, parent |-> parent[s], rev |-> rev[s]]
  <1>5. new \in Row /\ new.status = status /\ new.parent = parent[s]
    BY <1>1 DEF Row, TypeOK
  <1>6. rows' = [rows EXCEPT ![s] = new] \/ rows' = rows
    BY <1>4
  <1> HIDE DEF new
  <1>7. /\ rows' \in [Span -> Row] /\ handle' \in [Span -> {"none", "live", "ended"}]
        /\ \A x \in Span : x # s => rows'[x] = rows[x] /\ handle'[x] = handle[x]
        /\ handle'[s] = "ended"
        /\ rows'[s] = new \/ rows'[s] = rows[s]
    BY <1>1, <1>3, <1>5, <1>6 DEF TypeOK
  <1>8. TypeOK'
    BY <1>1, <1>2, <1>3, <1>7 DEF TypeOK
  <1>9. ParentWasOpened'
    <2> SUFFICES ASSUME NEW x \in openSpans', parent'[x] # NoSpan
                 PROVE  parent'[x] \in openSpans' \/ handle'[parent'[x]] = "ended"
      BY DEF ParentWasOpened
    <2>1. x \in openSpans /\ parent'[x] = parent[x] /\ parent[x] \in Span
      BY <1>1, <1>3 DEF TypeOK, SpanOrNone
    <2>2. parent[x] \in openSpans \/ handle[parent[x]] = "ended"
      BY <2>1 DEF Inv, ParentWasOpened
    <2> QED BY <2>1, <2>2, <1>3, <1>7
  <1>10. rows[s].status = "running" /\ rows[s].parent = parent[s]
    BY <1>3 DEF Inv, RowsFollowHandles
  <1>11. rows'[s].status # "absent" /\ rows'[s].parent = rows[s].parent
    BY <1>5, <1>7, <1>10 DEF FinalStatus
  <1>12. RowsFollowHandles'
    <2> SUFFICES ASSUME NEW x \in Span
                 PROVE  /\ rows'[x].status = "absent" <=> handle'[x] = "none"
                        /\ handle'[x] = "live" => x \in openSpans'
                        /\ x \in openSpans' /\ handle'[x] # "none" =>
                              /\ rows'[x].status = "running"
                              /\ rows'[x].parent = parent'[x]
                              /\ rows'[x].rev <= rev'[x]
      BY DEF RowsFollowHandles
    <2>1. CASE x # s
      BY <2>1, <1>3, <1>7 DEF Inv, RowsFollowHandles
    <2>2. CASE x = s
      BY <2>2, <1>3, <1>7, <1>11
    <2> QED BY <2>1, <2>2
  <1>13. NoOrphanRows'
    <2>1. \A x \in Span : rows'[x].parent = rows[x].parent
      BY <1>7, <1>11
    <2>2. \A x \in Span : rows[x].status # "absent" => rows'[x].status # "absent"
      BY <1>7, <1>11
    <2>3. \A x \in openSpans :
             handle[x] = "none" => x \in openSpans' /\ handle'[x] = "none"
      BY <1>1, <1>3, <1>7 DEF TypeOK
    <2> QED BY <2>1, <2>2, <2>3, NoOrphanFrame
  <1> QED BY <1>2, <1>8, <1>9, <1>12, <1>13 DEF Inv

\* An end that the schema rejects spends the handle and touches nothing else.
LEMMA RejectedInv ==
  ASSUME Inv, NEW s \in Span, FinishSpanRejected(s)
  PROVE  Inv'
  <1>1. /\ handle[s] = "live" /\ handle' = [handle EXCEPT ![s] = "ended"]
        /\ openSpans' = openSpans /\ parent' = parent /\ rev' = rev
        /\ activeSpanIds' = activeSpanIds /\ rows' = rows /\ events' = events
    BY DEF FinishSpanRejected
  <1>2. TypeOK
    BY DEF Inv
  <1>3. /\ handle' \in [Span -> {"none", "live", "ended"}] /\ handle'[s] = "ended"
        /\ \A x \in Span : x # s => handle'[x] = handle[x]
    BY <1>1, <1>2 DEF TypeOK
  <1>4. TypeOK'
    BY <1>1, <1>2, <1>3 DEF TypeOK
  <1>5. ActiveIsOpen' /\ ParentBelowChild'
    BY <1>1 DEF Inv, ActiveIsOpen, ParentBelowChild
  <1>6. ParentWasOpened'
    <2> SUFFICES ASSUME NEW x \in openSpans, parent[x] # NoSpan
                 PROVE  parent[x] \in openSpans \/ handle'[parent[x]] = "ended"
      BY <1>1 DEF ParentWasOpened
    <2>1. parent[x] \in Span
      BY <1>2 DEF TypeOK, SpanOrNone
    <2> QED BY <2>1, <1>3 DEF Inv, ParentWasOpened
  <1>7. RowsFollowHandles'
    BY <1>1, <1>3 DEF Inv, RowsFollowHandles
  <1>8. NoOrphanRows'
    <2>1. \A x \in openSpans : handle[x] = "none" => handle'[x] = "none"
      BY <1>1, <1>2, <1>3 DEF TypeOK
    <2> QED BY <2>1, <1>1, NoOrphanFrame
  <1> QED BY <1>4, <1>5, <1>6, <1>7, <1>8 DEF Inv

\* An event only extends the log.
LEMMA RecordInv ==
  ASSUME Inv, NEW e \in SpanOrNone, RecordEvent(e)
  PROVE  Inv'
  <1>1. /\ openSpans' = openSpans /\ parent' = parent /\ rev' = rev
        /\ activeSpanIds' = activeSpanIds /\ handle' = handle /\ rows' = rows
        /\ events' = Append(events, e)
    BY DEF RecordEvent, memory
  <1>2. TypeOK'
    <2>1. events' \in Seq(SpanOrNone)
      BY <1>1 DEF Inv, TypeOK
    <2> QED BY <2>1, <1>1 DEF Inv, TypeOK
  <1> QED
    BY <1>1, <1>2 DEF Inv, ActiveIsOpen, ParentBelowChild, ParentWasOpened,
                      RowsFollowHandles, NoOrphanRows

LEMMA NextInv == Inv /\ [Next]_vars => Inv'
  <1> SUFFICES ASSUME Inv, [Next]_vars PROVE Inv'
    OBVIOUS
  <1>1. ASSUME NEW s \in Span, NEW explicit \in SpanOrNone,
               StartSpan(s, explicit) \/ StartSpanUnstored(s, explicit)
        PROVE  Inv'
    BY <1>1, StartInv
  <1>2. ASSUME NEW s \in Span, UpdateSpan(s) \/ UpdateSpanUnstored(s)
        PROVE  Inv'
    BY <1>2, UpdateInv
  <1>3. ASSUME NEW s \in Span,
               (\E status \in FinalStatus : FinishSpan(s, status)) \/ FinishSpanUnstored(s)
        PROVE  Inv'
    BY <1>3, FinishInv
  <1>4. ASSUME NEW s \in Span, FinishSpanRejected(s)
        PROVE  Inv'
    BY <1>4, RejectedInv
  <1>5. ASSUME NEW s \in Span, HandleEvent(s)
        PROVE  Inv'
    BY <1>5, RecordInv DEF HandleEvent, SpanOrNone
  <1>6. ASSUME NEW e \in SpanOrNone, RecordEvent(e)
        PROVE  Inv'
    BY <1>6, RecordInv
  <1>7. CASE UNCHANGED vars
    BY <1>7 DEF vars, Inv, TypeOK, ActiveIsOpen, ParentBelowChild, ParentWasOpened,
                RowsFollowHandles, NoOrphanRows
  <1> QED BY <1>1, <1>2, <1>3, <1>4, <1>5, <1>6, <1>7 DEF Next

\* Whatever calls are made in whatever order and whatever fails, the writer's
\* memory, its handles and the stored rows keep all parts of the invariant.
THEOREM WriterInvariant == Spec => []Inv
  BY InitInv, NextInv, PTL DEF Spec

\* The writer's maps and the store's tables keep their shape.
THEOREM TypeCorrect == Spec => []TypeOK
  <1>1. Inv => TypeOK
    BY DEF Inv
  <1> QED BY <1>1, WriterInvariant, PTL

\* The nesting stack holds exactly the open spans, each once and above its
\* parent, so nesting is acyclic.
THEOREM NestingCorrect == Spec => []NestingIsSound
  <1>1. Inv => NestingIsSound
    BY DEF Inv, NestingIsSound
  <1> QED BY <1>1, WriterInvariant, PTL

\* A row follows its handle, and a stored span's parent is stored unless its
\* insert failed.
THEOREM RowsCorrect == Spec => []RowsAreTrue
  <1>1. Inv => RowsAreTrue
    BY DEF Inv, RowsAreTrue
  <1> QED BY <1>1, WriterInvariant, PTL

-----------------------------------------------------------------------------
\* The step lemma behind StoreFaithful: what a failure leaves behind is exactly
\* what StuckRowExplained and StoreMirrorsMemory say, call by call.
LEMMA FaithfulStep ==
  Inv /\ StuckRowExplained /\ StoreMirrorsMemory /\ [Next]_vars
    => StuckRowExplained' /\ StoreMirrorsMemory'
  <1> SUFFICES ASSUME Inv, StuckRowExplained, StoreMirrorsMemory, [Next]_vars
               PROVE  StuckRowExplained' /\ StoreMirrorsMemory'
    OBVIOUS
  <1> DEFINE InMemory(x) == [status |-> "running", parent |-> parent[x], rev |-> rev[x]]
             Explained(x) ==
               handle[x] = "ended" /\ rows[x].status = "running"
                 => IF x \in openSpans THEN "schema" \in Faults ELSE "store" \in Faults
             Mirrored(x) ==
               "store" \notin Faults =>
                 /\ x \in openSpans => rows[x] = InMemory(x)
                 /\ handle[x] = "ended" /\ x \notin openSpans => rows[x].status \in FinalStatus
  <1>1. SUFFICES ASSUME NEW x \in Span
                 PROVE  Explained(x)' /\ Mirrored(x)'
    BY DEF StuckRowExplained, StoreMirrorsMemory
  <1>2. Explained(x) /\ Mirrored(x)
    BY DEF StuckRowExplained, StoreMirrorsMemory
  <1>3. TypeOK
    BY DEF Inv
  <1>4. ASSUME NEW s \in Span, NEW explicit \in SpanOrNone, StartSpan(s, explicit)
        PROVE  Explained(x)' /\ Mirrored(x)'
    <2>1. OpenInMemory(s, explicit)
      BY <1>4 DEF StartSpan
    <2>2. /\ openSpans' = openSpans \cup {s} /\ s \notin openSpans
          /\ rev' = [rev EXCEPT ![s] = 0]
          /\ \A y \in Span : y # s => parent'[y] = parent[y]
      BY <2>1, OpenStep, <1>3 DEF OpenInMemory, TypeOK
    <2>3. /\ handle' = [handle EXCEPT ![s] = "live"]
          /\ rows' = [rows EXCEPT ![s] = [status |-> "running", parent |-> parent'[s], rev |-> 0]]
      BY <1>4 DEF StartSpan, UpsertSpan
    <2>4. CASE x = s
      <3>1. handle'[x] = "live" /\ x \in openSpans' /\ rev'[x] = 0
        BY <2>2, <2>3, <2>4, <1>3 DEF TypeOK
      <3>2. rows'[x] = [status |-> "running", parent |-> parent'[x], rev |-> 0]
        BY <2>3, <2>4, <1>3 DEF TypeOK
      <3> QED BY <3>1, <3>2
    <2>5. CASE x # s
      <3>1. /\ handle'[x] = handle[x] /\ rows'[x] = rows[x] /\ rev'[x] = rev[x]
            /\ x \in openSpans' <=> x \in openSpans
        BY <2>2, <2>3, <2>5, <1>3 DEF TypeOK
      <3> QED BY <3>1, <1>2, <2>2, <2>5
    <2> QED BY <2>4, <2>5
  <1>5. ASSUME NEW s \in Span, NEW explicit \in SpanOrNone, StartSpanUnstored(s, explicit)
        PROVE  Explained(x)' /\ Mirrored(x)'
    <2>1. OpenInMemory(s, explicit) /\ "store" \in Faults /\ rows' = rows /\ handle' = handle
      BY <1>5 DEF StartSpanUnstored, UpsertFails
    <2>2. openSpans' = openSpans \cup {s} /\ s \notin openSpans /\ handle[s] = "none"
      BY <2>1, OpenStep
    <2> QED BY <2>1, <2>2, <1>2
  <1>6. ASSUME NEW s \in Span, UpdateSpan(s) \/ UpdateSpanUnstored(s)
        PROVE  Explained(x)' /\ Mirrored(x)'
    <2>1. /\ handle[s] = "live" /\ s \in openSpans /\ openSpans' = openSpans
          /\ parent' = parent /\ handle' = handle
          /\ \A y \in Span : y # s => rev'[y] = rev[y]
      BY <1>3, <1>6 DEF UpdateSpan, UpdateSpanUnstored, UpdateInMemory, TypeOK
    <2>2. \/ "store" \in Faults /\ rows' = rows
          \/ rows' = [rows EXCEPT ![s] =
                        [status |-> "running", parent |-> parent[s], rev |-> rev'[s]]]
      BY <1>6 DEF UpdateSpan, UpdateSpanUnstored, UpsertSpan, UpsertFails
    <2>3. CASE x # s
      <3>1. rows'[x] = rows[x]
        BY <2>2, <2>3, <1>3 DEF TypeOK
      <3> QED BY <3>1, <2>1, <2>3, <1>2
    <2>4. CASE x = s
      <3>1. "store" \in Faults
            \/ rows'[x] = [status |-> "running", parent |-> parent[x], rev |-> rev'[x]]
        BY <2>2, <2>4, <1>3 DEF TypeOK
      <3> QED BY <3>1, <2>1, <2>4
    <2> QED BY <2>3, <2>4
  <1>7. ASSUME NEW s \in Span, NEW status \in FinalStatus,
               FinishSpan(s, status) \/ FinishSpanUnstored(s)
        PROVE  Explained(x)' /\ Mirrored(x)'
    <2>1. /\ handle[s] = "live" /\ handle' = [handle EXCEPT ![s] = "ended"]
          /\ openSpans' = openSpans \ {s} /\ parent' = parent /\ rev' = rev
      BY <1>7 DEF FinishSpan, FinishSpanUnstored, FinishInMemory
    <2>2. \/ "store" \in Faults /\ rows' = rows
          \/ rows' = [rows EXCEPT ![s] =
                        [status |-> status, parent |-> parent[s], rev |-> rev[s]]]
      BY <1>7 DEF FinishSpan, FinishSpanUnstored, UpsertSpan, UpsertFails
    <2>3. CASE x # s
      <3>1. rows'[x] = rows[x] /\ handle'[x] = handle[x] /\ (x \in openSpans' <=> x \in openSpans)
        BY <2>1, <2>2, <2>3, <1>3 DEF TypeOK
      <3> QED BY <3>1, <2>1, <1>2
    <2>4. CASE x = s
      <3>1. x \notin openSpans'
        BY <2>1, <2>4
      <3>2. "store" \in Faults
            \/ rows'[x] = [status |-> status, parent |-> parent[x], rev |-> rev[x]]
        BY <2>2, <2>4, <1>3 DEF TypeOK
      <3> QED BY <3>1, <3>2 DEF FinalStatus
    <2> QED BY <2>3, <2>4
  <1>8. ASSUME NEW s \in Span, FinishSpanRejected(s)
        PROVE  Explained(x)' /\ Mirrored(x)'
    <2>1. /\ "schema" \in Faults /\ handle[s] = "live" /\ s \in openSpans
          /\ handle' = [handle EXCEPT ![s] = "ended"]
          /\ openSpans' = openSpans /\ parent' = parent /\ rev' = rev /\ rows' = rows
      BY <1>8 DEF FinishSpanRejected, Inv, RowsFollowHandles
    <2>2. x # s => handle'[x] = handle[x]
      BY <2>1, <1>3 DEF TypeOK
    <2> QED BY <2>1, <2>2, <1>2
  <1>9. CASE UNCHANGED <<memory, rows>>
    BY <1>9, <1>2 DEF memory
  <1>10. (\E s \in Span : HandleEvent(s)) \/ (\E e \in SpanOrNone : RecordEvent(e))
           \/ UNCHANGED vars
         => UNCHANGED <<memory, rows>>
    BY DEF HandleEvent, RecordEvent, vars, memory
  <1>11. \E status \in FinalStatus : TRUE
    BY DEF FinalStatus
  <1> HIDE DEF Explained, Mirrored
  <1> QED BY <1>4, <1>5, <1>6, <1>7, <1>8, <1>9, <1>10, <1>11 DEF Next

\* What a failed write leaves behind, and that without one the store mirrors
\* the writer's memory at every instant.
THEOREM StoreFaithful == Spec => [](StuckRowExplained /\ StoreMirrorsMemory)
  <1>1. Init => StuckRowExplained /\ StoreMirrorsMemory
    BY DEF Init, StuckRowExplained, StoreMirrorsMemory
  <1> QED BY <1>1, FaithfulStep, WriterInvariant, PTL DEF Spec

-----------------------------------------------------------------------------
\* Every call of the writer is a step of the abstract trace log, or a stutter
\* when its write failed.
LEMMA LogStep == Inv /\ [Next]_vars => [Log!Next]_(Log!logVars)
  <1> SUFFICES ASSUME Inv, [Next]_vars PROVE [Log!Next]_(Log!logVars)
    OBVIOUS
  <1> USE DEF Log!logVars
  <1>1. TypeOK
    BY DEF Inv
  <1>2. ASSUME NEW s \in Span, NEW explicit \in SpanOrNone, StartSpan(s, explicit)
        PROVE  Log!Next
    <2>1. OpenInMemory(s, explicit) /\ events' = events
      BY <1>2 DEF StartSpan, OpenInMemory
    <2>2. PICK p \in SpanOrNone : /\ p # NoSpan => p \in openSpans
                                  /\ parent' = [parent EXCEPT ![s] = p]
      BY <2>1, OpenStep
    <2>3. rows' = [rows EXCEPT ![s] = [status |-> "running", parent |-> p, rev |-> 0]]
      BY <1>1, <1>2, <2>2 DEF StartSpan, UpsertSpan, TypeOK
    <2>4. rows[s].status = "absent"
      BY <2>1, OpenStep DEF Inv, RowsFollowHandles
    <2>5. p = NoSpan \/ rows[p].status \notin Log!FinalStatus
      <3>1. SUFFICES ASSUME p # NoSpan PROVE rows[p].status \in {"absent", "running"}
        BY DEF Log!FinalStatus
      <3> QED BY <3>1, <2>2, <1>1 DEF Inv, RowsFollowHandles, TypeOK
    <2>6. Log!Open(s, p)
      BY <2>1, <2>3, <2>4, <2>5 DEF Log!Open
    <2> QED BY <2>6 DEF Log!Next, SpanOrNone
  <1>3. ASSUME NEW s \in Span, UpdateSpan(s)
        PROVE  Log!Next
    <2>1. /\ handle[s] = "live" /\ s \in openSpans /\ rev[s] < MaxRev /\ events' = events
          /\ rev'[s] = rev[s] + 1
          /\ rows' = [rows EXCEPT ![s] =
                        [status |-> "running", parent |-> parent[s], rev |-> rev'[s]]]
      BY <1>1, <1>3 DEF UpdateSpan, UpdateInMemory, UpsertSpan, TypeOK
    <2>2. /\ rows[s].status = "running" /\ rows[s].parent = parent[s]
          /\ rows[s].rev <= rev[s] /\ rows[s].rev \in Int /\ rev[s] \in 0..MaxRev
          /\ rows[s] \in Row
      BY <1>1, <2>1 DEF Inv, RowsFollowHandles, TypeOK, Row
    <2>3. rev'[s] \in 0..MaxRev /\ rev'[s] > rows[s].rev
      BY <2>1, <2>2, WriterAssumption
    <2>4. [status |-> "running", parent |-> parent[s], rev |-> rev'[s]]
            = [rows[s] EXCEPT !.rev = rev'[s]]
      BY <2>2 DEF Row
    <2>5. Log!Revise(s, rev'[s])
      BY <2>1, <2>2, <2>3, <2>4 DEF Log!Revise
    <2> QED BY <2>3, <2>5 DEF Log!Next
  <1>4. ASSUME NEW s \in Span, NEW st \in FinalStatus, FinishSpan(s, st)
        PROVE  Log!Next
    <2>1. /\ handle[s] = "live" /\ s \in openSpans /\ events' = events
          /\ rows' = [rows EXCEPT ![s] =
                        [status |-> st, parent |-> parent[s], rev |-> rev[s]]]
      BY <1>4 DEF FinishSpan, FinishInMemory, UpsertSpan
    <2>2. /\ rows[s].status = "running" /\ rows[s].parent = parent[s]
          /\ rows[s].rev <= rev[s] /\ rows[s].rev \in Int /\ rev[s] \in 0..MaxRev
          /\ rows[s] \in Row
      BY <1>1, <2>1 DEF Inv, RowsFollowHandles, TypeOK, Row
    <2>3. Log!Close(s, st, rev[s])
      BY <2>1, <2>2 DEF Log!Close
    <2> QED BY <2>2, <2>3 DEF Log!Next, Log!FinalStatus, FinalStatus
  <1>5. ASSUME NEW e \in SpanOrNone, RecordEvent(e)
        PROVE  Log!Next
    <2>1. /\ e # NoSpan => e \in openSpans /\ handle[e] # "none"
          /\ events' = Append(events, e) /\ rows' = rows
      BY <1>5 DEF RecordEvent
    <2>2. e = NoSpan \/ rows[e].status = "running"
      BY <1>1, <2>1 DEF Inv, RowsFollowHandles, TypeOK
    <2> QED BY <2>1, <2>2 DEF Log!Record, Log!Next, SpanOrNone
  <1>6. ASSUME NEW s \in Span, HandleEvent(s)
        PROVE  Log!Next
    BY <1>5, <1>6 DEF HandleEvent, SpanOrNone
  <1>7. ASSUME NEW s \in Span,
               \/ \E explicit \in SpanOrNone : StartSpanUnstored(s, explicit)
               \/ UpdateSpanUnstored(s) \/ FinishSpanUnstored(s) \/ FinishSpanRejected(s)
        PROVE  UNCHANGED <<rows, events>>
    BY <1>7 DEF StartSpanUnstored, OpenInMemory, UpdateSpanUnstored, UpdateInMemory,
                FinishSpanUnstored, FinishInMemory, FinishSpanRejected, UpsertFails
  <1>8. CASE UNCHANGED vars
    BY <1>8 DEF vars
  <1> QED BY <1>2, <1>3, <1>4, <1>5, <1>6, <1>7, <1>8 DEF Next

\* TraceWriter over a store that may fail implements the abstract trace log.
THEOREM WriterImplementsLog == Spec => RefinesTraceLog
  <1>1. Init => Log!Init
    BY DEF Init, Log!Init, NoRow, Log!NoRow
  <1> QED BY <1>1, LogStep, WriterInvariant, PTL DEF Spec, RefinesTraceLog, Log!Spec
=============================================================================
