--------------------------- MODULE EvaluatorProofs ---------------------------
(***************************************************************************)
(* Theorems about Evaluator for any list of validations, however long, any *)
(* outcome of every command and any runs stored before.  They rest on what *)
(* Unique and Total compute, which is shown by induction over sets of      *)
(* numbers, on finite sets counted by a key (KeysAddUp), and on ranks: the *)
(* k-th of some numbers (RankedIsOne, RanksMirror), and the turn of a run  *)
(* among those of its task (TurnsAreTaken).                                *)
(***************************************************************************)
EXTENDS Evaluator, FiniteSetTheorems, TLAPS

-----------------------------------------------------------------------------
(* Numbers: the least one of a set, and induction. *)
LEMMA LeastNumber ==
  ASSUME NEW T, T \subseteq Nat, T # {}
  PROVE  \E x \in T : \A y \in T : x <= y
<1> DEFINE R == {s \in Nat \X Nat : s[1] < s[2]}
<1>1. IsWellFoundedOn(R, Nat)
  BY NatLessThanWellFounded DEF OpToRel
<1>2. PICK x \in T : \A y \in T : ~(<<y, x>> \in R)
  <2> HIDE DEF R
  <2> QED
    BY <1>1, WFMin
<1>3. \A y \in T : x <= y
  <2> SUFFICES ASSUME NEW y \in T PROVE x <= y
    OBVIOUS
  <2>1. <<y, x>> \in Nat \X Nat /\ x \in Nat /\ y \in Nat
    OBVIOUS
  <2>2. <<y, x>>[1] = y /\ <<y, x>>[2] = x
    OBVIOUS
  <2>3. y < x => <<y, x>> \in R
    BY <2>1, <2>2
  <2> QED
    BY <1>2, <2>1, <2>3
<1> QED
  BY <1>3

LEMMA NumbersFrom ==
  ASSUME NEW T, T \subseteq Nat, 0 \in T, \A n \in T : n + 1 \in T
  PROVE  T = Nat
<1>1. SUFFICES ASSUME Nat \ T # {} PROVE FALSE
  OBVIOUS
<1>2. PICK x \in Nat \ T : \A y \in Nat \ T : x <= y
  BY <1>1, LeastNumber
<1>3. x # 0 /\ x - 1 \in Nat /\ x - 1 \notin Nat \ T
  BY <1>2
<1> QED
  BY <1>2, <1>3

(* The place SelectInSeq finds is the first one that passes the test. *)
LEMMA FirstPlace ==
  ASSUME NEW I, I \subseteq Nat, I # {}
  PROVE  Min(I) \in I /\ \A i \in I : Min(I) <= i
  BY LeastNumber DEF Min

(* A definition by recursion over the first N numbers has a solution. *)
Recursed(g, N, base, F) ==
  [n \in 0..N |-> IF n = 0 THEN base ELSE F[<<n, g[n - 1]>>]]

Solves(g, N, V, base, F) == g \in [0..N -> V] /\ g = Recursed(g, N, base, F)

LEMMA Recursion ==
  ASSUME NEW N \in Nat, NEW V, NEW base \in V, NEW F \in [(1..N) \X V -> V]
  PROVE  \E g : Solves(g, N, V, base, F)
<1> DEFINE T == {m \in Nat : m <= N => \E g \in [0..m -> V] : g = Recursed(g, m, base, F)}
<1>1. 0 \in T
  <2> DEFINE g == [n \in 0..0 |-> base]
  <2>1. g \in [0..0 -> V] /\ g = Recursed(g, 0, base, F)
    BY DEF Recursed
  <2> QED
    BY <2>1
<1>2. ASSUME NEW m \in T, m + 1 <= N
      PROVE  \E h \in [0..(m + 1) -> V] : h = Recursed(h, m + 1, base, F)
  <2>1. m \in Nat /\ m <= N
    BY <1>2
  <2>2. PICK g \in [0..m -> V] : g = Recursed(g, m, base, F)
    BY <2>1
  <2>3. g[m] \in V /\ F[<<m + 1, g[m]>>] \in V
    BY <1>2, <2>1
  <2> DEFINE h == [n \in 0..(m + 1) |-> IF n = m + 1 THEN F[<<m + 1, g[m]>>] ELSE g[n]]
  <2>4. \A n \in 0..m : h[n] = g[n]
    BY <2>1
  <2>5. \A n \in 0..(m + 1) : /\ n # 0 => n - 1 \in 0..m
                              /\ n # m + 1 => n \in 0..m
    BY <2>1
  <2>6. h \in [0..(m + 1) -> V]
    BY <2>2, <2>3, <2>5
  <2>7. \A n \in 0..(m + 1) : h[n] = Recursed(h, m + 1, base, F)[n]
    <3> SUFFICES ASSUME NEW n \in 0..(m + 1) PROVE h[n] = Recursed(h, m + 1, base, F)[n]
      OBVIOUS
    <3>1. CASE n = m + 1
      <4>1. h[n] = F[<<m + 1, g[m]>>]
        BY <3>1
      <4>2. n # 0 /\ n - 1 = m /\ h[m] = g[m]
        BY <3>1, <2>1, <2>4
      <4> HIDE DEF h
      <4> QED
        BY <3>1, <4>1, <4>2 DEF Recursed
    <3>2. CASE n # m + 1
      <4>1. n \in 0..m /\ h[n] = g[n]
        BY <3>2, <2>4, <2>5
      <4>2. g[n] = Recursed(g, m, base, F)[n]
        BY <2>2
      <4>3. n # 0 => n - 1 \in 0..m /\ h[n - 1] = g[n - 1]
        BY <2>4, <2>5
      <4> HIDE DEF h
      <4> QED
        BY <4>1, <4>2, <4>3 DEF Recursed
    <3> QED
      BY <3>1, <3>2
  <2>8. h = Recursed(h, m + 1, base, F)
    BY <2>7 DEF Recursed
  <2> QED
    BY <2>6, <2>8
<1>3. \A m \in T : m + 1 \in T
  BY <1>2
<1>4. T = Nat
  <2> HIDE DEF T
  <2>1. T \subseteq Nat
    BY DEF T
  <2> QED
    BY <1>1, <1>3, <2>1, NumbersFrom
<1> QED
  BY <1>4 DEF Solves

-----------------------------------------------------------------------------
(* uniqueSpecs. *)
Kept(specs, g, m) ==
  [n \in 0..m |->
     IF n = 0 THEN <<>>
     ELSE IF \E j \in 1..(n - 1) : specs[j] = specs[n] THEN g[n - 1]
     ELSE Append(g[n - 1], specs[n])]

LEMMA KeptExists ==
  ASSUME NEW S, NEW specs \in Seq(S)
  PROVE  \E g \in [0..Len(specs) -> Seq(S)] : g = Kept(specs, g, Len(specs))
<1> DEFINE N == Len(specs)
           F == [p \in (1..N) \X Seq(S) |->
                   IF \E j \in 1..(p[1] - 1) : specs[j] = specs[p[1]] THEN p[2]
                   ELSE Append(p[2], specs[p[1]])]
<1>1. N \in Nat /\ <<>> \in Seq(S)
  OBVIOUS
<1>2. F \in [(1..N) \X Seq(S) -> Seq(S)]
  <2>1. \A p \in (1..N) \X Seq(S) : p[2] \in Seq(S) /\ specs[p[1]] \in S
    OBVIOUS
  <2> QED
    BY <2>1
<1>3. PICK g \in [0..N -> Seq(S)] : g = Recursed(g, N, <<>>, F)
  <2> DEFINE V == Seq(S)
             none == <<>>
  <2>1. N \in Nat /\ none \in V /\ F \in [(1..N) \X V -> V]
    BY <1>1, <1>2
  <2>2. \E g : Solves(g, N, V, none, F)
    <3> HIDE DEF F, N, V, none
    <3> QED
      BY <2>1, Recursion
  <2> QED
    BY <2>2 DEF Solves
<1>4. ASSUME NEW n \in 0..N
      PROVE  Recursed(g, N, <<>>, F)[n] = Kept(specs, g, N)[n]
  <2>1. CASE n = 0
    BY <2>1 DEF Recursed, Kept
  <2>2. CASE n # 0
    <3>1. n \in 1..N /\ n - 1 \in 0..N /\ g[n - 1] \in Seq(S)
      <4> HIDE DEF F, N
      <4>1. n \in 1..N /\ n - 1 \in 0..N
        BY <1>1, <2>2
      <4> QED
        BY <4>1, <1>3
    <3>2. <<n, g[n - 1]>> \in (1..N) \X Seq(S)
      BY <3>1
    <3>3. F[<<n, g[n - 1]>>] = IF \E j \in 1..(n - 1) : specs[j] = specs[n] THEN g[n - 1]
                              ELSE Append(g[n - 1], specs[n])
      BY <3>2
    <3> HIDE DEF F, N
    <3> QED
      BY <2>2, <3>3 DEF Recursed, Kept
  <2> QED
    BY <2>1, <2>2
<1>5. Recursed(g, N, <<>>, F) = Kept(specs, g, N)
  <2> HIDE DEF F, N
  <2> QED
    BY <1>4 DEF Recursed, Kept
<1> QED
  BY <1>3, <1>5

(* Each spec of the list is kept, and none of them twice. *)
KeptOnce(specs, kept, m) ==
  /\ \A i, j \in DOMAIN kept : kept[i] = kept[j] => i = j
  /\ \A i \in DOMAIN kept : \E j \in 1..m : kept[i] = specs[j]
  /\ \A j \in 1..m : \E i \in DOMAIN kept : kept[i] = specs[j]

LEMMA KeptStep ==
  ASSUME NEW S, NEW specs \in Seq(S), NEW m \in Nat, m + 1 <= Len(specs),
         NEW kept \in Seq(S), KeptOnce(specs, kept, m),
         NEW next,
         next = IF \E j \in 1..m : specs[j] = specs[m + 1] THEN kept
                ELSE Append(kept, specs[m + 1])
  PROVE  next \in Seq(S) /\ KeptOnce(specs, next, m + 1)
<1>1. specs[m + 1] \in S
  OBVIOUS
<1>2. \A j \in 1..(m + 1) : j \in 1..m \/ j = m + 1
  OBVIOUS
<1>3. CASE \E j \in 1..m : specs[j] = specs[m + 1]
  <2>1. next = kept
    BY <1>3
  <2>2. \A j \in 1..m : j \in 1..(m + 1)
    OBVIOUS
  <2>3. \A i \in DOMAIN kept : \E j \in 1..(m + 1) : kept[i] = specs[j]
    BY <2>2 DEF KeptOnce
  <2>4. \A j \in 1..(m + 1) : \E i \in DOMAIN kept : kept[i] = specs[j]
    <3> SUFFICES ASSUME NEW j \in 1..(m + 1)
                 PROVE  \E i \in DOMAIN kept : kept[i] = specs[j]
      OBVIOUS
    <3>1. PICK k \in 1..m : specs[k] = specs[j]
      BY <1>2, <1>3
    <3> QED
      BY <3>1 DEF KeptOnce
  <2>5. \A i, j \in DOMAIN kept : kept[i] = kept[j] => i = j
    BY DEF KeptOnce
  <2>6. KeptOnce(specs, kept, m + 1)
    BY ONLY <2>3, <2>4, <2>5 DEF KeptOnce
  <2> QED
    BY <2>1, <2>6
<1>4. CASE ~\E j \in 1..m : specs[j] = specs[m + 1]
  <2>1. next = Append(kept, specs[m + 1])
    BY <1>4
  <2>2. next \in Seq(S)
    BY <2>1, <1>1
  <2>3. /\ DOMAIN kept = 1..Len(kept) /\ DOMAIN next = 1..(Len(kept) + 1)
        /\ Len(kept) \in Nat
        /\ \A i \in DOMAIN kept : next[i] = kept[i]
        /\ next[Len(kept) + 1] = specs[m + 1]
    BY <2>1, <1>1
  <2>4. \A i \in DOMAIN next : i \in DOMAIN kept \/ i = Len(kept) + 1
    BY <2>3
  <2>5. \A i \in DOMAIN kept : kept[i] # specs[m + 1]
    <3> SUFFICES ASSUME NEW i \in DOMAIN kept PROVE kept[i] # specs[m + 1]
      OBVIOUS
    <3>1. PICK j \in 1..m : kept[i] = specs[j]
      BY DEF KeptOnce
    <3> QED
      BY <3>1, <1>4
  <2>6. ASSUME NEW i \in DOMAIN next, NEW j \in DOMAIN next, next[i] = next[j]
        PROVE  i = j
    <3>1. CASE i \in DOMAIN kept /\ j \in DOMAIN kept
      BY <3>1, <2>3, <2>6 DEF KeptOnce
    <3>2. CASE i \notin DOMAIN kept \/ j \notin DOMAIN kept
      BY <3>2, <2>3, <2>4, <2>5, <2>6
    <3> QED
      BY <3>1, <3>2
  <2>7. \A i \in DOMAIN next : \E j \in 1..(m + 1) : next[i] = specs[j]
    <3> SUFFICES ASSUME NEW i \in DOMAIN next
                 PROVE  \E j \in 1..(m + 1) : next[i] = specs[j]
      OBVIOUS
    <3>1. CASE i \in DOMAIN kept
      <4>1. PICK j \in 1..m : kept[i] = specs[j]
        BY <3>1 DEF KeptOnce
      <4> QED
        BY <4>1, <3>1, <2>3
    <3>2. CASE i = Len(kept) + 1
      BY <3>2, <2>3
    <3> QED
      BY <3>1, <3>2, <2>4
  <2>8. \A j \in 1..(m + 1) : \E i \in DOMAIN next : next[i] = specs[j]
    <3> SUFFICES ASSUME NEW j \in 1..(m + 1)
                 PROVE  \E i \in DOMAIN next : next[i] = specs[j]
      OBVIOUS
    <3>1. CASE j \in 1..m
      <4>1. PICK i \in DOMAIN kept : kept[i] = specs[j]
        BY <3>1 DEF KeptOnce
      <4> QED
        BY <4>1, <2>3
    <3>2. CASE j = m + 1
      <4>1. Len(kept) + 1 \in DOMAIN next
        BY <2>3
      <4> QED
        BY <4>1, <3>2, <2>3
    <3> QED
      BY <3>1, <3>2, <1>2
  <2> QED
    BY <2>2, <2>6, <2>7, <2>8 DEF KeptOnce
<1> QED
  BY <1>3, <1>4

LEMMA UniqueKeepsEach ==
  ASSUME NEW S, NEW specs \in Seq(S)
  PROVE  Unique(specs) \in Seq(S) /\ KeptOnce(specs, Unique(specs), Len(specs))
<1> DEFINE f == CHOOSE g : g = Kept(specs, g, Len(specs))
<1>1. Len(specs) \in Nat
  OBVIOUS
<1>2. f = Kept(specs, f, Len(specs))
  BY KeptExists
<1>3. Unique(specs) = f[Len(specs)]
  BY DEF Unique, Kept
<1> HIDE DEF f
<1>4. f[0] = <<>>
  BY <1>1, <1>2 DEF Kept
<1>5. \A n \in Nat : n + 1 <= Len(specs) =>
         f[n + 1] = IF \E j \in 1..n : specs[j] = specs[n + 1] THEN f[n]
                    ELSE Append(f[n], specs[n + 1])
  <2> SUFFICES ASSUME NEW n \in Nat, n + 1 <= Len(specs)
               PROVE  f[n + 1] = IF \E j \in 1..n : specs[j] = specs[n + 1] THEN f[n]
                                 ELSE Append(f[n], specs[n + 1])
    OBVIOUS
  <2>1. n + 1 \in 0..Len(specs) /\ n + 1 # 0 /\ (n + 1) - 1 = n
    BY <1>1
  <2>2. f[n + 1] = Kept(specs, f, Len(specs))[n + 1]
    BY <1>2
  <2> QED
    BY <2>1, <2>2 DEF Kept
<1> DEFINE Good(n) == n <= Len(specs) => f[n] \in Seq(S) /\ KeptOnce(specs, f[n], n)
           T == {n \in Nat : Good(n)}
<1>6. 0 \in T
  <2>1. DOMAIN <<>> = {} /\ 1..0 = {}
    OBVIOUS
  <2>2. <<>> \in Seq(S) /\ KeptOnce(specs, <<>>, 0)
    BY <2>1 DEF KeptOnce
  <2> QED
    BY <1>4, <2>2
<1>7. ASSUME NEW n \in T PROVE n + 1 \in T
  <2>1. n \in Nat /\ n + 1 \in Nat /\ Good(n)
    OBVIOUS
  <2>2. ASSUME n + 1 <= Len(specs)
        PROVE  f[n + 1] \in Seq(S) /\ KeptOnce(specs, f[n + 1], n + 1)
    <3>1. f[n] \in Seq(S) /\ KeptOnce(specs, f[n], n)
      BY <1>1, <2>1, <2>2
    <3> HIDE DEF T, Good
    <3> QED
      BY <1>5, <2>1, <2>2, <3>1, KeptStep
  <2> QED
    BY <2>1, <2>2
<1>8. T = Nat
  <2> HIDE DEF Good
  <2>1. T \subseteq Nat
    OBVIOUS
  <2> HIDE DEF T
  <2> QED
    BY <1>6, <1>7, <2>1, NumbersFrom
<1>9. Good(Len(specs))
  <2> HIDE DEF Good
  <2> QED
    BY <1>1, <1>8
<1> QED
  BY <1>1, <1>3, <1>9

-----------------------------------------------------------------------------
(* Verdicts. *)
Result == [kind : Kinds, command : Command, exit : {"zero", "nonzero", "null"},
           timedOut : BOOLEAN]

TypesHold ==
  /\ pending \in Seq(Spec1)
  /\ validations \in Seq(Result)
  /\ outside \in BOOLEAN

(* The specs that were run and those still to be run are the same list all *)
(* the time.                                                               *)
Checks ==
  [i \in DOMAIN validations |->
     [kind |-> validations[i].kind, command |-> validations[i].command]] \o pending

(* A result is derived from what every command gave, and nothing of that   *)
(* changes any more.                                                       *)
ResultIsDerived ==
  Done => /\ pending = <<>>
          /\ evaluation = [terminal |-> Terminal, score |-> ScoreOf(Terminal),
                            category |-> CategoryOf(Terminal)]

IInv == TypesHold /\ EachCheckOnce /\ ResultIsDerived

LEMMA InitHolds == Init => IInv
<1> SUFFICES ASSUME Init PROVE IInv
  OBVIOUS
<1>1. PICK scenario \in Scenario : pending = Unique(Append(scenario.validations, TaskSpec))
  BY DEF Init
<1> DEFINE specs == Append(scenario.validations, TaskSpec)
<1>2. TaskSpec \in Spec1
  BY EvaluatorAssumption DEF TaskSpec, Spec1, Kinds
<1>3. scenario.validations \in Seq(Spec1)
  BY EvaluatorAssumption
<1>4. specs \in Seq(Spec1) /\ Len(specs) \in 1..Len(specs) /\ specs[Len(specs)] = TaskSpec
  BY <1>2, <1>3
<1>5. pending = Unique(specs)
  BY <1>1
<1> HIDE DEF specs
<1>6. pending \in Seq(Spec1) /\ KeptOnce(specs, pending, Len(specs))
  BY <1>4, <1>5, UniqueKeepsEach
<1>7. validations = <<>> /\ outside \in BOOLEAN /\ evaluation = NoEvaluation
  BY DEF Init
<1>8. TypesHold /\ ResultIsDerived
  BY <1>6, <1>7 DEF TypesHold, ResultIsDerived, Done
<1>9. [i \in DOMAIN validations |->
         [kind |-> validations[i].kind, command |-> validations[i].command]] = <<>>
  BY <1>7
<1>10. Checks = pending
  BY <1>6, <1>9 DEF Checks
<1>11. \A i, j \in DOMAIN pending : pending[i] = pending[j] => i = j
  BY <1>6 DEF KeptOnce
<1>12. \E i \in DOMAIN pending : pending[i] = TaskSpec
  BY <1>4, <1>6 DEF KeptOnce
<1>13. EachCheckOnce
  BY <1>10, <1>11, <1>12 DEF EachCheckOnce, Checks
<1> QED
  BY <1>8, <1>13 DEF IInv

LEMMA ChecksStay ==
  ASSUME TypesHold, RunValidation
  PROVE  TypesHold' /\ Checks' = Checks
<1>1. PICK o \in Outcome :
        validations' = Append(validations,
          [kind |-> Head(pending).kind, command |-> Head(pending).command,
           exit |-> o.exit, timedOut |-> o.timedOut])
  BY DEF RunValidation
<1>2. pending # <<>> /\ pending' = Tail(pending) /\ outside' \in BOOLEAN
  BY DEF RunValidation
<1>3. pending \in Seq(Spec1) /\ validations \in Seq(Result)
  BY DEF TypesHold
<1> DEFINE v == [kind |-> Head(pending).kind, command |-> Head(pending).command,
                 exit |-> o.exit, timedOut |-> o.timedOut]
           Named(x) == [kind |-> x.kind, command |-> x.command]
           Ran(s) == [i \in DOMAIN s |-> Named(s[i])]
<1>4. Head(pending) \in Spec1 /\ Tail(pending) \in Seq(Spec1)
  BY <1>2, <1>3
<1>5. v \in Result
  BY <1>4 DEF Result, Outcome, Spec1
<1>6. Named(v) = Head(pending)
  BY <1>4 DEF Spec1
<1>7. validations' = Append(validations, v)
  BY <1>1
<1>8. TypesHold'
  BY <1>2, <1>3, <1>4, <1>5, <1>7 DEF TypesHold
<1>9. \A x \in Result : Named(x) \in Spec1
  BY DEF Result, Spec1
<1>10. Ran(validations) \in Seq(Spec1) /\ Len(Ran(validations)) = Len(validations)
  <2> HIDE DEF Named
  <2> QED
    BY <1>3, <1>9
<1>11. Ran(Append(validations, v)) = Append(Ran(validations), Named(v))
  <2> HIDE DEF v, Named
  <2>1. /\ Len(validations) \in Nat
        /\ Append(validations, v) \in Seq(Result)
        /\ Len(Append(validations, v)) = Len(validations) + 1
        /\ \A i \in 1..Len(validations) : Append(validations, v)[i] = validations[i]
        /\ Append(validations, v)[Len(validations) + 1] = v
    BY <1>3, <1>5
  <2>2. Named(v) \in Spec1
    BY <1>5, <1>9
  <2>3. /\ Append(Ran(validations), Named(v)) \in Seq(Spec1)
        /\ Len(Append(Ran(validations), Named(v))) = Len(validations) + 1
        /\ \A i \in 1..Len(validations) :
              Append(Ran(validations), Named(v))[i] = Named(validations[i])
        /\ Append(Ran(validations), Named(v))[Len(validations) + 1] = Named(v)
    BY <1>3, <1>10, <2>2
  <2>4. /\ Ran(Append(validations, v)) \in Seq(Spec1)
        /\ Len(Ran(Append(validations, v))) = Len(validations) + 1
    BY <1>9, <2>1
  <2>5. \A i \in 1..(Len(validations) + 1) :
          Ran(Append(validations, v))[i] = Append(Ran(validations), Named(v))[i]
    BY <2>1, <2>3
  <2> HIDE DEF Ran
  <2> QED
    BY <2>3, <2>4, <2>5
<1>12. Append(Ran(validations), Head(pending)) \o Tail(pending) = Ran(validations) \o pending
  <2> HIDE DEF Ran
  <2> QED
    BY <1>2, <1>3, <1>4, <1>10
<1>13. Checks = Ran(validations) \o pending
  BY DEF Checks
<1>14. Checks' = Ran(Append(validations, v)) \o Tail(pending)
  BY <1>2, <1>7 DEF Checks
<1> QED
  BY <1>6, <1>8, <1>11, <1>12, <1>13, <1>14

LEMMA DerivedStays ==
  ASSUME UNCHANGED <<validations, outside>>
  PROVE  /\ Terminal' = Terminal
         /\ ScoreOf(Terminal)' = ScoreOf(Terminal)
         /\ CategoryOf(Terminal)' = CategoryOf(Terminal)
<1>1. Terminal' = Terminal
  BY DEF Terminal, TerminalFromValidations, Some
<1>2. ScoreOf(Terminal)' = ScoreOf(Terminal)
  BY <1>1 DEF ScoreOf
<1>3. EvidenceOf(Terminal)' = EvidenceOf(Terminal)
  BY <1>1 DEF EvidenceOf, SelectInSeq, Min, Passed
<1>4. CategoryOf(Terminal)' = CategoryOf(Terminal)
  BY <1>3 DEF CategoryOf, ClassifyFailure, SelectInSeq, Min
<1> QED
  BY <1>1, <1>2, <1>4

LEMMA IInvStays == IInv /\ [Next]_vars => IInv'
<1> SUFFICES ASSUME IInv, [Next]_vars PROVE IInv'
  OBVIOUS
<1> USE DEF IInv
<1>0. EachCheckOnce <=> /\ \A i, j \in DOMAIN Checks : Checks[i] = Checks[j] => i = j
                        /\ \E i \in DOMAIN Checks : Checks[i] = TaskSpec
  BY DEF EachCheckOnce, Checks
<1>1. CASE RunValidation
  <2>1. TypesHold' /\ Checks' = Checks
    BY <1>1, ChecksStay
  <2>2. EachCheckOnce'
    BY <1>0, <2>1 DEF EachCheckOnce, Checks
  <2>3. ~Done /\ evaluation' = evaluation
    BY <1>1 DEF RunValidation, ResultIsDerived
  <2> QED
    BY <2>1, <2>2, <2>3 DEF ResultIsDerived, Done
<1>2. CASE Evaluate
  <2>1. /\ pending = <<>> /\ UNCHANGED <<pending, validations, outside>>
        /\ evaluation' = [terminal |-> Terminal, score |-> ScoreOf(Terminal),
                           category |-> CategoryOf(Terminal)]
    BY <1>2 DEF Evaluate
  <2>2. /\ Terminal' = Terminal
        /\ ScoreOf(Terminal)' = ScoreOf(Terminal)
        /\ CategoryOf(Terminal)' = CategoryOf(Terminal)
    BY <2>1, DerivedStays
  <2> QED
    BY <2>1, <2>2 DEF TypesHold, EachCheckOnce, ResultIsDerived
<1>3. CASE UNCHANGED evaluating
  <2>1. UNCHANGED <<pending, validations, outside, evaluation>>
    BY <1>3 DEF evaluating
  <2>2. /\ Terminal' = Terminal
        /\ ScoreOf(Terminal)' = ScoreOf(Terminal)
        /\ CategoryOf(Terminal)' = CategoryOf(Terminal)
    BY <2>1, DerivedStays
  <2>3. ResultIsDerived'
    BY <2>1, <2>2 DEF ResultIsDerived, Done
  <2>4. Checks' = Checks
    BY <2>1 DEF Checks
  <2>5. EachCheckOnce'
    BY <1>0, <2>4 DEF EachCheckOnce, Checks
  <2> QED
    BY <2>1, <2>3, <2>5 DEF TypesHold
<1> QED
  BY <1>1, <1>2, <1>3 DEF Next, vars, CorrectManually, Measure, Ended

-----------------------------------------------------------------------------
(* What a derived result says. *)
LEMMA OrderedOnce ==
  /\ Ordered[SelectInSeq(Ordered, LAMBDA category : category \in {"regression"})] = "regression"
  /\ Ordered[SelectInSeq(Ordered, LAMBDA category : category \in {"budget_exhaustion"})]
       = "budget_exhaustion"
  /\ Ordered[SelectInSeq(Ordered, LAMBDA category : category \in {"environment_failure"})]
       = "environment_failure"
  /\ Ordered[SelectInSeq(Ordered, LAMBDA category : category \in {"verification_failure"})]
       = "verification_failure"
<1> DEFINE Place(c) == {i \in 1..Len(Ordered) : Ordered[i] \in {c}}
<1>1. /\ Len(Ordered) = 12 /\ Ordered[1] = "environment_failure"
      /\ Ordered[8] = "verification_failure" /\ Ordered[9] = "regression"
      /\ Ordered[12] = "budget_exhaustion"
  BY DEF Ordered
<1>2. ASSUME NEW c \in {"regression", "budget_exhaustion", "environment_failure",
                         "verification_failure"}
      PROVE  Ordered[Min(Place(c))] = c /\ Place(c) # {}
  <2>1. 9 \in 1..Len(Ordered) /\ 12 \in 1..Len(Ordered) /\ 1 \in 1..Len(Ordered)
        /\ 8 \in 1..Len(Ordered)
    BY <1>1
  <2>2. Place(c) # {} /\ Place(c) \subseteq Nat
    BY <1>1, <2>1
  <2>3. Min(Place(c)) \in Place(c)
    <3> HIDE DEF Place
    <3> QED
      BY <2>2, FirstPlace
  <2> QED
    BY <2>2, <2>3
<1> QED
  BY <1>2 DEF SelectInSeq

LEMMA CategoryTells ==
  ASSUME NEW c \in {"regression", "budget_exhaustion", "environment_failure",
                     "verification_failure"}
  PROVE  ClassifyFailure({c}) = c
<1> DEFINE Found(d) == Ordered[SelectInSeq(Ordered, LAMBDA category : category \in {d})]
<1>1. ClassifyFailure({c}) = Found(c)
  BY DEF ClassifyFailure
<1>2. /\ Found("regression") = "regression"
      /\ Found("budget_exhaustion") = "budget_exhaustion"
      /\ Found("environment_failure") = "environment_failure"
      /\ Found("verification_failure") = "verification_failure"
  BY OrderedOnce
<1> HIDE DEF Found
<1> QED
  BY <1>1, <1>2

AllPassed == \A i \in DOMAIN validations : Passed(validations[i])
Late == \E i \in DOMAIN validations : validations[i].timedOut
Absent == \E i \in DOMAIN validations : validations[i].exit = "null"

LEMMA TerminalFollows ==
  /\ Terminal = IF Late THEN "timeout"
                ELSE IF Absent THEN "environment_error"
                ELSE IF AllPassed /\ ~outside THEN "resolved"
                ELSE "task_failed"
  /\ AllPassed => ~Late /\ ~Absent
BY DEF Terminal, TerminalFromValidations, Some, Passed, AllPassed, Late, Absent

LEMMA CategoryFollows ==
  ASSUME TypesHold
  PROVE  /\ CategoryOf(Terminal) = "null" <=> Terminal = "resolved"
         /\ CategoryOf(Terminal) = "regression" /\ ~outside =>
               \E i \in DOMAIN validations :
                  /\ validations[i].kind = "repository" /\ ~Passed(validations[i])
                  /\ \A j \in 1..(i - 1) : Passed(validations[j])
         /\ CategoryOf(Terminal) \in ToSet(Ordered) \cup {"null"}
<1> DEFINE failed == SelectInSeq(validations, LAMBDA v : ~Passed(v))
           I == {i \in 1..Len(validations) : ~Passed(validations[i])}
<1>0. validations \in Seq(Result) /\ outside \in BOOLEAN
  BY DEF TypesHold
<1>1. /\ DOMAIN validations = 1..Len(validations) /\ I \subseteq Nat
      /\ failed = IF I # {} THEN Min(I) ELSE 0
  BY <1>0 DEF SelectInSeq
<1>2. AllPassed <=> I = {}
  BY <1>1 DEF AllPassed
<1>3. I # {} => /\ failed \in DOMAIN validations /\ failed # 0
                /\ ~Passed(validations[failed])
                /\ \A j \in 1..(failed - 1) : Passed(validations[j])
  <2> SUFFICES ASSUME I # {}
               PROVE  /\ failed \in DOMAIN validations /\ failed # 0
                      /\ ~Passed(validations[failed])
                      /\ \A j \in 1..(failed - 1) : Passed(validations[j])
    OBVIOUS
  <2>1. failed \in I /\ \A i \in I : failed <= i
    <3> HIDE DEF I, failed
    <3> QED
      BY <1>1, FirstPlace
  <2>2. failed \in 1..Len(validations) /\ Len(validations) \in Nat
    BY <1>0, <2>1
  <2>3. ASSUME NEW j \in 1..(failed - 1) PROVE Passed(validations[j])
    <3> HIDE DEF failed
    <3>1. j \in 1..Len(validations) /\ ~(failed <= j)
      BY <2>2
    <3> QED
      BY <2>1, <3>1
  <2>4. failed \in DOMAIN validations /\ failed # 0 /\ ~Passed(validations[failed])
    BY <1>1, <2>1, <2>2
  <2> HIDE DEF failed
  <2> QED
    BY <2>3, <2>4
<1>4. EvidenceOf(Terminal) =
        IF outside THEN {"regression"}
        ELSE IF Late THEN {"budget_exhaustion"}
        ELSE IF Absent THEN {"environment_failure"}
        ELSE IF I = {} THEN {}
        ELSE IF validations[failed].kind = "repository" THEN {"regression"}
        ELSE {"verification_failure"}
  <2>1. EvidenceOf(Terminal) =
          IF outside THEN {"regression"}
          ELSE IF Terminal = "timeout" THEN {"budget_exhaustion"}
          ELSE IF Terminal = "environment_error" THEN {"environment_failure"}
          ELSE IF failed = 0 THEN {}
          ELSE IF validations[failed].kind = "repository" THEN {"regression"}
          ELSE {"verification_failure"}
    BY DEF EvidenceOf
  <2> HIDE DEF failed, I
  <2> QED
    BY <1>1, <1>3, <2>1, TerminalFollows
<1>5. ClassifyFailure({}) = "null"
  BY DEF ClassifyFailure
<1> HIDE DEF failed, I
<1>6. CategoryOf(Terminal) =
        IF outside THEN "regression"
        ELSE IF Late THEN "budget_exhaustion"
        ELSE IF Absent THEN "environment_failure"
        ELSE IF I = {} THEN "null"
        ELSE IF validations[failed].kind = "repository" THEN "regression"
        ELSE "verification_failure"
  BY <1>4, <1>5, CategoryTells DEF CategoryOf
<1>7. CategoryOf(Terminal) = "null" <=> Terminal = "resolved"
  BY <1>2, <1>6, TerminalFollows
<1>8. CategoryOf(Terminal) = "regression" /\ ~outside =>
         \E i \in DOMAIN validations :
            /\ validations[i].kind = "repository" /\ ~Passed(validations[i])
            /\ \A j \in 1..(i - 1) : Passed(validations[j])
  BY <1>3, <1>6
<1>9. CategoryOf(Terminal) \in {"null", "regression", "budget_exhaustion",
                               "environment_failure", "verification_failure"}
  BY <1>6
<1>10. CategoryOf(Terminal) \in ToSet(Ordered) \cup {"null"}
  <2>1. /\ DOMAIN Ordered = 1..12
        /\ Ordered[1] = "environment_failure" /\ Ordered[8] = "verification_failure"
        /\ Ordered[9] = "regression" /\ Ordered[12] = "budget_exhaustion"
    BY DEF Ordered
  <2>2. {"environment_failure", "verification_failure", "regression", "budget_exhaustion"}
           \subseteq ToSet(Ordered)
    BY <2>1 DEF ToSet
  <2> QED
    BY <1>9, <2>2
<1> QED
  BY <1>7, <1>8, <1>10

LEMMA VerdictHolds ==
  ASSUME IInv PROVE PassedIsProved /\ FailedIsProved /\ CategoryIsProved
<1> SUFFICES ASSUME Done PROVE PassedIsProved /\ FailedIsProved /\ CategoryIsProved
  BY DEF PassedIsProved, FailedIsProved, CategoryIsProved
<1>1. /\ evaluation.terminal = Terminal
      /\ evaluation.score = ScoreOf(Terminal)
      /\ evaluation.category = CategoryOf(Terminal)
  BY DEF IInv, ResultIsDerived
<1>2. /\ validations \in Seq(Result) /\ outside \in BOOLEAN
  BY DEF IInv, TypesHold
<1>3. \A i \in DOMAIN validations :
        /\ validations[i].exit \in {"zero", "nonzero", "null"}
        /\ validations[i].timedOut \in BOOLEAN
  <2> SUFFICES ASSUME NEW i \in DOMAIN validations
               PROVE  /\ validations[i].exit \in {"zero", "nonzero", "null"}
                      /\ validations[i].timedOut \in BOOLEAN
    OBVIOUS
  <2>1. validations[i] \in Result
    BY <1>2
  <2> QED
    BY <2>1 DEF Result
<1>4. PassedIsProved
  <2>1. AllPassed <=> \A i \in DOMAIN validations :
                         validations[i].exit = "zero" /\ ~validations[i].timedOut
    BY DEF Passed, AllPassed
  <2> QED
    BY <1>1, <2>1, TerminalFollows DEF PassedIsProved, ScoreOf
<1>5. FailedIsProved
  <2>1. ~AllPassed /\ ~Late /\ ~Absent
          => \E i \in DOMAIN validations : validations[i].exit = "nonzero"
    BY <1>3 DEF Passed, AllPassed, Late, Absent
  <2>2. (\E i \in DOMAIN validations : validations[i].exit = "nonzero") \/ Late
          => \E i \in DOMAIN validations :
                validations[i].exit = "nonzero" \/ validations[i].timedOut
    BY DEF Late
  <2> QED
    BY <1>1, <2>1, <2>2, TerminalFollows DEF FailedIsProved, ScoreOf
<1>6. CategoryIsProved
  BY <1>1, CategoryFollows DEF CategoryIsProved, IInv
<1> QED
  BY <1>4, <1>5, <1>6

(* For any list of validations a caller gives, with whatever it repeats,   *)
(* and any outcome of any command: every distinct check is run once, the   *)
(* task's own among them, and state, score and category of the run follow  *)
(* from what they gave and from the scope of the diff, as VerdictIsProved  *)
(* states it.                                                              *)
THEOREM VerdictCorrect == Spec => []VerdictIsProved
<1>1. IInv => VerdictIsProved
  BY VerdictHolds DEF IInv, VerdictIsProved
<1> QED
  BY <1>1, InitHolds, IInvStays, PTL DEF Spec

-----------------------------------------------------------------------------
(* Totals. *)
Summed(values, g) ==
  [n \in 0..Len(values) |-> IF n = 0 THEN 0 ELSE g[n - 1] + values[n]]

LEMMA SumsExist ==
  ASSUME NEW values \in Seq(Int)
  PROVE  \E g : g \in [0..Len(values) -> Int] /\ g = Summed(values, g)
<1> DEFINE N == Len(values)
           F == [p \in (1..N) \X Int |-> p[2] + values[p[1]]]
<1>1. N \in Nat /\ 0 \in Int
  OBVIOUS
<1>2. F \in [(1..N) \X Int -> Int]
  <2>1. \A p \in (1..N) \X Int : p[2] \in Int /\ values[p[1]] \in Int
    OBVIOUS
  <2> QED
    BY <2>1
<1>3. PICK g : Solves(g, N, Int, 0, F)
  <2> HIDE DEF F, N
  <2> QED
    BY <1>1, <1>2, Recursion
<1>4. g \in [0..N -> Int] /\ g = Recursed(g, N, 0, F)
  <2> HIDE DEF F, N
  <2> QED
    BY <1>3 DEF Solves
<1>5. ASSUME NEW n \in 0..N
      PROVE  Recursed(g, N, 0, F)[n] = Summed(values, g)[n]
  <2>1. CASE n = 0
    BY <2>1 DEF Recursed, Summed
  <2>2. CASE n # 0
    <3>1. n \in 1..N /\ n - 1 \in 0..N /\ g[n - 1] \in Int
      <4> HIDE DEF F, N
      <4>1. n \in 1..N /\ n - 1 \in 0..N
        BY <1>1, <2>2
      <4> QED
        BY <4>1, <1>4
    <3>2. <<n, g[n - 1]>> \in (1..N) \X Int
      BY <3>1
    <3>3. F[<<n, g[n - 1]>>] = g[n - 1] + values[n]
      BY <3>2
    <3> HIDE DEF F
    <3> QED
      BY <2>2, <3>3 DEF Recursed, Summed
  <2> QED
    BY <2>1, <2>2
<1>6. Recursed(g, N, 0, F) = Summed(values, g)
  <2> HIDE DEF F
  <2> QED
    BY <1>5 DEF Recursed, Summed
<1> QED
  BY <1>4, <1>6

(* Total adds the values one after the other. *)
LEMMA TotalAdds ==
  ASSUME NEW values \in Seq(Int)
  PROVE  \E g : /\ g[0] = 0 /\ Total(values) = g[Len(values)]
                /\ \A n \in 1..Len(values) : g[n] = g[n - 1] + values[n]
<1> DEFINE g == CHOOSE h : h = Summed(values, h)
<1>1. g = Summed(values, g)
  BY SumsExist
<1>2. Total(values) = g[Len(values)]
  BY DEF Total, Summed
<1>3. Len(values) \in Nat
  OBVIOUS
<1> HIDE DEF g
<1>4. g[0] = 0
  BY <1>1, <1>3 DEF Summed
<1>5. ASSUME NEW n \in 1..Len(values) PROVE g[n] = g[n - 1] + values[n]
  <2>1. n \in 0..Len(values) /\ n # 0
    BY <1>3
  <2>2. g[n] = Summed(values, g)[n]
    BY <1>1
  <2> QED
    BY <2>1, <2>2 DEF Summed
<1> QED
  BY <1>2, <1>4, <1>5

(* The parts of a finite set, one for each key, add up to the set. *)
Part(D, key, k) == {i \in D : key[i] = k}
Sizes(D, key, keys) == [k \in DOMAIN keys |-> Cardinality(Part(D, key, keys[k]))]

LEMMA PartsAddUp ==
  ASSUME NEW D, IsFiniteSet(D), NEW key, NEW K, NEW keys \in Seq(K),
         \A i, j \in DOMAIN keys : keys[i] = keys[j] => i = j,
         \A i \in D : \E k \in DOMAIN keys : key[i] = keys[k]
  PROVE  Total(Sizes(D, key, keys)) = Cardinality(D)
<1> DEFINE sizes == [k \in DOMAIN keys |-> Cardinality(Part(D, key, keys[k]))]
           Upto(n) == {i \in D : \E k \in 1..n : key[i] = keys[k]}
<1>1. DOMAIN keys = 1..Len(keys) /\ Len(keys) \in Nat
  OBVIOUS
<1>2. \A k : IsFiniteSet(Part(D, key, k)) /\ Cardinality(Part(D, key, k)) \in Nat
  <2> SUFFICES ASSUME NEW k
               PROVE  IsFiniteSet(Part(D, key, k)) /\ Cardinality(Part(D, key, k)) \in Nat
    OBVIOUS
  <2>1. Part(D, key, k) \in SUBSET D
    BY DEF Part
  <2> QED
    BY <2>1, FS_Subset, FS_CardinalityType
<1>3. sizes \in Seq(Int) /\ Len(sizes) = Len(keys)
  BY <1>1, <1>2
<1>4. PICK g : /\ g[0] = 0 /\ Total(sizes) = g[Len(sizes)]
               /\ \A n \in 1..Len(sizes) : g[n] = g[n - 1] + sizes[n]
  <2> HIDE DEF sizes
  <2> QED
    BY <1>3, TotalAdds
<1> DEFINE T == {n \in Nat : n <= Len(keys) => /\ IsFiniteSet(Upto(n))
                                               /\ g[n] = Cardinality(Upto(n))}
<1>5. 0 \in T
  <2>1. Upto(0) = {}
    OBVIOUS
  <2> QED
    BY <1>4, <2>1, FS_EmptySet
<1>6. ASSUME NEW n \in T PROVE n + 1 \in T
  <2>1. n \in Nat /\ (n <= Len(keys) => IsFiniteSet(Upto(n)) /\ g[n] = Cardinality(Upto(n)))
    OBVIOUS
  <2> HIDE DEF T
  <2>2. ASSUME n + 1 <= Len(keys)
        PROVE  IsFiniteSet(Upto(n + 1)) /\ g[n + 1] = Cardinality(Upto(n + 1))
    <3> DEFINE P == Part(D, key, keys[n + 1])
    <3>1. n + 1 \in 1..Len(keys) /\ n <= Len(keys) /\ (n + 1) - 1 = n
      BY <1>1, <2>1, <2>2
    <3>2. IsFiniteSet(Upto(n)) /\ g[n] = Cardinality(Upto(n))
      BY <2>1, <3>1
    <3>3. g[n + 1] = g[n] + Cardinality(P)
      <4>1. sizes[n + 1] = Cardinality(P)
        BY <1>1, <3>1
      <4> HIDE DEF sizes, P
      <4> QED
        BY <1>3, <1>4, <3>1, <4>1
    <3>4. Upto(n + 1) = Upto(n) \cup P
      <4>1. \A k \in 1..(n + 1) : k \in 1..n \/ k = n + 1
        BY <2>1
      <4>2. \A k \in 1..n : k \in 1..(n + 1)
        BY <2>1
      <4>3. n + 1 \in 1..(n + 1)
        BY <2>1
      <4> QED
        BY <4>1, <4>2, <4>3 DEF Part
    <3>5. Upto(n) \cap P = {}
      <4> SUFFICES ASSUME NEW i \in Upto(n) \cap P PROVE FALSE
        OBVIOUS
      <4>1. PICK k \in 1..n : key[i] = keys[k]
        OBVIOUS
      <4>2. key[i] = keys[n + 1]
        BY DEF Part
      <4>3. k \in DOMAIN keys /\ n + 1 \in DOMAIN keys /\ k # n + 1
        BY <1>1, <2>1, <3>1
      <4> QED
        BY <4>1, <4>2, <4>3
    <3>6. IsFiniteSet(P) /\ Cardinality(P) \in Nat
      BY <1>2
    <3>7. Cardinality(Upto(n)) \in Nat
      BY <3>2, FS_CardinalityType
    <3> HIDE DEF P, Upto
    <3>8. /\ IsFiniteSet(Upto(n) \cup P)
          /\ Cardinality(Upto(n) \cup P)
               = Cardinality(Upto(n)) + Cardinality(P) - Cardinality(Upto(n) \cap P)
      BY <3>2, <3>6, FS_Union
    <3>9. Cardinality(Upto(n) \cap P) = 0
      BY <3>5, FS_EmptySet
    <3>10. Cardinality(Upto(n) \cup P) = Cardinality(Upto(n)) + Cardinality(P)
      <4> DEFINE a == Cardinality(Upto(n))
                 b == Cardinality(P)
                 c == Cardinality(Upto(n) \cap P)
      <4>1. a \in Nat /\ b \in Nat /\ c = 0 /\ Cardinality(Upto(n) \cup P) = a + b - c
        BY <3>6, <3>7, <3>8, <3>9
      <4> HIDE DEF a, b, c
      <4>2. a + b - c = a + b
        BY <4>1
      <4>3. Cardinality(Upto(n) \cup P) = a + b
        BY <4>1, <4>2
      <4> QED
        BY <4>3 DEF a, b
    <3>11. IsFiniteSet(Upto(n + 1))
      BY <3>4, <3>8
    <3>12. Cardinality(Upto(n + 1)) = g[n] + Cardinality(P)
      BY <3>2, <3>4, <3>10
    <3> QED
      BY <3>3, <3>11, <3>12
  <2> QED
    BY <2>1, <2>2 DEF T
<1>7. T = Nat
  <2>1. T \subseteq Nat
    OBVIOUS
  <2> HIDE DEF T
  <2> QED
    BY <1>5, <1>6, <2>1, NumbersFrom
<1>8. g[Len(keys)] = Cardinality(Upto(Len(keys)))
  <2> HIDE DEF Upto
  <2> QED
    BY <1>1, <1>7
<1>9. Upto(Len(keys)) = D
  BY <1>1
<1>10. Sizes(D, key, keys) = sizes
  BY DEF Sizes
<1> HIDE DEF sizes, Upto
<1> QED
  BY <1>3, <1>4, <1>8, <1>9, <1>10

(* SetToSeq lists each element of a finite set once. *)
LEMMA ListedOnce ==
  ASSUME NEW S, IsFiniteSet(S)
  PROVE  /\ SetToSeq(S) \in Seq(S)
         /\ \A i, j \in DOMAIN SetToSeq(S) : SetToSeq(S)[i] = SetToSeq(S)[j] => i = j
         /\ \A x \in S : \E i \in DOMAIN SetToSeq(S) : x = SetToSeq(S)[i]
<1> DEFINE n == Cardinality(S)
<1>1. n \in Nat /\ ExistsBijection(1..n, S)
  BY FS_CardinalityType
<1>2. \E f : f \in [1..n -> S] /\ IsInjective(f)
  BY <1>1 DEF ExistsBijection, Bijection, Injection
<1>3. SetToSeq(S) \in [1..n -> S] /\ IsInjective(SetToSeq(S))
  BY <1>2 DEF SetToSeq
<1> DEFINE s == SetToSeq(S)
<1> HIDE DEF s
<1>4. s \in Injection(1..n, S)
  BY <1>3 DEF Injection, s
<1>5. Cardinality(1..n) = Cardinality(S)
  <2>1. Cardinality(1..n) = n
    <3>1. 1 \in Int /\ n \in Int /\ (IF 1 > n THEN 0 ELSE n - 1 + 1) = n
      BY <1>1
    <3> HIDE DEF n
    <3> QED
      BY <3>1, FS_Interval
  <2> QED
    BY <2>1
<1>6. s \in Surjection(1..n, S)
  BY <1>4, <1>5, FS_Injection
<1>7. \A x \in S : \E i \in 1..n : s[i] = x
  BY <1>6 DEF Surjection
<1>8. s \in Seq(S) /\ DOMAIN s = 1..n
  <2>1. s \in [1..n -> S]
    BY <1>3 DEF s
  <2> HIDE DEF n
  <2> QED
    BY <1>1, <2>1
<1>9. IsInjective(s)
  BY <1>3 DEF s
<1> QED
  BY <1>7, <1>8, <1>9 DEF IsInjective, s

(* Of finitely many numbers one is the greatest. *)
LEMMA Greatest ==
  ASSUME NEW I, IsFiniteSet(I), I # {}, NEW v, \A i \in I : v[i] \in Int
  PROVE  \E i \in I : \A j \in I : v[j] <= v[i]
<1> DEFINE U(i) == {j \in I : v[j] <= v[i]}
           Above(i) == Cardinality(I) - Cardinality(U(i))
           T == {Above(i) : i \in I}
<1>1. \A i \in I : /\ IsFiniteSet(U(i)) /\ Cardinality(U(i)) \in Nat
                   /\ Cardinality(U(i)) <= Cardinality(I)
  <2> SUFFICES ASSUME NEW i \in I
               PROVE  /\ IsFiniteSet(U(i)) /\ Cardinality(U(i)) \in Nat
                      /\ Cardinality(U(i)) <= Cardinality(I)
    OBVIOUS
  <2>1. U(i) \in SUBSET I
    OBVIOUS
  <2> HIDE DEF U
  <2> QED
    BY <2>1, FS_Subset, FS_CardinalityType
<1>2. Cardinality(I) \in Nat
  BY FS_CardinalityType
<1>3. T \subseteq Nat /\ T # {}
  <2>1. \A i \in I : Above(i) \in Nat
    <3> HIDE DEF U
    <3> QED
      BY <1>1, <1>2
  <2> HIDE DEF Above
  <2> QED
    BY <2>1
<1>4. PICK i \in I : \A j \in I : Above(i) <= Above(j)
  <2>1. PICK x \in T : \A y \in T : x <= y
    <3> HIDE DEF T
    <3> QED
      BY <1>3, LeastNumber
  <2> HIDE DEF Above
  <2> QED
    BY <2>1
<1>5. ASSUME NEW j \in I, ~(v[j] <= v[i]) PROVE FALSE
  <2>1. v[i] \in Int /\ v[j] \in Int
    OBVIOUS
  <2>2. U(i) \in SUBSET U(j) /\ j \in U(j) /\ j \notin U(i)
    BY <1>5, <2>1
  <2>3. Cardinality(U(i)) <= Cardinality(U(j)) /\ Cardinality(U(i)) # Cardinality(U(j))
    <3> HIDE DEF U
    <3> QED
      BY <1>1, <2>2, FS_Subset
  <2>4. Above(i) <= Above(j)
    BY <1>4
  <2> HIDE DEF U
  <2> QED
    BY <1>1, <1>2, <2>3, <2>4
<1> QED
  BY <1>5

(* Finitely many numbers. *)
Numbers(values) == IsFiniteSet(DOMAIN values) /\ \A i \in DOMAIN values : values[i] \in Int

RankedAt(values, k, v) ==
  /\ v \in Range(values)
  /\ Cardinality({i \in DOMAIN values : values[i] < v}) < k
  /\ Cardinality({i \in DOMAIN values : values[i] <= v}) >= k

(* There is a k-th of any numbers, as many as there are. *)
LEMMA RankedIsOne ==
  ASSUME NEW values, Numbers(values), NEW k \in 1..Cardinality(DOMAIN values)
  PROVE  Ranked(values, k) \in Int /\ RankedAt(values, k, Ranked(values, k))
<1> DEFINE I == DOMAIN values
           Below(x) == {i \in I : values[i] < x}
           Upto(x) == {i \in I : values[i] <= x}
           G == {i \in I : Cardinality(Upto(values[i])) >= k}
<1>1. /\ IsFiniteSet(I) /\ Cardinality(I) \in Nat /\ k \in 1..Cardinality(I)
      /\ \A i \in I : values[i] \in Int
  BY FS_CardinalityType DEF Numbers
<1>2. I # {}
  <2> HIDE DEF I
  <2> QED
    BY <1>1, FS_EmptySet
<1>3. PICK m \in I : \A j \in I : values[j] <= values[m]
  <2> HIDE DEF I
  <2> QED
    BY <1>1, <1>2, Greatest
<1>4. Upto(values[m]) = I
  BY <1>3
<1>5. m \in G
  <2>1. Cardinality(Upto(values[m])) >= k
    <3>1. Cardinality(I) >= k
      <4> HIDE DEF I
      <4> QED
        BY <1>1
    <3> HIDE DEF I, Upto
    <3> QED
      BY <1>4, <3>1
  <2> HIDE DEF Upto
  <2> QED
    BY <2>1
<1>6. G # {} /\ IsFiniteSet(G)
  <2>1. G \in SUBSET I
    OBVIOUS
  <2> HIDE DEF G, I
  <2> QED
    BY <1>1, <1>5, <2>1, FS_Subset
<1> DEFINE negated == [i \in I |-> 0 - values[i]]
<1>7. PICK i \in G : \A j \in G : values[i] <= values[j]
  <2>1. \A j \in G : j \in I /\ values[j] \in Int /\ negated[j] = 0 - values[j]
    BY <1>1
  <2>2. \A j \in G : negated[j] \in Int
    <3> HIDE DEF negated, G, I
    <3> QED
      BY <2>1
  <2>3. PICK i \in G : \A j \in G : negated[j] <= negated[i]
    <3> HIDE DEF negated, G
    <3> QED
      BY <1>6, <2>2, Greatest
  <2>4. \A j \in G : values[i] <= values[j]
    <3> HIDE DEF negated, G, I
    <3> QED
      BY <2>1, <2>3
  <2> QED
    BY <2>4
<1>8. i \in I /\ values[i] \in Int /\ Cardinality(Upto(values[i])) >= k
  BY <1>1
<1>9. Cardinality(Below(values[i])) < k
  <2>1. CASE Below(values[i]) = {}
    <3>1. Cardinality(Below(values[i])) = 0
      BY <2>1, FS_EmptySet
    <3> HIDE DEF Below
    <3> QED
      BY <1>1, <3>1
  <2>2. CASE Below(values[i]) # {}
    <3> DEFINE B == Below(values[i])
    <3>1. B \in SUBSET I /\ \A j \in B : values[j] \in Int
      BY <1>1
    <3>2. PICK j \in B : \A x \in B : values[x] <= values[j]
      <4>1. IsFiniteSet(B)
        <5> HIDE DEF B, I
        <5> QED
          BY <1>1, <3>1, FS_Subset
      <4>2. B # {}
        BY <2>2
      <4> HIDE DEF B
      <4> QED
        BY <3>1, <4>1, <4>2, Greatest
    <3>3. j \in I /\ values[j] \in Int /\ values[j] < values[i]
      BY <1>1
    <3>4. B = Upto(values[j])
      <4>1. ASSUME NEW x \in B PROVE x \in Upto(values[j])
        BY <3>2
      <4>2. ASSUME NEW x \in Upto(values[j]) PROVE x \in B
        BY <1>1, <1>8, <3>3
      <4> QED
        BY <4>1, <4>2
    <3>5. j \notin G
      <4>1. ~(values[i] <= values[j])
        BY <1>8, <3>3
      <4> HIDE DEF G
      <4> QED
        BY <1>7, <4>1
    <3>6. ~(Cardinality(Upto(values[j])) >= k)
      BY <3>3, <3>5
    <3>7. Cardinality(B) \in Nat
      <4> HIDE DEF B, I
      <4> QED
        BY <1>1, <3>1, FS_Subset, FS_CardinalityType
    <3> HIDE DEF Upto, Below
    <3>8. ~(Cardinality(B) >= k)
      BY <3>4, <3>6
    <3>9. Cardinality(B) < k
      <4> DEFINE b == Cardinality(B)
      <4>1. b \in Nat /\ k \in Nat /\ ~(b >= k)
        BY <1>1, <3>7, <3>8
      <4> HIDE DEF b
      <4>2. b < k
        BY <4>1
      <4> QED
        BY <4>2 DEF b
    <3> QED
      BY <3>9
  <2> QED
    BY <2>1, <2>2
<1>10. \E x \in Range(values) : Cardinality(Below(x)) < k /\ Cardinality(Upto(x)) >= k
  <2>1. values[i] \in Range(values)
    BY <1>8 DEF Range
  <2> HIDE DEF Below, Upto
  <2> QED
    BY <1>8, <1>9, <2>1
<1>11. RankedAt(values, k, Ranked(values, k))
  BY <1>10 DEF Ranked, RankedAt
<1> QED
  BY <1>1, <1>11 DEF RankedAt, Range

(* In ascending order they are a sequence. *)
LEMMA SortedNumbers ==
  ASSUME NEW values, Numbers(values), NEW n, n = Cardinality(DOMAIN values),
         NEW s, s = Sorted(values)
  PROVE  /\ n \in Nat /\ s \in Seq(Int) /\ Len(s) = n /\ DOMAIN s = 1..n
         /\ \A k \in 1..n : s[k] = Ranked(values, k) /\ s[k] \in Int
<1>1. n \in Nat
  BY FS_CardinalityType DEF Numbers
<1>2. s = [k \in 1..n |-> Ranked(values, k)]
  BY DEF Sorted
<1>3. \A k \in 1..n : Ranked(values, k) \in Int
  BY RankedIsOne
<1> QED
  BY <1>1, <1>2, <1>3

LEMMA SomeNumbers ==
  ASSUME NEW values, Numbers(values), DOMAIN values # {}
  PROVE  Cardinality(DOMAIN values) >= 1
<1>1. Cardinality(DOMAIN values) \in Nat /\ Cardinality(DOMAIN values) # 0
  BY FS_CardinalityType, FS_EmptySet DEF Numbers
<1> QED
  BY <1>1

(* The median of the dashboard, in halves, is that of the reports, in tenths. *)
LEMMA MediansAgree ==
  ASSUME NEW values, Numbers(values), DOMAIN values # {}
  PROVE  5 * Median(values) = Summarize(values).median
<1>1. PICK n \in Nat : n = Cardinality(DOMAIN values) /\ n >= 1
  <2>1. Cardinality(DOMAIN values) \in Nat
    BY FS_CardinalityType DEF Numbers
  <2> QED
    BY <2>1, SomeNumbers
<1>2. PICK s : /\ s = Sorted(values) /\ s \in Seq(Int) /\ Len(s) = n
               /\ \A k \in 1..n : s[k] \in Int
  BY <1>1, SortedNumbers
<1>3. Summarize(values).median = Percentile(s, 5)
  BY <1>2 DEF Summarize
<1>4. Median(values) = IF n % 2 = 0 THEN s[n \div 2] + s[(n \div 2) + 1]
                       ELSE 2 * s[(n \div 2) + 1]
  BY <1>2 DEF Median
<1>5. Percentile(s, 5) =
        IF ((n - 1) * 5) % 10 = 0 THEN 10 * s[(((n - 1) * 5) \div 10) + 1]
        ELSE 10 * s[(((n - 1) * 5) \div 10) + 1]
             + (s[(((n - 1) * 5) \div 10) + 2] - s[(((n - 1) * 5) \div 10) + 1])
               * (((n - 1) * 5) % 10)
  BY <1>2 DEF Percentile
<1>6. CASE n % 2 = 0
  <2>1. PICK m \in Nat : n = 2 * m /\ m >= 1
    <3> DEFINE m == n \div 2
    <3>1. n = 2 * m /\ m \in Nat
      BY <1>1, <1>6
    <3>2. m >= 1
      <4> HIDE DEF m
      <4> QED
        BY <1>1, <3>1
    <3> HIDE DEF m
    <3> QED
      BY <3>1, <3>2
  <2>2. n \div 2 = m /\ (n - 1) * 5 = 10 * (m - 1) + 5
    BY <2>1
  <2>3. ((n - 1) * 5) \div 10 = m - 1 /\ ((n - 1) * 5) % 10 = 5
    BY <2>1, <2>2
  <2>4. m \in 1..n /\ m + 1 \in 1..n /\ (m - 1) + 1 = m /\ (m - 1) + 2 = m + 1
    BY <2>1
  <2>5. s[m] \in Int /\ s[m + 1] \in Int
    BY <1>2, <2>4
  <2>6. Percentile(s, 5) = 10 * s[m] + (s[m + 1] - s[m]) * 5
    BY <1>5, <2>3, <2>4
  <2>7. Median(values) = s[m] + s[m + 1]
    BY <1>4, <1>6, <2>2
  <2> QED
    BY <1>3, <2>5, <2>6, <2>7
<1>7. CASE n % 2 # 0
  <2>1. PICK m \in Nat : n = 2 * m + 1
    <3> DEFINE m == n \div 2
    <3>1. n = 2 * m + 1 /\ m \in Nat
      BY <1>1, <1>7
    <3> HIDE DEF m
    <3> QED
      BY <3>1
  <2>2. n \div 2 = m /\ (n - 1) * 5 = 10 * m
    BY <2>1
  <2>3. ((n - 1) * 5) \div 10 = m /\ ((n - 1) * 5) % 10 = 0
    BY <2>1, <2>2
  <2>4. m + 1 \in 1..n
    BY <2>1
  <2>5. s[m + 1] \in Int
    BY <1>2, <2>4
  <2>6. Percentile(s, 5) = 10 * s[m + 1]
    BY <1>5, <2>3
  <2>7. Median(values) = 2 * s[m + 1]
    BY <1>4, <1>7, <2>2
  <2> QED
    BY <1>3, <2>5, <2>6, <2>7
<1> QED
  BY <1>6, <1>7

-----------------------------------------------------------------------------
(* Stored runs, and what is made of them. *)
StoredRuns == {run \in Stored : Agrees(run)}

(* What was reported is made of the runs that are stored, and it does not  *)
(* change any more; there is a run by then.                                *)
Measuring ==
  /\ runs \in Seq(StoredRuns)
  /\ Done => runs # <<>>
  /\ Measured => /\ Done
                 /\ report = [aggregate |-> Aggregated(runs), analysis |-> Analysed(runs)]

LEMMA InsertedStays ==
  ASSUME NEW S, NEW s \in Seq(S), NEW e \in S, NEW i \in 1..(Len(s) + 1)
  PROVE  InsertAt(s, i, e) \in Seq(S) /\ InsertAt(s, i, e) # <<>>
<1>1. InsertAt(s, i, e) = (SubSeq(s, 1, i - 1) \o <<e>>) \o SubSeq(s, i, Len(s))
  BY DEF InsertAt
<1>2. SubSeq(s, 1, i - 1) \in Seq(S) /\ SubSeq(s, i, Len(s)) \in Seq(S)
  <2>1. Len(s) \in Nat /\ \A j \in 1..Len(s) : s[j] \in S
    OBVIOUS
  <2>2. (\A j \in 1..(i - 1) : j \in 1..Len(s)) /\ (\A j \in i..Len(s) : j \in 1..Len(s))
    BY <2>1
  <2>3. SubSeq(s, 1, i - 1) \in Seq(S)
    BY <2>1, <2>2
  <2>4. SubSeq(s, i, Len(s)) \in Seq(S)
    BY <2>1, <2>2
  <2> QED
    BY <2>3, <2>4
<1>3. \A a, b \in Seq(S) : /\ (a \o <<e>>) \o b \in Seq(S)
                           /\ Len((a \o <<e>>) \o b) = Len(a) + 1 + Len(b)
  OBVIOUS
<1>4. \A a \in Seq(S) : Len(a) \in Nat
  OBVIOUS
<1>5. Len(InsertAt(s, i, e)) # 0
  <2> DEFINE a == SubSeq(s, 1, i - 1)
             b == SubSeq(s, i, Len(s))
  <2>1. Len(a) \in Nat /\ Len(b) \in Nat /\ Len((a \o <<e>>) \o b) = Len(a) + 1 + Len(b)
    BY <1>2, <1>3, <1>4
  <2> HIDE DEF a, b
  <2>2. Len((a \o <<e>>) \o b) # 0
    BY <2>1
  <2> QED
    BY <1>1, <2>2 DEF a, b
<1> QED
  BY <1>1, <1>2, <1>3, <1>5

LEMMA OrderedHas ==
  {"environment_failure", "verification_failure", "regression", "budget_exhaustion"}
     \subseteq ToSet(Ordered)
<1>1. /\ DOMAIN Ordered = 1..12
      /\ Ordered[1] = "environment_failure" /\ Ordered[8] = "verification_failure"
      /\ Ordered[9] = "regression" /\ Ordered[12] = "budget_exhaustion"
  BY DEF Ordered
<1> QED
  BY <1>1 DEF ToSet

LEMMA EvaluatedIsStored ==
  ASSUME TypesHold, NEW c \in Configuration, NEW t \in Task, NEW m \in Moment,
         NEW l \in Latency, NEW result,
         result = [terminal |-> Terminal, score |-> ScoreOf(Terminal),
                   category |-> CategoryOf(Terminal)]
  PROVE  StoredRun(c, t, m, l, result) \in StoredRuns
<1> DEFINE run == StoredRun(c, t, m, l, result)
<1>1. Terminal \in {"timeout", "environment_error", "resolved", "task_failed"}
  BY TerminalFollows
<1>2. ScoreOf(Terminal) \in {"null", "passed", "failed"}
      /\ (Terminal = "environment_error" => ScoreOf(Terminal) = "null")
  BY DEF ScoreOf
<1>3. /\ CategoryOf(Terminal) = "null" <=> Terminal = "resolved"
      /\ CategoryOf(Terminal) \in ToSet(Ordered) \cup {"null"}
  BY CategoryFollows
<1>4. m \in Nat /\ l \in Nat
  BY EvaluatorAssumption
<1>5. Terminal \in TerminalState
  BY <1>1 DEF TerminalState
<1>6. run = [configuration |-> c, task |-> t, startedAt |-> m, latency |-> l,
             terminal |-> Terminal, score |-> StoredScore(c, ScoreOf(Terminal)),
             category |-> CategoryOf(Terminal), manual |-> "absent"]
  BY DEF StoredRun
<1> HIDE DEF run
<1>7. run \in Stored
  <2>1. StoredScore(c, ScoreOf(Terminal)) \in {"null", "passed", "failed"}
    BY <1>2 DEF StoredScore
  <2> QED
    BY <1>3, <1>4, <1>5, <1>6, <2>1 DEF Stored
<1>8. Agrees(run)
  BY <1>2, <1>3, <1>6 DEF Agrees
<1> QED
  BY <1>7, <1>8 DEF StoredRuns, run

LEMMA CorrectedIsStored ==
  ASSUME runs \in Seq(StoredRuns), NEW i \in DOMAIN runs, NEW c \in {"null", "regression"}
  PROVE  [runs EXCEPT ![i].manual = c] \in Seq(StoredRuns)
<1> DEFINE run == [runs[i] EXCEPT !.manual = c]
<1>1. runs[i] \in StoredRuns /\ runs[i] \in Stored /\ Agrees(runs[i])
  BY DEF StoredRuns
<1>2. c \in ToSet(Ordered) \cup {"null", "absent"}
  BY OrderedHas
<1>3. run \in Stored
  BY <1>1, <1>2 DEF Stored
<1>4. run.terminal = runs[i].terminal /\ run.score = runs[i].score
      /\ run.category = runs[i].category /\ run.configuration = runs[i].configuration
  BY <1>1 DEF Stored
<1> HIDE DEF run
<1>5. run \in StoredRuns
  BY <1>1, <1>3, <1>4 DEF StoredRuns, Agrees
<1>6. [runs EXCEPT ![i].manual = c] = [runs EXCEPT ![i] = run]
  BY DEF run
<1>7. [runs EXCEPT ![i] = run] \in Seq(StoredRuns)
  BY <1>5
<1> QED
  BY <1>6, <1>7

LEMMA CorrectedHasLength ==
  ASSUME NEW s, NEW i, NEW c, s # <<>>, s \in Seq(StoredRuns)
  PROVE  [s EXCEPT ![i].manual = c] # <<>>
<1>1. 1 \in DOMAIN s
  OBVIOUS
<1>2. DOMAIN [s EXCEPT ![i].manual = c] = DOMAIN s
  OBVIOUS
<1>3. DOMAIN <<>> = {}
  OBVIOUS
<1> QED
  BY <1>1, <1>2, <1>3

LEMMA MeasuringHolds == Init => Measuring
<1> SUFFICES ASSUME Init PROVE Measuring
  OBVIOUS
<1>1. PICK scenario \in Scenario : runs = scenario.past
  BY DEF Init
<1>2. runs \in Seq(Stored) /\ \A run \in ToSet(runs) : Agrees(run)
  BY <1>1, EvaluatorAssumption
<1>3. \A i \in 1..Len(runs) : runs[i] \in Stored /\ Agrees(runs[i])
  BY <1>2 DEF ToSet
<1>4. runs \in Seq(StoredRuns)
  <2>1. Len(runs) \in Nat /\ DOMAIN runs = 1..Len(runs) /\ runs = [i \in 1..Len(runs) |-> runs[i]]
    BY <1>2
  <2>2. \A i \in 1..Len(runs) : runs[i] \in StoredRuns
    BY <1>3 DEF StoredRuns
  <2> QED
    BY <2>1, <2>2
<1>5. ~Done /\ ~Measured
  BY DEF Init, Done, Measured
<1> QED
  BY <1>4, <1>5 DEF Measuring

LEMMA MeasuringStays == IInv /\ Measuring /\ [Next]_vars => Measuring'
<1> SUFFICES ASSUME IInv, Measuring, [Next]_vars PROVE Measuring'
  OBVIOUS
<1>0. runs \in Seq(StoredRuns) /\ (Done => runs # <<>>)
      /\ (Measured => Done /\ report = [aggregate |-> Aggregated(runs),
                                        analysis |-> Analysed(runs)])
  BY DEF Measuring
<1>1. CASE RunValidation
  <2>1. ~Done /\ UNCHANGED <<evaluation, runs, report>>
    BY <1>1 DEF RunValidation, IInv, ResultIsDerived
  <2> QED
    BY <1>0, <2>1 DEF Measuring, Done, Measured
<1>2. CASE Evaluate
  <2>1. /\ evaluation' = [terminal |-> Terminal, score |-> ScoreOf(Terminal),
                           category |-> CategoryOf(Terminal)]
        /\ ~Done /\ report' = report
    BY <1>2 DEF Evaluate, Done
  <2>2. PICK c \in Configuration, t \in Task, m \in Moment, l \in Latency,
             i \in 1..(Len(runs) + 1) :
               runs' = InsertAt(runs, i, StoredRun(c, t, m, l, evaluation'))
    BY <1>2 DEF Evaluate
  <2>3. StoredRun(c, t, m, l, evaluation') \in StoredRuns
    <3> DEFINE result == evaluation'
    <3>1. result = [terminal |-> Terminal, score |-> ScoreOf(Terminal),
                    category |-> CategoryOf(Terminal)]
      BY <2>1
    <3>2. TypesHold
      BY DEF IInv
    <3> HIDE DEF result
    <3>3. StoredRun(c, t, m, l, result) \in StoredRuns
      BY <3>1, <3>2, EvaluatedIsStored
    <3> QED
      BY <3>3 DEF result
  <2>4. runs' \in Seq(StoredRuns) /\ runs' # <<>>
    BY <1>0, <2>2, <2>3, InsertedStays
  <2> QED
    BY <1>0, <2>1, <2>4 DEF Measuring, Measured
<1>3. CASE CorrectManually
  <2>1. report = NoReport /\ Done /\ UNCHANGED <<evaluation, report>>
    BY <1>3 DEF CorrectManually, evaluating
  <2>2. PICK i \in DOMAIN runs, c \in {"null", "regression"} :
          runs' = [runs EXCEPT ![i].manual = c]
    BY <1>3 DEF CorrectManually
  <2>3. runs' \in Seq(StoredRuns) /\ runs' # <<>>
    BY <1>0, <2>1, <2>2, CorrectedIsStored, CorrectedHasLength
  <2> QED
    BY <2>1, <2>3 DEF Measuring, Measured
<1>4. CASE Measure
  <2>1. /\ Done /\ UNCHANGED <<evaluation, runs>>
        /\ report' = [aggregate |-> Aggregated(runs), analysis |-> Analysed(runs)]
    BY <1>4 DEF Measure, evaluating
  <2>2. Done'
    BY <2>1 DEF Done
  <2>3. Aggregated(runs)' = Aggregated(runs) /\ Analysed(runs)' = Analysed(runs)
    BY <2>1
  <2> QED
    BY <1>0, <2>1, <2>2, <2>3 DEF Measuring
<1>5. CASE UNCHANGED vars
  BY <1>0, <1>5 DEF Measuring, vars, evaluating, Done, Measured
<1> QED
  BY <1>1, <1>2, <1>3, <1>4, <1>5 DEF Next, Ended

(* The set of values of a sequence is finite. *)
LEMMA ValuesFinite ==
  ASSUME NEW n \in Nat, NEW f, f = [i \in 1..n |-> f[i]]
  PROVE  IsFiniteSet({f[i] : i \in 1..n})
<1> DEFINE S == {f[i] : i \in 1..n}
<1>1. IsFiniteSet(1..n)
  BY FS_Interval
<1>2. f \in [1..n -> S]
  OBVIOUS
<1>3. \A x \in S : \E i \in 1..n : f[i] = x
  OBVIOUS
<1> HIDE DEF S
<1>4. f \in Surjection(1..n, S)
  BY <1>2, <1>3 DEF Surjection
<1>5. IsFiniteSet(S)
  BY <1>1, <1>4, FS_Surjection
<1> QED
  BY <1>5 DEF S

(* Counted by key, a finite set adds up. *)
LEMMA KeysAddUp ==
  ASSUME NEW D, IsFiniteSet(D), NEW key, NEW C, IsFiniteSet(C), \A i \in D : key[i] \in C
  PROVE  /\ Total(Sizes(D, key, SetToSeq(C))) = Cardinality(D)
         /\ \A k \in DOMAIN SetToSeq(C) : SetToSeq(C)[k] \in C
<1> DEFINE keys == SetToSeq(C)
<1>1. /\ keys \in Seq(C)
      /\ \A i, j \in DOMAIN keys : keys[i] = keys[j] => i = j
      /\ \A x \in C : \E k \in DOMAIN keys : x = keys[k]
  BY ListedOnce
<1> HIDE DEF keys
<1>2. \A i \in D : \E k \in DOMAIN keys : key[i] = keys[k]
  BY <1>1
<1>3. Total(Sizes(D, key, keys)) = Cardinality(D)
  BY <1>1, <1>2, PartsAddUp
<1>4. \A k \in DOMAIN keys : keys[k] \in C
  BY <1>1
<1> QED
  BY <1>3, <1>4 DEF keys

LEMMA RunsAreListed ==
  ASSUME NEW R \in Seq(StoredRuns)
  PROVE  /\ Len(R) \in Nat /\ DOMAIN R = 1..Len(R)
         /\ IsFiniteSet(DOMAIN R) /\ Cardinality(DOMAIN R) = Len(R)
         /\ \A i \in DOMAIN R : R[i] \in Stored /\ Agrees(R[i])
         /\ \A D \in SUBSET DOMAIN R : IsFiniteSet(D) /\ Cardinality(D) \in Nat
<1>1. Len(R) \in Nat /\ DOMAIN R = 1..Len(R)
  OBVIOUS
<1>2. IsFiniteSet(DOMAIN R) /\ Cardinality(DOMAIN R) = Len(R)
  <2>1. 1 \in Int /\ Len(R) \in Int
        /\ (IF 1 > Len(R) THEN 0 ELSE Len(R) - 1 + 1) = Len(R)
    BY <1>1
  <2> QED
    BY <1>1, <2>1, FS_Interval
<1>3. \A i \in DOMAIN R : R[i] \in Stored /\ Agrees(R[i])
  BY DEF StoredRuns
<1>4. \A D \in SUBSET DOMAIN R : IsFiniteSet(D) /\ Cardinality(D) \in Nat
  BY <1>2, FS_Subset, FS_CardinalityType
<1> QED
  BY <1>1, <1>2, <1>3, <1>4

(* Any of the runs, counted by configuration, add up to all of them. *)
LEMMA ConfigurationsAddUp ==
  ASSUME NEW R \in Seq(StoredRuns), NEW D \in SUBSET DOMAIN R, NEW keys,
         keys = SetToSeq(Configurations(R))
  PROVE  /\ Total([k \in DOMAIN keys |-> Cardinality(D \cap Belonging(keys[k], R))])
              = Cardinality(D)
         /\ \A k \in DOMAIN keys : keys[k] \in Configurations(R)
<1> DEFINE key == [i \in 1..Len(R) |-> R[i].configuration]
           C == Configurations(R)
<1>1. Len(R) \in Nat /\ DOMAIN R = 1..Len(R) /\ IsFiniteSet(D)
  BY RunsAreListed
<1>2. C = {key[i] : i \in 1..Len(R)} /\ key = [i \in 1..Len(R) |-> key[i]]
  BY <1>1 DEF Configurations
<1>3. IsFiniteSet(C)
  <2> HIDE DEF key, C
  <2> QED
    BY <1>1, <1>2, ValuesFinite
<1>4. \A i \in D : key[i] \in C
  BY <1>1, <1>2
<1>5. keys = SetToSeq(C)
  OBVIOUS
<1>6. \A c : Part(D, key, c) = D \cap Belonging(c, R)
  BY <1>1 DEF Part, Belonging
<1>7. /\ Total(Sizes(D, key, keys)) = Cardinality(D)
      /\ \A k \in DOMAIN keys : keys[k] \in C
  <2>1. IsFiniteSet(D)
    BY <1>1
  <2> HIDE DEF key, C
  <2>2. /\ Total(Sizes(D, key, SetToSeq(C))) = Cardinality(D)
        /\ \A k \in DOMAIN SetToSeq(C) : SetToSeq(C)[k] \in C
    BY <1>3, <1>4, <2>1, KeysAddUp
  <2> QED
    BY <1>5, <2>2
<1>8. Sizes(D, key, keys)
        = [k \in DOMAIN keys |-> Cardinality(D \cap Belonging(keys[k], R))]
  <2> HIDE DEF key
  <2> QED
    BY <1>6 DEF Sizes
<1> QED
  BY <1>7, <1>8

(* What Scores makes of a rate of correctness: how many of the places have *)
(* a passed run, and how many have a score.                                *)
Scores(correctness) == IF correctness = <<>> THEN <<0, 0>> ELSE correctness

LEMMA ScoresCount ==
  ASSUME NEW R, NEW places
  PROVE  /\ Scores(Correctness(R, places))[1] = Cardinality(Correct(R) \cap places)
         /\ Scores(Correctness(R, places))[2] = Cardinality(Scored(R) \cap places)
<1>1. CASE Scored(R) \cap places = {}
  <2>1. Correct(R) \cap places = {}
    BY <1>1 DEF Correct, Scored
  <2>2. Cardinality({}) = 0
    BY FS_EmptySet
  <2> QED
    BY <1>1, <2>1, <2>2 DEF Correctness, Scores
<1>2. CASE Scored(R) \cap places # {}
  BY <1>2 DEF Correctness, Scores
<1> QED
  BY <1>1, <1>2

(* A run whose environment failed has no score, unless the edit study gave *)
(* it one, and counts nowhere.                                             *)
LEMMA UnscorableLeftOut ==
  ASSUME NEW R \in Seq(StoredRuns)
  PROVE  Correctness(R, DOMAIN R)
           = Correctness(R, {i \in DOMAIN R : \/ R[i].terminal # "environment_error"
                                              \/ R[i].configuration \in EditConfiguration})
<1> DEFINE ran == {i \in DOMAIN R : \/ R[i].terminal # "environment_error"
                                    \/ R[i].configuration \in EditConfiguration}
<1>1. \A i \in DOMAIN R : i \notin ran => R[i].score = "null"
  BY RunsAreListed DEF Agrees, StoredScore
<1>2. Correct(R) \cap DOMAIN R = Correct(R) \cap ran
  BY <1>1 DEF Correct
<1>3. Scored(R) \cap DOMAIN R = Scored(R) \cap ran
  BY <1>1 DEF Scored
<1> HIDE DEF ran
<1>4. Correctness(R, DOMAIN R) = Correctness(R, ran)
  BY <1>2, <1>3 DEF Correctness
<1> QED
  BY <1>4 DEF ran

(* Each run that was not resolved or was corrected is under one category. *)
LEMMA CategoriesAddUp ==
  ASSUME NEW R \in Seq(StoredRuns), NEW keys,
         keys = SetToSeq(DOMAIN FailureCategoryCounts(R)),
         NEW failed,
         failed = {i \in DOMAIN R :
                     \/ R[i].terminal \notin {"resolved", "cancelled"}
                     \/ R[i].category # "null" \/ R[i].manual \notin {"absent", "null"}}
  PROVE  Total([k \in DOMAIN keys |-> FailureCategoryCounts(R)[keys[k]]]) = Cardinality(failed)
<1> DEFINE key == [i \in 1..Len(R) |->
                     IF R[i].manual \notin {"absent", "null"} THEN R[i].manual
                     ELSE R[i].category]
           C == UNION {Counted(R[i]) : i \in DOMAIN R}
<1>1. /\ Len(R) \in Nat /\ DOMAIN R = 1..Len(R)
      /\ \A D \in SUBSET DOMAIN R : IsFiniteSet(D)
      /\ \A i \in DOMAIN R : Agrees(R[i])
  BY RunsAreListed
<1>2. \A i \in DOMAIN R : Counted(R[i]) = IF i \in failed THEN {key[i]} ELSE {}
  <2> SUFFICES ASSUME NEW i \in DOMAIN R
               PROVE  Counted(R[i]) = IF i \in failed THEN {key[i]} ELSE {}
    OBVIOUS
  <2>1. R[i].terminal \notin {"resolved", "cancelled"} => R[i].category # "null"
    BY <1>1 DEF Agrees
  <2>2. key[i] = IF R[i].manual \notin {"absent", "null"} THEN R[i].manual ELSE R[i].category
    BY <1>1
  <2> HIDE DEF key
  <2>3. i \in failed <=> R[i].category # "null" \/ R[i].manual \notin {"absent", "null"}
    BY <2>1
  <2>4. CASE R[i].manual \notin {"absent", "null"}
    BY <2>2, <2>3, <2>4 DEF Counted
  <2>5. CASE R[i].manual \in {"absent", "null"} /\ R[i].category # "null"
    BY <2>2, <2>3, <2>5 DEF Counted
  <2>6. CASE R[i].manual \in {"absent", "null"} /\ R[i].category = "null"
    BY <2>2, <2>3, <2>6 DEF Counted
  <2> QED
    BY <2>4, <2>5, <2>6
<1>3. IsFiniteSet(failed) /\ failed \subseteq DOMAIN R
  <2>1. failed \in SUBSET DOMAIN R
    OBVIOUS
  <2> QED
    BY <1>1, <2>1
<1>4. DOMAIN FailureCategoryCounts(R) = C
  BY DEF FailureCategoryCounts
<1>5. C \in SUBSET {key[i] : i \in 1..Len(R)}
  <2> HIDE DEF key
  <2> QED
    BY <1>1, <1>2
<1>6. IsFiniteSet(C)
  <2>1. key = [i \in 1..Len(R) |-> key[i]]
    OBVIOUS
  <2> HIDE DEF key, C
  <2>2. IsFiniteSet({key[i] : i \in 1..Len(R)})
    BY <1>1, <2>1, ValuesFinite
  <2> QED
    BY <1>5, <2>2, FS_Subset
<1>7. keys = SetToSeq(C)
  BY <1>4
<1>8. \A i \in failed : key[i] \in C
  <2> HIDE DEF key
  <2> QED
    BY <1>2, <1>3
<1>9. \A c \in C : FailureCategoryCounts(R)[c] = Cardinality(Part(failed, key, c))
  <2> SUFFICES ASSUME NEW c \in C
               PROVE  FailureCategoryCounts(R)[c] = Cardinality(Part(failed, key, c))
    OBVIOUS
  <2>1. FailureCategoryCounts(R)[c] = Cardinality({i \in DOMAIN R : c \in Counted(R[i])})
    BY DEF FailureCategoryCounts
  <2>2. {i \in DOMAIN R : c \in Counted(R[i])} = Part(failed, key, c)
    <3> HIDE DEF key
    <3> QED
      BY <1>2, <1>3 DEF Part
  <2> QED
    BY <2>1, <2>2
<1>10. /\ Total(Sizes(failed, key, keys)) = Cardinality(failed)
       /\ \A k \in DOMAIN keys : keys[k] \in C
  <2> HIDE DEF key, C
  <2>1. /\ Total(Sizes(failed, key, SetToSeq(C))) = Cardinality(failed)
        /\ \A k \in DOMAIN SetToSeq(C) : SetToSeq(C)[k] \in C
    BY <1>3, <1>6, <1>8, KeysAddUp
  <2> QED
    BY <1>7, <2>1
<1>11. [k \in DOMAIN keys |-> FailureCategoryCounts(R)[keys[k]]]
         = Sizes(failed, key, keys)
  <2> HIDE DEF key, C
  <2> QED
    BY <1>9, <1>10 DEF Sizes
<1> QED
  BY <1>10, <1>11

LEMMA AggregateHolds == Measuring => AggregateIsHonest
<1> SUFFICES ASSUME Measuring, Measured PROVE AggregateIsHonest
  BY DEF AggregateIsHonest
<1> DEFINE all == DOMAIN runs
           keys == SetToSeq(Configurations(runs))
           parts == [c \in Configurations(runs) |-> Tally(runs, Belonging(c, runs))]
           counts == FailureCategoryCounts(runs)
           names == SetToSeq(DOMAIN counts)
           failed == {i \in DOMAIN runs :
                        \/ runs[i].terminal \notin {"resolved", "cancelled"}
                        \/ runs[i].category # "null"
                        \/ runs[i].manual \notin {"absent", "null"}}
           ran == {i \in DOMAIN runs : \/ runs[i].terminal # "environment_error"
                                       \/ runs[i].configuration \in EditConfiguration}
<1>1. /\ runs \in Seq(StoredRuns) /\ runs # <<>>
      /\ report = [aggregate |-> Aggregated(runs), analysis |-> Analysed(runs)]
  BY DEF Measuring
<1>2. /\ report.aggregate.overall = Tally(runs, all)
      /\ report.aggregate.byConfiguration = parts
      /\ report.aggregate.categories = counts
      /\ report.aggregate.medianRuntime = <<Median(Latencies(runs))>>
      /\ report.analysis.latency = Summarize(Latencies(runs))
  BY <1>1 DEF Aggregated, Analysed
<1>3. \A places : /\ Tally(runs, places).total = Cardinality(places)
                  /\ Tally(runs, places).resolved = Cardinality(Resolved(runs) \cap places)
                  /\ Tally(runs, places).correctness = Correctness(runs, places)
  BY DEF Tally
<1>4. \A D \in SUBSET all :
        /\ Total([k \in DOMAIN keys |-> Cardinality(D \cap Belonging(keys[k], runs))])
             = Cardinality(D)
        /\ \A k \in DOMAIN keys : keys[k] \in Configurations(runs)
  BY <1>1, ConfigurationsAddUp
<1>5. \A k \in DOMAIN keys : keys[k] \in Configurations(runs)
  BY <1>4
<1>6. /\ Resolved(runs) \in SUBSET all /\ Correct(runs) \in SUBSET all
      /\ Scored(runs) \in SUBSET all /\ all \in SUBSET all
      /\ \A c : Belonging(c, runs) = all \cap Belonging(c, runs)
  BY DEF Resolved, Correct, Scored, Belonging
<1>7. \A k \in DOMAIN keys : parts[keys[k]] = Tally(runs, Belonging(keys[k], runs))
  <2> HIDE DEF keys
  <2> QED
    BY <1>5
<1>8. Tally(runs, all).total = Len(runs)
  BY <1>1, <1>3, RunsAreListed
<1>9. Tally(runs, all).total = Total([k \in DOMAIN keys |-> parts[keys[k]].total])
  <2>1. [k \in DOMAIN keys |-> parts[keys[k]].total]
          = [k \in DOMAIN keys |-> Cardinality(all \cap Belonging(keys[k], runs))]
    <3> HIDE DEF keys, parts, all
    <3> QED
      BY <1>3, <1>6, <1>7
  <2> HIDE DEF keys, parts, all
  <2> QED
    BY <1>3, <1>4, <1>6, <2>1
<1>10. Tally(runs, all).resolved = Total([k \in DOMAIN keys |-> parts[keys[k]].resolved])
  <2>1. [k \in DOMAIN keys |-> parts[keys[k]].resolved]
          = [k \in DOMAIN keys |-> Cardinality(Resolved(runs) \cap Belonging(keys[k], runs))]
    <3> HIDE DEF keys, parts, all
    <3> QED
      BY <1>3, <1>7
  <2>2. Resolved(runs) \cap all = Resolved(runs)
    BY <1>6
  <2> HIDE DEF keys, parts, all
  <2> QED
    BY <1>3, <1>4, <1>6, <2>1, <2>2
<1>11. ASSUME NEW n \in {1, 2}
       PROVE  Scores(Tally(runs, all).correctness)[n]
                = Total([k \in DOMAIN keys |-> Scores(parts[keys[k]].correctness)[n]])
  <2> DEFINE D == IF n = 1 THEN Correct(runs) ELSE Scored(runs)
  <2>1. \A places : Scores(Tally(runs, places).correctness)[n] = Cardinality(D \cap places)
    <3>1. \A places : Scores(Correctness(runs, places))[n] = Cardinality(D \cap places)
      <4>1. CASE n = 1
        BY <4>1, ScoresCount
      <4>2. CASE n = 2
        BY <4>2, ScoresCount
      <4> QED
        BY <4>1, <4>2
    <3> HIDE DEF D, all
    <3> QED
      BY <1>3, <3>1
  <2>2. D \in SUBSET all
    BY <1>6
  <2> HIDE DEF D, keys, parts, all
  <2>3. [k \in DOMAIN keys |-> Scores(parts[keys[k]].correctness)[n]]
          = [k \in DOMAIN keys |-> Cardinality(D \cap Belonging(keys[k], runs))]
    BY <1>7, <2>1
  <2>4. D \cap all = D
    BY <2>2
  <2>5. Total([k \in DOMAIN keys |-> Cardinality(D \cap Belonging(keys[k], runs))])
          = Cardinality(D)
    BY <1>4, <2>2
  <2> QED
    BY <2>1, <2>3, <2>4, <2>5
<1>12. Tally(runs, all).correctness = Correctness(runs, ran)
  BY <1>1, <1>3, UnscorableLeftOut
<1>13. Total([k \in DOMAIN names |-> counts[names[k]]]) = Cardinality(failed)
  BY <1>1, CategoriesAddUp
<1>14. 5 * Median(Latencies(runs)) = Summarize(Latencies(runs)).median
  <2>1. Latencies(runs) = [i \in DOMAIN runs |-> runs[i].latency]
    BY DEF Latencies, Each
  <2>2. /\ Len(runs) \in Nat /\ DOMAIN runs = 1..Len(runs)
        /\ \A i \in DOMAIN runs : runs[i].latency \in Int
    BY <1>1, RunsAreListed DEF Stored
  <2>3. Numbers(Latencies(runs)) /\ DOMAIN Latencies(runs) = DOMAIN runs
    BY <1>1, <2>1, <2>2, RunsAreListed DEF Numbers
  <2>4. DOMAIN runs # {}
    <3>1. Len(runs) # 0
      BY <1>1
    <3> QED
      BY <2>2, <3>1
  <2> QED
    BY <2>3, <2>4, MediansAgree
<1>15. DOMAIN parts = Configurations(runs)
  OBVIOUS
<1> HIDE DEF all, keys, parts, counts, names, failed, ran
<1> QED
  BY <1>2, <1>8, <1>9, <1>10, <1>11, <1>12, <1>13, <1>14, <1>15
  DEF AggregateIsHonest, Scores, all, keys, names, failed, ran

(* Whatever runs were stored before, and in whatever order their files are *)
(* read: once the runs are measured, what the dashboard and the reports    *)
(* say of them stands for all of them, as AggregateIsHonest states it.     *)
THEOREM MeasuresCorrect == Spec => []AggregateIsHonest
<1>1. Init => IInv /\ Measuring
  BY InitHolds, MeasuringHolds
<1>2. IInv /\ Measuring /\ [Next]_vars => IInv' /\ Measuring'
  BY IInvStays, MeasuringStays
<1> QED
  BY <1>1, <1>2, AggregateHolds, PTL DEF Spec

-----------------------------------------------------------------------------
(* What is a rank higher is not less. *)
LEMMA RanksAscend ==
  ASSUME NEW values, Numbers(values), NEW k \in Int, NEW m \in Int, k <= m,
         NEW v, RankedAt(values, k, v), NEW w, RankedAt(values, m, w)
  PROVE  v <= w
<1> DEFINE Below == {i \in DOMAIN values : values[i] < v}
           Upto == {i \in DOMAIN values : values[i] <= w}
<1>1. v \in Int /\ w \in Int /\ \A i \in DOMAIN values : values[i] \in Int
  BY DEF RankedAt, Range, Numbers
<1>2. /\ IsFiniteSet(DOMAIN values)
      /\ Cardinality(Below) < k /\ Cardinality(Upto) >= m
  BY DEF RankedAt, Numbers
<1>3. SUFFICES ASSUME w < v PROVE FALSE
  BY <1>1
<1>4. Upto \subseteq Below /\ Below \subseteq DOMAIN values
  BY <1>1, <1>3
<1> HIDE DEF Below, Upto
<1>5. IsFiniteSet(Below) /\ Cardinality(Below) \in Nat /\ Cardinality(Upto) \in Nat
      /\ Cardinality(Upto) <= Cardinality(Below)
  BY <1>2, <1>4, FS_Subset, FS_CardinalityType
<1>6. PICK a \in Nat, b \in Nat : a = Cardinality(Upto) /\ b = Cardinality(Below)
  BY <1>5
<1> QED
  BY <1>2, <1>5, <1>6

LEMMA RankIsUnique ==
  ASSUME NEW values, Numbers(values), NEW k \in Int,
         NEW v, RankedAt(values, k, v), NEW w, RankedAt(values, k, w)
  PROVE  v = w
<1>1. v <= w /\ w <= v
  BY RanksAscend
<1>2. v \in Int /\ w \in Int
  BY DEF RankedAt, Range, Numbers
<1> QED
  BY <1>1, <1>2

(* Of the opposite numbers the ranks are counted from the other end. *)
Opposite(values, others) ==
  DOMAIN others = DOMAIN values /\ \A i \in DOMAIN values : others[i] = 0 - values[i]

LEMMA RanksMirror ==
  ASSUME NEW values, Numbers(values), NEW others, Opposite(values, others),
         NEW n, n = Cardinality(DOMAIN values),
         NEW k \in 1..n, NEW v, RankedAt(values, k, v)
  PROVE  Numbers(others) /\ RankedAt(others, n + 1 - k, 0 - v)
<1> DEFINE I == DOMAIN values
           Below == {i \in I : values[i] < v}
           Upto == {i \in I : values[i] <= v}
<1>1. /\ IsFiniteSet(I) /\ \A i \in I : values[i] \in Int
      /\ DOMAIN others = I /\ \A i \in I : others[i] = 0 - values[i]
  BY DEF Numbers, Opposite
<1>2. PICK j \in I : v = values[j]
  BY DEF RankedAt, Range
<1>3. v \in Int /\ 0 - v = others[j]
  BY <1>1, <1>2
<1>4. Cardinality(Below) < k /\ Cardinality(Upto) >= k
  BY DEF RankedAt
<1>5. {i \in DOMAIN others : others[i] < 0 - v} = I \ Upto
  BY <1>1, <1>3
<1>6. {i \in DOMAIN others : others[i] <= 0 - v} = I \ Below
  BY <1>1, <1>3
<1>7. Below \subseteq I /\ Upto \subseteq I
  OBVIOUS
<1>8. n = Cardinality(I)
  OBVIOUS
<1> HIDE DEF I, Below, Upto
<1>9. /\ n \in Nat /\ Cardinality(Below) \in Nat /\ Cardinality(Upto) \in Nat
      /\ Cardinality(I \ Upto) = n - Cardinality(Upto)
      /\ Cardinality(I \ Below) = n - Cardinality(Below)
  <2>1. IsFiniteSet(Below) /\ IsFiniteSet(Upto) /\ Below \cap I = Below /\ Upto \cap I = Upto
         /\ I \cap Below = Below /\ I \cap Upto = Upto
    BY <1>1, <1>7, FS_Subset
  <2>2. Cardinality(I) \in Nat /\ Cardinality(Below) \in Nat /\ Cardinality(Upto) \in Nat
    BY <1>1, <2>1, FS_CardinalityType
  <2>3. Cardinality(I \ Upto) = n - Cardinality(Upto)
    <3>1. Cardinality(I \ Upto) = Cardinality(I) - Cardinality(I \cap Upto)
      BY <1>1, FS_Difference
    <3> QED
      BY <1>8, <2>1, <3>1
  <2>4. Cardinality(I \ Below) = n - Cardinality(Below)
    <3>1. Cardinality(I \ Below) = Cardinality(I) - Cardinality(I \cap Below)
      BY <1>1, FS_Difference
    <3> QED
      BY <1>8, <2>1, <3>1
  <2> QED
    BY <1>8, <2>2, <2>3, <2>4
<1>10. Cardinality(I \ Upto) < n + 1 - k /\ Cardinality(I \ Below) >= n + 1 - k
  <2>1. PICK a \in Nat, b \in Nat : a = Cardinality(Upto) /\ b = Cardinality(Below)
    BY <1>9
  <2>2. n - a < n + 1 - k /\ n - b >= n + 1 - k
    BY <1>4, <1>9, <2>1
  <2> QED
    BY <1>9, <2>1, <2>2
<1>11. 0 - v \in Range(others)
  BY <1>1, <1>3 DEF Range
<1>12. Numbers(others)
  BY <1>1 DEF Numbers
<1> QED
  BY <1>5, <1>6, <1>10, <1>11, <1>12 DEF RankedAt

(* Numbers in ascending order. *)
Rising(s, n) ==
  /\ s \in Seq(Int) /\ Len(s) = n
  /\ \A k \in 1..n : s[k] \in Int
  /\ \A k, m \in 1..n : k <= m => s[k] <= s[m]

LEMMA SortedRises ==
  ASSUME NEW values, Numbers(values), NEW n, n = Cardinality(DOMAIN values)
  PROVE  n \in Nat /\ Rising(Sorted(values), n)
<1>1. PICK s : s = Sorted(values)
  OBVIOUS
<1>2. /\ n \in Nat /\ s \in Seq(Int) /\ Len(s) = n
      /\ \A k \in 1..n : s[k] = Ranked(values, k) /\ s[k] \in Int
  BY <1>1, SortedNumbers
<1>3. ASSUME NEW k \in 1..n, NEW m \in 1..n, k <= m PROVE s[k] <= s[m]
  <2>1. RankedAt(values, k, Ranked(values, k)) /\ RankedAt(values, m, Ranked(values, m))
    BY RankedIsOne
  <2>2. Ranked(values, k) <= Ranked(values, m)
    BY <1>3, <2>1, RanksAscend
  <2> QED
    BY <1>2, <2>2
<1> QED
  BY <1>1, <1>2, <1>3 DEF Rising

LEMMA SortedMirrors ==
  ASSUME NEW values, Numbers(values), NEW others, Opposite(values, others),
         NEW n, n = Cardinality(DOMAIN values), NEW k \in 1..n
  PROVE  Sorted(others)[n + 1 - k] = 0 - Sorted(values)[k]
<1>0. n \in Nat
  BY FS_CardinalityType DEF Numbers
<1>1. n + 1 - k \in 1..n /\ n = Cardinality(DOMAIN others)
  BY <1>0 DEF Opposite
<1>2. RankedAt(values, k, Ranked(values, k))
  BY RankedIsOne
<1>3. Numbers(others) /\ RankedAt(others, n + 1 - k, 0 - Ranked(values, k))
  BY <1>2, RanksMirror
<1>4. RankedAt(others, n + 1 - k, Ranked(others, n + 1 - k))
  BY <1>1, <1>3, RankedIsOne
<1>5. PICK m \in 1..n : m = n + 1 - k
  BY <1>1
<1>6. Ranked(others, m) = 0 - Ranked(values, k)
  BY <1>3, <1>4, <1>5, RankIsUnique
<1>7. Sorted(others)[m] = Ranked(others, m) /\ Sorted(values)[k] = Ranked(values, k)
  BY <1>1, <1>3, SortedNumbers
<1> QED
  BY <1>5, <1>6, <1>7

(* What is at a place between 1 and n that is given in tenths from 0. *)
AtTenth(s, x) ==
  IF x % 10 = 0 THEN 10 * s[(x \div 10) + 1]
  ELSE 10 * s[(x \div 10) + 1] + (s[(x \div 10) + 2] - s[(x \div 10) + 1]) * (x % 10)

LEMMA PercentileAt ==
  ASSUME NEW s, NEW q
  PROVE  Percentile(s, q) = AtTenth(s, (Len(s) - 1) * q)
  BY DEF Percentile, AtTenth

LEMMA SharesRise ==
  ASSUME NEW d \in Nat, NEW r \in 0..10, NEW t \in 0..10, r <= t
  PROVE  d * r \in Nat /\ d * r <= d * t
<1>1. PICK e \in Nat : t = r + e
  <2>1. t - r \in Nat /\ t = r + (t - r)
    OBVIOUS
  <2> QED
    BY <2>1
<1>2. d * t = d * r + d * e
  BY <1>1
<1>3. \A a, b \in Nat : a * b \in Nat
  OBVIOUS
<1>4. d * e \in Nat /\ d * r \in Nat
  BY <1>3
<1> QED
  BY <1>2, <1>4

LEMMA Tenths ==
  ASSUME NEW n \in Nat, NEW x \in 0..(10 * (n - 1))
  PROVE  \E l \in Nat, r \in 0..9 :
            /\ x = 10 * l + r /\ x \div 10 = l /\ x % 10 = r
            /\ l + 1 \in 1..n /\ (r # 0 => l + 2 \in 1..n)
<1>1. PICK l \in Nat, r \in 0..9 : x = 10 * l + r /\ x \div 10 = l /\ x % 10 = r
  <2>1. x \in Nat
    OBVIOUS
  <2>2. x \div 10 \in Nat /\ x % 10 \in 0..9 /\ x = 10 * (x \div 10) + (x % 10)
    BY ONLY <2>1
  <2> QED
    BY <2>2
<1>2. l + 1 \in 1..n /\ (r # 0 => l + 2 \in 1..n)
  BY <1>1
<1> QED
  BY <1>1, <1>2

(* It is between the values before and after it. *)
LEMMA TenthBetween ==
  ASSUME NEW n \in Nat, NEW s, Rising(s, n), NEW l \in Nat, NEW r \in 0..9, NEW x,
         x \div 10 = l, x % 10 = r, l + 1 \in 1..n, r # 0 => l + 2 \in 1..n
  PROVE  /\ AtTenth(s, x) \in Int
         /\ 10 * s[l + 1] <= AtTenth(s, x)
         /\ l + 2 \in 1..n => AtTenth(s, x) <= 10 * s[l + 2]
<1>1. PICK a \in Int : a = s[l + 1]
  BY DEF Rising
<1>2. CASE r = 0
  <2>1. AtTenth(s, x) = 10 * a
    BY <1>1, <1>2 DEF AtTenth
  <2>2. ASSUME l + 2 \in 1..n PROVE s[l + 2] \in Int /\ a <= s[l + 2]
    BY <1>1, <2>2 DEF Rising
  <2> QED
    BY <1>1, <2>1, <2>2
<1>3. CASE r # 0
  <2>1. PICK b \in Int : b = s[l + 2] /\ a <= b
    BY <1>1, <1>3 DEF Rising
  <2>2. AtTenth(s, x) = 10 * a + (b - a) * r
    BY <1>1, <1>3, <2>1 DEF AtTenth
  <2>3. PICK d \in Nat : d = b - a
    BY <2>1
  <2>4. d * r \in Nat /\ d * r <= d * 10
    BY SharesRise
  <2>5. 10 * a + d * r \in Int /\ 10 * a <= 10 * a + d * r /\ 10 * a + d * r <= 10 * b
    BY <2>3, <2>4
  <2>6. 10 * s[l + 1] = 10 * a /\ 10 * s[l + 2] = 10 * b /\ AtTenth(s, x) = 10 * a + d * r
    BY <1>1, <2>1, <2>2, <2>3
  <2> QED
    BY <2>5, <2>6
<1> QED
  BY <1>2, <1>3

LEMMA TenthsRise ==
  ASSUME NEW n \in Nat, NEW s, Rising(s, n),
         NEW x \in 0..(10 * (n - 1)), NEW y \in 0..(10 * (n - 1)), x <= y
  PROVE  /\ AtTenth(s, x) \in Int /\ AtTenth(s, y) \in Int
         /\ AtTenth(s, x) <= AtTenth(s, y)
<1>1. PICK l \in Nat, r \in 0..9 : /\ x = 10 * l + r /\ x \div 10 = l /\ x % 10 = r
                                   /\ l + 1 \in 1..n /\ (r # 0 => l + 2 \in 1..n)
  BY Tenths
<1>2. PICK m \in Nat, t \in 0..9 : /\ y = 10 * m + t /\ y \div 10 = m /\ y % 10 = t
                                   /\ m + 1 \in 1..n /\ (t # 0 => m + 2 \in 1..n)
  BY Tenths
<1>3. /\ AtTenth(s, x) \in Int
      /\ 10 * s[l + 1] <= AtTenth(s, x)
      /\ l + 2 \in 1..n => AtTenth(s, x) <= 10 * s[l + 2]
  BY <1>1, TenthBetween
<1>4. AtTenth(s, y) \in Int /\ 10 * s[m + 1] <= AtTenth(s, y)
  BY <1>2, TenthBetween
<1>5. PICK u \in Int, v \in Int : u = AtTenth(s, x) /\ v = AtTenth(s, y)
  BY <1>3, <1>4
<1>6. l <= m /\ (l = m => r <= t)
  BY <1>1, <1>2
<1>7. CASE l < m
  <2>1. l + 2 \in 1..n /\ l + 2 <= m + 1
    BY <1>1, <1>2, <1>7
  <2>2. PICK b \in Int, c \in Int : b = s[l + 2] /\ c = s[m + 1] /\ b <= c
    BY <1>2, <2>1 DEF Rising
  <2>3. u <= 10 * b /\ 10 * c <= v
    BY <1>3, <1>4, <1>5, <2>1, <2>2
  <2>4. u <= v
    BY <2>2, <2>3
  <2> QED
    BY <1>3, <1>4, <1>5, <2>4
<1>8. CASE l = m
  <2>1. PICK a \in Int : a = s[l + 1]
    BY <1>1 DEF Rising
  <2>2. CASE r = 0
    <3>1. u = 10 * a /\ 10 * a <= v
      BY <1>1, <1>4, <1>5, <1>8, <2>1, <2>2 DEF AtTenth
    <3> QED
      BY <1>3, <1>4, <1>5, <3>1
  <2>3. CASE r # 0
    <3>1. t # 0
      BY <1>6, <1>8, <2>3
    <3>2. PICK b \in Int : b = s[l + 2] /\ a <= b
      BY <1>1, <2>1, <2>3 DEF Rising
    <3>3. u = 10 * a + (b - a) * r /\ v = 10 * a + (b - a) * t
      BY <1>1, <1>2, <1>5, <1>8, <2>1, <2>3, <3>1, <3>2 DEF AtTenth
    <3>4. PICK d \in Nat : d = b - a
      BY <3>2
    <3>5. d * r \in Nat /\ d * t \in Nat /\ d * r <= d * t
      BY <1>6, <1>8, SharesRise
    <3>6. u <= v
      BY <3>3, <3>4, <3>5
    <3> QED
      BY <1>3, <1>4, <1>5, <3>6
  <2> QED
    BY <2>2, <2>3
<1> QED
  BY <1>6, <1>7, <1>8

(* Of the opposite numbers it is the opposite, counted from the other end. *)
LEMMA TenthsMirror ==
  ASSUME NEW n \in Nat, NEW s, Rising(s, n), NEW o, Rising(o, n),
         \A k \in 1..n : o[n + 1 - k] = 0 - s[k],
         NEW x \in 0..(10 * (n - 1)), NEW y, y = 10 * (n - 1) - x
  PROVE  AtTenth(o, y) = 0 - AtTenth(s, x)
<1>1. PICK l \in Nat, r \in 0..9 : /\ x = 10 * l + r /\ x \div 10 = l /\ x % 10 = r
                                   /\ l + 1 \in 1..n /\ (r # 0 => l + 2 \in 1..n)
  BY Tenths
<1>2. PICK a \in Int : a = s[l + 1]
  BY <1>1 DEF Rising
<1>3. o[n - l] = 0 - a
  <2>1. n + 1 - (l + 1) = n - l
    BY <1>1
  <2> QED
    BY <1>1, <1>2, <2>1
<1>4. CASE r = 0
  <2>1. y = 10 * (n - 1 - l) /\ n - 1 - l \in Nat
    BY <1>1, <1>4
  <2>2. y \div 10 = n - 1 - l /\ y % 10 = 0 /\ (n - 1 - l) + 1 = n - l
    BY <2>1
  <2>3. AtTenth(o, y) = 10 * (0 - a)
    BY <1>3, <2>2 DEF AtTenth
  <2>4. AtTenth(s, x) = 10 * a
    BY <1>1, <1>2, <1>4 DEF AtTenth
  <2> QED
    BY <2>3, <2>4
<1>5. CASE r # 0
  <2>1. PICK b \in Int : b = s[l + 2]
    BY <1>1, <1>5 DEF Rising
  <2>2. o[n - 1 - l] = 0 - b
    <3>1. n + 1 - (l + 2) = n - 1 - l
      BY <1>1
    <3> QED
      BY <1>1, <1>5, <2>1, <3>1
  <2>3. y = 10 * (n - 2 - l) + (10 - r) /\ n - 2 - l \in Nat
    BY <1>1, <1>5
  <2>4. /\ y \div 10 = n - 2 - l /\ y % 10 = 10 - r /\ 10 - r # 0
        /\ (n - 2 - l) + 1 = n - 1 - l /\ (n - 2 - l) + 2 = n - l
    BY <1>5, <2>3
  <2>5. AtTenth(o, y) = 10 * (0 - b) + ((0 - a) - (0 - b)) * (10 - r)
    BY <1>3, <2>2, <2>4 DEF AtTenth
  <2>6. AtTenth(s, x) = 10 * a + (b - a) * r
    BY <1>1, <1>2, <1>5, <2>1 DEF AtTenth
  <2>7. 10 * (0 - b) + ((0 - a) - (0 - b)) * (10 - r) = 0 - (10 * a + (b - a) * r)
    <3>1. PICK d \in Int : d = b - a
      OBVIOUS
    <3>2. (0 - a) - (0 - b) = d /\ b = a + d
      BY <3>1
    <3>3. d * (10 - r) = 10 * d - d * r
      OBVIOUS
    <3> QED
      BY <3>1, <3>2, <3>3
  <2> QED
    BY <2>5, <2>6, <2>7
<1> QED
  BY <1>4, <1>5

(* A summary of at least one number, place by place. *)
Summarized(values, n, s) ==
  /\ n \in Nat /\ n >= 1 /\ n = Cardinality(DOMAIN values)
  /\ s = Sorted(values) /\ Rising(s, n)
  /\ Summarize(values) =
       [count |-> n, min |-> AtTenth(s, 0), p10 |-> AtTenth(s, n - 1),
        median |-> AtTenth(s, 5 * (n - 1)), p90 |-> AtTenth(s, 9 * (n - 1)),
        max |-> AtTenth(s, 10 * (n - 1))]

LEMMA SummaryIs ==
  ASSUME NEW values, Numbers(values), DOMAIN values # {}
  PROVE  \E n, s : Summarized(values, n, s)
<1>1. PICK n, s : n = Cardinality(DOMAIN values) /\ s = Sorted(values)
  OBVIOUS
<1>2. n \in Nat /\ n >= 1 /\ Rising(s, n)
  BY <1>1, SortedRises, SomeNumbers
<1>3. Len(s) = n
  BY <1>2 DEF Rising
<1>4. Summarize(values) =
        [count |-> n, min |-> 10 * s[1], p10 |-> AtTenth(s, (n - 1) * 1),
         median |-> AtTenth(s, (n - 1) * 5), p90 |-> AtTenth(s, (n - 1) * 9),
         max |-> 10 * s[n]]
  BY <1>1, <1>3, PercentileAt DEF Summarize
<1>5. (n - 1) * 1 = n - 1 /\ (n - 1) * 5 = 5 * (n - 1) /\ (n - 1) * 9 = 9 * (n - 1)
  BY <1>2
<1>6. AtTenth(s, 0) = 10 * s[1]
  <2>1. 0 % 10 = 0 /\ 0 \div 10 = 0 /\ 0 + 1 = 1
    OBVIOUS
  <2> QED
    BY <2>1 DEF AtTenth
<1>7. AtTenth(s, 10 * (n - 1)) = 10 * s[n]
  <2>1. PICK m \in Nat : n = m + 1
    <3>1. n - 1 \in Nat /\ n = (n - 1) + 1
      BY <1>2
    <3> QED
      BY <3>1
  <2>2. (10 * m) % 10 = 0 /\ (10 * m) \div 10 = m /\ 10 * (n - 1) = 10 * m
    BY <2>1
  <2> QED
    BY <2>1, <2>2 DEF AtTenth
<1>8. Summarize(values) =
        [count |-> n, min |-> AtTenth(s, 0), p10 |-> AtTenth(s, n - 1),
         median |-> AtTenth(s, 5 * (n - 1)), p90 |-> AtTenth(s, 9 * (n - 1)),
         max |-> AtTenth(s, 10 * (n - 1))]
  BY <1>4, <1>5, <1>6, <1>7
<1> QED
  BY <1>1, <1>2, <1>8 DEF Summarized

LEMMA SummaryCounts ==
  ASSUME NEW values, Numbers(values)
  PROVE  Summarize(values).count = Cardinality(DOMAIN values)
<1>1. CASE DOMAIN values = {}
  <2>1. Cardinality(DOMAIN values) = 0
    BY <1>1, FS_EmptySet
  <2> QED
    BY <1>1, <2>1 DEF Summarize, NoSummary
<1>2. CASE DOMAIN values # {}
  BY <1>2, SummaryIs DEF Summarized
<1> QED
  BY <1>1, <1>2

LEMMA SummaryAscends ==
  ASSUME NEW values, Numbers(values)
  PROVE  Ascending(Summarize(values))
<1>1. CASE DOMAIN values = {}
  <2>1. Summarize(values).count = 0
    BY <1>1 DEF Summarize, NoSummary
  <2> QED
    BY <2>1 DEF Ascending
<1>2. CASE DOMAIN values # {}
  <2>1. PICK n, s : Summarized(values, n, s)
    BY <1>2, SummaryIs
  <2>2. \A x, y \in 0..(10 * (n - 1)) : x <= y => AtTenth(s, x) <= AtTenth(s, y)
    BY <2>1, TenthsRise DEF Summarized
  <2>3. /\ 0 \in 0..(10 * (n - 1)) /\ n - 1 \in 0..(10 * (n - 1))
        /\ 5 * (n - 1) \in 0..(10 * (n - 1)) /\ 9 * (n - 1) \in 0..(10 * (n - 1))
        /\ 10 * (n - 1) \in 0..(10 * (n - 1))
        /\ 0 <= n - 1 /\ n - 1 <= 5 * (n - 1) /\ 5 * (n - 1) <= 9 * (n - 1)
        /\ 9 * (n - 1) <= 10 * (n - 1)
    BY <2>1 DEF Summarized
  <2>4. /\ AtTenth(s, 0) <= AtTenth(s, n - 1)
        /\ AtTenth(s, n - 1) <= AtTenth(s, 5 * (n - 1))
        /\ AtTenth(s, 5 * (n - 1)) <= AtTenth(s, 9 * (n - 1))
        /\ AtTenth(s, 9 * (n - 1)) <= AtTenth(s, 10 * (n - 1))
    BY <2>2, <2>3
  <2> QED
    BY <2>1, <2>4 DEF Ascending, Summarized
<1> QED
  BY <1>1, <1>2

(* Seen from the other side, the differences are the opposite ones. *)
LEMMA SummaryMirrors ==
  ASSUME NEW values, Numbers(values), NEW others, Opposite(values, others),
         DOMAIN values # {}
  PROVE  /\ Summarize(values).median = -Summarize(others).median
         /\ Summarize(values).p10 = -Summarize(others).p90
<1>1. PICK n, s : Summarized(values, n, s)
  BY SummaryIs
<1>2. Numbers(others) /\ DOMAIN others = DOMAIN values
  BY DEF Numbers, Opposite
<1>3. PICK m, o : Summarized(others, m, o)
  BY <1>2, SummaryIs
<1>4. n \in Nat /\ n >= 1 /\ n = Cardinality(DOMAIN values) /\ Rising(s, n) /\ m = n
      /\ Rising(o, n)
  BY <1>1, <1>2, <1>3 DEF Summarized
<1>5. \A k \in 1..n : o[n + 1 - k] = 0 - s[k]
  BY <1>1, <1>3, <1>4, SortedMirrors DEF Summarized
<1>6. ASSUME NEW x \in 0..(10 * (n - 1)), NEW y, y = 10 * (n - 1) - x
      PROVE  AtTenth(s, x) = -AtTenth(o, y)
  <2>1. AtTenth(o, y) = 0 - AtTenth(s, x)
    BY <1>4, <1>5, <1>6, TenthsMirror
  <2>2. AtTenth(s, x) \in Int
    BY <1>4, TenthsRise
  <2> QED
    BY <2>1, <2>2
<1>7. /\ n - 1 \in 0..(10 * (n - 1)) /\ 5 * (n - 1) \in 0..(10 * (n - 1))
      /\ 9 * (n - 1) = 10 * (n - 1) - (n - 1) /\ 5 * (n - 1) = 10 * (n - 1) - 5 * (n - 1)
  BY <1>4
<1>8. /\ AtTenth(s, 5 * (n - 1)) = -AtTenth(o, 5 * (n - 1))
      /\ AtTenth(s, n - 1) = -AtTenth(o, 9 * (n - 1))
  BY <1>6, <1>7
<1> QED
  BY <1>1, <1>3, <1>4, <1>8 DEF Summarized

-----------------------------------------------------------------------------
(* The runs of a group take turns: of those that were started before a run *)
(* there are a different number for each of them.                          *)
TurnIn(R, own, i) == Cardinality({j \in own : Earlier(R, j, i)})

LEMMA EarlierOrders ==
  ASSUME NEW R \in Seq(StoredRuns)
  PROVE  /\ \A i \in DOMAIN R : ~Earlier(R, i, i)
         /\ \A i, j \in DOMAIN R : i # j => Earlier(R, i, j) \/ Earlier(R, j, i)
         /\ \A i, j, k \in DOMAIN R : Earlier(R, i, j) /\ Earlier(R, j, k) => Earlier(R, i, k)
<1>1. \A i \in DOMAIN R : i \in Nat /\ R[i].startedAt \in Nat
  BY RunsAreListed DEF Stored
<1> QED
  BY <1>1 DEF Earlier

LEMMA TurnsRise ==
  ASSUME NEW R \in Seq(StoredRuns), NEW own \in SUBSET DOMAIN R,
         NEW i \in own, NEW j \in own, Earlier(R, i, j)
  PROVE  /\ TurnIn(R, own, i) \in Nat /\ TurnIn(R, own, j) \in Nat
         /\ TurnIn(R, own, i) < TurnIn(R, own, j)
<1> DEFINE B(k) == {l \in own : Earlier(R, l, k)}
<1>1. B(i) \in SUBSET B(j) /\ i \in B(j) /\ i \notin B(i)
  <2>1. i \in DOMAIN R /\ j \in DOMAIN R /\ own \subseteq DOMAIN R
    OBVIOUS
  <2> QED
    BY <2>1, EarlierOrders
<1>2. B(i) \in SUBSET DOMAIN R /\ B(j) \in SUBSET DOMAIN R
  OBVIOUS
<1>3. IsFiniteSet(B(j)) /\ Cardinality(B(i)) \in Nat /\ Cardinality(B(j)) \in Nat
  <2> HIDE DEF B
  <2> QED
    BY <1>2, RunsAreListed
<1>4. Cardinality(B(i)) <= Cardinality(B(j)) /\ Cardinality(B(i)) # Cardinality(B(j))
  <2> HIDE DEF B
  <2> QED
    BY <1>1, <1>3, FS_Subset
<1>5. TurnIn(R, own, i) = Cardinality(B(i)) /\ TurnIn(R, own, j) = Cardinality(B(j))
  BY DEF TurnIn
<1> HIDE DEF B
<1>6. PICK a \in Nat, b \in Nat : a = Cardinality(B(i)) /\ b = Cardinality(B(j))
  BY <1>3
<1> QED
  BY <1>4, <1>5, <1>6

LEMMA TurnsAreTaken ==
  ASSUME NEW R \in Seq(StoredRuns), NEW own \in SUBSET DOMAIN R,
         NEW n, n = Cardinality(own)
  PROVE  /\ n \in Nat
         /\ \A i \in own : TurnIn(R, own, i) \in 0..(n - 1)
         /\ \A i, j \in own : TurnIn(R, own, i) = TurnIn(R, own, j) => i = j
         /\ \A k \in 0..(n - 1) : \E i \in own : TurnIn(R, own, i) = k
<1>1. n \in Nat /\ IsFiniteSet(own)
  BY RunsAreListed
<1>2. ASSUME NEW i \in own PROVE TurnIn(R, own, i) \in 0..(n - 1)
  <2> DEFINE B == {l \in own : Earlier(R, l, i)}
  <2>1. B \in SUBSET own /\ i \notin B
    <3>1. i \in DOMAIN R
      OBVIOUS
    <3> QED
      BY <3>1, EarlierOrders
  <2> HIDE DEF B
  <2>2. Cardinality(B) \in Nat /\ Cardinality(B) <= n /\ Cardinality(B) # n
    BY <1>1, <2>1, FS_Subset, FS_CardinalityType
  <2>3. PICK b \in Nat : b = Cardinality(B)
    BY <2>2
  <2>4. b \in 0..(n - 1)
    BY <1>1, <2>2, <2>3
  <2> QED
    BY <2>3, <2>4 DEF TurnIn, B
<1>3. ASSUME NEW i \in own, NEW j \in own, TurnIn(R, own, i) = TurnIn(R, own, j)
      PROVE  i = j
  <2>1. SUFFICES ASSUME i # j PROVE FALSE
    OBVIOUS
  <2>2. Earlier(R, i, j) \/ Earlier(R, j, i)
    <3>1. i \in DOMAIN R /\ j \in DOMAIN R
      OBVIOUS
    <3> QED
      BY <2>1, <3>1, EarlierOrders
  <2>3. /\ TurnIn(R, own, i) \in Nat /\ TurnIn(R, own, j) \in Nat
        /\ TurnIn(R, own, i) < TurnIn(R, own, j) \/ TurnIn(R, own, j) < TurnIn(R, own, i)
    BY <2>2, TurnsRise
  <2>4. PICK a \in Nat, b \in Nat : a = TurnIn(R, own, i) /\ b = TurnIn(R, own, j)
    BY <2>3
  <2> QED
    BY <1>3, <2>3, <2>4
<1> DEFINE f == [i \in own |-> TurnIn(R, own, i)]
<1>4. f \in Injection(own, 0..(n - 1))
  <2>1. f \in [own -> 0..(n - 1)]
    BY <1>2
  <2>2. \A i, j \in own : f[i] = f[j] => i = j
    BY <1>3
  <2> HIDE DEF f
  <2> QED
    BY <2>1, <2>2 DEF Injection, IsInjective
<1>5. IsFiniteSet(0..(n - 1)) /\ Cardinality(0..(n - 1)) = n
  <2>1. 0 \in Int /\ n - 1 \in Int
        /\ (IF 0 > n - 1 THEN 0 ELSE (n - 1) - 0 + 1) = n
    BY <1>1
  <2> QED
    BY <2>1, FS_Interval
<1>6. f \in Surjection(own, 0..(n - 1))
  <2> HIDE DEF f
  <2> QED
    BY <1>1, <1>4, <1>5, FS_Injection
<1>7. \A k \in 0..(n - 1) : \E i \in own : TurnIn(R, own, i) = k
  BY <1>6 DEF Surjection
<1> QED
  BY <1>1, <1>2, <1>3, <1>7

(* groupByTask lists each run of the group at its turn. *)
LEMMA OccurrencesTakeTurns ==
  ASSUME NEW R \in Seq(StoredRuns), NEW c, NEW t,
         NEW own, own = Group(R, c, t), NEW n, n = Cardinality(own),
         NEW s, s = Occurrences(R, c, t)
  PROVE  /\ n \in Nat /\ n <= Len(R) /\ DOMAIN s = 1..n /\ own \in SUBSET DOMAIN R
         /\ \A k \in 1..n : s[k] \in own /\ TurnIn(R, own, s[k]) = k - 1
         /\ \A i \in own : TurnIn(R, own, i) + 1 \in 1..n /\ s[TurnIn(R, own, i) + 1] = i
<1>1. own \in SUBSET DOMAIN R
  BY DEF Group, Belonging
<1>2. n \in Nat /\ n <= Len(R)
  <2>1. IsFiniteSet(DOMAIN R) /\ Cardinality(DOMAIN R) = Len(R) /\ Cardinality(own) \in Nat
    BY <1>1, RunsAreListed
  <2> QED
    BY <1>1, <2>1, FS_Subset
<1>3. /\ \A i \in own : TurnIn(R, own, i) \in 0..(n - 1)
      /\ \A i, j \in own : TurnIn(R, own, i) = TurnIn(R, own, j) => i = j
      /\ \A k \in 0..(n - 1) : \E i \in own : TurnIn(R, own, i) = k
  BY <1>1, TurnsAreTaken
<1>4. s = [k \in 1..n |-> CHOOSE i \in own : TurnIn(R, own, i) = k - 1]
  BY DEF Occurrences, TurnIn
<1>5. ASSUME NEW k \in 1..n PROVE s[k] \in own /\ TurnIn(R, own, s[k]) = k - 1
  <2>1. k - 1 \in 0..(n - 1)
    BY <1>2
  <2>2. \E i \in own : TurnIn(R, own, i) = k - 1
    BY <1>3, <2>1
  <2> QED
    BY <1>4, <2>2
<1>6. ASSUME NEW i \in own
      PROVE  TurnIn(R, own, i) + 1 \in 1..n /\ s[TurnIn(R, own, i) + 1] = i
  <2>1. PICK k \in 0..(n - 1) : k = TurnIn(R, own, i)
    BY <1>3
  <2>2. k + 1 \in 1..n /\ (k + 1) - 1 = k
    BY <1>2
  <2>3. s[k + 1] \in own /\ TurnIn(R, own, s[k + 1]) = TurnIn(R, own, i)
    BY <1>5, <2>1, <2>2
  <2> QED
    BY <1>3, <2>1, <2>2, <2>3
<1>7. DOMAIN s = 1..n
  BY <1>4
<1> QED
  BY <1>1, <1>2, <1>5, <1>6, <1>7

(* The pairs of two configurations. *)
Size(R, c, t) == Cardinality(Group(R, c, t))

LEMMA PlacesOfPairs ==
  ASSUME NEW R \in Seq(StoredRuns), NEW left, NEW right, NEW pairs,
         pairs = Pairs(R, left, right)
  PROVE  /\ IsFiniteSet(DOMAIN pairs)
         /\ \A place \in DOMAIN pairs :
               /\ place = <<place[1], place[2]>>
               /\ place[2] \in 1..Size(R, left, place[1])
               /\ place[2] \in 1..Size(R, right, place[1])
               /\ pairs[place] = <<Occurrences(R, left, place[1])[place[2]],
                                   Occurrences(R, right, place[1])[place[2]]>>
         /\ \A t, k : k \in 1..Size(R, left, t) /\ k \in 1..Size(R, right, t)
                        => <<t, k>> \in DOMAIN pairs
<1> DEFINE tasks == {R[i].task : i \in Belonging(left, R)}
           byTask == [c \in {left, right} |-> [task \in tasks |-> Occurrences(R, c, task)]]
           places == {place \in tasks \X DOMAIN R :
                        \A c \in {left, right} : place[2] \in DOMAIN byTask[c][place[1]]}
<1>1. \A c, t : DOMAIN Occurrences(R, c, t) = 1..Size(R, c, t)
                /\ Size(R, c, t) \in Nat /\ Size(R, c, t) <= Len(R)
  BY OccurrencesTakeTurns DEF Size
<1>2. \A t \in tasks : /\ byTask[left][t] = Occurrences(R, left, t)
                       /\ byTask[right][t] = Occurrences(R, right, t)
  OBVIOUS
<1>3. pairs = [place \in places |-> <<byTask[left][place[1]][place[2]],
                                     byTask[right][place[1]][place[2]]>>]
  BY DEF Pairs
<1>4. places \subseteq tasks \X DOMAIN R
  OBVIOUS
<1>5. \A place \in tasks \X DOMAIN R :
         place \in places <=> /\ place[2] \in 1..Size(R, left, place[1])
                              /\ place[2] \in 1..Size(R, right, place[1])
  <2> HIDE DEF tasks
  <2>1. \A place \in tasks \X DOMAIN R : place[1] \in tasks
    OBVIOUS
  <2>2. \A place \in tasks \X DOMAIN R :
           place \in places <=> /\ place[2] \in DOMAIN byTask[left][place[1]]
                                /\ place[2] \in DOMAIN byTask[right][place[1]]
    OBVIOUS
  <2> HIDE DEF places, byTask
  <2> QED
    BY <1>1, <1>2, <2>1, <2>2
<1>6. IsFiniteSet(tasks \X DOMAIN R)
  <2>1. IsFiniteSet(DOMAIN R) /\ Len(R) \in Nat /\ DOMAIN R = 1..Len(R)
    BY RunsAreListed
  <2>2. IsFiniteSet(tasks)
    <3> DEFINE f == [i \in 1..Len(R) |-> R[i].task]
    <3>1. f = [i \in 1..Len(R) |-> f[i]]
      OBVIOUS
    <3>2. tasks \subseteq {f[i] : i \in 1..Len(R)}
      BY <2>1 DEF Belonging
    <3> HIDE DEF f, tasks
    <3>3. IsFiniteSet({f[i] : i \in 1..Len(R)})
      BY <2>1, <3>1, ValuesFinite
    <3> QED
      BY <3>2, <3>3, FS_Subset
  <2> HIDE DEF tasks
  <2> QED
    BY <2>1, <2>2, FS_Product
<1>7. IsFiniteSet(DOMAIN pairs) /\ DOMAIN pairs = places
  <2>1. DOMAIN pairs = places
    BY <1>3
  <2> HIDE DEF places, tasks
  <2> QED
    BY <1>4, <1>6, <2>1, FS_Subset
<1>8. ASSUME NEW place \in DOMAIN pairs
      PROVE  /\ place = <<place[1], place[2]>>
             /\ place[2] \in 1..Size(R, left, place[1])
             /\ place[2] \in 1..Size(R, right, place[1])
             /\ pairs[place] = <<Occurrences(R, left, place[1])[place[2]],
                                 Occurrences(R, right, place[1])[place[2]]>>
  <2>1. place \in tasks \X DOMAIN R /\ place \in places
    BY <1>4, <1>7
  <2>2. place[1] \in tasks /\ place = <<place[1], place[2]>>
    <3> HIDE DEF tasks, places
    <3> QED
      BY <2>1
  <2> HIDE DEF tasks, byTask, places
  <2>3. pairs[place] = <<byTask[left][place[1]][place[2]], byTask[right][place[1]][place[2]]>>
    BY <1>3, <2>1
  <2> QED
    BY <1>2, <1>5, <2>1, <2>2, <2>3
<1>9. ASSUME NEW t, NEW k, k \in 1..Size(R, left, t), k \in 1..Size(R, right, t)
      PROVE  <<t, k>> \in DOMAIN pairs
  <2>1. Occurrences(R, left, t)[k] \in Group(R, left, t)
    BY <1>9, OccurrencesTakeTurns DEF Size
  <2>2. t \in tasks
    BY <2>1 DEF Group
  <2>3. k \in DOMAIN R
    <3>1. Len(R) \in Nat /\ DOMAIN R = 1..Len(R)
      BY RunsAreListed
    <3>2. PICK n \in Nat : n = Size(R, left, t) /\ n <= Len(R)
      BY <1>1
    <3>3. k \in 1..Len(R)
      BY <1>9, <3>1, <3>2
    <3> QED
      BY <3>1, <3>3
  <2> HIDE DEF tasks, byTask, places
  <2>4. <<t, k>> \in tasks \X DOMAIN R /\ <<t, k>>[1] = t /\ <<t, k>>[2] = k
    BY <2>2, <2>3
  <2>5. <<t, k>> \in places
    BY <1>5, <1>9, <2>4
  <2> QED
    BY <1>7, <2>5
<1> QED
  BY <1>7, <1>8, <1>9

(* The same pairs are seen from the other side. *)
LEMMA PairsMirror ==
  ASSUME NEW R \in Seq(StoredRuns), NEW left, NEW right,
         NEW pairs, pairs = Pairs(R, left, right),
         NEW back, back = Pairs(R, right, left)
  PROVE  /\ DOMAIN back = DOMAIN pairs
         /\ \A place \in DOMAIN pairs :
               /\ pairs[place][1] = back[place][2] /\ pairs[place][2] = back[place][1]
               /\ pairs[place][1] \in DOMAIN R /\ pairs[place][2] \in DOMAIN R
<1>1. /\ \A place \in DOMAIN pairs :
            /\ place = <<place[1], place[2]>>
            /\ place[2] \in 1..Size(R, left, place[1])
            /\ place[2] \in 1..Size(R, right, place[1])
            /\ pairs[place] = <<Occurrences(R, left, place[1])[place[2]],
                                Occurrences(R, right, place[1])[place[2]]>>
      /\ \A t, k : k \in 1..Size(R, left, t) /\ k \in 1..Size(R, right, t)
                     => <<t, k>> \in DOMAIN pairs
  BY PlacesOfPairs
<1>2. /\ \A place \in DOMAIN back :
            /\ place = <<place[1], place[2]>>
            /\ place[2] \in 1..Size(R, right, place[1])
            /\ place[2] \in 1..Size(R, left, place[1])
            /\ back[place] = <<Occurrences(R, right, place[1])[place[2]],
                               Occurrences(R, left, place[1])[place[2]]>>
      /\ \A t, k : k \in 1..Size(R, right, t) /\ k \in 1..Size(R, left, t)
                     => <<t, k>> \in DOMAIN back
  BY PlacesOfPairs
<1>3. ASSUME NEW place \in DOMAIN pairs PROVE place \in DOMAIN back
  BY <1>1, <1>2
<1>4. ASSUME NEW place \in DOMAIN back PROVE place \in DOMAIN pairs
  BY <1>1, <1>2
<1>5. \A c, t : \A k \in 1..Size(R, c, t) : Occurrences(R, c, t)[k] \in DOMAIN R
  BY OccurrencesTakeTurns DEF Size
<1>6. ASSUME NEW place \in DOMAIN pairs
      PROVE  /\ pairs[place][1] = back[place][2] /\ pairs[place][2] = back[place][1]
             /\ pairs[place][1] \in DOMAIN R /\ pairs[place][2] \in DOMAIN R
  BY <1>1, <1>2, <1>3, <1>5
<1> QED
  BY <1>3, <1>4, <1>6

(* A run is of one group and has one turn in it, so it is in one pair. *)
LEMMA PairedOnce ==
  ASSUME NEW R \in Seq(StoredRuns), NEW left, NEW right,
         NEW a \in Range(Pairs(R, left, right)), NEW b \in Range(Pairs(R, left, right))
  PROVE  a[1] = b[1] <=> a[2] = b[2]
<1>1. PICK pairs : pairs = Pairs(R, left, right)
  OBVIOUS
<1>2. PICK p \in DOMAIN pairs, q \in DOMAIN pairs : a = pairs[p] /\ b = pairs[q]
  BY <1>1 DEF Range
<1>3. /\ p = <<p[1], p[2]>> /\ p[2] \in 1..Size(R, left, p[1]) /\ p[2] \in 1..Size(R, right, p[1])
      /\ a[1] = Occurrences(R, left, p[1])[p[2]] /\ a[2] = Occurrences(R, right, p[1])[p[2]]
  BY <1>1, <1>2, PlacesOfPairs
<1>4. /\ q = <<q[1], q[2]>> /\ q[2] \in 1..Size(R, left, q[1]) /\ q[2] \in 1..Size(R, right, q[1])
      /\ b[1] = Occurrences(R, left, q[1])[q[2]] /\ b[2] = Occurrences(R, right, q[1])[q[2]]
  BY <1>1, <1>2, PlacesOfPairs
<1>5. ASSUME NEW c, NEW t, NEW k \in 1..Size(R, c, t), NEW u, NEW l \in 1..Size(R, c, u),
             Occurrences(R, c, t)[k] = Occurrences(R, c, u)[l]
      PROVE  t = u /\ k = l
  <2>1. PICK i : i = Occurrences(R, c, t)[k]
    OBVIOUS
  <2>2. i \in Group(R, c, t) /\ TurnIn(R, Group(R, c, t), i) = k - 1
    BY <2>1, OccurrencesTakeTurns DEF Size
  <2>3. i \in Group(R, c, u) /\ TurnIn(R, Group(R, c, u), i) = l - 1
    BY <1>5, <2>1, OccurrencesTakeTurns DEF Size
  <2>4. t = u
    BY <2>2, <2>3 DEF Group
  <2>5. k - 1 = l - 1
    BY <2>2, <2>3, <2>4
  <2> QED
    BY <2>4, <2>5
<1>6. ASSUME a[1] = b[1] PROVE p[1] = q[1] /\ p[2] = q[2]
  <2>1. Occurrences(R, left, p[1])[p[2]] = Occurrences(R, left, q[1])[q[2]]
    BY <1>3, <1>4, <1>6
  <2>2. p[2] \in 1..Size(R, left, p[1]) /\ q[2] \in 1..Size(R, left, q[1])
    BY <1>3, <1>4
  <2> QED
    BY <1>5, <2>1, <2>2
<1>7. ASSUME a[2] = b[2] PROVE p[1] = q[1] /\ p[2] = q[2]
  <2>1. Occurrences(R, right, p[1])[p[2]] = Occurrences(R, right, q[1])[q[2]]
    BY <1>3, <1>4, <1>7
  <2>2. p[2] \in 1..Size(R, right, p[1]) /\ q[2] \in 1..Size(R, right, q[1])
    BY <1>3, <1>4
  <2> QED
    BY <1>5, <2>1, <2>2
<1>8. p[1] = q[1] /\ p[2] = q[2] => a = b
  BY <1>2, <1>3, <1>4
<1> QED
  BY <1>6, <1>7, <1>8

(* Where no two runs were started at the same moment, a run's partner is   *)
(* the run before which as many were started.                              *)
Started(R, i) ==
  Cardinality({j \in Group(R, R[i].configuration, R[i].task) : R[j].startedAt < R[i].startedAt})
Apart(R) == \A i, j \in DOMAIN R : R[i].startedAt = R[j].startedAt => i = j

LEMMA StartedIsTurn ==
  ASSUME NEW R \in Seq(StoredRuns), Apart(R), NEW c, NEW t, NEW i \in Group(R, c, t)
  PROVE  Started(R, i) = TurnIn(R, Group(R, c, t), i)
<1>1. i \in DOMAIN R /\ R[i].configuration = c /\ R[i].task = t
      /\ Group(R, c, t) \subseteq DOMAIN R
  BY DEF Group, Belonging
<1>2. ASSUME NEW j \in Group(R, c, t)
      PROVE  Earlier(R, j, i) <=> R[j].startedAt < R[i].startedAt
  <2>1. j \in DOMAIN R
    BY <1>1
  <2>2. R[j].startedAt = R[i].startedAt => j = i
    BY <1>1, <2>1 DEF Apart
  <2>3. i \in Nat
    BY <1>1, RunsAreListed
  <2> QED
    BY <2>2, <2>3 DEF Earlier
<1>3. {j \in Group(R, c, t) : R[j].startedAt < R[i].startedAt}
        = {j \in Group(R, c, t) : Earlier(R, j, i)}
  BY <1>2
<1> QED
  BY <1>1, <1>3 DEF Started, TurnIn

LEMMA PairsArePartners ==
  ASSUME NEW R \in Seq(StoredRuns), Apart(R), NEW left, NEW right
  PROVE  Range(Pairs(R, left, right)) =
           {pair \in Belonging(left, R) \X Belonging(right, R) :
              R[pair[1]].task = R[pair[2]].task /\ Started(R, pair[1]) = Started(R, pair[2])}
<1> DEFINE Partners ==
      {pair \in Belonging(left, R) \X Belonging(right, R) :
         R[pair[1]].task = R[pair[2]].task /\ Started(R, pair[1]) = Started(R, pair[2])}
<1>1. PICK pairs : pairs = Pairs(R, left, right)
  OBVIOUS
<1>2. ASSUME NEW a \in Range(pairs) PROVE a \in Partners
  <2>1. PICK p \in DOMAIN pairs : a = pairs[p]
    BY DEF Range
  <2>2. PICK t, k : t = p[1] /\ k = p[2]
    OBVIOUS
  <2>3. /\ k \in 1..Size(R, left, t) /\ k \in 1..Size(R, right, t)
        /\ a = <<Occurrences(R, left, t)[k], Occurrences(R, right, t)[k]>>
    BY <1>1, <2>1, <2>2, PlacesOfPairs
  <2>4. PICK i, j : i = Occurrences(R, left, t)[k] /\ j = Occurrences(R, right, t)[k]
    OBVIOUS
  <2>5. i \in Group(R, left, t) /\ TurnIn(R, Group(R, left, t), i) = k - 1
    BY <2>3, <2>4, OccurrencesTakeTurns DEF Size
  <2>6. j \in Group(R, right, t) /\ TurnIn(R, Group(R, right, t), j) = k - 1
    BY <2>3, <2>4, OccurrencesTakeTurns DEF Size
  <2>7. Started(R, i) = Started(R, j)
    BY <2>5, <2>6, StartedIsTurn
  <2>8. /\ i \in Belonging(left, R) /\ j \in Belonging(right, R)
        /\ R[i].task = R[j].task
    BY <2>5, <2>6 DEF Group
  <2>9. a = <<i, j>> /\ a[1] = i /\ a[2] = j
    BY <2>3, <2>4
  <2> QED
    BY <2>7, <2>8, <2>9
<1>3. ASSUME NEW a \in Partners PROVE a \in Range(pairs)
  <2>1. PICK i \in Belonging(left, R), j \in Belonging(right, R) :
          a = <<i, j>> /\ R[i].task = R[j].task /\ Started(R, i) = Started(R, j)
    OBVIOUS
  <2>2. PICK t : t = R[i].task
    OBVIOUS
  <2>3. i \in Group(R, left, t) /\ j \in Group(R, right, t)
    BY <2>1, <2>2 DEF Group
  <2>4. PICK k : k = TurnIn(R, Group(R, left, t), i) + 1
    OBVIOUS
  <2>5. TurnIn(R, Group(R, right, t), j) = TurnIn(R, Group(R, left, t), i)
    BY <2>1, <2>3, StartedIsTurn
  <2>6. k \in 1..Size(R, left, t) /\ Occurrences(R, left, t)[k] = i
    BY <2>3, <2>4, OccurrencesTakeTurns DEF Size
  <2>7. k \in 1..Size(R, right, t) /\ Occurrences(R, right, t)[k] = j
    BY <2>3, <2>4, <2>5, OccurrencesTakeTurns DEF Size
  <2>8. <<t, k>> \in DOMAIN pairs
    BY <1>1, <2>6, <2>7, PlacesOfPairs
  <2>9. <<t, k>>[1] = t /\ <<t, k>>[2] = k
    OBVIOUS
  <2>10. pairs[<<t, k>>] = <<i, j>>
    BY <1>1, <2>6, <2>7, <2>8, <2>9, PlacesOfPairs
  <2> QED
    BY <2>1, <2>8, <2>10 DEF Range
<1>4. Range(pairs) = Partners
  <2> HIDE DEF Partners
  <2> QED
    BY <1>2, <1>3
<1> QED
  BY <1>1, <1>4

(* A comparison, seen from both sides. *)
Deltas(R, pairs) ==
  [place \in DOMAIN pairs |-> R[pairs[place][2]].latency - R[pairs[place][1]].latency]

LEMMA DeltasMirror ==
  ASSUME NEW R \in Seq(StoredRuns), NEW left, NEW right,
         NEW pairs, pairs = Pairs(R, left, right),
         NEW back, back = Pairs(R, right, left)
  PROVE  /\ Numbers(Deltas(R, pairs)) /\ DOMAIN Deltas(R, pairs) = DOMAIN pairs
         /\ Opposite(Deltas(R, pairs), Deltas(R, back))
<1>1. /\ DOMAIN back = DOMAIN pairs
      /\ \A place \in DOMAIN pairs :
            /\ pairs[place][1] = back[place][2] /\ pairs[place][2] = back[place][1]
            /\ pairs[place][1] \in DOMAIN R /\ pairs[place][2] \in DOMAIN R
  BY PairsMirror
<1>2. \A i \in DOMAIN R : R[i].latency \in Int
  BY RunsAreListed DEF Stored
<1>3. IsFiniteSet(DOMAIN pairs)
  BY PlacesOfPairs
<1>4. /\ DOMAIN Deltas(R, pairs) = DOMAIN pairs /\ DOMAIN Deltas(R, back) = DOMAIN pairs
      /\ \A place \in DOMAIN pairs :
           /\ Deltas(R, pairs)[place]
                = R[pairs[place][2]].latency - R[pairs[place][1]].latency
           /\ Deltas(R, back)[place]
                = R[pairs[place][1]].latency - R[pairs[place][2]].latency
  BY <1>1 DEF Deltas
<1>5. \A place \in DOMAIN pairs :
         /\ Deltas(R, pairs)[place] \in Int
         /\ Deltas(R, back)[place] = 0 - Deltas(R, pairs)[place]
  <2> SUFFICES ASSUME NEW place \in DOMAIN pairs
               PROVE  /\ Deltas(R, pairs)[place] \in Int
                      /\ Deltas(R, back)[place] = 0 - Deltas(R, pairs)[place]
    OBVIOUS
  <2>1. PICK x \in Int, y \in Int : /\ x = R[pairs[place][1]].latency
                                    /\ y = R[pairs[place][2]].latency
    BY <1>1, <1>2
  <2>2. Deltas(R, pairs)[place] = y - x /\ Deltas(R, back)[place] = x - y
    BY <1>4, <2>1
  <2> QED
    BY <2>2
<1> QED
  BY <1>3, <1>4, <1>5 DEF Numbers, Opposite

LEMMA ComparedFairly ==
  ASSUME NEW R \in Seq(StoredRuns), NEW left, NEW right,
         NEW there, there = Compared(R, left, right),
         NEW back, back = Compared(R, right, left)
  PROVE  /\ Ascending(there.latency) /\ Ascending(there.score)
         /\ there.latency.count = back.latency.count
         /\ there.pairedTasks = back.pairedTasks
         /\ there.latency.count > 0 => /\ there.latency.median = -back.latency.median
                                       /\ there.latency.p10 = -back.latency.p90
<1>1. PICK pairs, mirrored : pairs = Pairs(R, left, right) /\ mirrored = Pairs(R, right, left)
  OBVIOUS
<1> DEFINE scored == {place \in DOMAIN pairs : \A n \in {1, 2} : pairs[place][n] \in Scored(R)}
           Score(i) == IF i \in Correct(R) THEN 1 ELSE 0
           scores == [place \in scored |-> Score(pairs[place][2]) - Score(pairs[place][1])]
<1>2. /\ there.latency = Summarize(Deltas(R, pairs))
      /\ there.score = Summarize(scores)
      /\ there.pairedTasks = Cardinality({place[1] : place \in DOMAIN pairs})
  BY <1>1 DEF Compared, Deltas
<1>3. /\ back.latency = Summarize(Deltas(R, mirrored))
      /\ back.pairedTasks = Cardinality({place[1] : place \in DOMAIN mirrored})
  BY <1>1 DEF Compared, Deltas
<1>4. /\ Numbers(Deltas(R, pairs)) /\ DOMAIN Deltas(R, pairs) = DOMAIN pairs
      /\ Opposite(Deltas(R, pairs), Deltas(R, mirrored))
  BY <1>1, DeltasMirror
<1>5. Numbers(Deltas(R, mirrored)) /\ DOMAIN Deltas(R, mirrored) = DOMAIN mirrored
  BY <1>1, DeltasMirror
<1>6. DOMAIN mirrored = DOMAIN pairs
  BY <1>1, PairsMirror
<1>7. Numbers(scores)
  <2>1. IsFiniteSet(scored)
    <3>1. IsFiniteSet(DOMAIN pairs) /\ scored \subseteq DOMAIN pairs
      BY <1>1, PlacesOfPairs
    <3> HIDE DEF scored
    <3> QED
      BY <3>1, FS_Subset
  <2>2. \A i : Score(i) \in Int
    OBVIOUS
  <2> HIDE DEF scored, Score
  <2> QED
    BY <2>1, <2>2 DEF Numbers
<1> HIDE DEF scores
<1>8. Ascending(there.latency) /\ Ascending(there.score)
  BY <1>2, <1>4, <1>7, SummaryAscends
<1>9. there.latency.count = Cardinality(DOMAIN pairs)
      /\ back.latency.count = Cardinality(DOMAIN pairs)
  BY <1>2, <1>3, <1>4, <1>5, <1>6, SummaryCounts
<1>10. ASSUME there.latency.count > 0
       PROVE  /\ there.latency.median = -back.latency.median
              /\ there.latency.p10 = -back.latency.p90
  <2>1. DOMAIN Deltas(R, pairs) # {}
    <3>1. Cardinality(DOMAIN pairs) # 0
      BY <1>9, <1>10
    <3> QED
      BY <1>4, <3>1, FS_EmptySet
  <2> QED
    BY <1>2, <1>3, <1>4, <2>1, SummaryMirrors
<1> QED
  BY <1>2, <1>3, <1>6, <1>8, <1>9, <1>10

LEMMA ComparisonHolds == Measuring => ComparisonIsPaired
<1> SUFFICES ASSUME Measuring, Measured PROVE ComparisonIsPaired
  BY DEF ComparisonIsPaired
<1>1. /\ runs \in Seq(StoredRuns)
      /\ report = [aggregate |-> Aggregated(runs), analysis |-> Analysed(runs)]
  BY DEF Measuring
<1> DEFINE analysis == report.analysis
           Crossed == {q \in Configurations(runs) \X Configurations(runs) : q[1] # q[2]}
<1>2. /\ analysis.latency = Summarize(Latencies(runs))
      /\ DOMAIN analysis.byConfiguration = Configurations(runs)
      /\ \A c \in Configurations(runs) :
            analysis.byConfiguration[c].latency = Summarize(LatenciesOf(c, runs))
      /\ DOMAIN analysis.compared = Crossed
      /\ \A p \in Crossed : analysis.compared[p] = Compared(runs, p[1], p[2])
  BY <1>1 DEF Analysed
<1> HIDE DEF analysis
<1>3. /\ IsFiniteSet(DOMAIN runs)
      /\ \A D \in SUBSET DOMAIN runs : IsFiniteSet(D)
      /\ \A i \in DOMAIN runs : runs[i].latency \in Int
  BY <1>1, RunsAreListed DEF Stored
<1>4. Ascending(analysis.latency)
  <2>1. Numbers(Latencies(runs))
    BY <1>3 DEF Latencies, Each, Numbers
  <2> QED
    BY <1>2, <2>1, SummaryAscends
<1>5. ASSUME NEW c \in Configurations(runs)
      PROVE  Ascending(analysis.byConfiguration[c].latency)
  <2>1. Numbers(LatenciesOf(c, runs))
    BY <1>3 DEF LatenciesOf, Belonging, Numbers
  <2> QED
    BY <1>2, <2>1, SummaryAscends
<1>6. ASSUME NEW p \in Crossed
      PROVE  LET there == analysis.compared[p]
                 back == analysis.compared[<<p[2], p[1]>>]
             IN  /\ Ascending(there.latency) /\ Ascending(there.score)
                 /\ there.latency.count = back.latency.count
                 /\ there.pairedTasks = back.pairedTasks
                 /\ there.latency.count > 0 =>
                      /\ there.latency.median = -back.latency.median
                      /\ there.latency.p10 = -back.latency.p90
  <2>1. <<p[2], p[1]>> \in Crossed /\ <<p[2], p[1]>>[1] = p[2] /\ <<p[2], p[1]>>[2] = p[1]
    OBVIOUS
  <2> HIDE DEF Crossed
  <2>2. /\ analysis.compared[p] = Compared(runs, p[1], p[2])
        /\ analysis.compared[<<p[2], p[1]>>] = Compared(runs, p[2], p[1])
    BY <1>2, <2>1
  <2> QED
    BY <1>1, <2>2, ComparedFairly
<1>7. ASSUME NEW p \in Crossed, NEW a \in Range(Pairs(runs, p[1], p[2])),
             NEW b \in Range(Pairs(runs, p[1], p[2]))
      PROVE  a[1] = b[1] <=> a[2] = b[2]
  BY <1>1, PairedOnce
<1>8. ASSUME Apart(runs), NEW p \in Crossed
      PROVE  Range(Pairs(runs, p[1], p[2])) =
               {pair \in Belonging(p[1], runs) \X Belonging(p[2], runs) :
                  /\ runs[pair[1]].task = runs[pair[2]].task
                  /\ Started(runs, pair[1]) = Started(runs, pair[2])}
  BY <1>1, <1>8, PairsArePartners
<1> HIDE DEF Crossed
<1> QED
  BY <1>2, <1>4, <1>5, <1>6, <1>7, <1>8 DEF ComparisonIsPaired, Apart, Started, analysis

(* However many runs are stored, of whatever tasks and configurations, and *)
(* whenever they were started: the comparison of two configurations is the *)
(* one ComparisonIsPaired states.                                          *)
THEOREM ComparisonsCorrect == Spec => []ComparisonIsPaired
<1>1. Init => IInv /\ Measuring
  BY InitHolds, MeasuringHolds
<1>2. IInv /\ Measuring /\ [Next]_vars => IInv' /\ Measuring'
  BY IInvStays, MeasuringStays
<1> QED
  BY <1>1, <1>2, ComparisonHolds, PTL DEF Spec
=============================================================================
