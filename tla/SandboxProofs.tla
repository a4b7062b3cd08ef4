---------------------------- MODULE SandboxProofs ----------------------------
(***************************************************************************)
(* Theorems about Sandbox for any number of processes, roots and files,    *)
(* whatever the limits, the modes and the failures: workspaces that are    *)
(* requested at the same root never share a directory.                     *)
(***************************************************************************)
EXTENDS Sandbox, TLAPS

-----------------------------------------------------------------------------
(* Isolated is not inductive: that the loser of mkdirSync and a process    *)
(* that removes its directory leave the others alone needs the converse,   *)
(* that a directory's owner is still using it, was killed in it, or is     *)
(* known to have left it.                                                  *)
MayOwn(stage, t) ==
  \/ stage \in {"created", "ready", "dead"}
  \/ stage \in {"failed", "disposed"} /\ "directory" \in t

OwnersUse ==
  \A r \in Root :
    LET q == dir[r].owner
    IN  q # Nobody => ws[q].root = r /\ MayOwn(ws[q].stage, trouble[q])

BusyIsReady == \A p \in Process : Busy(p) => ws[p].stage = "ready"

(* What was left behind comes from a process that acquired that root. *)
StraysKnown ==
  \A r \in Root : \A q \in dir[r].strays : ws[q].root = r /\ ws[q].stage \notin {"new", "checked"}

(* A patch file belongs to the applyPatch its owner is in, or was killed   *)
(* in, or could not write or remove.                                       *)
MayHold(stage, c, t) == stage = "dead" \/ c.op = "patch" \/ "patch" \in t

PatchIsHeld ==
  \A r \in Root :
    LET q == dir[r].owner
    IN  dir[r].patch => q # Nobody /\ MayHold(ws[q].stage, call[q], trouble[q])

IInv == TypeOK /\ Isolated /\ OwnersUse /\ BusyIsReady /\ StraysKnown /\ PatchIsHeld

Idling == {Over("nothing"), Over("ok"), Over("threw")}

(* Trouble is only ever added. *)
TroubleGrows ==
  /\ trouble' \in [Process -> SUBSET {"patch", "directory"}]
  /\ \A q \in Process : trouble[q] \subseteq trouble'[q]

-----------------------------------------------------------------------------
LEMMA EmptyDirectory ==
  NoDirectory \in Directory /\ NoDirectory.owner = Nobody /\ ~NoDirectory.patch /\ NoDirectory.strays = {}
  BY DEF NoDirectory, Directory, Content

LEMMA TroubleKept == ASSUME TypeOK, UNCHANGED trouble PROVE TroubleGrows
  BY DEF TypeOK, TroubleGrows

LEMMA TroubleAdded ==
  ASSUME TypeOK, NEW p \in Process, NEW what \in {"patch", "directory"}, Suffers(p, what)
  PROVE  TroubleGrows /\ what \in trouble'[p]
<1>1. trouble' = [trouble EXCEPT ![p] = trouble[p] \cup {what}]
  BY DEF Suffers
<1>2. trouble \in [Process -> SUBSET {"patch", "directory"}]
  BY DEF TypeOK
<1>3. trouble[p] \cup {what} \in SUBSET {"patch", "directory"}
  BY <1>2
<1> QED
  BY <1>1, <1>2, <1>3 DEF TroubleGrows

(* What a call is told apart by. *)
LEMMA CallOps ==
  /\ \A c \in Call : c.op \in {"run", "replace", "patch", "inspect", "write"}
  /\ \A c \in Idling : c.op = "none"
<1>1. ASSUME NEW c \in Call PROVE c.op \in Ops \cup {"write"}
  BY DEF Call
<1>2. ASSUME NEW c \in Idling PROVE c.op = "none"
  BY DEF Idling, Over
<1> QED
  BY <1>1, <1>2, SandboxAssumption

(* The invariant looks at little of a step: one workspace's stage, its     *)
(* call, and the owner, the patch file and the strays of its directory.    *)
LEMMA CallStepKeeps ==
  ASSUME IInv, NEW p \in Process, ws[p].stage = "ready", ws' = ws, TroubleGrows,
         NEW c \in Call \cup Idling, call' = [call EXCEPT ![p] = c],
         NEW d \in Directory, d.owner = dir[ws[p].root].owner,
         d.patch => c.op = "patch" \/ "patch" \in trouble'[p],
         d.strays \subseteq dir[ws[p].root].strays \cup {p},
         dir' = [dir EXCEPT ![ws[p].root] = d]
  PROVE  IInv'
<1> DEFINE r == ws[p].root
<1>0. r \in Root /\ dir[r].owner = p
  BY DEF IInv, TypeOK, Isolated, Workspace
<1>1. TypeOK'
  BY <1>0 DEF IInv, TypeOK, Idling, TroubleGrows
<1>2. \A s \in Root : dir'[s].owner = dir[s].owner
  BY <1>0 DEF IInv, TypeOK
<1>3. BusyIsReady'
  BY DEF IInv, BusyIsReady, Busy, TypeOK
<1>4. Isolated'
  BY <1>2, <1>3 DEF IInv, Isolated, Busy, BusyIsReady, TypeOK, Workspace
<1>5. OwnersUse'
  <2> SUFFICES ASSUME NEW s \in Root, dir'[s].owner # Nobody
               PROVE  /\ ws'[dir'[s].owner].root = s
                      /\ MayOwn(ws'[dir'[s].owner].stage, trouble'[dir'[s].owner])
    BY DEF OwnersUse
  <2>1. dir[s].owner \in Process /\ dir[s].owner # Nobody
    BY <1>2 DEF IInv, TypeOK, Directory
  <2> QED
    BY <1>2, <2>1 DEF IInv, OwnersUse, MayOwn, TroubleGrows
<1>6. PatchIsHeld'
  <2> SUFFICES ASSUME NEW s \in Root, dir'[s].patch
               PROVE  /\ dir'[s].owner # Nobody
                      /\ MayHold(ws'[dir'[s].owner].stage, call'[dir'[s].owner], trouble'[dir'[s].owner])
    BY DEF PatchIsHeld
  <2>1. CASE s = r
    <3>1. dir'[s].owner = p /\ d.patch /\ call'[p] = c
      BY <2>1, <1>0, <1>2 DEF IInv, TypeOK
    <3> QED
      BY <3>1, SandboxAssumption DEF MayHold
  <2>2. CASE s # r
    <3>1. dir'[s] = dir[s] /\ dir[s].owner # Nobody
      BY <2>2, <1>0 DEF IInv, TypeOK, PatchIsHeld
    <3>2. dir[s].owner # p
      BY <3>1, <2>2 DEF IInv, OwnersUse
    <3>3. dir[s].owner \in Process
      BY <3>1 DEF IInv, TypeOK, Directory
    <3>4. call'[dir[s].owner] = call[dir[s].owner] /\ trouble[dir[s].owner] \subseteq trouble'[dir[s].owner]
      BY <3>2, <3>3 DEF IInv, TypeOK, TroubleGrows
    <3> QED
      BY <3>1, <3>4 DEF IInv, PatchIsHeld, MayHold
  <2> QED
    BY <2>1, <2>2
<1>7. StraysKnown'
  <2> SUFFICES ASSUME NEW s \in Root, NEW q \in dir'[s].strays
               PROVE  ws[q].root = s /\ ws[q].stage \notin {"new", "checked"}
    BY DEF StraysKnown
  <2>1. q \in dir[s].strays \/ (s = r /\ q = p)
    BY <1>0 DEF IInv, TypeOK
  <2> QED
    BY <2>1 DEF IInv, StraysKnown
<1> QED
  BY <1>1, <1>3, <1>4, <1>5, <1>6, <1>7 DEF IInv

(* A step of the life of a workspace: its directory passes to `owner'.     *)
LEMMA LifeStepKeeps ==
  ASSUME IInv, NEW p \in Process, NEW stage \in Stage, ws' = [ws EXCEPT ![p].stage = stage],
         NEW c \in Idling, call' = [call EXCEPT ![p] = c] \/ (call' = call /\ ~Busy(p)),
         TroubleGrows,
         NEW d \in Directory, dir' = [dir EXCEPT ![ws[p].root] = d],
         d.owner \in {dir[ws[p].root].owner, p, Nobody},
         dir[ws[p].root].owner # Nobody /\ dir[ws[p].root].owner # p => d = dir[ws[p].root],
         IF d.owner = p THEN MayOwn(stage, trouble'[p]) ELSE stage \notin {"created", "ready"},
         d.patch => dir[ws[p].root].patch,
         d.patch /\ dir[ws[p].root].owner = p =>
           d.owner = p /\ (stage = "dead" \/ "patch" \in trouble'[p]),
         d.strays \subseteq dir[ws[p].root].strays \cup {p},
         p \in d.strays \/ ws[p].stage \notin {"new", "checked"} => stage \notin {"new", "checked"}
  PROVE  IInv'
<1> DEFINE r == ws[p].root
<1>0. /\ r \in Root
      /\ ws' \in [Process -> Workspace]
      /\ ws'[p].stage = stage
      /\ \A q \in Process : ws'[q].root = ws[q].root
      /\ \A q \in Process \ {p} : ws'[q] = ws[q]
  BY DEF IInv, TypeOK, Workspace
<1>1. /\ dir' \in [Root -> Directory] /\ dir'[r] = d
      /\ \A s \in Root \ {r} : dir'[s] = dir[s]
  BY <1>0 DEF IInv, TypeOK
<1>2. \A q \in Process \ {p} : call'[q] = call[q]
  BY DEF IInv, TypeOK
<1>3. call'[p].op = "none"
  BY CallOps DEF Busy, IInv, TypeOK
<1>4. TypeOK'
  BY <1>0, <1>1 DEF IInv, TypeOK, Idling, TroubleGrows
<1>5. BusyIsReady'
  BY <1>0, <1>2, <1>3 DEF IInv, BusyIsReady, Busy
<1>6. Isolated'
  <2> SUFFICES ASSUME NEW q \in Process, ws'[q].stage \in {"created", "ready"}
               PROVE  dir'[ws'[q].root].owner = q
    BY <1>5 DEF Isolated, BusyIsReady, Busy
  <2>1. CASE q = p
    BY <2>1, <1>0, <1>1
  <2>2. CASE q # p
    <3>1. ws'[q] = ws[q] /\ dir[ws[q].root].owner = q /\ ws[q].root \in Root
      BY <2>2, <1>0 DEF IInv, Isolated, TypeOK, Workspace
    <3> QED
      BY <3>1, <2>2, <1>1, SandboxAssumption
  <2> QED
    BY <2>1, <2>2
<1>7. OwnersUse'
  <2> SUFFICES ASSUME NEW s \in Root, dir'[s].owner # Nobody
               PROVE  ws'[dir'[s].owner].root = s
                      /\ MayOwn(ws'[dir'[s].owner].stage, trouble'[dir'[s].owner])
    BY DEF OwnersUse
  <2>0. dir'[s].owner \in Process
    BY <1>1 DEF Directory
  <2>1. CASE dir'[s].owner = p
    <3>1. s = r
      BY <2>1, <1>1 DEF IInv, OwnersUse
    <3> QED
      BY <3>1, <2>1, <1>0, <1>1
  <2>2. CASE dir'[s].owner # p
    <3>1. dir'[s].owner = dir[s].owner
      BY <2>2, <1>1
    <3>2. /\ ws'[dir[s].owner] = ws[dir[s].owner]
          /\ trouble[dir[s].owner] \subseteq trouble'[dir[s].owner]
      BY <3>1, <2>0, <2>2, <1>0 DEF TroubleGrows
    <3>3. ws[dir[s].owner].root = s /\ MayOwn(ws[dir[s].owner].stage, trouble[dir[s].owner])
      BY <2>2, <3>1, <2>0 DEF IInv, OwnersUse
    <3> QED
      BY <3>1, <3>2, <3>3 DEF MayOwn
  <2> QED
    BY <2>1, <2>2
<1>8. PatchIsHeld'
  <2> SUFFICES ASSUME NEW s \in Root, dir'[s].patch
               PROVE  /\ dir'[s].owner # Nobody
                      /\ MayHold(ws'[dir'[s].owner].stage, call'[dir'[s].owner], trouble'[dir'[s].owner])
    BY DEF PatchIsHeld
  <2>1. dir[s].patch
    BY <1>1
  <2>2. dir[s].owner # Nobody /\ dir[s].owner \in Process
    BY <2>1 DEF IInv, PatchIsHeld, TypeOK, Directory
  <2>3. CASE dir[s].owner # p
    <3>1. dir'[s] = dir[s]
      BY <2>2, <2>3, <1>1
    <3>2. /\ ws'[dir[s].owner] = ws[dir[s].owner] /\ call'[dir[s].owner] = call[dir[s].owner]
          /\ trouble[dir[s].owner] \subseteq trouble'[dir[s].owner]
      BY <2>2, <2>3, <1>0, <1>2 DEF TroubleGrows
    <3> QED
      BY <3>1, <3>2, <2>1, <2>2 DEF IInv, PatchIsHeld, MayHold
  <2>4. CASE dir[s].owner = p
    <3>1. s = r
      BY <2>4, <2>2 DEF IInv, OwnersUse
    <3> QED
      BY <3>1, <2>4, <1>0, <1>1, SandboxAssumption DEF MayHold
  <2> QED
    BY <2>3, <2>4
<1>9. StraysKnown'
  <2> SUFFICES ASSUME NEW s \in Root, NEW q \in dir'[s].strays
               PROVE  ws'[q].root = s /\ ws'[q].stage \notin {"new", "checked"}
    BY DEF StraysKnown
  <2>0. q \in Process
    BY <1>1 DEF Directory
  <2>1. CASE q \in dir[s].strays
    <3>1. ws[q].root = s /\ ws[q].stage \notin {"new", "checked"}
      BY <2>1 DEF IInv, StraysKnown
    <3> QED
      BY <3>1, <2>0, <1>0
  <2>2. CASE q \notin dir[s].strays
    <3>1. s = r /\ q = p /\ p \in d.strays
      BY <2>2, <1>1
    <3> QED
      BY <3>1, <1>0
  <2> QED
    BY <2>1, <2>2
<1> QED
  BY <1>4, <1>5, <1>6, <1>7, <1>8, <1>9 DEF IInv

-----------------------------------------------------------------------------
LEMMA InitIInv == Init => IInv
<1> SUFFICES ASSUME Init PROVE IInv
  OBVIOUS
<1>1. /\ \A r \in Root : dir[r] = NoDirectory
      /\ \A p \in Process : ws[p] \in Workspace /\ ws[p].stage = "new"
      /\ \A p \in Process : call[p] = Over("nothing") /\ call[p].op = "none"
  BY DEF Init, Over
<1>2. TypeOK
  BY EmptyDirectory DEF Init, TypeOK
<1>3. Isolated
  BY <1>1 DEF Isolated, Busy
<1>4. OwnersUse
  BY <1>1, EmptyDirectory DEF OwnersUse
<1>5. BusyIsReady
  BY <1>1 DEF BusyIsReady, Busy
<1>6. PatchIsHeld
  BY <1>1, EmptyDirectory DEF PatchIsHeld
<1>7. StraysKnown
  BY <1>1, EmptyDirectory DEF StraysKnown
<1> QED
  BY <1>2, <1>3, <1>4, <1>5, <1>6, <1>7 DEF IInv

(* The directory of a process that uses it is its own. *)
LEMMA UserOwns ==
  ASSUME IInv, NEW p \in Process
  PROVE  /\ ws[p].root \in Root /\ dir[ws[p].root] \in Directory
         /\ ws[p].stage \in {"created", "ready"} => dir[ws[p].root].owner = p
         /\ Busy(p) => ws[p].stage = "ready" /\ call[p] \in Call
         /\ ~Busy(p) => call[p] \in Idling
  BY CallOps DEF IInv, TypeOK, Isolated, Workspace, Busy, BusyIsReady, Idling

(* A process that has not acquired a root owns nothing and left nothing. *)
LEMMA NewOwnsNothing ==
  ASSUME IInv, NEW p \in Process, ws[p].stage \in {"new", "checked"}
  PROVE  dir[ws[p].root].owner # p /\ p \notin dir[ws[p].root].strays
<1>1. ws[p].root \in Root /\ p # Nobody
  BY SandboxAssumption DEF IInv, TypeOK, Workspace
<1> QED
  BY <1>1 DEF IInv, OwnersUse, MayOwn, StraysKnown

LEMMA LookKeeps == ASSUME IInv, NEW p \in Process, Look(p) PROVE IInv'
<1> DEFINE r == ws[p].root
<1>1. ~Busy(p) /\ call[p] \in Idling /\ r \in Root /\ dir[r] \in Directory
  BY UserOwns DEF Look
<1>2. PICK stage \in {"failed", "checked"} : ws' = [ws EXCEPT ![p].stage = stage]
  BY DEF Look, GoTo
<1>3. dir' = [dir EXCEPT ![r] = dir[r]] /\ call' = call /\ TroubleGrows /\ ws[p].stage = "new"
  BY <1>1, TroubleKept DEF Look, IInv, TypeOK
<1>4. dir[r].owner # p /\ p \notin dir[r].strays
  BY <1>3, NewOwnsNothing
<1>5. stage \in Stage
  BY DEF Stage
<1> QED
  BY <1>1, <1>2, <1>3, <1>4, <1>5, LifeStepKeeps

LEMMA MakeDirectoryKeeps == ASSUME IInv, NEW p \in Process, MakeDirectory(p) PROVE IInv'
<1> DEFINE r == ws[p].root
           new == [dir[r] EXCEPT !.owner = p]
<1>1. /\ ~Busy(p) /\ call[p] \in Idling /\ r \in Root /\ dir[r] \in Directory /\ call' = call
      /\ TroubleGrows /\ ws[p].stage = "checked"
  BY UserOwns, TroubleKept DEF MakeDirectory, IInv
<1>2. dir[r].owner # p /\ p \notin dir[r].strays
  BY <1>1, NewOwnsNothing
<1>3. {"failed", "created"} \subseteq Stage
  BY DEF Stage
<1>4. CASE Exists(r)
  <2>1. dir' = [dir EXCEPT ![r] = dir[r]] /\ ws' = [ws EXCEPT ![p].stage = "failed"]
    BY <1>1, <1>4 DEF MakeDirectory, GoTo, IInv, TypeOK
  <2> QED
    BY <1>1, <1>2, <1>3, <2>1, LifeStepKeeps
<1>5. CASE ~Exists(r)
  <2>1. ws' = [ws EXCEPT ![p].stage = "created"]
    BY <1>5 DEF MakeDirectory, GoTo
  <2>2. dir' = [dir EXCEPT ![r] = new]
    BY <1>1, <1>5 DEF MakeDirectory, IInv, TypeOK
  <2>3. dir[r].owner = Nobody
    BY <1>5 DEF Exists
  <2>4. ~dir[r].patch
    BY <1>1, <2>3 DEF IInv, PatchIsHeld
  <2>5. new \in Directory /\ new.owner = p /\ ~new.patch /\ new.strays = dir[r].strays
    BY <1>1, <2>4 DEF Directory
  <2>6. MayOwn("created", trouble'[p])
    BY DEF MayOwn
  <2> HIDE DEF new
  <2> QED
    BY <1>1, <1>3, <2>1, <2>2, <2>3, <2>5, <2>6, LifeStepKeeps
<1> QED
  BY <1>4, <1>5

(* A process is done with its directory, and removes it if it can. *)
LEMMA RemoveKeeps ==
  ASSUME IInv, NEW p \in Process, ws[p].stage \in {"created", "ready"}, ~Busy(p),
         NEW stage \in {"failed", "disposed"}, GoTo(p, stage), Remove(p), call' = call
  PROVE  IInv'
<1> DEFINE r == ws[p].root
<1>1. call[p] \in Idling /\ r \in Root /\ dir[r] \in Directory /\ dir[r].owner = p
  BY UserOwns
<1>2. stage \in Stage /\ stage \notin {"new", "checked"} /\ p # Nobody
  BY SandboxAssumption DEF Stage
<1>3. ws' = [ws EXCEPT ![p].stage = stage]
  BY DEF GoTo
<1>4. CASE dir' = [dir EXCEPT ![r] = Emptied(p, @)] /\ UNCHANGED trouble
  <2> DEFINE new == Emptied(p, dir[r])
             rest == dir[r].strays \ (IF Docker(p) THEN {p} ELSE {})
  <2>1. new = [NoDirectory EXCEPT !.strays = rest] /\ rest \in SUBSET Process /\ rest \subseteq dir[r].strays
    BY <1>1 DEF Emptied, Directory
  <2> HIDE DEF new, rest
  <2>2. /\ new.owner = Nobody /\ ~new.patch /\ new.strays = rest
        /\ new \in Directory
    BY <2>1, EmptyDirectory DEF Directory, NoDirectory
  <2>3. dir' = [dir EXCEPT ![r] = new] /\ TroubleGrows
    BY <1>4, TroubleKept DEF new, IInv
  <2> QED
    BY <1>1, <1>2, <1>3, <2>1, <2>2, <2>3, LifeStepKeeps
<1>5. CASE Suffers(p, "directory") /\ UNCHANGED dir
  <2>1. dir' = [dir EXCEPT ![r] = dir[r]]
    BY <1>1, <1>5 DEF IInv, TypeOK
  <2>2. TroubleGrows /\ "directory" \in trouble'[p]
    BY <1>5, TroubleAdded DEF IInv
  <2>3. dir[r].patch => "patch" \in trouble'[p]
    <3>1. dir[r].patch => MayHold(ws[p].stage, call[p], trouble[p])
      BY <1>1 DEF IInv, PatchIsHeld
    <3>2. call[p].op = "none" /\ trouble[p] \subseteq trouble'[p]
      BY <2>2 DEF Busy, TroubleGrows
    <3> QED
      BY <3>1, <3>2 DEF MayHold
  <2>4. MayOwn(stage, trouble'[p])
    BY <2>2 DEF MayOwn
  <2> QED
    BY <1>1, <1>2, <1>3, <2>1, <2>2, <2>3, <2>4, LifeStepKeeps
<1> QED
  BY <1>4, <1>5 DEF Remove

LEMMA CheckOutKeeps == ASSUME IInv, NEW p \in Process, CheckOut(p) PROVE IInv'
<1> DEFINE r == ws[p].root
           overlay == [f \in File |-> IF f \in Source THEN "base" ELSE dir[r].work[f]]
           new == [dir[r] EXCEPT !.work = overlay, !.index = overlay]
<1>1. /\ ~Busy(p) /\ call[p] \in Idling /\ r \in Root /\ dir[r] \in Directory
      /\ dir[r].owner = p /\ call' = call /\ ws[p].stage = "created"
  BY UserOwns DEF CheckOut
<1>2. CASE GoTo(p, "failed") /\ Remove(p)
  BY <1>1, <1>2, RemoveKeeps
<1>3. CASE /\ GoTo(p, "ready") /\ UNCHANGED trouble
           /\ dir' = [dir EXCEPT ![r].work = overlay, ![r].index = overlay]
  <2>1. overlay \in [File -> Content]
    BY <1>1 DEF Directory, Content
  <2> HIDE DEF overlay
  <2>2. dir' = [dir EXCEPT ![r] = new]
    BY <1>1, <1>3 DEF IInv, TypeOK
  <2>3. new \in Directory /\ new.owner = p /\ new.patch = dir[r].patch /\ new.strays = dir[r].strays
    BY <1>1, <2>1 DEF Directory
  <2>4. ws' = [ws EXCEPT ![p].stage = "ready"] /\ "ready" \in Stage /\ MayOwn("ready", trouble'[p])
    BY <1>3 DEF GoTo, Stage, MayOwn
  <2>5. dir[r].patch => "patch" \in trouble'[p]
    <3>1. call[p].op = "none"
      BY <1>1 DEF Busy
    <3> QED
      BY <1>1, <1>3, <3>1 DEF IInv, PatchIsHeld, MayHold
  <2>6. TroubleGrows
    BY <1>3, TroubleKept DEF IInv
  <2> HIDE DEF new
  <2> QED
    BY <1>1, <2>2, <2>3, <2>4, <2>5, <2>6, LifeStepKeeps
<1> QED
  BY <1>2, <1>3 DEF CheckOut

LEMMA DisposeKeeps == ASSUME IInv, NEW p \in Process, Dispose(p) PROVE IInv'
  BY RemoveKeeps DEF Dispose, Idle

LEMMA CrashKeeps == ASSUME IInv, NEW p \in Process, Crash(p) PROVE IInv'
<1> DEFINE r == ws[p].root
           strays == dir[r].strays \cup (IF Busy(p) THEN {p} ELSE {})
           new == [dir[r] EXCEPT !.strays = strays]
<1>1. r \in Root /\ dir[r] \in Directory
  BY UserOwns
<1>2. dir' = [dir EXCEPT ![r] = new]
  BY <1>1 DEF Crash, IInv, TypeOK
<1>3. strays \in SUBSET Process /\ strays \subseteq dir[r].strays \cup {p}
  BY <1>1 DEF Directory
<1>4. ~Busy(p) => new = dir[r]
  BY <1>1 DEF Directory
<1> HIDE DEF strays
<1>5. new \in Directory /\ new.owner = dir[r].owner /\ new.patch = dir[r].patch /\ new.strays = strays
  BY <1>1, <1>3 DEF Directory
<1>6. ws' = [ws EXCEPT ![p].stage = "dead"] /\ "dead" \in Stage /\ MayOwn("dead", trouble'[p])
  BY DEF Crash, GoTo, Stage, MayOwn
<1>7. Over("nothing") \in Idling /\ call' = [call EXCEPT ![p] = Over("nothing")]
  BY DEF Crash, Idling
<1>8. Busy(p) => dir[r].owner = p
  BY UserOwns
<1>9. TroubleGrows
  BY TroubleKept DEF Crash, IInv
<1> HIDE DEF new
<1> QED
  BY <1>1, <1>2, <1>3, <1>4, <1>5, <1>6, <1>7, <1>8, <1>9, LifeStepKeeps

-----------------------------------------------------------------------------
(* Calls. *)
LEMMA NoPatchBetweenCalls ==
  ASSUME IInv, NEW p \in Process, ws[p].stage = "ready", call[p].op # "patch",
         dir[ws[p].root].patch
  PROVE  "patch" \in trouble[p]
<1>1. ws[p].root \in Root /\ dir[ws[p].root].owner = p
  BY UserOwns
<1> QED
  BY <1>1 DEF IInv, PatchIsHeld, MayHold

(* What a child starts as. *)
LEMMA ChildIsCall ==
  ASSUME NEW p \in Process, NEW op \in Ops \cup {"write"}, NEW files \in SUBSET File,
         NEW limit \in Nat, NEW c \in Child(p, op, files, limit)
  PROVE  c \in Call /\ c.op = op
<1>1. PICK d \in BOOLEAN :
        c = [op |-> op, files |-> files, age |-> 0, limit |-> limit, deaf |-> d, signal |-> "no"]
  <2>1. PICK d \in IF op = "run" THEN BOOLEAN ELSE {FALSE} :
          c = [op |-> op, files |-> files, age |-> 0, limit |-> limit, deaf |-> d, signal |-> "no"]
    BY DEF Child
  <2> QED
    BY <2>1
<1> QED
  BY <1>1 DEF Call

LEMMA StartKeeps ==
  ASSUME IInv, NEW p \in Process, NEW op \in Ops, NEW files \in SUBSET File, Start(p, op, files)
  PROVE  IInv'
<1> DEFINE r == ws[p].root
           held == dir[r].patch \/ (op = "patch" /\ ~Docker(p))
           new == [dir[r] EXCEPT !.patch = held]
<1>1. ws[p].stage = "ready" /\ call[p].op = "none" /\ ws' = ws /\ trouble' = trouble /\ TroubleGrows
  BY TroubleKept DEF Start, Idle, Busy, IInv
<1>2. r \in Root /\ dir[r] \in Directory /\ (dir[r].patch => "patch" \in trouble'[p])
  BY <1>1, UserOwns, NoPatchBetweenCalls
<1>3. PICK own \in BOOLEAN : \E c \in Child(p, op, files, Limit(p, own)) : call' = [call EXCEPT ![p] = c]
  BY DEF Start
<1>4. PICK c \in Child(p, op, files, Limit(p, own)) : call' = [call EXCEPT ![p] = c]
  BY <1>3
<1>5. Limit(p, own) \in Nat
  BY SandboxAssumption DEF Limit
<1>6. c \in Call /\ c.op = op
  BY <1>4, <1>5, ChildIsCall
<1>7. dir' = [dir EXCEPT ![r] = new]
  BY <1>2 DEF Start, IInv, TypeOK
<1>8. held \in BOOLEAN /\ (held => op = "patch" \/ "patch" \in trouble'[p])
  <2>1. dir[r].patch \in BOOLEAN
    BY <1>2 DEF Directory
  <2> QED
    BY <1>2, <2>1
<1> HIDE DEF held
<1>9. new \in Directory /\ new.owner = dir[r].owner /\ new.patch = held /\ new.strays = dir[r].strays
  BY <1>2, <1>8 DEF Directory
<1> HIDE DEF new
<1> QED
  BY <1>1, <1>4, <1>6, <1>7, <1>8, <1>9, CallStepKeeps

LEMMA PatchNotWrittenKeeps == ASSUME IInv, NEW p \in Process, PatchNotWritten(p) PROVE IInv'
<1> DEFINE r == ws[p].root
           new == [dir[r] EXCEPT !.patch = TRUE]
<1>1. /\ ws[p].stage = "ready" /\ call[p].op = "none" /\ ws' = ws
      /\ call' = [call EXCEPT ![p] = Over("threw")] /\ Over("threw") \in Idling
  BY DEF PatchNotWritten, Idle, Busy, Idling
<1>2. r \in Root /\ dir[r] \in Directory
  BY UserOwns
<1>3. CASE dir[r].patch /\ UNCHANGED <<dir, trouble>>
  <2>1. dir' = [dir EXCEPT ![r] = dir[r]] /\ TroubleGrows /\ "patch" \in trouble'[p]
    BY <1>1, <1>2, <1>3, TroubleKept, NoPatchBetweenCalls DEF IInv, TypeOK
  <2> QED
    BY <1>1, <1>2, <2>1, CallStepKeeps
<1>4. CASE dir' = [dir EXCEPT ![r].patch = TRUE] /\ Suffers(p, "patch")
  <2>1. dir' = [dir EXCEPT ![r] = new]
    BY <1>2, <1>4 DEF IInv, TypeOK
  <2>2. TroubleGrows /\ "patch" \in trouble'[p]
    BY <1>4, TroubleAdded DEF IInv
  <2>3. new \in Directory /\ new.owner = dir[r].owner /\ new.strays = dir[r].strays
    BY <1>2 DEF Directory
  <2> HIDE DEF new
  <2> QED
    BY <1>1, <2>1, <2>2, <2>3, CallStepKeeps
<1> QED
  BY <1>3, <1>4 DEF PatchNotWritten

LEMMA ReplaceFileKeeps == ASSUME IInv, NEW p \in Process, ReplaceFile(p) PROVE IInv'
<1> DEFINE r == ws[p].root
<1>1. ws[p].stage = "ready" /\ ~Busy(p) /\ call[p].op = "none" /\ ws' = ws /\ trouble' = trouble
  BY DEF ReplaceFile, Idle, Busy
<1>2. /\ r \in Root /\ dir[r] \in Directory /\ (dir[r].patch => "patch" \in trouble'[p])
      /\ TroubleGrows
  BY <1>1, UserOwns, NoPatchBetweenCalls, TroubleKept DEF IInv
<1>3. PICK f \in File : dir' = [dir EXCEPT ![r].work[f] = "edit"]
  BY DEF ReplaceFile
<1> DEFINE new == [dir[r] EXCEPT !.work = [@ EXCEPT ![f] = "edit"]]
<1>4. dir' = [dir EXCEPT ![r] = new]
  BY <1>2, <1>3 DEF IInv, TypeOK
<1>5. new \in Directory /\ new.owner = dir[r].owner /\ new.patch = dir[r].patch /\ new.strays = dir[r].strays
  BY <1>2 DEF Directory, Content
<1>6. PICK c \in Idling : call' = [call EXCEPT ![p] = c]
  BY DEF ReplaceFile, Idling
<1> HIDE DEF new
<1> QED
  BY <1>1, <1>2, <1>4, <1>5, <1>6, CallStepKeeps

LEMMA CallsKeep == ASSUME IInv, NEW p \in Process, Calls(p) PROVE IInv'
<1>1. CASE "run" \in Ops /\ Run(p)
  <2>1. {} \in SUBSET File
    OBVIOUS
  <2> QED
    BY <1>1, <2>1, StartKeeps DEF Run
<1>2. CASE "patch" \in Ops /\ ApplyPatch(p)
  <2>1. CASE PatchNotWritten(p)
    BY <2>1, PatchNotWrittenKeeps
  <2>2. CASE \E files \in SUBSET File \ {{}} : Start(p, "patch", files)
    BY <1>2, <2>2, StartKeeps
  <2> QED
    BY <1>2, <2>1, <2>2 DEF ApplyPatch
<1>3. CASE "inspect" \in Ops /\ (CollectDiff(p) \/ Search(p) \/ ReadInContainer(p))
  <2>1. {} \in SUBSET File
    OBVIOUS
  <2> QED
    BY <1>3, <2>1, StartKeeps DEF CollectDiff, Search, ReadInContainer
<1>4. CASE "replace" \in Ops /\ ReplaceInContainer(p)
  <2>1. PICK f \in File : Start(p, "replace", {f})
    BY <1>4 DEF ReplaceInContainer
  <2>2. {f} \in SUBSET File
    BY <2>1
  <2> QED
    BY <1>4, <2>1, <2>2, StartKeeps
<1>5. CASE ReplaceFile(p)
  BY <1>5, ReplaceFileKeeps
<1> QED
  BY <1>1, <1>2, <1>3, <1>4, <1>5 DEF Calls

-----------------------------------------------------------------------------
(* The child. *)
(* A step that changes nothing but the record of a call. *)
LEMMA RecordKeeps ==
  ASSUME IInv, NEW p \in Process, Busy(p), UNCHANGED <<dir, ws, trouble>>,
         NEW c \in Call, c.op = call[p].op, call' = [call EXCEPT ![p] = c]
  PROVE  IInv'
<1>1. ws[p].stage = "ready" /\ ws[p].root \in Root /\ dir[ws[p].root] \in Directory
  BY UserOwns
<1>2. dir' = [dir EXCEPT ![ws[p].root] = dir[ws[p].root]]
  BY <1>1 DEF IInv, TypeOK
<1>3. dir[ws[p].root].patch => c.op = "patch" \/ "patch" \in trouble'[p]
  BY <1>1, NoPatchBetweenCalls
<1>4. TroubleGrows
  BY TroubleKept DEF IInv
<1> QED
  BY <1>1, <1>2, <1>3, <1>4, CallStepKeeps

LEMMA TickKeeps == ASSUME IInv, NEW p \in Process, Tick(p) PROVE IInv'
<1> DEFINE c == [call[p] EXCEPT !.age = @ + 1]
<1>1. Busy(p) /\ call[p] \in Call
  BY UserOwns DEF Tick
<1>2. c \in Call /\ c.op = call[p].op
  BY <1>1 DEF Call
<1>3. call' = [call EXCEPT ![p] = c]
  BY <1>1 DEF Tick, IInv, TypeOK
<1> QED
  BY <1>1, <1>2, <1>3, RecordKeeps DEF Tick

LEMMA SignalKeeps ==
  ASSUME IInv, NEW p \in Process, NEW signal \in {"timeout", "output"}, Busy(p),
         call' = [call EXCEPT ![p].signal = signal], UNCHANGED <<dir, ws, trouble>>
  PROVE  IInv'
<1> DEFINE c == [call[p] EXCEPT !.signal = signal]
<1>1. call[p] \in Call
  BY UserOwns
<1>2. c \in Call /\ c.op = call[p].op
  BY <1>1 DEF Call
<1>3. call' = [call EXCEPT ![p] = c]
  BY <1>1 DEF IInv, TypeOK
<1> QED
  BY <1>1, <1>2, <1>3, RecordKeeps

(* Whatever a child does to the files, it leaves a directory with the same *)
(* owner, patch file and strays.                                           *)
LEMMA EffectsKeep ==
  ASSUME IInv, NEW p \in Process, Busy(p), NEW exit, NEW d \in Effects(p, exit)
  PROVE  /\ d \in Directory /\ d.owner = dir[ws[p].root].owner /\ d.patch = dir[ws[p].root].patch
         /\ d.strays = dir[ws[p].root].strays
<1> DEFINE c == call[p]
           was == dir[ws[p].root]
<1>1. was \in Directory /\ c \in Call /\ Docker(p) \in BOOLEAN
  BY UserOwns DEF Docker
<1>2. CASE c.op = "run"
  <2>0. Effects(p, exit) =
          {Ran(was, f, x, i, b) :
             f \in File, x \in Content, i \in {was.index, was.work}, b \in {was.big, Docker(p)}}
    BY <1>2 DEF Effects
  <2>1. PICK f \in File, x \in Content, i \in {was.index, was.work}, b \in {was.big, Docker(p)} :
          d = Ran(was, f, x, i, b)
    BY <2>0
  <2>2. i \in [File -> Content] /\ b \in BOOLEAN
    BY <1>1, <2>1 DEF Directory
  <2>3. [was.work EXCEPT ![f] = x] \in [File -> Content]
    BY <1>1, <2>1 DEF Directory
  <2> QED
    BY <1>1, <2>1, <2>2, <2>3 DEF Directory, Ran
<1>3. CASE c.op \in {"patch", "write"} /\ exit # "nonzero"
  <2>1. c.files \in SUBSET File
    BY <1>1 DEF Call
  <2>2. PICK some \in SUBSET c.files, b \in {was.big, Docker(p)} :
          d = Patched(was, some, b)
    <3>0. Effects(p, exit) =
            {Patched(was, some, b) :
               some \in IF exit = "zero" THEN {c.files} ELSE SUBSET c.files,
               b \in {was.big, Docker(p)}}
      BY <1>3 DEF Effects
    <3>1. PICK some \in IF exit = "zero" THEN {c.files} ELSE SUBSET c.files,
               b \in {was.big, Docker(p)} :
            d = Patched(was, some, b)
      BY <3>0
    <3> QED
      BY <3>1
  <2>3. Edited(was.work, some) \in [File -> Content]
    BY <1>1, <2>1 DEF Edited, Directory, Content
  <2> QED
    BY <1>1, <2>2, <2>3 DEF Directory, Patched
<1>4. CASE c.op # "run" /\ ~(c.op \in {"patch", "write"} /\ exit # "nonzero")
  <2>0. Effects(p, exit) = {was}
    BY <1>4 DEF Effects
  <2>1. d = was
    BY <2>0
  <2> QED
    BY <1>1, <2>1
<1> QED
  BY <1>2, <1>3, <1>4

(* What the end of a child leaves. *)
LEMMA AfterKeeps ==
  ASSUME NEW d \in Directory, NEW left \in SUBSET Process, NEW gone \in BOOLEAN
  PROVE  /\ After(d, left, gone) \in Directory
         /\ After(d, left, gone).owner = d.owner /\ After(d, left, gone).work = d.work
         /\ After(d, left, gone).patch = (d.patch /\ ~gone)
         /\ After(d, left, gone).strays = d.strays \cup left
<1> DEFINE held == d.patch /\ ~gone
           strays == d.strays \cup left
<1>1. held \in BOOLEAN /\ strays \in SUBSET Process
  BY DEF Directory
<1>2. After(d, left, gone) = [d EXCEPT !.strays = strays, !.patch = held]
  BY DEF After
<1> HIDE DEF held, strays
<1>3. /\ After(d, left, gone) \in Directory
      /\ After(d, left, gone).owner = d.owner /\ After(d, left, gone).work = d.work
      /\ After(d, left, gone).patch = held /\ After(d, left, gone).strays = strays
  BY <1>1, <1>2 DEF Directory
<1> QED
  BY <1>3 DEF held, strays

LEMMA ReturnKeeps ==
  ASSUME IInv, NEW p \in Process, NEW exit, Busy(p), Return(p, exit), ws' = ws
  PROVE  IInv'
<1> DEFINE r == ws[p].root
           gone == call[p].op = "patch" /\ PatchGone(p, exit)
<1>1. /\ ws[p].stage = "ready" /\ call[p] \in Call
      /\ r \in Root /\ dir[r] \in Directory
  BY UserOwns
<1>2. PICK d \in Effects(p, exit), left \in Left(p) : dir' = [dir EXCEPT ![r] = After(d, left, gone)]
  BY DEF Return
<1> DEFINE new == After(d, left, gone)
<1>3. d \in Directory /\ d.owner = dir[r].owner /\ d.patch = dir[r].patch /\ d.strays = dir[r].strays
  BY <1>1, EffectsKeep
<1>4. left \in SUBSET Process /\ left \subseteq {p}
  BY <1>2 DEF Left
<1>5. gone \in BOOLEAN /\ TroubleGrows /\ trouble' = trouble
  BY TroubleKept DEF Return, IInv
<1>6. new \in Directory /\ new.owner = dir[r].owner /\ new.strays = dir[r].strays \cup left
      /\ new.patch = (dir[r].patch /\ ~gone)
  <2> HIDE DEF gone
  <2>1. /\ new \in Directory /\ new.owner = d.owner /\ new.strays = d.strays \cup left
        /\ new.patch = (d.patch /\ ~gone)
    BY <1>3, <1>4, <1>5, AfterKeeps
  <2> QED
    BY <1>3, <2>1
<1>7. new.patch => "patch" \in trouble'[p]
  <2>1. CASE call[p].op = "patch"
    BY <2>1, <1>6 DEF PatchGone
  <2>2. CASE call[p].op # "patch"
    BY <2>2, <1>1, <1>5, <1>6, NoPatchBetweenCalls
  <2> QED
    BY <2>1, <2>2
<1>8. PICK c \in Call \cup Idling : call' = [call EXCEPT ![p] = c]
  <2>1. CASE call[p].op = "replace" /\ exit = "zero" /\ ~dir[r].big
    <3>1. PICK c \in Child(p, "write", call[p].files, DefaultLimit) : call' = [call EXCEPT ![p] = c]
      BY <2>1 DEF Return
    <3>2. c \in Call
      BY <3>1, <1>1, SandboxAssumption, ChildIsCall DEF Call
    <3> QED
      BY <3>1, <3>2
  <2>2. CASE ~(call[p].op = "replace" /\ exit = "zero" /\ ~dir[r].big)
    <3>1. call' = [call EXCEPT ![p] = Over(Told(p, exit, dir'[r].big))]
      BY <2>2 DEF Return
    <3>2. Over(Told(p, exit, dir'[r].big)) \in Idling
      BY DEF Told, Idling
    <3> QED
      BY <3>1, <3>2
  <2> QED
    BY <2>1, <2>2
<1>9. dir' = [dir EXCEPT ![r] = new]
  BY <1>2
<1> HIDE DEF new, gone
<1> QED
  BY <1>1, <1>4, <1>5, <1>6, <1>7, <1>8, <1>9, CallStepKeeps

LEMMA PatchStaysKeeps ==
  ASSUME IInv, NEW p \in Process, NEW exit, Busy(p), PatchStays(p, exit), ws' = ws
  PROVE  IInv'
<1> DEFINE r == ws[p].root
<1>1. /\ ws[p].stage = "ready" /\ r \in Root /\ dir[r] \in Directory
      /\ call' = [call EXCEPT ![p] = Over("threw")] /\ Over("threw") \in Idling
  BY UserOwns DEF PatchStays, Idling
<1>2. PICK d \in Effects(p, exit) : dir' = [dir EXCEPT ![r] = d]
  BY DEF PatchStays
<1>3. d \in Directory /\ d.owner = dir[r].owner /\ d.strays = dir[r].strays
  BY EffectsKeep
<1>4. TroubleGrows /\ "patch" \in trouble'[p]
  BY TroubleAdded DEF PatchStays, IInv
<1> QED
  BY <1>1, <1>2, <1>3, <1>4, CallStepKeeps

LEMMA EndKeeps == ASSUME IInv, NEW p \in Process, NEW exit, End(p, exit) PROVE IInv'
  BY ReturnKeeps, PatchStaysKeeps DEF End

(* A directory of which the owner, the patch file and the strays stay, but *)
(* for a stray that ends.                                                  *)
LEMMA FilesKeep ==
  ASSUME IInv, NEW r \in Root, NEW d \in Directory, dir' = [dir EXCEPT ![r] = d],
         d.owner = dir[r].owner, d.patch = dir[r].patch, d.strays \subseteq dir[r].strays,
         UNCHANGED <<ws, call, trouble>>
  PROVE  IInv'
<1>1. /\ \A s \in Root : dir'[s].owner = dir[s].owner /\ dir'[s].patch = dir[s].patch
      /\ \A s \in Root : dir'[s].strays \subseteq dir[s].strays
  BY DEF IInv, TypeOK
<1>2. TypeOK'
  BY DEF IInv, TypeOK
<1>3. Isolated' /\ BusyIsReady'
  BY <1>1 DEF IInv, TypeOK, Workspace, Isolated, BusyIsReady, Busy
<1>4. OwnersUse' /\ PatchIsHeld'
  BY <1>1 DEF IInv, OwnersUse, PatchIsHeld
<1>5. StraysKnown'
  BY <1>1 DEF IInv, StraysKnown
<1> QED
  BY <1>2, <1>3, <1>4, <1>5 DEF IInv

(* A process left behind makes the directory of a workspace anew that was  *)
(* removed; whose it was has long failed or been disposed of, or was killed. *)
LEMMA RemadeKeeps ==
  ASSUME IInv, NEW r \in Root, NEW p \in dir[r].strays, ~Exists(r),
         dir' = [dir EXCEPT ![r].owner = p], Suffers(p, "directory"), UNCHANGED <<ws, call>>
  PROVE  IInv'
<1> DEFINE new == [dir[r] EXCEPT !.owner = p]
<1>1. dir[r] \in Directory /\ p \in Process /\ dir[r].owner = Nobody
  BY DEF IInv, TypeOK, Directory, Exists
<1>2. ws[p] \in Workspace /\ ws[p].root = r /\ ws[p].stage \notin {"new", "checked"}
  BY <1>1 DEF IInv, TypeOK, StraysKnown
<1>3. ws[p].stage \in {"failed", "disposed", "dead"}
  <2>1. ws[p].stage \notin {"created", "ready"}
    BY <1>1, <1>2, SandboxAssumption DEF IInv, Isolated
  <2> QED
    BY <1>2, <2>1 DEF Workspace, Stage
<1>4. TroubleGrows /\ "directory" \in trouble'[p]
  BY <1>1, TroubleAdded DEF IInv
<1>5. dir' = [dir EXCEPT ![r] = new]
  BY <1>1 DEF IInv, TypeOK
<1>6. ~dir[r].patch
  BY <1>1 DEF IInv, PatchIsHeld
<1>7. new \in Directory /\ new.owner = p /\ ~new.patch /\ new.strays = dir[r].strays
  BY <1>1, <1>6 DEF Directory
<1> HIDE DEF new
<1>8. /\ dir' \in [Root -> Directory] /\ dir'[r] = new
      /\ \A s \in Root \ {r} : dir'[s] = dir[s]
  BY <1>5, <1>7 DEF IInv, TypeOK
<1>9. TypeOK'
  BY <1>4, <1>8 DEF IInv, TypeOK, TroubleGrows
<1>10. BusyIsReady'
  BY DEF IInv, BusyIsReady, Busy
<1>11. Isolated'
  <2> SUFFICES ASSUME NEW q \in Process, ws[q].stage \in {"created", "ready"}
               PROVE  dir'[ws[q].root].owner = q
    BY <1>10 DEF Isolated, BusyIsReady, Busy
  <2>1. dir[ws[q].root].owner = q /\ ws[q].root \in Root
    BY DEF IInv, TypeOK, Workspace, Isolated
  <2> QED
    BY <2>1, <1>1, <1>8, SandboxAssumption
<1>12. OwnersUse'
  <2> SUFFICES ASSUME NEW s \in Root, dir'[s].owner # Nobody
               PROVE  ws[dir'[s].owner].root = s
                      /\ MayOwn(ws[dir'[s].owner].stage, trouble'[dir'[s].owner])
    BY DEF OwnersUse
  <2>1. CASE s = r
    BY <2>1, <1>2, <1>3, <1>4, <1>7, <1>8 DEF MayOwn
  <2>2. CASE s # r
    <3>1. dir'[s] = dir[s] /\ dir[s].owner \in Process
      BY <2>2, <1>8 DEF IInv, TypeOK, Directory
    <3> QED
      BY <3>1, <1>4 DEF IInv, OwnersUse, MayOwn, TroubleGrows
  <2> QED
    BY <2>1, <2>2
<1>13. PatchIsHeld'
  <2> SUFFICES ASSUME NEW s \in Root, dir'[s].patch
               PROVE  /\ dir'[s].owner # Nobody
                      /\ MayHold(ws[dir'[s].owner].stage, call[dir'[s].owner], trouble'[dir'[s].owner])
    BY DEF PatchIsHeld
  <2>1. s # r /\ dir'[s] = dir[s]
    BY <1>7, <1>8
  <2>2. dir[s].owner # Nobody /\ dir[s].owner \in Process
    BY <2>1 DEF IInv, TypeOK, Directory, PatchIsHeld
  <2>3. trouble[dir[s].owner] \subseteq trouble'[dir[s].owner]
    BY <2>2, <1>4 DEF TroubleGrows
  <2> QED
    BY <2>1, <2>2, <2>3 DEF IInv, PatchIsHeld, MayHold
<1>14. StraysKnown'
  BY <1>7, <1>8 DEF IInv, StraysKnown
<1> QED
  BY <1>9, <1>10, <1>11, <1>12, <1>13, <1>14 DEF IInv

(* A process that was left behind reaches the files of one directory only. *)
LEMMA StrayKeeps == ASSUME IInv, NEW r \in Root, Stray(r) PROVE IInv'
<1>1. dir[r] \in Directory /\ dir \in [Root -> Directory]
  BY DEF IInv, TypeOK
<1>2. PICK p \in dir[r].strays :
        \/ \E f \in File, x \in Content : dir' = [dir EXCEPT ![r].work[f] = x] /\ UNCHANGED trouble
        \/ \E b \in BOOLEAN : dir' = [dir EXCEPT ![r].big = b] /\ UNCHANGED trouble
        \/ ~Exists(r) /\ dir' = [dir EXCEPT ![r].owner = p] /\ Suffers(p, "directory")
        \/ dir' = [dir EXCEPT ![r].strays = @ \ {p}] /\ UNCHANGED trouble
  BY DEF Stray
<1>3. UNCHANGED <<ws, call>>
  BY DEF Stray
<1>4. CASE \E f \in File, x \in Content : dir' = [dir EXCEPT ![r].work[f] = x] /\ UNCHANGED trouble
  <2>1. PICK f \in File, x \in Content : dir' = [dir EXCEPT ![r].work[f] = x] /\ UNCHANGED trouble
    BY <1>4
  <2> DEFINE d == [dir[r] EXCEPT !.work = [@ EXCEPT ![f] = x]]
  <2>2. dir' = [dir EXCEPT ![r] = d]
    BY <1>1, <2>1
  <2>3. d \in Directory /\ d.owner = dir[r].owner /\ d.patch = dir[r].patch /\ d.strays = dir[r].strays
    BY <1>1 DEF Directory
  <2> HIDE DEF d
  <2> QED
    BY <1>3, <2>1, <2>2, <2>3, FilesKeep
<1>5. CASE \E b \in BOOLEAN : dir' = [dir EXCEPT ![r].big = b] /\ UNCHANGED trouble
  <2>1. PICK b \in BOOLEAN : dir' = [dir EXCEPT ![r].big = b] /\ UNCHANGED trouble
    BY <1>5
  <2> DEFINE d == [dir[r] EXCEPT !.big = b]
  <2>2. dir' = [dir EXCEPT ![r] = d]
    BY <1>1, <2>1
  <2>3. d \in Directory /\ d.owner = dir[r].owner /\ d.patch = dir[r].patch /\ d.strays = dir[r].strays
    BY <1>1 DEF Directory
  <2> HIDE DEF d
  <2> QED
    BY <1>3, <2>1, <2>2, <2>3, FilesKeep
<1>6. CASE ~Exists(r) /\ dir' = [dir EXCEPT ![r].owner = p] /\ Suffers(p, "directory")
  BY <1>3, <1>6, RemadeKeeps
<1>7. CASE dir' = [dir EXCEPT ![r].strays = @ \ {p}] /\ UNCHANGED trouble
  <2> DEFINE d == [dir[r] EXCEPT !.strays = @ \ {p}]
  <2>1. dir' = [dir EXCEPT ![r] = d]
    BY <1>1, <1>7
  <2>2. /\ d \in Directory /\ d.owner = dir[r].owner /\ d.patch = dir[r].patch
        /\ d.strays \subseteq dir[r].strays
    BY <1>1 DEF Directory
  <2> HIDE DEF d
  <2> QED
    BY <1>3, <1>7, <2>1, <2>2, FilesKeep
<1> QED
  BY <1>2, <1>4, <1>5, <1>6, <1>7

LEMMA StutterKeeps == ASSUME IInv, UNCHANGED vars PROVE IInv'
  BY DEF vars, IInv, TypeOK, Isolated, OwnersUse, BusyIsReady, StraysKnown, PatchIsHeld, Busy

LEMMA NextKeeps == ASSUME IInv, [Next]_vars PROVE IInv'
<1>1. ASSUME NEW p \in Process, Step(p) PROVE IInv'
  <2>1. CASE Look(p) \/ MakeDirectory(p) \/ CheckOut(p)
    BY <2>1, LookKeeps, MakeDirectoryKeeps, CheckOutKeeps
  <2>2. CASE Calls(p)
    BY <2>2, CallsKeep
  <2>3. CASE Tick(p)
    BY <2>3, TickKeeps
  <2>4. CASE TimeOut(p)
    BY <2>4, SignalKeeps DEF TimeOut
  <2>5. CASE Overflow(p)
    BY <2>5, SignalKeeps DEF Overflow
  <2>6. CASE Dispose(p) \/ Crash(p)
    BY <2>6, DisposeKeeps, CrashKeeps
  <2>7. CASE \E exit \in {"zero", "nonzero", "null"} : End(p, exit)
    BY <2>7, EndKeeps
  <2> QED
    BY <1>1, <2>1, <2>2, <2>3, <2>4, <2>5, <2>6, <2>7 DEF Step
<1>2. ASSUME NEW r \in Root, Stray(r) PROVE IInv'
  BY <1>2, StrayKeeps
<1>3. CASE AllOver \/ UNCHANGED vars
  BY <1>3, StutterKeeps DEF AllOver
<1> QED
  BY <1>1, <1>2, <1>3 DEF Next

-----------------------------------------------------------------------------
(* The inductive invariant: type correctness, isolation, and who holds the *)
(* directory and the patch file at each root (createOwnedWorkspacePath,    *)
(* applyPatch and dispose).                                                *)
THEOREM SandboxInvariant == Spec => []IInv
  BY InitIInv, NextKeeps, PTL DEF Spec

(* Every reachable state is one of the types Sandbox declares. *)
THEOREM TypeCorrect == Spec => []TypeOK
<1>1. IInv => TypeOK
  BY DEF IInv
<1> QED
  BY <1>1, SandboxInvariant, PTL

(* No two live runs ever share a directory: the exclusive mkdirSync is      *)
(* enough, whatever existsSync saw before it.                              *)
THEOREM IsolationHolds == Spec => []Isolated
<1>1. IInv => Isolated
  BY DEF IInv
<1> QED
  BY <1>1, SandboxInvariant, PTL

(* An acquisition that failed at any step, and a disposal, leave no         *)
(* directory behind unless rmSync threw or a process that a command left    *)
(* behind made it again.                                                   *)
THEOREM NothingLeftHolds == Spec => []NothingLeft
<1>1. IInv => NothingLeft
  BY SandboxAssumption DEF IInv, OwnersUse, MayOwn, NothingLeft
<1> QED
  BY <1>1, SandboxInvariant, PTL

(* No patch file of an earlier applyPatch is there when a call may begin,   *)
(* unless that file could not be written whole or not be removed.          *)
THEOREM NoPatchFileHolds == Spec => []NoPatchFile
<1>1. IInv => NoPatchFile
  BY NoPatchBetweenCalls DEF NoPatchFile, Idle, Busy
<1> QED
  BY <1>1, SandboxInvariant, PTL

(* No call of a process reaches the workspace of another, and what outlives *)
(* a workspace or a call has trouble with the file system, or a process     *)
(* left behind, to account for it.                                         *)
THEOREM WorkspacesAreApart == Spec => []WorkspacesApart
<1>1. Isolated /\ NothingLeft /\ NoPatchFile => WorkspacesApart
  BY DEF WorkspacesApart
<1> QED
  BY <1>1, IsolationHolds, NothingLeftHolds, NoPatchFileHolds, PTL

-----------------------------------------------------------------------------
(* Limits of time.  A child is not older than its own limit unless it      *)
(* ignores the signal, and in local mode that limit is the workspace's: a  *)
(* call that goes on to write is docker's.                                 *)
InTime(p) ==
  /\ call[p].deaf \/ call[p].age <= call[p].limit
  /\ Docker(p) \/ (call[p].limit = TaskLimit /\ call[p].op # "replace")

LimitInv == \A p \in Process : Busy(p) => InTime(p)

(* What a child starts with. *)
LEMMA ChildStarts ==
  ASSUME NEW p, NEW op, NEW files, NEW limit, NEW c \in Child(p, op, files, limit)
  PROVE  c.op = op /\ c.age = 0 /\ c.limit = limit /\ c.files = files
<1>1. \E d : c = [op |-> op, files |-> files, age |-> 0, limit |-> limit, deaf |-> d, signal |-> "no"]
  BY DEF Child
<1> QED
  BY <1>1

(* Only its own process changes a call. *)
LEMMA OthersCalls ==
  ASSUME IInv, NEW p \in Process, NEW q \in Process, p # q, Step(q)
  PROVE  call'[p] = call[p]
<1>1. call \in [Process -> Call \cup Idling]
  BY DEF IInv, TypeOK, Idling
<1>2. CASE Look(q) \/ MakeDirectory(q) \/ CheckOut(q) \/ Dispose(q)
  BY <1>2 DEF Look, MakeDirectory, CheckOut, Dispose
<1>3. CASE Tick(q) \/ TimeOut(q) \/ Overflow(q) \/ Crash(q)
  BY <1>1, <1>3 DEF Tick, TimeOut, Overflow, Crash
<1>4. ASSUME NEW op, NEW files, Start(q, op, files) PROVE call'[p] = call[p]
  BY <1>1, <1>4 DEF Start
<1>5. CASE Calls(q)
  <2>1. CASE ReplaceFile(q)
    BY <1>1, <2>1 DEF ReplaceFile
  <2>2. CASE PatchNotWritten(q)
    BY <1>1, <2>2 DEF PatchNotWritten
  <2> QED
    BY <2>1, <2>2, <1>4, <1>5 DEF Calls, Run, ApplyPatch, CollectDiff, Search, ReadInContainer,
      ReplaceInContainer
<1>6. ASSUME NEW exit, End(q, exit) PROVE call'[p] = call[p]
  BY <1>1, <1>6 DEF End, Return, PatchStays
<1> QED
  BY <1>2, <1>3, <1>5, <1>6 DEF Step

(* Every way a call begins. *)
LEMMA CallBegins ==
  ASSUME IInv, NEW p \in Process, Calls(p)
  PROVE  \/ ~Busy(p) /\ \E told \in {"ok", "threw"} : call' = [call EXCEPT ![p] = Over(told)]
         \/ \E op \in Ops, files \in SUBSET File :
              Start(p, op, files) /\ (op = "replace" => Docker(p))
<1>1. CASE "run" \in Ops /\ Run(p)
  BY <1>1 DEF Run
<1>2. CASE "patch" \in Ops /\ ApplyPatch(p)
  BY <1>2 DEF ApplyPatch, PatchNotWritten, Idle
<1>3. CASE "inspect" \in Ops /\ (CollectDiff(p) \/ Search(p) \/ ReadInContainer(p))
  BY <1>3 DEF CollectDiff, Search, ReadInContainer
<1>4. CASE "replace" \in Ops /\ ReplaceInContainer(p)
  <2>1. PICK f \in File : Docker(p) /\ Start(p, "replace", {f})
    BY <1>4 DEF ReplaceInContainer
  <2>2. {f} \in SUBSET File
    OBVIOUS
  <2> QED
    BY <1>4, <2>1, <2>2
<1>5. CASE ReplaceFile(p)
  BY <1>5 DEF ReplaceFile, Idle
<1> QED
  BY <1>1, <1>2, <1>3, <1>4, <1>5 DEF Calls

(* What a call begins as. *)
LEMMA CallStarts ==
  ASSUME IInv, NEW p \in Process, NEW op \in Ops, NEW files \in SUBSET File,
         Start(p, op, files)
  PROVE  /\ \E own \in BOOLEAN : call'[p] \in Child(p, op, files, Limit(p, own))
         /\ call'[p].op = op /\ ws' = ws
         /\ Docker(p) => ~dir[ws[p].root].big
<1>1. PICK own \in BOOLEAN : \E c \in Child(p, op, files, Limit(p, own)) : call' = [call EXCEPT ![p] = c]
  BY DEF Start
<1>2. call'[p] \in Child(p, op, files, Limit(p, own))
  BY <1>1 DEF IInv, TypeOK
<1> QED
  BY <1>2, ChildStarts DEF Start

(* Every way a call ends. *)
LEMMA CallEnds ==
  ASSUME IInv, NEW p \in Process, NEW exit, End(p, exit)
  PROVE  LET r == ws[p].root
         IN  \/ /\ call[p].op = "replace" /\ exit = "zero" /\ ~dir[r].big
                /\ call'[p] \in Child(p, "write", call[p].files, DefaultLimit)
             \/ call'[p] = Over(Told(p, exit, dir'[r].big)) /\ Return(p, exit)
             \/ call'[p] = Over("threw")
<1>0. CASE PatchStays(p, exit)
  BY <1>0 DEF PatchStays, IInv, TypeOK
<1>1. CASE Return(p, exit) /\ call[p].op = "replace" /\ exit = "zero" /\ ~dir[ws[p].root].big
  <2>1. PICK n \in Child(p, "write", call[p].files, DefaultLimit) : call' = [call EXCEPT ![p] = n]
    BY <1>1 DEF Return
  <2> QED
    BY <1>1, <2>1 DEF IInv, TypeOK
<1>2. CASE Return(p, exit) /\ ~(call[p].op = "replace" /\ exit = "zero" /\ ~dir[ws[p].root].big)
  <2>1. call' = [call EXCEPT ![p] = Over(Told(p, exit, dir'[ws[p].root].big))]
    BY <1>2 DEF Return
  <2> QED
    BY <1>2, <2>1 DEF IInv, TypeOK
<1> QED
  BY <1>0, <1>1, <1>2 DEF End

LEMMA OwnStepInTime ==
  ASSUME IInv, NEW p \in Process, Step(p), Busy(p) => InTime(p), Busy(p)'
  PROVE  InTime(p)'
<1>1. ws \in [Process -> Workspace] /\ call \in [Process -> Call \cup Idling]
  BY DEF IInv, TypeOK, Idling
<1>2. Docker(p)' <=> Docker(p)
  <2>1. \A s \in Stage : ws' = [ws EXCEPT ![p].stage = s] => ws'[p].mode = ws[p].mode
    BY <1>1 DEF Workspace
  <2>2. ws' = ws \/ \E s \in Stage : GoTo(p, s)
    BY DEF Step, Look, MakeDirectory, CheckOut, Calls, Run, ApplyPatch, CollectDiff, Search,
      ReadInContainer, ReplaceInContainer, ReplaceFile, PatchNotWritten, Start, Tick, TimeOut, Overflow, End,
      Dispose, Crash, Stage
  <2> QED
    BY <2>1, <2>2 DEF GoTo, Docker
<1>3. Busy(p) => call[p] \in Call
  BY UserOwns
<1>4. CASE call' = call
  BY <1>2, <1>4 DEF Busy, InTime
<1>11. CASE \E told \in {"ok", "threw"} : call' = [call EXCEPT ![p] = Over(told)]
  BY <1>1, <1>11 DEF Busy, Over
<1>5. CASE Tick(p)
  <2>1. /\ Busy(p) /\ ~Due(call[p]) /\ (call[p].signal # "no" => call[p].deaf)
        /\ call' = [call EXCEPT ![p].age = @ + 1]
    BY <1>5 DEF Tick
  <2>2. /\ call'[p].age = call[p].age + 1 /\ call'[p].limit = call[p].limit
        /\ call'[p].deaf = call[p].deaf /\ call'[p].op = call[p].op
    BY <1>1, <1>3, <2>1 DEF Call
  <2>3. call[p].age \in Nat /\ call[p].limit \in Nat
    BY <1>3, <2>1 DEF Call
  <2>4. call[p].deaf \/ call[p].age < call[p].limit
    BY <2>1, <2>3 DEF Due
  <2> QED
    BY <1>2, <2>1, <2>2, <2>3, <2>4 DEF InTime
<1>6. CASE TimeOut(p) \/ Overflow(p)
  <2>1. PICK s \in {"timeout", "output"} : Busy(p) /\ call' = [call EXCEPT ![p].signal = s]
    BY <1>6 DEF TimeOut, Overflow
  <2>2. /\ call'[p].age = call[p].age /\ call'[p].limit = call[p].limit
        /\ call'[p].deaf = call[p].deaf /\ call'[p].op = call[p].op
    BY <1>1, <1>3, <2>1 DEF Call
  <2> QED
    BY <1>2, <2>1, <2>2 DEF InTime
<1>7. CASE \E op \in Ops, files \in SUBSET File : Start(p, op, files) /\ (op = "replace" => Docker(p))
  <2>1. PICK op \in Ops, files \in SUBSET File : Start(p, op, files) /\ (op = "replace" => Docker(p))
    BY <1>7
  <2>2. PICK own \in BOOLEAN : call'[p] \in Child(p, op, files, Limit(p, own))
    BY <2>1, CallStarts
  <2>3. call'[p].op = op /\ call'[p].age = 0 /\ call'[p].limit = Limit(p, own)
    BY <2>2, ChildStarts
  <2>4. 0 <= Limit(p, own) /\ (Docker(p) \/ Limit(p, own) = TaskLimit)
    BY SandboxAssumption DEF Limit
  <2> QED
    BY <1>2, <2>1, <2>3, <2>4 DEF InTime
<1>8. ASSUME NEW exit, End(p, exit) PROVE InTime(p)'
  <2>1. Busy(p)
    BY <1>8 DEF End
  <2>2. call'[p] \in Child(p, "write", call[p].files, DefaultLimit) /\ call[p].op = "replace"
    <3>1. call'[p].op # "none"
      BY DEF Busy
    <3>2. \A told : Over(told).op = "none"
      BY DEF Over
    <3> QED
      BY <3>1, <3>2, <1>8, CallEnds
  <2>3. Docker(p)
    BY <2>1, <2>2 DEF InTime
  <2>4. call'[p].age = 0 /\ call'[p].limit = DefaultLimit
    BY <2>2, ChildStarts
  <2> QED
    BY <1>2, <2>3, <2>4, SandboxAssumption DEF InTime
<1>9. CASE Crash(p)
  <2>1. call'[p].op = "none"
    BY <1>1, <1>9 DEF Crash, Over
  <2> QED
    BY <2>1 DEF Busy
<1>10. CASE Look(p) \/ MakeDirectory(p) \/ CheckOut(p) \/ Dispose(p)
  BY <1>4, <1>10 DEF Look, MakeDirectory, CheckOut, Dispose
<1> QED
  BY <1>4, <1>5, <1>6, <1>7, <1>8, <1>9, <1>10, <1>11, CallBegins DEF Step

LEMMA LimitStep == IInv /\ LimitInv /\ [Next]_vars => LimitInv'
<1> SUFFICES ASSUME IInv, LimitInv, [Next]_vars, NEW p \in Process, Busy(p)'
             PROVE  InTime(p)'
  BY DEF LimitInv
<1>1. ASSUME call'[p] = call[p], ws'[p].mode = ws[p].mode PROVE InTime(p)'
  BY <1>1 DEF LimitInv, InTime, Busy, Docker
<1>2. CASE Step(p)
  BY <1>2, OwnStepInTime DEF LimitInv
<1>3. ASSUME NEW q \in Process, q # p, Step(q) PROVE InTime(p)'
  <2>1. ws' = ws \/ \E s : GoTo(q, s)
    BY <1>3 DEF Step, Look, MakeDirectory, CheckOut, Calls, Run, ApplyPatch, CollectDiff,
      Search, ReadInContainer, ReplaceInContainer, ReplaceFile, PatchNotWritten, Start, Tick, TimeOut,
      Overflow, End, Dispose, Crash
  <2>2. ws'[p] = ws[p]
    BY <2>1, <1>3 DEF GoTo, IInv, TypeOK
  <2> QED
    BY <1>1, <1>3, <2>2, OthersCalls
<1>4. CASE (\E r \in Root : Stray(r)) \/ AllOver \/ UNCHANGED vars
  BY <1>1, <1>4 DEF Stray, AllOver, vars
<1> QED
  BY <1>2, <1>3, <1>4 DEF Next

(* In local mode every child that obeys the signal is stopped at the limit *)
(* of its workspace (spawnSync's timeout), whichever call started it.      *)
THEOREM LimitIsHeld == Spec => []LimitHeld
<1>1. Init => LimitInv
  BY DEF Init, LimitInv, Busy, Over
<1>2. IInv /\ LimitInv => LimitHeld
  <2> SUFFICES ASSUME IInv, LimitInv, NEW p \in Process, Busy(p), ~Docker(p), ~call[p].deaf
               PROVE  call[p].age <= TaskLimit
    BY DEF LimitHeld
  <2> QED
    BY DEF LimitInv, InTime
<1> QED
  BY <1>1, <1>2, InitIInv, NextKeeps, LimitStep, PTL DEF Spec

-----------------------------------------------------------------------------
(* What a call reports. *)
(* Following a child does not change which call it is. *)
LEMMA ChildStays ==
  ASSUME IInv, NEW p \in Process, Tick(p) \/ TimeOut(p) \/ Overflow(p)
  PROVE  call'[p].op = call[p].op
<1>1. call[p] \in Call /\ call \in [Process -> Call \cup Idling]
  BY UserOwns DEF Tick, TimeOut, Overflow, IInv, TypeOK, Idling
<1>2. CASE Tick(p)
  <2>1. call' = [call EXCEPT ![p].age = @ + 1]
    BY <1>2 DEF Tick
  <2> QED
    BY <1>1, <2>1 DEF Call
<1>3. CASE TimeOut(p) \/ Overflow(p)
  <2>1. PICK s \in {"timeout", "output"} : call' = [call EXCEPT ![p].signal = s]
    BY <1>3 DEF TimeOut, Overflow
  <2> QED
    BY <1>1, <2>1 DEF Call
<1> QED
  BY <1>2, <1>3

(* A report of success is the end of a child that exited with zero. *)
LEMMA SuccessIsZero ==
  ASSUME IInv, NEW p \in Process, [Next]_vars, Busy(p), call'[p] = Over("ok")
  PROVE  /\ End(p, "zero") /\ Return(p, "zero")
         /\ ~(Docker(p) /\ dir'[ws[p].root].big)
<1>0. /\ call \in [Process -> Call \cup Idling] /\ call[p] \in Call
      /\ Over("ok").op = "none" /\ Over("ok").told = "ok"
  BY UserOwns DEF IInv, TypeOK, Idling, Over
<1>1. ASSUME call'[p].op = call[p].op PROVE FALSE
  BY <1>0, <1>1 DEF Busy
<1>2. ~(\E q \in Process : q # p /\ Step(q))
  BY <1>1, OthersCalls
<1>3. ~((\E r \in Root : Stray(r)) \/ AllOver \/ UNCHANGED vars)
  BY <1>1 DEF Stray, AllOver, vars
<1>4. Step(p)
  BY <1>2, <1>3 DEF Next
<1>5. ~(Look(p) \/ MakeDirectory(p) \/ CheckOut(p) \/ Dispose(p) \/ Calls(p))
  <2>1. ASSUME NEW op, NEW files PROVE ~Start(p, op, files)
    BY DEF Start, Idle
  <2>2. ~Calls(p)
    BY <2>1 DEF Calls, Run, ApplyPatch, PatchNotWritten, CollectDiff, Search, ReadInContainer,
      ReplaceInContainer, ReplaceFile, Idle
  <2> QED
    BY <2>2, <1>1 DEF Look, MakeDirectory, CheckOut, Dispose
<1>6. ~(Tick(p) \/ TimeOut(p) \/ Overflow(p))
  BY <1>1, ChildStays
<1>7. ~Crash(p)
  <2>1. Crash(p) => call'[p].told = "nothing"
    BY <1>0 DEF Crash, Over
  <2> QED
    BY <2>1, <1>0
<1>8. PICK exit \in {"zero", "nonzero", "null"} : End(p, exit)
  BY <1>4, <1>5, <1>6, <1>7 DEF Step
<1>9. call'[p] = Over(Told(p, exit, dir'[ws[p].root].big)) /\ Return(p, exit)
  <2>1. call'[p] # Over("threw")
    BY <1>0 DEF Over
  <2> QED
    BY <1>8, <2>1, CallEnds, ChildStarts, <1>0
<1>10. Told(p, exit, dir'[ws[p].root].big) = "ok"
  BY <1>0, <1>9 DEF Over
<1> QED
  BY <1>8, <1>9, <1>10 DEF Told

(* An edit reported as made was made in every file: git's exit code of zero *)
(* means the whole patch, and no other outcome is taken for it (applyPatch  *)
(* and docker's replaceFile).                                               *)
THEOREM EditsAreMadeWhole == Spec => EditsAreWhole
<1> DEFINE Whole ==
      \A p \in Process :
        LET c == call[p] IN
        c.op \in {"patch", "write"} /\ call'[p] = Over("ok") =>
          \A f \in c.files : dir'[ws[p].root].work[f] = "edit"
<1>1. IInv /\ [Next]_vars => Whole
  <2> SUFFICES ASSUME IInv, [Next]_vars, NEW p \in Process,
                      call[p].op \in {"patch", "write"}, call'[p] = Over("ok"),
                      NEW f \in call[p].files
               PROVE  dir'[ws[p].root].work[f] = "edit"
    OBVIOUS
  <2> DEFINE r == ws[p].root
  <2>1. Busy(p) /\ Return(p, "zero")
    BY SuccessIsZero DEF Busy
  <2>2. r \in Root /\ dir[r] \in Directory /\ call[p] \in Call
    BY <2>1, UserOwns
  <2> DEFINE gone == call[p].op = "patch" /\ PatchGone(p, "zero")
  <2>3. PICK d \in Effects(p, "zero"), left \in Left(p) : dir' = [dir EXCEPT ![r] = After(d, left, gone)]
    BY <2>1 DEF Return
  <2>4. d \in Directory /\ left \in SUBSET Process /\ gone \in BOOLEAN
    BY <2>1, <2>3, EffectsKeep DEF Left
  <2> HIDE DEF gone
  <2>5. dir'[r].work = d.work
    <3>1. After(d, left, gone).work = d.work
      BY <2>4, AfterKeeps
    <3> QED
      BY <3>1, <2>2, <2>3 DEF IInv, TypeOK
  <2>6. PICK b \in {dir[r].big, Docker(p)} : d = Patched(dir[r], call[p].files, b)
    <3>1. Effects(p, "zero") =
            {Patched(dir[r], some, b) : some \in {call[p].files}, b \in {dir[r].big, Docker(p)}}
      BY DEF Effects
    <3> QED
      BY <3>1
  <2>7. d.work = Edited(dir[r].work, call[p].files)
    BY <2>2, <2>6 DEF Patched, Directory
  <2>8. f \in File
    BY <2>2 DEF Call
  <2> QED
    BY <2>5, <2>7, <2>8 DEF Edited
<1>2. EditsAreWhole <=> [][Whole]_vars
  BY DEF EditsAreWhole
<1> QED
  BY <1>1, <1>2, SandboxInvariant, PTL DEF Spec

(* Docker mode's disk guard, before and after every command: none begins in *)
(* a workspace too large, none that leaves it so is a success.              *)
THEOREM DiskIsGuarded == Spec => DiskGuarded
<1> DEFINE Guarded ==
      \A p \in Process :
        Docker(p) =>
          /\ call'[p].op \notin {"none", call[p].op} => ~dir[ws[p].root].big
          /\ Busy(p) /\ call'[p] = Over("ok") => ~dir'[ws[p].root].big
<1>1. IInv /\ [Next]_vars => Guarded
  <2> SUFFICES ASSUME IInv, [Next]_vars, NEW p \in Process, Docker(p)
               PROVE  /\ call'[p].op \notin {"none", call[p].op} => ~dir[ws[p].root].big
                      /\ Busy(p) /\ call'[p] = Over("ok") => ~dir'[ws[p].root].big
    OBVIOUS
  <2>1. Busy(p) /\ call'[p] = Over("ok") => ~dir'[ws[p].root].big
    BY SuccessIsZero
  <2>2. ASSUME call'[p].op \notin {"none", call[p].op} PROVE ~dir[ws[p].root].big
    <3>1. Step(p)
      BY <2>2, OthersCalls DEF Next, Stray, AllOver, vars
    <3>2. CASE Calls(p)
      <4>1. \A told : Over(told).op = "none"
        BY DEF Over
      <4>2. ~(\E told \in {"ok", "threw"} : call' = [call EXCEPT ![p] = Over(told)])
        BY <2>2, <4>1 DEF IInv, TypeOK
      <4> QED
        BY <3>2, <2>2, <4>2, CallBegins, CallStarts
    <3>3. CASE Look(p) \/ MakeDirectory(p) \/ CheckOut(p) \/ Dispose(p)
      BY <3>3, <2>2 DEF Look, MakeDirectory, CheckOut, Dispose
    <3>4. CASE Tick(p) \/ TimeOut(p) \/ Overflow(p)
      BY <3>4, <2>2, ChildStays
    <3>5. CASE Crash(p)
      BY <3>5, <2>2 DEF Crash, Over, IInv, TypeOK
    <3>6. CASE \E exit \in {"zero", "nonzero", "null"} : End(p, exit)
      <4>1. \A told : Over(told).op = "none"
        BY DEF Over
      <4> QED
        BY <3>6, <2>2, <4>1, CallEnds
    <3> QED
      BY <3>1, <3>2, <3>3, <3>4, <3>5, <3>6 DEF Step
  <2> QED
    BY <2>1, <2>2
<1>2. DiskGuarded <=> [][Guarded]_vars
  BY DEF DiskGuarded
<1> QED
  BY <1>1, <1>2, SandboxInvariant, PTL DEF Spec
=============================================================================
