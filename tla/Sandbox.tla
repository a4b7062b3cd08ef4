------------------------------- MODULE Sandbox -------------------------------
(***************************************************************************)
(* The workspaces of packages/sandbox/src/index.ts.  A process acquires a  *)
(* directory that did not exist, checks the source out in it, runs         *)
(* commands, edits, patches and diffs, and removes the directory again.    *)
(* Every call is synchronous, but the child it waits for is not: it may    *)
(* run out of time or output, ignore SIGTERM, or leave a process (in       *)
(* docker mode, its container) behind that goes on writing.  Processes     *)
(* that ask for the same root meet in the file system, each may be killed  *)
(* between any two steps, and the file system may refuse a write or a      *)
(* removal (no space, no permission, a directory still written to).        *)
(*                                                                         *)
(* A file is absent, as checked out, or edited; the diff is that of `git   *)
(* diff': working tree against index.  Path resolution, the allowlist, the *)
(* environment and the captured text are left out: a call that these       *)
(* reject throws before it changes anything.                               *)
(***************************************************************************)
EXTENDS Naturals

CONSTANTS
  Process,       \* processes; each acquires one workspace
  Caller,        \* bound: those of them that make calls; the others are local
  Root,          \* values of workspaceRoot
  File,          \* paths in the workspace
  Source,        \* those of them that the commit has
  Modes,         \* "local", "docker": the modes that are used
  Ops,           \* "run", "replace", "patch", "inspect": the calls made
  Nobody,        \* owner of a directory that does not exist
  TaskLimit,     \* maxDurationMs of the task, in ticks
  DefaultLimit,  \* DEFAULT_COMMAND_TIMEOUT_MS, in ticks
  MaxAge,        \* bound: the age up to which a child is followed
  Faults         \* what may happen: "crash", "acquire" (an acquisition fails),
                 \*   "disk" (the file system refuses a write or a removal)

ASSUME SandboxAssumption ==
  /\ Caller \subseteq Process
  /\ Source \subseteq File
  /\ Nobody \notin Process
  /\ Modes \subseteq {"local", "docker"}
  /\ Ops \subseteq {"run", "replace", "patch", "inspect"}
  /\ TaskLimit \in Nat \ {0} /\ DefaultLimit \in Nat \ {0} /\ MaxAge \in Nat
  /\ Faults \subseteq {"crash", "acquire", "disk"}

VARIABLES
  dir,   \* the directory at each root
  ws,    \* each process's workspace object
  call,  \* the call each process is in
  trouble  \* history: "patch", the patch file could not be written whole or not
           \*   be removed; "directory", the directory could not be removed, or
           \*   a process left behind made it anew

vars == <<dir, ws, call, trouble>>

Content == {"absent", "base", "edit"}
Base == [f \in File |-> IF f \in Source THEN "base" ELSE "absent"]

Directory ==
  [owner : Process \cup {Nobody}, work : [File -> Content], index : [File -> Content],
   patch : BOOLEAN,    \* .morphscope-apply.patch exists
   big : BOOLEAN,      \* larger than maxDiskMb
   strays : SUBSET Process]   \* those that left a process behind that may write here

NoDirectory ==
  [owner |-> Nobody, work |-> [f \in File |-> "absent"], index |-> [f \in File |-> "absent"],
   patch |-> FALSE, big |-> FALSE, strays |-> {}]

Stage == {"new", "checked", "created", "ready", "failed", "disposed", "dead"}
Workspace == [stage : Stage, root : Root, mode : Modes]

Call ==
  [op : Ops \cup {"write"}, files : SUBSET File, age : Nat, limit : Nat, deaf : BOOLEAN,
   signal : {"no", "timeout", "output"}]
Over(told) == [op |-> "none", told |-> told]   \* what the caller of the last call was told

Exists(r) == dir[r].owner # Nobody

Init ==
  /\ dir = [r \in Root |-> NoDirectory]
  /\ ws \in [Process -> {w \in Workspace : w.stage = "new"}]
  /\ \A p \in Process \ Caller : ws[p].mode = "local"
  /\ call = [p \in Process |-> Over("nothing")]
  /\ trouble = [p \in Process |-> {}]

GoTo(p, stage) == ws' = [ws EXCEPT ![p].stage = stage]
Disk == "disk" \in Faults
Docker(p) == ws[p].mode = "docker"
Suffers(p, what) == trouble' = [trouble EXCEPT ![p] = @ \cup {what}]

(* What is at the root when p's directory is gone.  Nobody ends what was   *)
(* left behind: a container keeps a mount that leads nowhere, but a local  *)
(* process may still name the path.                                        *)
Emptied(p, d) == [NoDirectory EXCEPT !.strays = d.strays \ (IF Docker(p) THEN {p} ELSE {})]

(* rmSync of the whole directory: it is removed, or rmSync throws and      *)
(* leaves it.  Which of its files are left then is of no account: nobody   *)
(* reads them any more.                                                    *)
Remove(p) ==
  LET r == ws[p].root
  IN  \/ dir' = [dir EXCEPT ![r] = Emptied(p, @)] /\ UNCHANGED trouble
      \/ Disk /\ Suffers(p, "directory") /\ UNCHANGED dir

-----------------------------------------------------------------------------
(* Acquisition. *)

(* The source is not a repository, or has no such commit; git fails. *)
SourceRejected == "acquire" \in Faults
CheckOutFails == "acquire" \in Faults

(* createOwnedWorkspacePath up to existsSync; the source and the commit    *)
(* may be rejected before.                                                 *)
Look(p) ==
  /\ ws[p].stage = "new"
  /\ \/ SourceRejected /\ GoTo(p, "failed")
     \/ GoTo(p, IF Exists(ws[p].root) THEN "failed" ELSE "checked")
  /\ UNCHANGED <<dir, call, trouble>>

(* mkdirSync: it throws if another process has made the directory since,   *)
(* and then nothing is removed.                                            *)
MakeDirectory(p) ==
  LET r == ws[p].root
  IN  /\ ws[p].stage = "checked"
      /\ IF Exists(r) THEN GoTo(p, "failed") /\ UNCHANGED dir
         ELSE GoTo(p, "created") /\ dir' = [dir EXCEPT ![r].owner = p]
      /\ UNCHANGED <<call, trouble>>

(* DockerWorkspace.acquire finds no image, or the workspace too large. *)
DockerUnready(p) == ws[p].mode = "docker" /\ "acquire" \in Faults

(* Clone and checkout, or copying a fixture over what the directory has;   *)
(* then, in docker mode, the look for the image and for the size.  After a *)
(* failure the directory is removed, which may fail as well.               *)
CheckOut(p) ==
  LET r == ws[p].root
      overlay == [f \in File |-> IF f \in Source THEN "base" ELSE dir[r].work[f]]
  IN  /\ ws[p].stage = "created"
      /\ \/ /\ dir' = [dir EXCEPT ![r].work = overlay, ![r].index = overlay]
            /\ GoTo(p, "ready")
            /\ UNCHANGED trouble
         \/ /\ CheckOutFails \/ DockerUnready(p)
            /\ Remove(p)
            /\ GoTo(p, "failed")
      /\ UNCHANGED call

-----------------------------------------------------------------------------
(* Calls. *)
Busy(p) == call[p].op # "none"
Idle(p) == ws[p].stage = "ready" /\ ~Busy(p)

(* Mutant: the workspace's own limit is not used in local mode either. *)
LimitDefault(p, own) == IF own THEN TaskLimit ELSE DefaultLimit

(* The limit of a call is its own (`own': the setup command passes the      *)
(* task's) or else, in local mode, that of the workspace; docker mode takes *)
(* the default.                                                             *)
Limit(p, own) == IF own \/ ~Docker(p) THEN TaskLimit ELSE DefaultLimit

Child(p, op, files, limit) ==
  {[op |-> op, files |-> files, age |-> 0, limit |-> limit, deaf |-> d, signal |-> "no"] :
     d \in IF op = "run" THEN BOOLEAN ELSE {FALSE}}

(* Mutant: the size of the workspace is not looked at before a command. *)
StartUnguarded(p, op, files) ==
  LET r == ws[p].root
  IN  /\ Idle(p)
      /\ op = "patch" /\ ~Docker(p) => ~dir[r].patch
      /\ \E own \in (IF op = "run" THEN BOOLEAN ELSE {FALSE}) :
           \E c \in Child(p, op, files, Limit(p, own)) : call' = [call EXCEPT ![p] = c]
      /\ dir' = [dir EXCEPT ![r].patch = @ \/ (op = "patch" /\ ~Docker(p))]
      /\ UNCHANGED <<ws, trouble>>

(* Up to spawnSync.  A local patch goes to the command in a file that must *)
(* not exist yet; docker mode refuses to start in a workspace too large    *)
(* (what was left behind may make it so before the child begins).          *)
Start(p, op, files) ==
  LET r == ws[p].root
  IN  /\ Idle(p)
      /\ ~(Docker(p) /\ dir[r].big)
      /\ op = "patch" /\ ~Docker(p) => ~dir[r].patch
      /\ \E own \in (IF op = "run" THEN BOOLEAN ELSE {FALSE}) :
           \E c \in Child(p, op, files, Limit(p, own)) : call' = [call EXCEPT ![p] = c]
      /\ dir' = [dir EXCEPT ![r].patch = @ \/ (op = "patch" /\ ~Docker(p))]
      /\ UNCHANGED <<ws, trouble>>

(* The exclusive write of a local patch file throws, outside the try whose *)
(* finally removes it: the file was there, or was made and not filled.     *)
PatchNotWritten(p) ==
  LET r == ws[p].root
  IN  /\ Idle(p) /\ ~Docker(p)
      /\ \/ dir[r].patch /\ UNCHANGED <<dir, trouble>>
         \/ ~dir[r].patch /\ Disk /\ dir' = [dir EXCEPT ![r].patch = TRUE] /\ Suffers(p, "patch")
      /\ call' = [call EXCEPT ![p] = Over("threw")]
      /\ UNCHANGED ws

Run(p) == Start(p, "run", {})
ApplyPatch(p) == (\E files \in SUBSET File \ {{}} : Start(p, "patch", files)) \/ PatchNotWritten(p)
CollectDiff(p) == Start(p, "inspect", {})
Search(p) == Start(p, "inspect", {})
ReadInContainer(p) == Docker(p) /\ Start(p, "inspect", {})   \* listFiles and readFile

(* Docker mode reads the file with one command and writes it with another. *)
ReplaceInContainer(p) ==
  \E f \in File :
    /\ Docker(p) /\ dir[ws[p].root].work[f] # "absent"
    /\ Start(p, "replace", {f})

(* replaceFile reads, edits and writes the file itself.  A target that is *)
(* missing or ambiguous throws, which changes nothing; a write that fails  *)
(* throws as well, and has changed the file.                               *)
ReplaceFile(p) ==
  LET r == ws[p].root
  IN  /\ Idle(p) /\ ~Docker(p)
      /\ \E f \in File :
           /\ dir[r].work[f] # "absent"
           /\ dir' = [dir EXCEPT ![r].work[f] = "edit"]
      /\ \E told \in {"ok"} \cup (IF Disk THEN {"threw"} ELSE {}) :
           call' = [call EXCEPT ![p] = Over(told)]
      /\ UNCHANGED <<ws, trouble>>

Calls(p) ==
  \/ "run" \in Ops /\ Run(p)
  \/ "patch" \in Ops /\ ApplyPatch(p)
  \/ "inspect" \in Ops /\ (CollectDiff(p) \/ Search(p) \/ ReadInContainer(p))
  \/ "replace" \in Ops /\ (ReplaceInContainer(p) \/ ReplaceFile(p))

-----------------------------------------------------------------------------
(* The child. *)
Due(c) == c.age >= c.limit /\ c.signal = "no"

(* Time passes for a child unless the timer is due, or it was sent a signal *)
(* that it obeys.                                                          *)
Tick(p) ==
  /\ Busy(p)
  /\ call[p].age < MaxAge
  /\ ~Due(call[p])
  /\ call[p].signal # "no" => call[p].deaf
  /\ call' = [call EXCEPT ![p].age = @ + 1]
  /\ UNCHANGED <<dir, ws, trouble>>

(* Mutant: spawnSync is not given the timeout. *)
TimeOutNever(p) == FALSE /\ UNCHANGED vars

TimeOut(p) ==
  /\ Busy(p)
  /\ Due(call[p])
  /\ call' = [call EXCEPT ![p].signal = "timeout"]
  /\ UNCHANGED <<dir, ws, trouble>>

(* maxBuffer *)
Overflow(p) ==
  /\ Busy(p)
  /\ call[p].signal = "no"
  /\ call' = [call EXCEPT ![p].signal = "output"]
  /\ UNCHANGED <<dir, ws, trouble>>

Edited(work, files) == [f \in File |-> IF f \in files THEN "edit" ELSE work[f]]

Ran(d, f, x, i, b) == [d EXCEPT !.work[f] = x, !.index = i, !.big = b]
Patched(d, files, b) == [d EXCEPT !.work = Edited(@, files), !.big = b]

(* What the child has done to the files when it ends: a command changes a  *)
(* file and may stage what there is; git applies a whole patch or nothing, *)
(* unless it is stopped.                                                   *)
Effects(p, exit) ==
  LET c == call[p]
      d == dir[ws[p].root]
  IN  CASE c.op = "run" ->
             {Ran(d, f, x, i, b) :
                f \in File, x \in Content, i \in {d.index, d.work}, b \in {d.big, Docker(p)}}
        [] c.op \in {"patch", "write"} /\ exit # "nonzero" ->
             {Patched(d, some, b) :
                some \in IF exit = "zero" THEN {c.files} ELSE SUBSET c.files,
                b \in {d.big, Docker(p)}}
        [] OTHER -> {d}

(* Whose process may still be running?  A local command can leave one      *)
(* behind at any time.  A container can outlive a client that was stopped; *)
(* cleanupDockerContainer, tried after a timeout, may fail.                *)
Left(p) ==
  IF Docker(p) THEN IF call[p].signal = "no" THEN {{}} ELSE {{}, {p}}
  ELSE IF call[p].op = "run" THEN {{}, {p}} ELSE {{}}

(* A child that was stopped has no exit code, or its own if it caught the signal. *)
Exits(p) ==
  IF call[p].signal = "no" THEN {"zero", "nonzero"}
  ELSE IF call[p].op = "run" THEN {"null", "nonzero", "zero"} ELSE {"null"}

(* Mutant: only a patch that git rejects is an error. *)
ToldNonzero(p, exit, big) == IF exit = "nonzero" \/ (Docker(p) /\ big) THEN "threw" ELSE "ok"

(* Mutant: the exit code is passed on as it is. *)
ToldRaw(p, exit, big) == exit

(* An exit code of 0 is success; docker mode replaces it if the command has *)
(* left the workspace too large.                                           *)
Told(p, exit, big) == IF exit # "zero" \/ (Docker(p) /\ big) THEN "threw" ELSE "ok"

(* Mutant: the patch file is removed only when git took the patch. *)
PatchGoneOnce(p, exit) == exit = "zero"

(* The finally block of applyPatch removes the patch file however git ended. *)
PatchGone(p, exit) == TRUE

After(d, left, gone) == [d EXCEPT !.strays = @ \cup left, !.patch = @ /\ ~gone]

(* The call returns or throws, or docker's replaceFile goes on to write.   *)
Return(p, exit) ==
  LET c == call[p]
      r == ws[p].root
  IN  /\ \E d \in Effects(p, exit), left \in Left(p) :
           dir' = [dir EXCEPT ![r] = After(d, left, c.op = "patch" /\ PatchGone(p, exit))]
      /\ IF c.op = "replace" /\ exit = "zero" /\ ~dir[r].big
           THEN \E n \in Child(p, "write", c.files, DefaultLimit) : call' = [call EXCEPT ![p] = n]
           ELSE call' = [call EXCEPT ![p] = Over(Told(p, exit, dir'[r].big))]
      /\ UNCHANGED trouble

(* The rmSync of the finally block throws, whatever git did. *)
PatchStays(p, exit) ==
  /\ Disk /\ call[p].op = "patch" /\ ~Docker(p)
  /\ \E d \in Effects(p, exit) : dir' = [dir EXCEPT ![ws[p].root] = d]
  /\ call' = [call EXCEPT ![p] = Over("threw")]
  /\ Suffers(p, "patch")

End(p, exit) ==
  /\ Busy(p)
  /\ exit \in Exits(p)
  /\ Return(p, exit) \/ PatchStays(p, exit)
  /\ UNCHANGED ws

(* A process that was left behind writes to the directory at its root,     *)
(* whosever that is now, makes it anew when it is gone, or ends.           *)
Stray(r) ==
  /\ \E p \in dir[r].strays :
       \/ /\ Exists(r)
          /\ \E f \in File, x \in Content : dir' = [dir EXCEPT ![r].work[f] = x]
          /\ UNCHANGED trouble
       \/ /\ Exists(r) /\ Docker(dir[r].owner)
          /\ \E b \in BOOLEAN : dir' = [dir EXCEPT ![r].big = b]
          /\ UNCHANGED trouble
       \/ /\ ~Exists(r)
          /\ dir' = [dir EXCEPT ![r].owner = p]
          /\ Suffers(p, "directory")
       \/ dir' = [dir EXCEPT ![r].strays = @ \ {p}] /\ UNCHANGED trouble
  /\ UNCHANGED <<ws, call>>

-----------------------------------------------------------------------------
(* The object counts as disposed before the directory is removed: when that *)
(* throws, a second dispose returns at once and the directory stays.        *)
Dispose(p) ==
  /\ Idle(p)
  /\ Remove(p)
  /\ GoTo(p, "disposed")
  /\ UNCHANGED call

(* The process is killed; what its child does from then on is a stray's work. *)
Crash(p) ==
  /\ "crash" \in Faults
  /\ ws[p].stage \in {"checked", "created", "ready"}
  /\ dir' = [dir EXCEPT ![ws[p].root].strays = @ \cup (IF Busy(p) THEN {p} ELSE {})]
  /\ GoTo(p, "dead")
  /\ call' = [call EXCEPT ![p] = Over("nothing")]
  /\ UNCHANGED trouble

AllOver ==
  /\ \A p \in Process : ws[p].stage \in {"failed", "disposed", "dead"}
  /\ UNCHANGED vars

Step(p) ==
  \/ Look(p) \/ MakeDirectory(p) \/ CheckOut(p)
  \/ (p \in Caller /\ Calls(p)) \/ Tick(p) \/ TimeOut(p) \/ Overflow(p) \/ Dispose(p) \/ Crash(p)
  \/ \E exit \in {"zero", "nonzero", "null"} : End(p, exit)

Next ==
  \/ \E p \in Process : Step(p)
  \/ \E r \in Root : Stray(r)
  \/ AllOver

Spec == Init /\ [][Next]_vars

(* A child that was sent a signal ends if it obeys; a timer that is due fires. *)
Obeys(p) ==
  /\ Busy(p) /\ call[p].signal # "no" /\ ~call[p].deaf
  /\ \E exit \in {"zero", "nonzero", "null"} : End(p, exit)

FairSpec ==
  /\ Spec
  /\ \A p \in Caller : WF_vars(Tick(p)) /\ WF_vars(TimeOut(p)) /\ WF_vars(Obeys(p))

-----------------------------------------------------------------------------
TypeOK ==
  /\ dir \in [Root -> Directory]
  /\ ws \in [Process -> Workspace]
  /\ call \in [Process -> Call \cup {Over("nothing"), Over("ok"), Over("threw")}]
  /\ trouble \in [Process -> SUBSET {"patch", "directory"}]

\* A workspace in use, and every call, is on a directory its process made
\* itself, so no run reads, changes or removes the files of another: what an
\* earlier run could not remove, or was killed in, is never taken over.  (A
\* process that a local command left behind is no call: it can reach whatever
\* is at its root.)
Isolated ==
  \A p \in Process :
    ws[p].stage \in {"created", "ready"} \/ Busy(p) => dir[ws[p].root].owner = p

\* An acquisition that failed, and a workspace that was disposed of, leave no
\* directory behind, unless the file system refused to remove it or a process
\* that a command left behind made it anew.
NothingLeft ==
  \A p \in Process, r \in Root :
    ws[p].stage \in {"failed", "disposed"} /\ dir[r].owner = p => "directory" \in trouble[p]

\* An edit that is reported as made was made, and all of it: a patch of which
\* git was stopped in the middle is never taken for one that was applied.
EditsAreWhole ==
  [][\A p \in Process :
       LET c == call[p] IN
       c.op \in {"patch", "write"} /\ call'[p] = Over("ok") =>
         \A f \in c.files : dir'[ws[p].root].work[f] = "edit"]_vars

\* Between two calls the workspace holds no patch file of an earlier one, so
\* one patch that git rejects does not make every later one fail: only a write
\* or a removal of that very file that failed does.
NoPatchFile ==
  \A p \in Process : Idle(p) /\ dir[ws[p].root].patch => "patch" \in trouble[p]

\* The calls of one run do not reach another run through the file system, nor
\* does one call of a run leave the next anything it trips over.
WorkspacesApart == Isolated /\ NothingLeft /\ NoPatchFile

\* In docker mode no command is let through in a workspace that has outgrown
\* its disk limit, and none that leaves it so is reported as a success.
DiskGuarded ==
  [][\A p \in Process :
       Docker(p) =>
         /\ call'[p].op \notin {"none", call[p].op} => ~dir[ws[p].root].big
         /\ Busy(p) /\ call'[p] = Over("ok") => ~dir'[ws[p].root].big]_vars

\* In local mode no child that obeys SIGTERM outlives the limit of its
\* workspace, whatever command of whichever operation it runs.
LimitHeld ==
  \A p \in Process : Busy(p) /\ ~Docker(p) /\ ~call[p].deaf => call[p].age <= TaskLimit

\* A call ends, unless its child ignores SIGTERM.
CallsEnd == \A p \in Caller : Busy(p) /\ ~call[p].deaf ~> ~Busy(p)
=============================================================================
