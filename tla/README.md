# MorphScope in TLA+

MorphScope runs coding agents on small repository tasks, measures them and
publishes the results.  This directory models the parts of it whose
correctness is about *order*: what is written before what, what happens when a
step in the middle fails, what two processes do to each other in the file
system, which answer finds a page that has moved on, and the limits that stop a
run.  Twelve modules model the code, TLC checks them in twelve runs, and TLAPS proves
the main properties of every state machine for every value of the constants.

Paths below are relative to the repository.  `xxx.ts:NN` is a line of it.
To repeat the work: `tlc -config X.cfg M` for a run of `PROJECT.json`,
`tlapm MProofs.tla` for the proofs.

## 1. Inventory of the system

| Component | State it keeps | Operations | Hard behaviour |
|---|---|---|---|
| Trace writer (`packages/tracing/src/trace-writer.ts`) | open spans, nesting stack, one `ended` flag per handle | `startSpan`, `update`, `end`, `event`, `recordEvent` | a call fails between its in-memory and its persisted half; spans end out of order |
| SQLite trace store (`packages/storage/src/sqlite-trace-store.ts`) | tables `runs`, `spans`, `events` | `upsertRun`, `upsertSpan`, `appendEvent`, `readTrace` | partial histories after a crash |
| Artifact store (`packages/storage/src/artifacts.ts`) | one file per content hash | `put`, `has`, `read`, `size` | two writers of one hash, a writer that dies in mid-write |
| Reasoning and baseline agent (`packages/agent-core/src/index.ts`) | turns, tokens, cost, messages, spans | `runReasoningAgent`, `runBaselineAgent` | cancellation and budgets read at some points only, a call that overshoots, spans that must end on every path |
| Controller (`packages/agent-core/src/controller.ts`) | none | `decideSearch`, `decideEdit`, `decideCompaction` | thresholds, order of the rules |
| Run command (`apps/cli/src/index.ts`) | run directory, store, workspace, interrupt flag | `main` | a step fails after the previous one was persisted; SIGINT; two processes on one directory |
| Studies and resume (`apps/cli/src/*-study.ts`, `product.ts`) | experiment directory | `runConfiguration`, `resumeExperiment` | what a second start finds of the first, failures recorded as outcomes |
| Sandbox (`packages/sandbox/src/index.ts`) | owned workspace directory, containers | `acquire`, `runCommand`, `replaceFile`, `applyPatch`, `collectDiff`, `dispose` | cleanup after a failure at any step, children that are stopped in the middle or outlive their call |
| Provider clients (`packages/providers/src`) | per-call timer, span, WarpGrep conversation | `complete`, `warpGrep`, `fastApply`, `compact`, edit, search and context backends | timers, bounded loops, truncation |
| Evaluator (`packages/evaluator/src`) | none | `evaluateTask`, `classifyFailure`, `aggregateRuns`, `analyzeRuns` | precedence of outcomes, boundaries of medians and percentiles |
| Dashboard (`apps/web/src/lib/data.ts`, `scripts/publish-dashboard.ts`) | none; reads experiment directories | a page's load, the publishing of an allowlist | files are read one by one while a study may be running again |
| Web workspace (`apps/web/src/lib/workspace-*.ts`, `app/api/workspace`) | one table of records, a memoised promise of the table | create, update, delete, list | concurrent requests, a failed creation, a restart |
| Login limiter (`apps/web/src/app/api/auth/login/route.ts`) | attempts by address | login | windows; nothing concurrent |
| Web data manager (`apps/web/src/components/workspace-data-manager.tsx`) | list, editor | load, save, remove | answers that arrive late |

How they interact: `main` (run command) opens a store and a writer, acquires a
workspace, runs the agent on it, evaluates the workspace, stores the patch as an
artifact, upserts the run, ends the root span and writes `run.json`.  The agent
and the provider clients write spans and events through the same writer; they
share no other memory.  The only concurrency inside one process is at the
`await` points of provider calls; between processes it is the file system and
SQLite; in the web application it is requests against one PostgreSQL table, and
answers that come back to a page whose state has moved on.

What makes each component correct:

- *Trace writer and store*: a reader of the database sees a tree of spans whose
  rows only get more final; nothing is lost by a crash; nesting follows the
  calls even when spans end out of order or a write fails.
- *Agents*: limits bound the work although they are compared after the spending;
  nothing is begun once the user cancelled; what the result counts is what
  happened; no effect without a trace of it.
- *Run command*: `run.json` appears only when everything it points to is there,
  and is never replaced; a run that ends without it leaves an `error.json`, a row or a span
  that says so.
- *Sandbox*: runs never touch each other's files; what was acquired is clean;
  a patch or an edit that is reported was made whole; what is left behind is what the file
  system refused to remove.
- *Evaluator*: passed means complete evidence, failed means evidence against,
  and an environment that failed is neither.  Aggregates and percentiles equal
  their definitions at every boundary.
- *Artifact store*: what is read under a hash has that hash.
- *Providers*: every call settles its timer and its span once; conversations are
  bounded; usage adds up; a truncated context fits its limit.
- *Studies*: a configuration's failure is an outcome, a `run.json` is backed by what it
  names, what `resume` calls complete is, no quota is spent that was not granted, and what
  a page or the published snapshot shows was recorded.
- *Web*: no query runs before the table is there, an identity has one row, the form is that
  of the record being edited, a user who waits for the answers saves it to that record, and
  a page that waits for its answers shows the table.

The hazards of the code, each at its line with the properties that would catch
it, are listed in `PROJECT.json`.

## 2. The project at a glance

| Module | Stands for | Uses | Proofs |
|---|---|---|---|
| `TraceLog` | what a reader of the trace database may rely on (abstract) | | |
| `TraceWriter` | the trace writer over a store that may fail | implements `TraceLog` | `TraceWriterProofs` |
| `ReasoningAgent` | the agent's loop with the Groq call in line | an instance of `TraceWriter` | `ReasoningAgentProofs` |
| `RunCommand` | `morphscope run`, several processes on one directory | the results `ReasoningAgent` and `Evaluator` return | `RunCommandProofs` |
| `Measures` | aggregates and reports over stored runs (pure) | | `EvaluatorProofs` |
| `Evaluator` | one run's validations, verdict, correction, and its place in the measures | `Measures` | `EvaluatorProofs` |
| `Sandbox` | acquisition, calls and disposal of workspaces | | `SandboxProofs` |
| `Controller` | the adaptive routing rules (pure) | | `StudyProofs` |
| `Study` | the four studies, the artifact store, and who reads them: `experiment resume`, pages, the publisher | `Controller` | `StudyProofs` |
| `Backends` | truncation, unified diff, search measurement (pure) | | `ProviderCallProofs` |
| `ProviderCall` | one use of a backend, over HTTP or local | `Backends` | `ProviderCallProofs` |
| `Workspace` | pages, routes and table of the web workspace | | `WorkspaceProofs` |

Each state module has an `MC` module that gives its constants small values.  The
abstract specification worth stating in full is the trace log, since every other
component writes through it; the others state their promises as invariants of their
own state: a write-once output directory (`NeverOverwritten`), exclusive leases of a
root (`WorkspacesApart`), a table with whole rows (`RowsAreWhole`).  The order in which
the modules were written is that of the table, the most important behaviour first.
What could follow is in section 6.

## 3. Modules and how they correspond to the code

### TraceLog, TraceWriter

`TraceWriter` is the class of that name over a `TracePersistence`: `openSpans`,
`activeSpanIds` and the handles' `ended` flags are its variables, and `rows` and
`events` are the two tables of the store.  A public call is one action, because
the code between two awaits cannot be interrupted and this class never awaits.
Each call that can throw half-way has an action for that: `StartSpanUnstored`,
`UpdateSpanUnstored` and `FinishSpanUnstored` (the upsert throws after memory has
changed), `FinishSpanRejected` (the schema rejects the finished span after the
handle was marked).  A payload is its revision number.  Redaction, attributes and
timestamps are data and left out.

`TraceLog` is what a reader of the database may rely on, without memory, writer or
failures.  `TraceWriter` implements it with the identity as refinement mapping
(`Log == INSTANCE TraceLog`); failed writes map to stutters.

### ReasoningAgent

`runReasoningAgent` with `GroqClient.complete` in line, on an instance `W` of
`TraceWriter`.  `stage` is the position in the function.  `Try` is one call of the
writer: what it does and where the function goes on, or what it leaves and where
its exception is caught.  Two nested try blocks in the
agent and one in the provider client decide that, and the paths differ: an
exception while a span is ended meets a `catch` that ends the same, spent handle.
`checkBudget` is polled at two points (`check` before a turn, `recheck` before the
tool), totals are compared after a completion was accounted.  A completion is its
usage and the kind of reply.  `Interrupt` is possible only at the await;
`DeadlinePasses` at any step.

### RunCommand

`main` from `existsSync(run.json)` to its `finally`.  Each process has a record with
its stage, its result, its row in `runs`, its root span, its workspace and its
artifact.  A stage is a step whose effect is visible outside; between two of them
the process may throw (`Throw`) or be killed (`Crash`).  `run.json` is opened and
filled in two steps, since `writeFileSync` is not atomic; the patch may be cut when its
writer is killed or fails, and is then taken over by another run with the same patch (`Cut`).
`Catch` may fail at each of its own steps: the root span that has ended, the database, and
`error.json`, which may be left in part or not at all; `Finally` may throw in `dispose`.  In
each case the exception reaches the outer `catch`, which sets the exit code (`Fail`).
`lost` is a history of which of the two places a run could not tell its end to.  `Signal` is the arrival of
SIGINT, `OnInterrupt` the handler, which needs the event loop and so the await of
the reasoning agent.  The agents' and the evaluator's results are sets that list
what those modules return.

### Evaluator

`evaluateTask`: the initial list is any list of validations with the task's own,
without duplicates; `RunValidation` takes the next one with any outcome and lets it
change files; `Evaluate` derives terminal state, score and category
(`terminalStateFromValidations`, `classifyEvaluation`, `scoreFor`).  An outcome is an
exit code's kind and whether the timer fired, independently, because a command that
is stopped may exit with a code of its own.  The verdict is then stored as a run of one
of the configurations (`StoredScore`, `TerminalState`), among runs stored before.  These
are any runs a study can have written (`Stored`): evaluated ones whose state and score
agree (`Agrees`), and ones that never reached the evaluator.  The edit study
(`EditConfiguration`) stores a score of its own when there is none, so that a failed
environment counts as a failure there (`edit-study.ts:292`).

### Measures

`aggregateRuns` and `failureCategoryCounts` for the dashboard, `analyzeRuns` with its
percentiles and paired comparisons for the reports.  A report is of the runs at a set of
places in the list; what is sorted is found by its rank, whether numbers by size or the
runs of a task by when they were started, and sums are a recursive function of the place,
so that both can be reasoned about.  The pairs of a comparison are a function of a task and
a turn: the order in which the code lists them changes nothing in a summary, which sorts.
Rates are pairs of a numerator
and a denominator, medians are counted in halves and percentiles in tenths, so that
everything is exact in integers.  `Evaluator` stores its run among others that are
there already and measures them all, so each property relates the two reports to
each other and to the runs themselves.

### Sandbox

`dir` is the directory at each root: owner, working tree, index, the patch file,
whether it is larger than its limit, and whether a process that no call waits for
may write there (`Stray`): to its files, in docker mode also past its limit, and where the
directory was removed it may make it again.  `ws` is each process's workspace object, `call` the call it is in,
with the child it waits for.  `Look` and `MakeDirectory` are separate, since another
process may come between `existsSync` and `mkdirSync`.  `Start` is every call up to
`spawnSync`, `End` everything after it; in between the child ages, is timed out,
produces too much output, and ends with any effect its operation can have.  Local
and docker mode are both there, with their different limits, size checks and
left-overs.  A replacement that does not change a file is a stutter.
With `"disk"` among the faults the file system may refuse a write or a removal: the
exclusive write of the patch file is outside the `try` and may leave a file that nobody
removes (`PatchNotWritten`), the removal in the `finally` may throw (`PatchStays`), and so may
that of the directory after a failed acquisition or in `dispose`, which has set `disposed`
by then (`Remove`).  `trouble` is a history of these, so that `WorkspacesApart` can say that
nothing else ever leaves anything behind.

### Controller, Study

`Study` follows `runConfiguration` of the four studies: open, acquire, work, evaluate,
patch, row, root span, `run.json`, report, dispose.  They share these steps; `kind` tells
what each does differently (`Judge`, `Catch`, the actions of the adaptive study and
their routes, which apply `Controller`'s rules to any measurements).  `Throw` lets a
step that can throw do so, `Crash` kills the process between any two steps, and `Begin`
starts the command again in the same directory with whatever it finds there.
Contents of the artifact store are absent, partial (a killed `writeFileSync`) or whole,
and a `put` that meets a file takes it as it is (`EEXIST`).

Three readers look at the directory while a study may be running again in it (`reader`).
`experiment resume` takes the manifest (`ReadManifest`), then one `run.json` after the other
(`ReadRun`), then answers.  A page of the dashboard loads every run it finds with the
artifact it names (`LoadRun`), and reads the manifest last (`LinkExperiment`, `Linked`); the
publisher does the same for the runs of its allowlist and gives up when one is missing.
Only the order in which the files are read, and what is linked to what, is modelled of
them.

### Backends, ProviderCall

`Backends` are the pure parts: `retainWithinBudget` with its walk from the newest message,
the profile of a context result, `applyUnifiedDiff`, the two functions called `unifiedDiff`,
`countLineChanges`, the measurement of a search.  A message is its role and its size in
bytes.  A file is a sequence of lines, each with its line end: `Split` forgets the ends and
`Join` makes all of them LF.  The `unifiedDiff` of `edit.ts` writes one hunk; that of
`index.ts`, which Fast Apply returns, writes no `@@` line and so none (`HeaderlessDiff`).
What a diff means is defined apart from the code, in `ProviderCall` (`LinesBefore`, `Applies`,
`Replaced`): the header of a hunk names its first line, or, if it only inserts, the line
before.  `EditIsExact` states the code's departure from it as such.

`ProviderCall` is one use of a backend.  A remote call has its phase, its timer (`off`,
`armed`, `fired`), its span and, for WarpGrep, the turn and the tool calls that are
pending.  The network may do anything with a request that was sent: headers of any
status, a rejection, a body that breaks or never ends, an answer that is malformed,
with or without usage.  `Catch` is every handler between the throw and the caller, and
`Faults` lets recording fail.  The local backends run in one step on every input of
the instance.

### Workspace

`requests` are all the requests there were, each with its stage: sent, preparing
(awaits the promise of the table), querying, answered, over.  `promise` is
`schemaPromise`, `Settle` what its settling does to everybody who awaits it, and
`AfterFailure` the reset in its `catch`.  On the other side a page (`ui`) sends and goes
on; `Deliver` applies an answer to the page as it is by then, with what the closure of the
click remembered.  A record of the list is a row and the answer it came with, because
`remove` compares objects, not ids.  A form is the identity, kind and id, of the record it
was filled from, or empty; `Save` sends it to the kind that is chosen by then.  The text that
is typed is the number of the request that sends it (`Typed`), since nothing compares texts.
An answer may be lost, or its body be unreadable although its status was heard
(`Accepted`): a load then empties the list, a save counts as failed, a delete as done.
`hasty` is a history of each page: its user went on before an answer since the form was
last filled.

## 4. Runs

All runs check for deadlock except the one of the trace writer, which may stop when
the instance has no more spans.  Programs that are over have an explicit last
action.

| Run | Instance | Shows |
|---|---|---|
| `trace_writer_faulty` | 3 spans (symmetric), 1 revision, 1 event, both failures | `NestingIsSound`: the stack is the open spans, each above its parent. `RowsAreTrue`: rows follow memory, and one that does not is explained by a failure. `RefinesTraceLog` |
| `agent_faulty` | 7 spans, 3 sets of limits, 3 usages, both failures | `LimitsHold`: at most the last completion overshoots, at most one effect after the deadline. `AccountIsTrue`: counts are those of what happened, effects have their span. `LeavesWriterClean`, `NoWorkAfterCancel`, `Terminates` |
| `run_one` | two runs, one after the other, either agent, any step, the database and every written file may fail, crash, SIGINT | `RecordIsTrue`: `run.json` has its run, span and patch in the stores, and what it says agrees. `EndIsTold`: exit code, `error.json`, row and span tell how the run ended. `CancelWins`, `NeverOverwritten` |
| `evaluator_verdict` | up to 2 validations of 2 commands and 4 kinds and the task's; 2 runs stored before, one of them possibly cancelled; 2 configurations, one the edit study's | `VerdictIsProved`: passed and failed rest on evidence, each check counts once. `AggregateIsHonest`, `ComparisonIsPaired` |
| `sandbox_shared` | 2 processes at 1 root, 2 files, all operations, both modes, crashes, failing acquisitions, writes and removals | `WorkspacesApart`: nobody works in the directory of another, and what is left behind has its failure. `LimitHeld`, `EditsAreWhole`, `DiskGuarded`, `CallsEnd` |
| `study` | each study, 2 configurations, 2 invocations, failing steps, disk and messages, kills; each command with one or two of the readers | `EvidenceIsWhole`: a whole `run.json` is backed by what it names. `ManifestIsTrue`: what the manifest and `resume` say can be looked up, and what a page or the publisher shows was recorded and agrees with the manifest. `MorphIsOptIn`, `LeftoverBlocks` |
| `provider_calls` | 8 backends; 3 turns of 2 tool calls; conversations of 1-3 messages (some of 4); files of up to 3 lines, LF or CRLF, with up to 2 hunks | `CallIsAccounted`: the span tells how the call ended. `OutcomeIsTrue`, `TruncationIsSound`, `EditIsExact`, `CallEnds` |
| `web_workspace` | a page and a script, 2 kinds, 2 ids (symmetric), 3 requests, 1 fault | `RowsAreWhole`, `SchemaIsShared`, `EditorIsOneRecord`, `ListIsTrue` |

Four runs show where the code does not do what a document says; each checks one
sentence, which several documents may repeat, and ends with a counterexample:

| Run | Sentence | What the code does |
|---|---|---|
| `run_interrupted` | "records an interrupted run as `cancelled`" (`README.md:244`) | a baseline run never turns the event loop, so the handler runs when all is recorded |
| `evaluator_blamed` | an environment that failed is not scored, and is kept separate from the agent's failures (`docs/decisions/0005`, 15-17; `README.md:341`) | the edit study stores the score 0 for it (`edit-study.ts:292`); and a file out of scope is looked at first, so that it may carry the category `regression` (`evaluator/src/index.ts:259`) |
| `study_overwrites` | "avoid silently overwriting completed results" (`docs/product-prd.md:338`); "refuses to overwrite an output directory that already contains `run.json`" (`docs/decisions/0012`, 14) | only `run` looks for a `run.json`; a study that is invoked again with the same `--output` writes over the first one's |
| `providers_loss` | "local truncation reports an estimated loss" (`docs/decisions/0009`, 23-24) | a single message cut to the budget is reported with loss `none` (`context.ts:105`) |

A fifth sentence is true of `run` as long as runs do not overlap: "Run output directories
cannot overwrite an existing persisted `run.json`" (`README.md:243`).  The look for the file
is at the start of `main` and the write at its end (`RunOne.cfg` with `Concurrent = TRUE` shows
it; the theorem `WriteOnce` needs its negation).

Noticed while modelling, without a run of its own:

- *Evaluator*: a timeout hides another command that could not be run, so that the run is
  scored 0; a correction of a category to `null` is ignored by `??`.
- *Sandbox*: docker mode gives a command without its own limit the default one, not the task's
  (`:782`), and the toolbox drops the `timeoutMs` that `evaluateTask` passes; a container
  stopped for too much output is not removed (`Stray`); a patch file that could not be written
  whole or removed makes every later patch of the workspace fail (`EEXIST`); a directory that
  `dispose` could not remove stays, since a second `dispose` returns at once; `git diff` sees
  neither untracked nor staged files; a child that ignores SIGTERM holds its call for ever.
- *Studies*: `previousApplyFailure` is always false, so the adaptive study never routes to
  `fast-apply` by it; runs of the search study are stored under the experiment `search-study`,
  so an export by the manifest's id misses them; a configuration left with an `error.json` only
  is `resume_required` for ever; the context study may record a run that passed with a
  `provider_error`; a torn artifact is taken over by the next `put`, and then shown or
  published as the patch of a run that is whole otherwise (so `ShownIsTrue` is about the first
  invocation's patches).  A page that is loaded while a study runs again may link a run of the
  first invocation to no experiment, because the manifest is read after all the runs.
- *Providers*: truncation exceeds its budget by its marker (`TruncationIsSound` says by how
  much); a hunk with an old range of no lines is inserted one line early, and `@@ -0,0` is
  refused; every CRLF of an edited file becomes LF; the diff that Fast Apply returns has no
  hunk, so `applyUnifiedDiff` refuses it (all three are in `EditIsExact`); WarpGrep keeps the
  usage of its last call only; usage that does not add up makes a call throw that succeeded; a
  body that breaks is an unclassified error.
- *Run command*: where the root span has ended, or the database or the disk still fails, no
  `error.json` is written (`EndIsTold` says what is left then); it is written into the
  directory of whichever run failed last.
- *Web*: the answer to a save sets the record being edited but not the kind that is shown, so
  that after another tab was chosen meanwhile the next save sends the form of one kind to the
  record of another (`EditorIsOneRecord` is therefore about users who wait, where it says where
  a form is saved to), and overwrites what was typed meanwhile; the answer to a delete clears
  whatever editor is open under that identity and removes by object, so that a list loaded in
  between keeps the record; a load that was late brings deleted records back.  `ListIsTrue` is
  therefore about pages that wait for their answers (`clean`).  Two server processes that
  create the table at once may see 23505, which is reported as a conflict of records.

### Bounds and why they are enough

- *Spans*: three are the smallest number with a middle of the stack to cut out and
  with siblings; the agent needs the caller's span and three per turn, so seven
  cover two full turns, and two turns show every interaction of one turn with the
  next (the loop carries totals, messages and spans left open).
- *Revisions and events*: one update tells a row that is behind memory from one that
  is not; `MaxEvents` of the agent is above what two turns record, so it cuts nothing.
- *Limits and usages* are chosen so that every budget (turns, input, output, total,
  both costs) is the one that stops a run, at its exact value and beyond it.
- *Processes*: two suffice for every race on one directory; the proofs are for any
  number.  In `sandbox_shared` one of the two makes calls (`Caller`): the other, in local
  mode, only has to acquire, fail, dispose or die to disturb it.
- *Files of the sandbox*: one the commit has and one it has not, so that patches of both,
  edits of one and additions differ.
- *Time in the sandbox*: limits of one and two ticks, ages up to two: enough to tell
  the two limits apart and to be late for the smaller one.
- *Validations*: two besides the task's give repetition, order and every pair of
  outcomes.  *Stored runs*: three in all give a pair left over, both orders, an even and an
  odd median, and a configuration without a score.
- *Studies*: one configuration for the local ones and one for Morph's, since configurations
  meet only in the manifest; two invocations, since a third finds nothing a second does
  not leave.
- *Provider calls*: three turns let a conversation finish early, at the last turn and not
  at all.  Messages are small, nearly as large as the budget, or larger; three lines and
  hunks anchored at 0 to 3 reach both ends of a file and beyond.
- *Web*: three requests are a change, a load and another change in any order of answers; two
  kinds with two ids tell the same id of another kind from another id; two attempts to create
  the table are a failure and the one after it.

### Fairness

`ReasoningAgent` assumes weak fairness of the process's own steps: JavaScript runs a
runnable continuation to its next await.  `ProviderCall` assumes the same of its process
(`Proceed`), that a due timer fires and that an aborted request is rejected.  Nothing
is assumed of a provider's answer, of the user or of the clock, so `Terminates` and
`CallEnds` except what awaits a body for ever: it is read after the timer was cleared
(`groq.ts:201-203`, `providers/src/index.ts`).  `Sandbox`'s `FairSpec` assumes that time passes, that a due
timer of `spawnSync` fires, and that a child that obeys a signal ends; a child that does
not is excepted in `CallsEnd`.  `TraceWriter`, `RunCommand`, `Evaluator`, `Study` and `Workspace`
state safety only and assume no fairness: a process may be killed at any step there, and
users and servers may stop.

## 5. Proofs

The theorems hold for every value of the constants under the named assumptions of
the modules (`WriterAssumption`, `AgentAssumption`, `RunAssumption`, `SandboxAssumption`,
`StudyAssumption`, `WorkspaceAssumption`, `ProviderAssumption`, `EvaluatorAssumption`), which
say of which type the constants are, that "no span", "unlimited" and "nobody" are none of
the others, and of runs stored before that their state and score agree.  TLC evaluates
them in every run.

- `TraceWriterProofs`.  The invariant `Inv` joins the type invariant with the parts of
  `NestingIsSound` and `RowsAreTrue`.  None is inductive alone: that the stack stays
  without repetitions needs that a fresh identifier is not open, that a child stays above
  its parent needs that the parent of an open span was opened before, and that rows
  follow needs both.  Lemmas say what removing the first occurrence of an element does
  to a sequence without repetitions.  From `Inv` follow the durability facts, with a
  second invariant on rows and failures (`StoreFaithful`), and `WriterImplementsLog`: `Init`
  maps to `Init`, and each action to a step of `TraceLog` or a stutter.
- `ReasoningAgentProofs`.  Two invariants: `Control` says of each stage how the three
  counters stand to each other and what was compared before it was reached (turns,
  budget, deadline, cancellation); `History` relates the executed operations to the
  stored rows and to the count.  They give `LimitsHold`, `NoWorkAfterCancel` and
  `AccountIsTrue`; totals, limits, turns and spans are any number.  A third, `Nested`, says
  of each stage which of the agent's three handles are live and that they are the top of
  the writer's stack in the order of the calls; it stands on the writer's own invariant,
  which the agent's instance keeps (`WriterStaysSound`).  At the end no handle is live, so
  the stack is the caller's again unless a failure explains it (`WriterLeftClean`); with
  what a verdict says of the counters it gives the type invariant (`AgentTypes`).
- `RunCommandProofs`.  `IInv` says what each stage of `main` stands on: what has been decided,
  recorded, stored and acquired by then (`Sound`), and that the owner of a whole `run.json` has
  only its `finally` left (`JsonSettled`).  It gives `RecordIsTrue` and `CancelWins` for any
  number of runs that may overlap.  `EndIsTold` needs, besides, the root span's handle, the
  exit code and what was lost by stage (`AllTell`); that a patch is whole or taken over from a
  run that left it cut is an invariant of its own (`CutsKnown`).  `NeverOverwritten` is proved
  under the assumption that runs do not overlap, with the invariant that an active run is alone
  and has found no `run.json` (`Alone`).
- `SandboxProofs`.  That workspaces are apart is not inductive: the loser of `mkdirSync` must
  be known not to own the directory it found.  `IInv` adds that a directory's owner is still
  using it, died in it, or has had trouble with removing it or with a process it left
  (`OwnersUse`), that only a ready workspace is in a call (`BusyIsReady`), and that a patch
  file belongs to the `applyPatch` its owner is in (`PatchIsHeld`), or has had trouble with it,
  and that who may still write at a root once acquired it (`StraysKnown`).  Two lemmas carry
  all actions: what a step of a call and what a step of a workspace's life may change of what
  `IInv` looks at.  The limit of a call is held by an invariant on the child (`LimitInv`): its
  age stays within the limit it was started with, which is the task's or the command's by mode,
  unless it ignores signals.  `EditsAreMadeWhole` and `DiskIsGuarded` are action properties:
  the only action that reports a success is the end of the child that made the change
  (`ChildStays`, `SuccessIsZero`).
- `StudyProofs`.  Three theorems about the rules, for every measurement: a provider that
  costs quota is chosen only where it is available (`SearchIsAvailable`, `EditIsAvailable`,
  `CompactionIsAvailable`).  With them, that what the adaptive study may route to was opted
  into, and so `MorphIsOptIn` for any commands and any number of invocations.  The invariant
  adds that a study works on a configuration it has: the second one only if it was asked for.
  `IInv` says what each stage of a configuration stands on: no verdict before there is one
  (`Unjudged`), a state and an evaluation that agree from then on (`Judged`), a patch that is
  in the store before the run names it (`Stored`), no artifact in a directory that is fresh
  (`Fresh`), and the order of row, root span and file (`Written`).  `TypeCorrect` and
  `EvidenceCorrect` follow.  `LeftoverStays` needs, besides, who holds a workspace (`Holding`).
  Entries are written by one invocation and looked up while another
  replaces the files they were about.  `Told` relates a run, in a file or in a reader's
  memory, to the result its invocation has of it and to the manifest, and is kept by every
  step of a study; `Supported` says where an entry can be looked up, and that what a later
  invocation writes is newer.  With what the reader saw so far (`SeenTold`, `LookedUp`) they
  give `ManifestCorrect`, for any number of invocations killed at any step.
- `WorkspaceProofs`.  `Inv` is a type for every part (a row in a page's list, in a request or
  in an answer bears the id of its payload; an editor's form is its record's, kind and id),
  with the two facts that make `SchemaIsShared` inductive: who awaits the table finds a pending
  promise, and a fulfilled promise means that it is there.  Each handler has a lemma on the
  part it touches, so that `TypeOK`, `RowsAreWhole` and `SchemaIsShared` hold for any pages,
  scripts, requests and faults.  `ListCorrect` needs a second invariant, `ListInv`: while pages
  wait for their answers at most one request is open; when none is, each list shows the table,
  and the one that is open explains the difference between the two.  It is about pages in
  `clean` only, which any fault empties.  `EditorCorrect` adds, with a third invariant
  (`HasteInv`), that while a user waits the kind that is chosen is that of the record being
  edited and the list has it, however the answers of other pages arrive.
- `ProviderCallProofs`.  The invariant is a type for the call with `Sound`, which says at each
  phase what the counters, the span and the timer can be: tool calls are within their turns
  (`ToolsAreCounted`), usage was reported by answers (`TokensAreCounted`), an ended span bears
  the outcome of its call (`SpanTells`), a timer is armed only while headers are awaited
  (`TimerIsCleared`), and a local file is a source only after it was read (`SourceIsRead`).
  `CallTypes`, `CallsAreAccounted` and `OutcomesAreTrue` follow, for any limits on turns and
  any behaviour of the network.  The local backends are recursive functions of a place, whose
  values are found by the induction that the next bullet explains, for inputs of any length.
  `EditsAreExact`: after each line of a hunk that has not failed the cursor has passed the
  lines of the original found so far, and the output has those that replace them
  (`LineFollows`); so a hunk succeeds exactly if its lines fit, and so do hunks one after the
  other (`HunkApplied`, `HunksFollow`, `DiffIsExact`).  That the single hunk of `unifiedDiff`
  replaces everything is an instance of it (`DiffLeadsThere`).  `Anchored` relates the place
  where the format anchors a hunk to the one the code takes, and `Lines` that splitting a file
  with either line end gives its lines.  `TruncationsAreSound` follows the walk from the newest
  message: either nothing was cut, what is kept is the messages at the places kept, it fits,
  whatever was left out did not fit with the newer ones, and as many are kept as were looked at
  only if they are the same (`Whole`); or the newest alone was cut, to a length that is known
  (`Cut`).  A step keeps a message, leaves it out or cuts it (`Fitting`, `Skipping`,
  `Cutting`).  With a separator for each message the weight is additive (`LoadOfBoth`), which
  gives the bound (`KeptWeighs`) and that a truncation which reports no loss had one message to
  cut (`KeptAll`).
- `EvaluatorProofs`.  `VerdictCorrect` follows from where a validation's result came from
  (`ResultIsDerived`) and from the list of checks being a constant of the run (`Checks`).
  `MeasuresCorrect` is about definitions over all lists of runs and so needs induction.
  The library's induction theorems take an operator as a parameter, which no installed
  prover instantiates; the induction is therefore done on sets of numbers (`NumbersFrom`:
  a set that has 0 and the successor of each of its members has every number), which is
  a quantifier over sets and first-order.  With it the recursive functions have the values
  their equations say (`Recursion`), sums over the parts of a partition add up
  (`PartsAddUp`, `KeysAddUp`), a set of runs has a greatest and each rank is somebody's
  (`Greatest`, `RankedIsOne`), and so the medians of both reports agree, at even and odd
  numbers of runs (`MediansAgree`).  `ComparisonsCorrect` needs more of ranks: a higher one
  is not of a smaller number and each is of one number only (`RanksAscend`,
  `RankIsUnique`), and those of the opposite numbers are counted from the other end
  (`RanksMirror`); what is interpolated between two places keeps both (`TenthsRise`,
  `TenthsMirror`), so that the quantiles of any summary are in order and those of a
  comparison are the opposite ones seen from the other side.  The runs of a task have the
  turns 0, 1, ... each once, whatever their moments (`TurnsAreTaken`, from the order being
  total and sets of equal size), which gives that no run is in two pairs (`PairedOnce`)
  and, where no two runs were started at once, that the pairs are just the runs of equal
  turns (`PairsArePartners`).  `Measuring` says that the reports are of the stored
  runs and stay so.  The proof did not go through for the code as it was first read: that
  an `environment_error` has no score is false of the edit study, which is how the second
  half of the finding `evaluator_blamed` was found.

Model-checked only: all liveness (`Terminates`, `CallsEnd`, `CallEnds`; fairness and ENABLED
are out of the prover's reach).  Every invariant a passing run checks has a theorem.  No
module declares a RECURSIVE operator.

## 6. What is not modelled, and why

- *Login limiter*: one map that is read and written without an await in between; its
  arithmetic of a window is sequential and within reach of its unit tests.
- *Data*: schemas and redaction, attribute normalisation, path resolution, the command
  allowlist and the child's environment (they reject a call before it changes anything),
  parsing of task files, command lines and ripgrep output, SQL and its migrations, what
  requests to providers say, rate-limit headers.
- *Statistics*: the bootstrap resamples with a pseudo-random generator of its own; only when
  it runs is modelled (`EnoughPairs`).
- *Pure output*: listing and exporting, reports, web pages, the UI package, and of the
  dashboard (`scripts/publish-dashboard.ts`, `apps/web/src/lib/data.ts`) which fields are
  projected, redaction and the tasks' summaries.  They write, if anything, a file that the
  next pass writes again.
- *Benchmarks and fixtures* are data.

Worth doing next: what `ReasoningAgent` promises as an abstract specification of its own (a
loop that spends budgets and records effects), which it is shown to implement as
`TraceWriter` is for `TraceLog`, and the readers of `Study` shown to implement a read of the
directory at one moment where nothing runs in it.
