------------------------------- MODULE Backends -------------------------------
(***************************************************************************)
(* The local work of the interchangeable backends of packages/providers:   *)
(* context.ts (what is kept of a conversation that outgrew its budget and  *)
(* how the loss is accounted), edit.ts (applying a unified diff) and       *)
(* search.ts (measuring what a search returned).  Pure definitions.        *)
(*                                                                         *)
(* A message is [role, size]: its content is only its number of bytes, and *)
(* every character is one byte.  A file is a sequence of lines             *)
(* [text, end]; end, "lf" or "crlf", parts a line from the next.           *)
(***************************************************************************)
EXTENDS Integers, Sequences, FiniteSets, SequencesExt

AtLeast(a, b) == IF a > b THEN a ELSE b
AtMost(a, b) == IF a < b THEN a ELSE b

(* serializeMessages: "[role]\n" before each content, "\n\n" between two. *)
Header(role) ==
  CASE role = "system" -> 9 [] role = "assistant" -> 12 [] role \in {"user", "tool"} -> 7
Separator == 2
Bytes(messages) ==
  LET sum[n \in 0..Len(messages)] ==
        IF n = 0 THEN 0 ELSE sum[n - 1] + (Header(messages[n].role) + messages[n].size)
  IN  sum[Len(messages)]
Serialized(messages) ==
  IF messages = <<>> THEN 0 ELSE Bytes(messages) + Separator * (Len(messages) - 1)

(* The marker's text, "[context truncated: n earlier message(s) omitted]",  *)
(* with n in decimal, and the ellipsis a cut message ends with.            *)
Digits(n) == 1 + Cardinality({k \in 1..n : 10^k <= n})
Marker(omitted) == [role |-> "assistant", size |-> 48 + Digits(omitted)]
Ellipsis == 3
LeastCut == 64

(* truncateMessage: the ellipsis is added even when nothing had to go. *)
TruncateMessage(m, maxBytes) ==
  LET budget == AtLeast(0, maxBytes - Header(m.role) - Ellipsis)
  IN  [m EXCEPT !.size = AtMost(m.size, budget) + Ellipsis]

FirstSystem(messages) == SelectInSeq(messages, LAMBDA m : m.role = "system")
SystemOf(messages) ==
  IF FirstSystem(messages) = 0 THEN <<>> ELSE <<messages[FirstSystem(messages)]>>

(* Mutant: the first message that does not fit ends the walk at once. *)
ConsiderNoCut(messages, maxBytes, walk, i) ==
  LET next == <<messages[i]>> \o walk.kept
  IN  IF walk.done THEN walk
      ELSE IF Serialized(SystemOf(messages) \o next) > maxBytes
      THEN [walk EXCEPT !.done = TRUE]
      ELSE [walk EXCEPT !.kept = next, !.from = {i} \cup @,
                        !.size = Serialized(SystemOf(messages) \o next)]

(* One message of the walk from the newest to the oldest: a message that   *)
(* does not fit is skipped, except the newest, which is cut.               *)
Consider(messages, maxBytes, walk, i) ==
  LET next == <<messages[i]>> \o walk.kept
      fits == Serialized(SystemOf(messages) \o next) <= maxBytes
  IN  IF walk.done \/ (~fits /\ walk.kept # <<>>) THEN walk
      ELSE IF fits
      THEN [walk EXCEPT !.kept = next, !.from = {i} \cup @,
                        !.size = Serialized(SystemOf(messages) \o next)]
      ELSE [walk EXCEPT !.kept = <<TruncateMessage(messages[i],
                                     AtLeast(LeastCut, maxBytes - walk.size))>>,
                        !.from = {i}, !.done = TRUE]

(* The walk over all messages but the first system message. *)
Walk(messages, maxBytes) ==
  LET walk[n \in 0..Len(messages)] ==
        LET i == Len(messages) + 1 - n
        IN  IF n = 0
            THEN [kept |-> <<>>, from |-> {}, size |-> Serialized(SystemOf(messages)),
                  done |-> FALSE]
            ELSE IF i = FirstSystem(messages) THEN walk[n - 1]
            ELSE Consider(messages, maxBytes, walk[n - 1], i)
  IN  walk[Len(messages)]

(* retainWithinBudget: [messages, dropped], and `from', the messages that  *)
(* the kept ones come from.                                                *)
RetainWithinBudget(messages, maxBytes) ==
  IF Serialized(messages) <= maxBytes
  THEN [messages |-> messages, dropped |-> 0, from |-> DOMAIN messages]
  ELSE LET system == SystemOf(messages)
           walk == Walk(messages, maxBytes)
           omitted == AtLeast(0, Len(messages) - Len(walk.kept) - Len(system))
       IN  [messages |-> system \o <<Marker(omitted)>> \o walk.kept, dropped |-> omitted,
            from |-> walk.from \cup ({FirstSystem(messages)} \ {0})]

(* makeResult's profile, for the local strategies. *)
ToolBytes(messages) ==
  FoldLeft(LAMBDA sum, m : IF m.role = "tool" THEN sum + m.size ELSE sum, 0, messages)

Profile(before, after, loss, retainedSource, limit) ==
  [beforeBytes |-> Serialized(before), afterBytes |-> Serialized(after),
   toolOutputBytes |-> ToolBytes(before), retainedToolOutputBytes |-> ToolBytes(after),
   informationLoss |-> loss,
   informationLossBytes |->
     IF loss = "unmeasured" THEN -1
     ELSE AtLeast(0, IF retainedSource > 0 THEN Serialized(before) - retainedSource ELSE 0),
   callsSaved |-> IF Serialized(before) > limit /\ Serialized(after) <= limit THEN 1 ELSE 0,
   inputBytesSaved |-> AtLeast(0, Serialized(before) - Serialized(after))]

(* The three strategies. *)
NoCompaction(messages, limit) ==
  Profile(messages, messages, "none", Serialized(messages), limit)

ThresholdTruncation(messages, maxBytes, limit) ==
  LET kept == RetainWithinBudget(messages, maxBytes)
  IN  Profile(messages, kept.messages, IF kept.dropped > 0 THEN "estimated" ELSE "none",
              Serialized(kept.messages), limit)

MorphCompaction(messages, output, limit) ==
  Profile(messages, <<[role |-> "assistant", size |-> output]>>, "unmeasured", 0, limit)

-----------------------------------------------------------------------------
(* split(/\r?\n/) forgets which line ends a file has, and join("\n") gives  *)
(* each line the same one.                                                 *)
Split(file) == [i \in DOMAIN file |-> file[i].text]
Join(lines) == [i \in DOMAIN lines |-> [text |-> lines[i], end |-> "lf"]]

(* A hunk is [start, body]: the line its header names in the original, and *)
(* lines [mark, text] with mark " ", "-" or "+".                           *)

(* Mutant: the lines between two hunks are not copied. *)
OpenHunkAt(original, state, hunk) ==
  IF hunk.start - 1 < state.cursor \/ hunk.start - 1 > Len(original)
  THEN [state EXCEPT !.error = "out of order"]
  ELSE [state EXCEPT !.cursor = hunk.start - 1]

OpenHunk(original, state, hunk) ==
  IF hunk.start - 1 < state.cursor \/ hunk.start - 1 > Len(original)
  THEN [state EXCEPT !.error = "out of order"]
  ELSE [state EXCEPT !.output = @ \o SubSeq(original, state.cursor + 1, hunk.start - 1),
                     !.cursor = hunk.start - 1]

ApplyLine(original, state, line) ==
  LET next == state.cursor + 1
      matches == next <= Len(original) /\ original[next] = line.text
  IN  IF state.error # "none" THEN state
      ELSE IF line.mark = "+" THEN [state EXCEPT !.output = Append(@, line.text)]
      ELSE IF ~matches THEN [state EXCEPT !.error = "mismatch"]
      ELSE [state EXCEPT !.cursor = next,
                         !.output = IF line.mark = " " THEN Append(@, line.text) ELSE @]

(* The state after the lines of one hunk. *)
ApplyHunk(original, state, hunk) ==
  LET after[n \in 0..Len(hunk.body)] ==
        IF n = 0 THEN OpenHunk(original, state, hunk)
        ELSE ApplyLine(original, after[n - 1], hunk.body[n])
  IN  IF state.error # "none" THEN state ELSE after[Len(hunk.body)]

(* The hunks one after the other, on the lines of the original.  The       *)
(* lengths in a hunk's header are not read.                                *)
ApplyHunks(original, hunks) ==
  LET after[n \in 0..Len(hunks)] ==
        IF n = 0 THEN [output |-> <<>>, cursor |-> 0, error |-> "none"]
        ELSE ApplyHunk(original, after[n - 1], hunks[n])
      end == after[Len(hunks)]
  IN  IF hunks = <<>> THEN [error |-> "no hunk", output |-> <<>>]
      ELSE [error |-> end.error,
            output |-> end.output \o SubSeq(original, end.cursor + 1, Len(original))]

(* applyUnifiedDiff: [error, output], the output a file. *)
ApplyUnifiedDiff(file, hunks) ==
  LET applied == ApplyHunks(Split(file), hunks)
  IN  [error |-> applied.error, output |-> Join(applied.output)]

(* unifiedDiff of edit.ts, as applyUnifiedDiff reads it: one hunk that      *)
(* replaces every line.                                                    *)
UnifiedDiff(before, after) ==
  LET old == Split(before)
      new == Split(after)
  IN  IF before = after THEN <<>>
      ELSE <<[start |-> 1,
              body |-> [i \in DOMAIN old |-> [mark |-> "-", text |-> old[i]]]
                       \o [i \in DOMAIN new |-> [mark |-> "+", text |-> new[i]]]]>>

(* unifiedDiff of index.ts, which Fast Apply returns: the same lines, with *)
(* no header before them, so no hunk.                                      *)
HeaderlessDiff(before, after) == <<>>

(* countLineChanges compares line by line; before and after are Splits. *)
CountLineChanges(before, after) ==
  LET common == AtMost(Len(before), Len(after))
  IN  [added |-> AtLeast(0, Len(after) - Len(before)),
       removed |-> AtLeast(0, Len(before) - Len(after)),
       modified |-> Cardinality({i \in 1..common : before[i] # after[i]})]

-----------------------------------------------------------------------------
(* normalizeRepositoryPath keeps the contexts whose file is in the         *)
(* repository, whether or not it exists.                                   *)
Normalized(contexts, Inside) == SelectSeq(contexts, LAMBDA c : c \in Inside)

(* Slicing to maxResults; 0 is no limit. *)
Limited(found, maxResults) ==
  IF maxResults = 0 THEN found ELSE SubSeq(found, 1, AtMost(maxResults, Len(found)))

(* makeResult of search.ts; the recall is a pair, or null without references. *)
Measurement(files, reference) ==
  LET unique == ToSet(files)
  IN  [unique |-> unique,
       recall |-> IF reference = {} THEN <<>>
                  ELSE <<Cardinality(unique \cap reference), Cardinality(reference)>>,
       foundRelevant |-> unique \cap reference # {}]
=============================================================================
