---------------------------- MODULE MCProviderCall ----------------------------
(* Small instances of ProviderCall for TLC. *)
EXTENDS ProviderCall

All == Remote \cup Local
Truncation == {"threshold-truncation"}

(* Messages that are small, fill most of the budget, or exceed it. *)
Message == [role : {"system", "user", "tool"}, size : {20, 150, 400}]
Talks == UNION {[1..n -> Message] : n \in 1..3}
LongTalks == Talks \cup [1..4 -> [role : {"system", "tool"}, size : {20, 110, 400}]]

(* Files of up to three lines, with one kind of line end throughout. *)
Files == {[i \in DOMAIN f |-> [text |-> f[i], end |-> IF i < Len(f) THEN e ELSE "lf"]] :
            f \in UNION {[1..n -> Text] : n \in 1..3}, e \in LineEnd}
Line == [mark : Mark, text : Text]
Hunk == [start : 0..3, body : UNION {[1..n -> Line] : n \in 1..2}]
SmallHunk == [start : 1..3, body : [1..1 -> Line]]
AllEdits == [original : Files, hunks : {<<>>} \cup {<<h>> : h \in Hunk}
                                       \cup {<<h, k>> : h, k \in SmallHunk}]
=============================================================================
