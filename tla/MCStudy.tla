------------------------------- MODULE MCStudy -------------------------------
(* Small instances of Study for TLC. *)
EXTENDS Study

Command(k, o, f, r) == [kind |-> k, optIn |-> o, faults |-> f, readers |-> r]

Disk == {"step", "disk", "message"}

(* Every study with failing steps, and each with a failing disk once; the  *)
(* readers are spread over the commands.                                   *)
AllStudies ==
  {Command(k, FALSE, Disk, {"resume"}) : k \in {"search", "edit", "context", "adaptive"}}
  \cup {Command(k, FALSE, {"step"}, {"resume"}) : k \in {"edit", "context", "adaptive"}}
  \cup {Command("search", FALSE, {"step"}, {"publish"}),
        Command("edit", TRUE, {"step"}, {"publish"}),
        Command("context", TRUE, {"step"}, {"page"}),
        Command("adaptive", TRUE, {"step"}, {"page", "publish"})}

SearchOnly == {Command("search", FALSE, {}, {})}
=============================================================================
