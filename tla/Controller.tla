------------------------------ MODULE Controller ------------------------------
(***************************************************************************)
(* The routing rules of the adaptive study (agent-core/src/controller.ts): *)
(* pure functions from measured features to the provider that is used.     *)
(* Ratios are given in hundredths; the reasons are wording and left out.   *)
(***************************************************************************)
EXTENDS Naturals

(* The features each rule looks at. *)
SearchFeatures ==
  [exactIdentifierExists : BOOLEAN, repositoryFileCount : Nat, cheapMatchCount : Nat,
   crossFileEstimate : Nat, previousSearchFailure : BOOLEAN, warpGrepAvailable : BOOLEAN]

EditFeatures ==
  [changedLineEstimate : Nat, nonContiguousRegions : Nat,
   exactOldStringAvailable : BOOLEAN, previousApplyFailure : BOOLEAN,
   fastApplyAvailable : BOOLEAN]

CompactionFeatures ==
  [contextBytes : Nat, growthRate : Nat, toolOutputShare : Nat, duplicationRatio : Nat,
   relevanceScore : Nat, morphCompactAvailable : BOOLEAN]

(* Mutant: availability binds to the first alternative only. *)
DecideSearchLoose(f) ==
  IF \/ f.warpGrepAvailable /\ f.previousSearchFailure
     \/ f.cheapMatchCount = 0
     \/ f.crossFileEstimate > 1
     \/ f.repositoryFileCount > 250
  THEN "warpgrep" ELSE "raw-search"

(* decideSearch, with the condition of searchSpecialistReason. *)
DecideSearch(f) ==
  IF /\ f.warpGrepAvailable
     /\ \/ f.previousSearchFailure
        \/ f.cheapMatchCount = 0
        \/ f.crossFileEstimate > 1
        \/ f.repositoryFileCount > 250
  THEN "warpgrep" ELSE "raw-search"

DecideEdit(f) ==
  CASE f.fastApplyAvailable /\ f.previousApplyFailure -> "fast-apply"
    [] /\ ~(f.fastApplyAvailable /\ f.previousApplyFailure)
       /\ f.exactOldStringAvailable
       /\ f.changedLineEstimate <= 3
       /\ f.nonContiguousRegions <= 1 -> "deterministic-edit"
    [] OTHER -> IF f.changedLineEstimate <= 20 THEN "unified-diff" ELSE "full-file"

OverBudget(f) == f.contextBytes > 2000

DecideCompaction(f) ==
  IF /\ f.morphCompactAvailable
     /\ \/ f.duplicationRatio > 25
        \/ f.relevanceScore < 50
        \/ OverBudget(f) /\ f.growthRate > 70 /\ f.toolOutputShare > 70
  THEN "morph-compact"
  ELSE IF OverBudget(f) \/ f.growthRate > 45 \/ f.toolOutputShare > 65
  THEN "threshold-truncation"
  ELSE "no-compaction"

Specialist == {"warpgrep", "fast-apply", "morph-compact"}
=============================================================================
