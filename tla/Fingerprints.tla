---------------------------- MODULE Fingerprints ----------------------------
(***************************************************************************)
(* The fingerprint row of one (service, package, version) and what the     *)
(* fingerprint engine does to it (internal/fingerprint/fingerprint.go).    *)
(* A row keeps the set of behaviors ever observed, how many events it has  *)
(* absorbed, the first and last timestamp, whether it has been promoted to *)
(* a baseline, and where it comes from.                                    *)
(*                                                                         *)
(* The events of one batch for one row are a group.  mergeEvents loops     *)
(* over them; a Group record holds what that loop adds to the row.  Module *)
(* Learning models the loop itself and checks that the two agree.          *)
(***************************************************************************)
EXTENDS Model, Integers

CONSTANTS
  MinObs,     \* LearningWindow.MinObs: events needed for promotion
  MinAge      \* LearningWindow.MinAge: age needed for promotion

\* NewEngine replaces a MinObs that is not positive with the default; a
\* duration taken from the configuration is not negative.
ASSUME WindowAssumption ==
  /\ MinObs \in Nat \ {0}
  /\ MinAge \in Nat

Origins == {"none", "local", "imported"}

\* A row of table fingerprints; origin "none" stands for no such row.
Row == [behaviors : SUBSET Behaviors, obs : Nat, first : Nat, last : Nat,
        baseline : BOOLEAN, origin : Origins]

\* What readFingerprintForUpdate returns when it finds no row.
NoRow == [behaviors |-> {}, obs |-> 0, first |-> 0, last |-> 0,
          baseline |-> FALSE, origin |-> "none"]

\* The events of a batch for one row, in sum.
Group == [behaviors : SUBSET Behaviors, count : Nat \ {0},
          first : Nat \ {0}, last : Nat \ {0}]

Later(s, t)   == IF s < t THEN t ELSE s
Earlier(s, t) == IF s < t THEN s ELSE t

\* mergeEvents: a FirstSeen of zero means the row has no event yet.
\* normalizeOrigin: a row that is new here is local.
MergeGroup(row, g) ==
  [behaviors |-> row.behaviors \cup g.behaviors,
   obs       |-> row.obs + g.count,
   first     |-> IF row.first = 0 THEN g.first ELSE Earlier(row.first, g.first),
   last      |-> Later(row.last, g.last),
   baseline  |-> row.baseline,
   origin    |-> IF row.origin = "none" THEN "local" ELSE row.origin]

\* The behaviors a group shows for the first time on a row.
Fresh(row, g) == g.behaviors \ row.behaviors

Qualifies(row) ==
  /\ row.obs >= MinObs
  /\ row.last - row.first >= MinAge

\* Mutant: IsBaseline is set to JustPromoted.
LearnJustPromoted(row, g) ==
  LET merged == MergeGroup(row, g)
  IN  [merged EXCEPT !.baseline = ~@ /\ Qualifies(merged)]

\* Mutant: the age of the row is not looked at.
LearnByCount(row, g) ==
  LET merged == MergeGroup(row, g)
  IN  [merged EXCEPT !.baseline = @ \/ merged.obs >= MinObs]

\* The callback of ingestGroup: merge, then promote a row that qualifies.
Learn(row, g) ==
  LET merged == MergeGroup(row, g)
  IN  [merged EXCEPT !.baseline = @ \/ Qualifies(merged)]

\* Mutants: promotion is reported for any row that qualifies, or never.
JustPromotedAgain(row, g) == Qualifies(MergeGroup(row, g))
JustPromotedNever(row, g) == FALSE

\* Update.JustPromoted
JustPromoted(row, g) == ~row.baseline /\ Qualifies(MergeGroup(row, g))
=============================================================================
