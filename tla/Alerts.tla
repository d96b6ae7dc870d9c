------------------------------- MODULE Alerts -------------------------------
(***************************************************************************)
(* Alert records and the operators on them: what diff.Engine.emit fills in *)
(* from the high-risk rules and what store.mergeIntoAlert makes of two     *)
(* alerts with the same identity.                                          *)
(*                                                                         *)
(* Rules are data: a behavior is high risk when some rule matches it,      *)
(* always-on when such a rule fires during the learning window, and        *)
(* enforceable when the rule's action is warn or block.                    *)
(***************************************************************************)
EXTENDS Model

CONSTANTS
  NoVersion,    \* the empty old_version of an alert raised without baseline
  HighRisk,     \* behaviors some rule matches
  AlwaysOn,     \* behaviors an always-on rule matches
  Enforceable,  \* behaviors a rule with action warn or block matches
  BlockRule     \* behaviors a rule with action block matches

ASSUME RuleAssumption ==
  /\ HighRisk \subseteq Behaviors
  /\ AlwaysOn \subseteq HighRisk
  /\ Enforceable \subseteq HighRisk
  /\ BlockRule \subseteq Enforceable
  /\ NoVersion \notin Versions

\* diff.alertID: one identity per version transition of a subject.
AlertIds == Subjects \X (Versions \cup {NoVersion}) \X Versions

Statuses == {"none", "open", "acknowledged", "resolved"}

\* A row of table alerts; status "none" stands for no such row.  "aged" says
\* that detected_at lies before the retention cutoff.
Alert == [behaviors : SUBSET Behaviors, critical : BOOLEAN,
          wouldBlock : BOOLEAN, blocked : BOOLEAN,
          status : Statuses, aged : BOOLEAN]

NoAlert == [behaviors |-> {}, critical |-> FALSE, wouldBlock |-> FALSE,
            blocked |-> FALSE, status |-> "none", aged |-> FALSE]

Exists(a) == a.status # "none"

\* Mutant: an alert is stored with a status nobody knows.
NewAlertStatus(B) ==
  [behaviors |-> B, critical |-> B \cap HighRisk # {},
   wouldBlock |-> B \cap Enforceable # {}, blocked |-> FALSE,
   status |-> "new", aged |-> FALSE]

\* emit: severity and would_block come from the rules the behaviors match.
NewAlert(B) ==
  [behaviors |-> B, critical |-> B \cap HighRisk # {},
   wouldBlock |-> B \cap Enforceable # {}, blocked |-> FALSE,
   status |-> "open", aged |-> FALSE]

\* Mutant: the severity is that of the latest evidence.
MergeIntoAlertLatest(existing, incoming) ==
  [behaviors  |-> existing.behaviors \cup incoming.behaviors,
   critical   |-> incoming.critical,
   wouldBlock |-> existing.wouldBlock \/ incoming.wouldBlock,
   blocked    |-> existing.blocked \/ incoming.blocked,
   status     |-> IF existing.status = "resolved" THEN "open" ELSE existing.status,
   aged       |-> IF existing.status = "resolved" THEN incoming.aged ELSE existing.aged]

\* mergeIntoAlert: an alert only gains evidence, and a resolved one reopens
\* with the detection time of the new evidence.
MergeIntoAlert(existing, incoming) ==
  [behaviors  |-> existing.behaviors \cup incoming.behaviors,
   critical   |-> existing.critical \/ incoming.critical,
   wouldBlock |-> existing.wouldBlock \/ incoming.wouldBlock,
   blocked    |-> existing.blocked \/ incoming.blocked,
   status     |-> IF existing.status = "resolved" THEN "open" ELSE existing.status,
   aged       |-> IF existing.status = "resolved" THEN incoming.aged ELSE existing.aged]

\* PruneResolvedAlerts deletes these rows.
Prunable(a) == a.status = "resolved" /\ a.aged
=============================================================================
