---------------------------- MODULE ScopedPolicy ----------------------------
(***************************************************************************)
(* What the loader promises of the kernel's maps: "ReconcileEnforcement    *)
(* atomically-from-the-policy-perspective replaces the service-scoped deny *)
(* maps [...] so partial updates fail open instead of applying another     *)
(* service's verdicts" (internal/loader/enforcement.go).  A policy is      *)
(* decided; whatever was enforced is dropped as a whole before any cgroup  *)
(* gets the keys of the new one, and a cgroup has all of its keys or none. *)
(***************************************************************************)
EXTENDS Verdicts

VARIABLES
  decided,   \* the policy to enforce
  effective  \* by cgroup, the keys the hooks deny

policy == <<decided, effective>>

Init ==
  /\ decided = NoPolicy
  /\ effective = [c \in Cgroups |-> {}]

Decide ==
  /\ decided' \in Policies
  /\ UNCHANGED effective

FailOpen ==
  /\ effective' = [c \in Cgroups |-> {}]
  /\ UNCHANGED decided

\* Some cgroups get their keys, when no cgroup has those of another policy.
Enforce ==
  /\ \A c \in Cgroups : effective[c] \in {{}, KeysOf(decided, c)}
  /\ \E C \in SUBSET Cgroups :
       effective' = [c \in Cgroups |-> IF c \in C THEN KeysOf(decided, c) ELSE effective[c]]
  /\ UNCHANGED decided

\* The maps die with the sensor.
Die ==
  /\ decided' = NoPolicy
  /\ effective' = [c \in Cgroups |-> {}]

Next == Decide \/ FailOpen \/ Enforce \/ Die

Spec == Init /\ [][Next]_policy
=============================================================================
