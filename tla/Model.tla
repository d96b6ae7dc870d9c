------------------------------- MODULE Model --------------------------------
(***************************************************************************)
(* The vocabulary every component shares (internal/model/types.go).  A     *)
(* subject is a (service, package) pair: fingerprints are kept, compared   *)
(* and alerted on within one subject and never across subjects.            *)
(***************************************************************************)
CONSTANTS
  Subjects,   \* (service, package) pairs
  Versions,   \* package versions
  Behaviors   \* canonical behavior strings

\* The identity of a fingerprint.
Keys == Subjects \X Versions
=============================================================================
