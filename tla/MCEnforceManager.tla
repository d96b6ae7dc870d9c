-------------------------- MODULE MCEnforceManager --------------------------
(* Instances of EnforceManager for TLC.                                     *)
EXTENDS EnforceManager, TLC

CONSTANTS web, job, c1, h1, h2, shadow, key, meta, subnet

MCTo4 == (meta :> meta)

Read(p) == [hook |-> "open", arg |-> p]

\* A rule on one path, and one on every path and the metadata network.
MCRuleSets == {{Read(shadow)}, {Read(shadow), Read(key), subnet}}

OneRuleSet == {{Read(shadow)}}
=============================================================================
