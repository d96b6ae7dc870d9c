---------------------------- MODULE MCEnforcement ----------------------------
(* Instances of Enforcement for TLC.                                        *)
EXTENDS Enforcement, TLC

CONSTANTS web, job, c1, c2, h1, h2, shadow, meta, mapped

MCTo4 == (meta :> meta) @@ (mapped :> meta)

Read(p) == [hook |-> "open", arg |-> p]
Connect(a, port) == [hook |-> "connect", arg |-> <<a, port>>]

OnlyRead == {{Read(shadow)}}
ReadOrConnect == {{Read(shadow), Connect(meta, 0)}}

OneCgroup == {(c1 :> web)}
EitherService == {(c1 :> web), (c1 :> job)}

NoAttempts == {}
=============================================================================
