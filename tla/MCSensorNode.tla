---------------------------- MODULE MCSensorNode ----------------------------
(* Instances of SensorNode for TLC.                                         *)
EXTENDS SensorNode, TLC

CONSTANTS web, job, c1, c2, shadow, key, meta, mapped

MCTo4 == (meta :> meta)
MappedTo4 == (meta :> meta) @@ (mapped :> meta)

Read(p) == [hook |-> "open", arg |-> p]
Exec(p) == [hook |-> "exec", arg |-> p]
Connect(a, port) == [hook |-> "connect", arg |-> <<a, port>>]

Denying(w, j) ==
  (web :> [deny |-> w, skipped |-> {}]) @@ (job :> [deny |-> j, skipped |-> {}])

\* Off without verdicts, on with some, on with others and more of them.
MCAnswers ==
  { [on |-> FALSE, rev |-> 1, verdicts |-> NoVerdicts],
    [on |-> TRUE, rev |-> 2, verdicts |-> Denying({Read(shadow)}, {Connect(meta, 0)})],
    [on |-> TRUE, rev |-> 3,
     verdicts |-> Denying({Read(key), Connect(meta, 80), Exec(shadow)}, {Read(shadow)})] }

Scope(s1, s2) == (c1 :> s1) @@ (c2 :> s2)

MCScopeChoices == {Scope(web, NoService), Scope(job, web), Scope(web, web)}

MCAttempts == {<<c1, Read(shadow)>>, <<c1, Connect(meta, 80)>>}

\* Three versions of the verdicts for two cgroups of one service; the keys of
\* any version fit the maps, those of two versions do not.
BigAnswers ==
  { [on |-> TRUE, rev |-> 1, verdicts |-> Denying({Read(shadow)}, {})],
    [on |-> TRUE, rev |-> 2, verdicts |-> Denying({Read(key)}, {})] }

\* A connect observed on an IPv6 socket to an IPv4-mapped address.
MappedAnswers ==
  { [on |-> TRUE, rev |-> 1, verdicts |-> Denying({Connect(mapped, 80)}, {})] }

NoAttempts == {}

OneScope == {Scope(web, web)}
=============================================================================
