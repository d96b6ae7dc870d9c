------------------------------ MODULE Verdicts ------------------------------
(***************************************************************************)
(* Deny verdicts: what internal/enforce compiles observed behaviors into,  *)
(* what a sensor makes of them for the cgroups on its node, and what the   *)
(* kernel's LSM hooks look up.                                             *)
(*                                                                         *)
(* An operation is what a process attempts.  A behavior is an operation    *)
(* the sensor reported verbatim, or a vague one: a collapsed path, a CIDR  *)
(* network, a placeholder, a class without a hook.                         *)
(***************************************************************************)
EXTENDS Integers, Sequences

CONSTANTS
  Services,   \* service names
  NoService,  \* of a cgroup out of scope
  Cgroups,    \* cgroups of the node
  Paths,      \* absolute paths a hook can render
  Addrs,      \* IPv4 and IPv6 addresses
  To4,        \* net.IP.To4: an IPv4-mapped address to the IPv4 one it holds
  Ports,      \* ports, 0 among them
  Vague       \* behaviors that name no single operation

ASSUME VerdictAssumption ==
  /\ NoService \notin Services
  /\ To4 \in [Addrs -> Addrs]
  /\ 0 \in Ports

Operation ==
  [hook : {"open", "exec"}, arg : Paths] \cup [hook : {"connect"}, arg : Addrs \X Ports]

Behaviors == Operation \cup Vague

VerdictSet == [deny : SUBSET Operation, skipped : SUBSET Behaviors]

NoVerdicts == [s \in Services |-> [deny |-> {}, skipped |-> {}]]

\* CompileVerdicts: the behaviors of B that a block rule matches, as literals
\* where they are literal, on the list of skipped ones where not.
CompileVerdicts(rules, B) ==
  [deny    |-> B \cap rules \cap Operation,
   skipped |-> (B \cap rules) \ Operation]

\* Mutant: the verdicts are replaced, not extended.
Replaced(current, added) == added

\* mergeVerdictSets: append what is not there yet.
MergeVerdictSets(current, added) ==
  [deny    |-> current.deny \cup added.deny,
   skipped |-> current.skipped \cup added.skipped]

\* The scope of each cgroup, as ScanEnforcedCgroups and
\* ResolveExplicitCgroupScopes return it.
Scopes == [Cgroups -> Services \cup {NoService}]

NoScopes == [c \in Cgroups |-> NoService]

\* What a sensor is to enforce.
Policies == [scopes : Scopes, verdicts : [Services -> VerdictSet]]

NoPolicy == [scopes |-> NoScopes, verdicts |-> NoVerdicts]

\* denyAddrKeyFromVerdict and makeDenyPathKey, without the cgroup.  The family
\* of a connect key follows from To4, not from the family observed.
DenyKey(v) == IF v.hook = "connect" THEN [v EXCEPT !.arg = <<To4[v.arg[1]], v.arg[2]>>] ELSE v

\* Mutant: the verdicts of all services, not those of the cgroup's own.
KeysOfAll(p, c) ==
  IF p.scopes[c] = NoService THEN {}
  ELSE {DenyKey(v) : v \in UNION {p.verdicts[s].deny : s \in Services}}

\* The keys policy p has for cgroup c.
KeysOf(p, c) ==
  IF p.scopes[c] = NoService THEN {} ELSE {DenyKey(v) : v \in p.verdicts[p.scopes[c]].deny}

\* expandScopedVerdicts: the entries of the deny maps.
ExpandScopedVerdicts(p) == UNION {{c} \X KeysOf(p, c) : c \in Cgroups}

\* Port 0 stands for any.
AnyPort(op) == [op EXCEPT !.arg = <<op.arg[1], 0>>]

\* The keys a hook looks up for an operation: a connect is looked up with its
\* port and with port 0.
LookedUp(op) == IF op.hook = "connect" THEN {op, AnyPort(op)} ELSE {op}
=============================================================================
