-------------------------- MODULE MCDriftPipeline ---------------------------
(* Instances of DriftPipeline for TLC.                                      *)
EXTENDS DriftProperties, TLC

CONSTANTS web, v1, v2, v3, h1, h2, r1, r2, read, npmrc, dns

MCReplicaOf == (h1 :> r1) @@ (h2 :> r2)
MCOneReplica == (h1 :> r1) @@ (h2 :> r1)

Events(B, n, s, t) == [behaviors |-> B, count |-> n, first |-> s, last |-> t]
One(v, g) == (<<web, v>> :> g)

\* Learning v1 in two halves, then three batches of drift: two on v1, one on
\* v2 that brings a kernel deny and enough events to be promoted at once.
DriftBatches ==
  { [groups |-> One(v1, Events({read}, 1, 1, 1)), denied |-> <<>>],
    [groups |-> One(v1, Events({read}, 1, 2, 2)), denied |-> <<>>],
    [groups |-> One(v1, Events({npmrc}, 1, 3, 3)), denied |-> <<>>],
    [groups |-> One(v1, Events({dns}, 1, 3, 3)), denied |-> <<>>],
    [groups |-> One(v2, Events({read, npmrc}, 2, 3, 4)), denied |-> << <<web, npmrc>> >>] }

\* v1 is promoted by one batch; the other drifts on it, shows v2, brings a deny.
FaultyBatches ==
  { [groups |-> One(v1, Events({read}, 2, 1, 2)), denied |-> <<>>],
    [groups |-> One(v1, Events({npmrc}, 1, 3, 3)) @@ One(v2, Events({npmrc}, 1, 3, 3)),
     denied |-> << <<web, npmrc>> >>] }

\* Two halves of a learning window, for a row an operator imports meanwhile.
ImportBatches ==
  { [groups |-> One(v1, Events({read}, 1, 1, 1)), denied |-> <<>>],
    [groups |-> One(v1, Events({npmrc}, 1, 2, 3)), denied |-> <<>>] }

\* v1 is a baseline without npmrc; v2 and v3 both bring it in one batch, with
\* events enough to be promoted.
TwinBatches ==
  { [groups |-> One(v1, Events({read}, 2, 1, 2)), denied |-> <<>>],
    [groups |-> One(v2, Events({npmrc}, 2, 3, 4)) @@ One(v3, Events({npmrc}, 2, 3, 4)),
     denied |-> <<>>] }

NoImports == {}

FileRow(B, baseline, origin) ==
  [behaviors |-> B, obs |-> 3, first |-> 1, last |-> 3, baseline |-> baseline, origin |-> origin]

\* Another cluster's baseline of v1, and a row of its file that is none.
ImportFile ==
  { [key |-> <<web, v1>>, row |-> FileRow({read, dns}, TRUE, "local")],
    [key |-> <<web, v2>>, row |-> FileRow({read}, FALSE, "local")] }
=============================================================================
