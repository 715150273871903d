---------------------------- MODULE MCAdmission ----------------------------
(***************************************************************************)
(* Instances of Admission for TLC.                                         *)
(***************************************************************************)
EXTENDS Admission, TLC

CONSTANTS n1, n2, i1, i2, a1, a2
Define(mode, onFull) == [mode |-> mode, onFull |-> onFull]

\* The mode of one consumer changes, so that its instances are replaced and
\* revived, and its on_full does, so that its queue is reconfigured under
\* way; the other consumer comes and goes.
Changes ==
    (n1 :> {Define("Pull", "Backpressure"), Define("Pull", "DropOldest"),
            Define("Push", "DropOldest"), Undefined})
 @@ (n2 :> {Define("Pull", "Backpressure"), Undefined})

Symmetry == Permutations({i1, i2}) \cup Permutations({a1, a2})
=============================================================================
