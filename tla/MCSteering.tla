------------------------------ MODULE MCSteering ------------------------------
(* Steering on a small instance. *)
EXTENDS Steering

CONSTANTS k1, k2

TwoKeys == {k1, k2}

(* Bound: keys are interchangeable; the first one used is k1. *)
FirstKeyFirst == k2 \in Used => k1 \in Used
=============================================================================
