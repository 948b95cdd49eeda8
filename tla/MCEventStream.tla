---------------------------- MODULE MCEventStream ----------------------------
(* EventStream on small instances.  The writers are interchangeable, which  *)
(* the runs of safety properties use.                                      *)
EXTENDS EventStream, TLC

WriterSymmetry == Permutations(Writers)
=============================================================================
