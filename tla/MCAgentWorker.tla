---------------------------- MODULE MCAgentWorker ----------------------------
(* AgentWorker on small instances.  Slots and answers are interchangeable. *)
EXTENDS AgentWorker, TLC

SlotSymmetry == Permutations(Slots) \cup Permutations(Answers)
=============================================================================
