---------------------------- MODULE MCWriterWork ---------------------------
(* Runs are numbered in the order they are taken.                          *)
EXTENDS WriterWork, TLC

Runs == 1 .. 3
TwoRuns == 1 .. 2

\* Conversations are interchangeable, and so are processes and agents.
Symmetry == Permutations(Conversation) \cup Permutations(Process)
            \cup Permutations(Agent)
=============================================================================
