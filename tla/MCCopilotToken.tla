-------------------------- MODULE MCCopilotToken --------------------------
EXTENDS CopilotToken, TLC

\* The threads are alike.
Symmetry == Permutations(Threads)
=============================================================================
