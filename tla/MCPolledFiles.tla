---------------------------- MODULE MCPolledFiles ----------------------------
(* Instances of PolledFiles for TLC. *)
EXTENDS PolledFiles, TLC

CONSTANTS w1, w2, w3, p1, p2, p3, p4, p5

MCThreads == {w1, w2, w3}
MCTwoThreads == {w1, w2}
MCPollHandles == {p1, p2, p3, p4, p5}
MCFewPollHandles == {p1, p2, p3, p4}
MCPollable == {1}

\* poll handles and threads are interchangeable; used by the safety runs only
MCSymmetry == Permutations(MCPollHandles) \union Permutations(MCThreads)
=============================================================================
