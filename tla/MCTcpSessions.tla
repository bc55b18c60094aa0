--------------------------- MODULE MCTcpSessions ---------------------------
(* Values for the model checking of TcpSessions. *)
EXTENDS TcpSessions

MCSymmetry == Permutations(Programs)
=============================================================================
