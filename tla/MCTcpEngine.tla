---------------------------- MODULE MCTcpEngine ----------------------------
(***************************************************************************)
(* TcpEngine for TLC: the connections are model values, interchangeable in *)
(* the safety runs.                                                        *)
(***************************************************************************)
EXTENDS TcpEngine, TLC

ConnSymmetry == Permutations(Conn)
============================================================================
