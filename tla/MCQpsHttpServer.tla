-------------------------- MODULE MCQpsHttpServer --------------------------
(***************************************************************************)
(* QpsHttpServer for TLC: the connections are model values, interchangeable*)
(* in the safety runs.                                                     *)
(***************************************************************************)
EXTENDS QpsHttpServer, TLC

ConnSymmetry == Permutations(Conn)
============================================================================
