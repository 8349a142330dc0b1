------------------------------- MODULE MCMqLog -------------------------------
(***************************************************************************)
(* Instances of MqLog for TLC.  A page is 64 bytes and a segment 256, so   *)
(* its index file holds two whole entries.  "s" is a small payload, a      *)
(* frame of "b" fills most of a segment, and "x" fits in none.             *)
(***************************************************************************)
EXTENDS MqLog, TLC

WriterSymmetry == Permutations(Writers)

MCSizeOf == [p \in Payloads |-> CASE p = "e" -> 0 [] p = "s" -> 4 [] p = "b" -> 160 [] p = "x" -> 400]
=============================================================================
