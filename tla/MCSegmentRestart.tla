-------------------------- MODULE MCSegmentRestart --------------------------
(***************************************************************************)
(* Instances of SegmentRestart for TLC.  A page is 16 bytes and a segment  *)
(* 288, so its index file holds three whole entries, two in its first page *)
(* and one in its second.  A frame of "s" fills a page; one of "f" fills   *)
(* what is left behind it, without room for an EOS header.                 *)
(***************************************************************************)
EXTENDS SegmentRestart

MCSizeOf == [p \in Payloads |-> CASE p = "s" -> 4 [] p = "f" -> 260]
=============================================================================
