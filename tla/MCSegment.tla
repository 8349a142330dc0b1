------------------------------ MODULE MCSegment ------------------------------
(***************************************************************************)
(* Instances of Segment for TLC.  A page is 64 bytes and a segment 128.    *)
(* "s" is a payload smaller than a header, "l" one of which a single frame *)
(* fits, and "f" one whose frame and the EOS header behind it fill the     *)
(* segment.                                                                *)
(***************************************************************************)
EXTENDS Segment

MCSizeOf == [p \in Payloads |-> CASE p = "s" -> 4 [] p = "l" -> 52 [] p = "f" -> 104]
=============================================================================
