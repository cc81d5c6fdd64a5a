------------------------------ MODULE MCFraming ------------------------------
(***************************************************************************)
(* Framing with two-bit bytes.  The payloads sit on both sides of the      *)
(* boundary between the two header formats (ShortMark is 15), include the  *)
(* empty message, and repeat the byte 3 of which the 0xFFFF mark is made,  *)
(* so that a misplaced frame boundary would be read as a header.           *)
(***************************************************************************)
EXTENDS Framing

Fill(n, b) == [i \in 1 .. n |-> b]

MCPayload == {<<>>, <<1, 2>>, Fill(14, 3), Fill(15, 3), Fill(16, 1)}
=============================================================================
