------------------------ MODULE MCConnectionManager ------------------------
(***************************************************************************)
(* Messages of two pieces, so that every transfer can be interrupted; a    *)
(* time-out of three time units and frames that take none, one or three,   *)
(* so that one frame may last longer than the time-out leaves.             *)
(***************************************************************************)
EXTENDS ConnectionManager

MCPorts == {80}
MCDts == {0, 1, 3}
=============================================================================
