---------------------------- MODULE MCBlockDevIo ----------------------------
(***************************************************************************)
(* A card of two sectors of two bytes, with transfers of at most three     *)
(* bytes in a call: both sectors need two calls, one sector that begins at *)
(* the second reaches the end, and two go beyond it.                       *)
(***************************************************************************)
EXTENDS BlockDevIo

MCZero    == 0
MCOld     == -1
MCTrimmed == -2
MCBytes   == [i \in 0 .. 3 |-> i + 1]
MCCell    == {MCOld, MCTrimmed} \cup (0 .. 4)
MCRequests == {[sector |-> 0, count |-> 2], [sector |-> 1, count |-> 1],
               [sector |-> 1, count |-> 2]}
=============================================================================
