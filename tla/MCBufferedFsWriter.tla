------------------------- MODULE MCBufferedFsWriter -------------------------
(***************************************************************************)
(* A card of two and a half blocks, blocks of two sectors, sectors of two  *)
(* cells.  Every position has a payload value of its own, so a byte in the *)
(* wrong place is a wrong byte.                                            *)
(***************************************************************************)
EXTENDS BufferedFsWriter

MCZero    == 0
MCOld     == -1
MCTrimmed == -2
MCJunk    == -3
MCPayload == [a \in 0 .. Word - 1 |-> a + 1]
MCCell    == {MCOld, MCTrimmed, MCJunk} \cup (0 .. Word)
MCOffsets == 0 .. DevSize + 1
MCSizes   == {0, 1, 2, 3, 5, 9, Word - 1}
=============================================================================
