---------------------------- MODULE MCFsPrinter ----------------------------
(***************************************************************************)
(* The capacities of MCFormatParams, and those around the first that has   *)
(* no cylinder number any more and around the first FAT16 volume that has  *)
(* more sectors than 16 bits count.                                        *)
(***************************************************************************)
EXTENDS FsPrinter, MCFormatParams

MCPrinterCards ==
  MCCards \cup UNION {{n - 1, n, n + 1} : n \in {65536 + 128, 65536 + 163, 16450560}}
=============================================================================
