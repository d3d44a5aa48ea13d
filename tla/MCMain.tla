----------------------------- MODULE MCMain ---------------------------------
(***************************************************************************)
(* One layout of every kind, with sectors of two cells: FAT16, FAT32 with  *)
(* sectors of 512 bytes and of 1024 bytes, the latter with as few reserved *)
(* sectors as there may be, and exFAT.  The card is a little larger than   *)
(* the largest of them.                                                    *)
(***************************************************************************)
EXTENDS Main

MCFat16 == [fatBits |-> 16, bytesPerSec |-> 2, secPerClus |-> 2, partStart |-> 3,
            rsvdSecCnt |-> 1, secPerFat |-> 2, fsAreaSize |-> 6, maxClus |-> 30]

MCFat32 == [fatBits |-> 32, bytesPerSec |-> 2, secPerClus |-> 2, partStart |-> 4,
            rsvdSecCnt |-> 10, secPerFat |-> 3, fsAreaSize |-> 16, maxClus |-> 30]

MCFat32Big == [fatBits |-> 32, bytesPerSec |-> 4, secPerClus |-> 2, partStart |-> 2,
               rsvdSecCnt |-> 9, secPerFat |-> 1, fsAreaSize |-> 11, maxClus |-> 12]

MCExfat == [fatBits |-> 64, bytesPerSec |-> 2, secPerClus |-> 2, partitionOffset |-> 2,
            fatOffset |-> 24, fatLength |-> 4, clusterHeapOffset |-> 28, clusterCount |-> 4]

MCLayouts == {MCFat16, MCFat32, MCFat32Big, MCExfat}

MCCell    == STRING \X Seq(Nat)
MCZero    == <<"zero", <<>>>>
MCOld     == <<"old", <<>>>>
MCTrimmed == <<"trimmed", <<>>>>
MCJunk    == <<"junk", <<>>>>
MCPayload == [a \in 0 .. Word - 1 |-> MCZero]
MCNone    == {}

\* Every option, with the arguments on both sides of what it accepts.  Labels are
\* shorter than the buffer, as long, longer, and empty.
MCOptions ==
  [opt : {"b", "f", "v", "h", "?"}, arg : {"none"}]
    \cup [opt : {"c"}, arg : {0, 1, 2, 3}]
    \cup [opt : {"e"}, arg : {"trim", "secure", "other"}]
    \cup [opt : {"l"}, arg : {<<>>, <<"x">>, <<"y", "z">>, <<"u", "v", "w">>}]
=============================================================================
