--------------------------------- MODULE Mbr ---------------------------------
(***************************************************************************)
(* createMbrAndPartition and lba2chs (source/mbr.cpp): the only entry of   *)
(* the partition table, computed from the parameters getFormatParams has   *)
(* accepted.  The steps of FormatParams come first; CreatePartition is the *)
(* one behind them.  The rest of the MBR is the random disk signature and  *)
(* the boot signature.                                                     *)
(***************************************************************************)
EXTENDS FormatParams

VARIABLE entry  \* mbr.partTable[0]

mbrVars == <<vars, entry>>

NoEntry == [type |-> 0, startCHS |-> <<0, 0, 0>>, endCHS |-> <<0, 0, 0>>,
            startLBA |-> 0, sectors |-> 0]

MbrTypeOK ==
  /\ entry.type \in {0, 1, 4, 6, 7, 11, 12}
  /\ \A chs \in {entry.startCHS, entry.endCHS} :
       chs \in (0 .. 1023) \X (0 .. 254) \X (0 .. 63)
  /\ entry.startLBA \in Nat /\ entry.sectors \in Nat
  /\ ~Exceeds32(entry.startLBA + entry.sectors - 1)

\* Slip: sectors are counted from 0 like heads and cylinders.
SectorZeroBased(n) == n

SectorNumber(n) == n + 1

\* Slip: a cylinder that has no ten bits is not replaced.
AddressableAlways(c, h, s, heads, secPerTrk) == TRUE

Addressable(c, h, s, heads, secPerTrk) == c < 1024 /\ h < heads /\ s <= secPerTrk

\* Cylinder, head and sector; the maximum if the cylinder has no ten bits.  The
\* entry packs them into three bytes without loss: 8 + 2, 8 and 6 bits.
Lba2Chs(lba, heads, secPerTrk) ==
  LET spc == heads * secPerTrk
      c   == lba \div spc
      h   == (lba % spc) \div secPerTrk
      s   == SectorNumber((lba % spc) % secPerTrk)
  IN  IF Addressable(c, h, s, heads, secPerTrk) THEN <<c, h, s>> ELSE <<1023, 254, 63>>

\* LOG2PHY
Log2Phy(n, bps) == n * (bps \div 512)

PartitionType(fatBits, partSize, totSec) ==
  CASE fatBits = 12 -> 1
    [] fatBits = 16 -> IF partSize < 65536 THEN 4 ELSE 6
    [] fatBits = 32 -> IF totSec <= 16450560 THEN 11 ELSE 12
    [] fatBits = 64 -> 7

\* Slip: logical sectors, where physical ones are meant.
InCardSectorsLogical(n) == n

\* A number of sectors of the parameters, in those of the card.
InCardSectors(n) == Log2Phy(n, params.bytesPerSec)

\* createMbrAndPartition: from getFormatParams' numbers, all of the card behind
\* the start.
PartitionEntry ==
  LET start    == InCardSectors(IF UsesFat THEN partStart ELSE exfat.partitionOffset)
      totSec   == InCardSectors(params.totSec)
      partSize == totSec - start
  IN  [type     |-> PartitionType(params.fatBits, partSize, totSec),
       startCHS |-> Lba2Chs(start, params.heads, params.secPerTrk),
       endCHS   |-> Lba2Chs(totSec - 1, params.heads, params.secPerTrk),
       startLBA |-> start,
       sectors  |-> partSize]

CreatePartition ==
  /\ phase = "accepted" /\ entry = NoEntry
  /\ entry' = PartitionEntry
  /\ UNCHANGED vars

MbrInit == Init /\ entry = NoEntry

MbrNext ==
  \/ Next /\ UNCHANGED entry
  \/ CreatePartition

MbrSpec == MbrInit /\ [][MbrNext]_mbrVars

-----------------------------------------------------------------------------
(* Properties.                                                             *)

\* The sector a BIOS that knows the geometry finds at a cylinder, head, sector.
Chs2Lba(chs) == (((chs[1] * params.heads) + chs[2]) * params.secPerTrk) + chs[3] - 1

Beyond == <<1023, 254, 63>>

\* The two ways to address the partition agree: its start, and its end unless
\* that has no address by cylinder, head and sector, in which case the entry
\* says so with the largest one.
ChsAgreesWithLba ==
  entry # NoEntry =>
    LET last == entry.startLBA + entry.sectors - 1
        Agrees(chs, lba) ==
          IF lba < 1024 * params.heads * params.secPerTrk THEN Chs2Lba(chs) = lba
          ELSE chs = Beyond
    IN  Agrees(entry.startCHS, entry.startLBA) /\ Agrees(entry.endCHS, last)

\* In sectors of the card, whatever the sectors of the file system are: the
\* partition starts where the file system is written, takes the card up to less
\* than one logical sector from the capacity in use, and holds every cluster.
PartitionHoldsFs ==
  entry # NoEntry =>
    LET k    == params.bytesPerSec \div 512
        fs   == IF UsesFat THEN fsAreaSize ELSE exfat.clusterHeapOffset
        clus == params.secPerClus * (IF UsesFat THEN maxClus ELSE exfat.clusterCount)
    IN  /\ entry.startLBA * 512 = params.bytesPerSec * (IF UsesFat THEN partStart ELSE exfat.partitionOffset)
        /\ entry.startLBA + (k * (fs + clus)) <= entry.startLBA + entry.sectors
        /\ entry.startLBA + entry.sectors <= capacity
        /\ capacity - k < entry.startLBA + entry.sectors

(***************************************************************************)
(* A driver counts the clusters of what the boot sector describes, and     *)
(* goes by that count (fatgen103.doc): less than 4085 are FAT12, less than *)
(* 65525 FAT16.  It counts maxClus, and comes to the variant the FATs were *)
(* written for and the partition entry names.  One that looks at fatSz16   *)
(* does, too; the counts fit into the 16 bits the boot sector has for them.*)
(* (The tables use FAT16 from 64 MiB on, so type 4 never occurs.)          *)
(***************************************************************************)
DriversAgree ==
  entry # NoEntry =>
    LET sectors  == Phy2Log(entry.sectors, params.bytesPerSec)
        clusters == (sectors - (rsvdSecCnt + (2 * secPerFat) + RootSectors)) \div params.secPerClus
    IN  /\ entry.type = 7 <=> ~UsesFat
        /\ UsesFat =>
             /\ clusters = maxClus
             /\ entry.type = 1 <=> clusters < 4085
             /\ entry.type \in {11, 12} <=> clusters >= 65525
             /\ params.fatBits < 32 => secPerFat <= 65535
             /\ rsvdSecCnt <= 65535
=============================================================================
