---------------------------- MODULE FormatParams ----------------------------
(***************************************************************************)
(* getFormatParams (source/format.cpp) with the three calculations it      *)
(* calls: calcFormatFat, calcFormatFat32 (source/fat.cpp) and              *)
(* calcFormatExFat (source/exfat.cpp), and the choice of the capacity in   *)
(* formatSd in front of it.                                                *)
(*                                                                         *)
(* The FAT calculations search a fixed point: the size of the FAT depends  *)
(* on the number of clusters, which depends on where the data area starts, *)
(* which depends on the size of the FAT.  Every turn of the inner loop is  *)
(* a step here ("fit"), and so is every turn of the outer one ("place").   *)
(*                                                                         *)
(* The u32 arithmetic of the source is written without wrapping; NoWrap    *)
(* says that no operand ever leaves the width.  Capacities are compared in *)
(* units of four sectors, because 2^32 is beyond the integers of TLC.      *)
(***************************************************************************)
EXTENDS Integers, Sequences

CONSTANTS
  Cards,        \* what dev.getSectors() may answer
  Overrides     \* bound: capacities given with -c, 0 for none

ASSUME ParamsAssumption == Cards \subseteq Nat /\ Overrides \subseteq Nat

VARIABLES
  phase,        \* where formatSd and getFormatParams are
  card,         \* dev.getSectors()
  args,         \* forceFat32, bigClusters and overrTotSec
  capacity,     \* totSec of formatSd, in physical sectors
  params,       \* totSec, alignment, secPerClus, bytesPerSec, fatBits, heads, secPerTrk
  rsvdSecCnt, secPerFat, fsAreaSize, partStart, maxClus,
  tmpSecPerFat, \* sectors the clusters that fit now need in a FAT
  exfat,        \* the exFAT half of the union in FormatParams
  reason        \* why getFormatParams refused

fatVars == <<rsvdSecCnt, secPerFat, fsAreaSize, partStart, maxClus, tmpSecPerFat>>
vars == <<phase, card, args, capacity, params, fatVars, exfat, reason>>

-----------------------------------------------------------------------------
MinCapacity == 128

\* 2^30 units of four sectors are the 2^32 sectors a u32 cannot count.
Width32 == 1073741824
Exceeds32(n) == n \div 4 >= Width32

\* n & 0xFFFFFFFF
Low32(n) == 4 * ((n \div 4) % Width32) + (n % 4)

\* util::udivCeil
UdivCeil(n, d) == ((n - 1) \div d) + 1

\* PHY2LOG
Phy2Log(n, bps) == n \div (bps \div 512)

geometryTable == <<
  [cap |->    2, heads |->   2, secPerTrk |-> 16],
  [cap |->   16, heads |->   2, secPerTrk |-> 32],
  [cap |->   32, heads |->   4, secPerTrk |-> 32],
  [cap |->  128, heads |->   8, secPerTrk |-> 32],
  [cap |->  256, heads |->  16, secPerTrk |-> 32],
  [cap |->  504, heads |->  16, secPerTrk |-> 63],
  [cap |-> 1008, heads |->  32, secPerTrk |-> 63],
  [cap |-> 2016, heads |->  64, secPerTrk |-> 63],
  [cap |-> 4032, heads |-> 128, secPerTrk |-> 63],
  [cap |->    0, heads |-> 255, secPerTrk |-> 63] >>

\* cap4 is 1 << capLog2 in units of four sectors.
alignTable == <<
  [capLog2 |-> 14, cap4 |->       4096, fatBits |-> 12, secPerClus |->   16, alignment |->     16],
  [capLog2 |-> 17, cap4 |->      32768, fatBits |-> 12, secPerClus |->   32, alignment |->     32],
  [capLog2 |-> 19, cap4 |->     131072, fatBits |-> 16, secPerClus |->   32, alignment |->     64],
  [capLog2 |-> 21, cap4 |->     524288, fatBits |-> 16, secPerClus |->   32, alignment |->    128],
  [capLog2 |-> 22, cap4 |->    1048576, fatBits |-> 16, secPerClus |->   64, alignment |->    128],
  [capLog2 |-> 26, cap4 |->   16777216, fatBits |-> 32, secPerClus |->   64, alignment |->   8192],
  [capLog2 |-> 28, cap4 |->   67108864, fatBits |-> 64, secPerClus |->  256, alignment |->  32768],
  [capLog2 |-> 30, cap4 |->  268435456, fatBits |-> 64, secPerClus |->  512, alignment |->  65536],
  [capLog2 |-> 32, cap4 |-> 1073741824, fatBits |-> 64, secPerClus |-> 1024, alignment |-> 131072] >>

\* totSec <= 1 << capLog2
InRow(n, row) == (n - 1) \div 4 < row.cap4

\* Both loops over the tables stop at the first row that holds the capacity.
IsAlignRow(n, i) ==
  /\ InRow(n, alignTable[i])
  /\ \A j \in 1 .. i - 1 : ~InRow(n, alignTable[j])

IsGeometryRow(n, i) ==
  /\ geometryTable[i].cap = 0 \/ n \div 2048 <= geometryTable[i].cap
  /\ \A j \in 1 .. i - 1 : n \div 2048 > geometryTable[j].cap

\* What -f and -b make of an exFAT row.
FatBits(row, force) == IF force /\ row.fatBits > 32 THEN 32 ELSE row.fatBits

BytesPerSec(row, force, big) ==
  IF ~(force /\ row.fatBits > 32 /\ big) THEN 512
  ELSE IF row.capLog2 = 28 THEN 1024 ELSE IF row.capLog2 = 30 THEN 2048 ELSE 4096

\* Slip: the cluster limit of FAT32 for every card.
SecPerClusLimited(row, force) == IF row.secPerClus > 128 THEN 128 ELSE row.secPerClus

SecPerClus(row, force) ==
  IF force /\ row.fatBits > 32 /\ row.secPerClus > 128 THEN 128 ELSE row.secPerClus

NoParams == [totSec |-> 0, alignment |-> 1, secPerClus |-> 1, bytesPerSec |-> 512,
             fatBits |-> 12, heads |-> 0, secPerTrk |-> 0]

NoExfat == [partitionOffset |-> 0, volumeLength |-> 0, fatOffset |-> 0,
            fatLength |-> 0, clusterHeapOffset |-> 0, clusterCount |-> 0]

Refusals == {"size", "capacity", "reserved", "clusters", "entries", "area", "offset"}

TypeOK ==
  /\ phase \in {"start", "lookup", "place", "fit", "exfat", "check", "accepted", "refused"}
  /\ card \in Nat
  /\ args \in [forceFat32 : BOOLEAN, bigClusters : BOOLEAN, overrTotSec : Nat]
  /\ capacity \in Nat
  /\ params \in [totSec : Nat, alignment : Nat, secPerClus : Nat, bytesPerSec : Nat,
                 fatBits : {12, 16, 32, 64}, heads : Nat, secPerTrk : Nat]
  /\ \A n \in {rsvdSecCnt, secPerFat, fsAreaSize, partStart, maxClus, tmpSecPerFat} : n \in Nat
  /\ exfat \in [partitionOffset : Nat, volumeLength : Nat, fatOffset : Nat,
                fatLength : Nat, clusterHeapOffset : Nat, clusterCount : Nat]
  /\ reason \in Refusals \cup {"none"}

-----------------------------------------------------------------------------
Init ==
  /\ phase = "start"
  /\ card \in Cards
  /\ args \in [forceFat32 : BOOLEAN, bigClusters : BOOLEAN, overrTotSec : Overrides]
  /\ capacity = 0
  /\ params = NoParams
  /\ rsvdSecCnt = 0 /\ secPerFat = 0 /\ fsAreaSize = 0
  /\ partStart = 0 /\ maxClus = 0 /\ tmpSecPerFat = 0
  /\ exfat = NoExfat
  /\ reason = "none"

Refuse(why) ==
  /\ phase' = "refused"
  /\ reason' = why

\* Slip: the lower limit is not applied to the capacity given by the user.
ChooseCapacityUnchecked ==
  LET overr == args.overrTotSec
  IN  /\ phase = "start"
      /\ \/ card < MinCapacity /\ Refuse("size") /\ UNCHANGED capacity
         \/ /\ card >= MinCapacity
            /\ capacity' = IF overr > 0 /\ overr < card THEN overr ELSE card
            /\ phase' = "lookup"
            /\ UNCHANGED reason
      /\ UNCHANGED <<card, args, params, fatVars, exfat>>

\* formatSd: ERR_DEV_TOO_SMALL, or the capacity of the card or the lower one
\* given by the user.
ChooseCapacity ==
  LET overr == args.overrTotSec
  IN  /\ phase = "start"
      /\ \/ card < MinCapacity /\ Refuse("size") /\ UNCHANGED capacity
         \/ /\ card >= MinCapacity
            /\ capacity' = IF overr >= MinCapacity /\ overr < card THEN overr ELSE card
            /\ phase' = "lookup"
            /\ UNCHANGED reason
      /\ UNCHANGED <<card, args, params, fatVars, exfat>>

\* MAX_CAPACITY_FAT32 is 0xFFFFFFFF.
Supported ==
  /\ capacity # 0
  /\ ~(args.forceFat32 /\ Exceeds32(capacity))
  /\ \E i \in DOMAIN alignTable : InRow(capacity, alignTable[i])

\* The rows of both tables, and the flags; ends with the first estimate of the
\* FAT by calcFormatFat and calcFormatFat32.
UseRows ==
  \E i \in DOMAIN alignTable, j \in DOMAIN geometryTable :
    LET force   == args.forceFat32
        row     == alignTable[i]
        geo     == geometryTable[j]
        fatBits == FatBits(row, force)
        bps     == BytesPerSec(row, force, args.bigClusters)
        spc     == SecPerClus(row, force)
        totSec  == Phy2Log(capacity, bps)
    IN  /\ IsAlignRow(capacity, i) /\ IsGeometryRow(capacity, j)
        /\ params' = [totSec      |-> totSec,
                      alignment   |-> Phy2Log(row.alignment, bps),
                      secPerClus  |-> spc,
                      bytesPerSec |-> bps,
                      fatBits     |-> fatBits,
                      heads       |-> geo.heads,
                      secPerTrk   |-> geo.secPerTrk]
        /\ phase' = IF fatBits = 64 THEN "exfat" ELSE "place"
        /\ secPerFat' = IF fatBits = 64 THEN secPerFat
                        ELSE UdivCeil((Low32(totSec) \div spc) * fatBits, bps * 8)
        /\ UNCHANGED reason

LookUp ==
  /\ phase = "lookup"
  /\ IF Supported THEN UseRows ELSE Refuse("capacity") /\ UNCHANGED <<params, secPerFat>>
  /\ UNCHANGED <<card, args, capacity, rsvdSecCnt, fsAreaSize, partStart, maxClus, tmpSecPerFat, exfat>>

RootSectors == IF params.fatBits < 32 THEN UdivCeil(32 * 512, params.bytesPerSec) ELSE 0

\* Slip: the partition starts at the first alignment unit, as for FAT32.
Place16Unaligned ==
  /\ phase = "place" /\ params.fatBits <= 16
  /\ rsvdSecCnt' = 1
  /\ fsAreaSize' = 1 + (2 * secPerFat) + RootSectors
  /\ partStart' = params.alignment
  /\ phase' = "fit"
  /\ UNCHANGED <<card, args, capacity, params, secPerFat, maxClus, tmpSecPerFat, exfat, reason>>

\* calcFormatFat, top of the outer loop: the area right behind the MBR's
\* alignment unit that ends at a multiple of the alignment.
Place16 ==
  LET al    == params.alignment
      area  == 1 + (2 * secPerFat) + RootSectors
      start == al - (area % al)
  IN  /\ phase = "place" /\ params.fatBits <= 16
      /\ rsvdSecCnt' = 1
      /\ fsAreaSize' = area
      /\ partStart' = IF start = al THEN start ELSE start + al
      /\ phase' = "fit"
      /\ UNCHANGED <<card, args, capacity, params, secPerFat, maxClus, tmpSecPerFat, exfat, reason>>

\* calcFormatFat32, top of the outer loop: the reserved sectors fill the area
\* up to a multiple of the alignment; at least 9 are used by the boot sectors.
Place32 ==
  LET al   == params.alignment
      rsvd == al - ((2 * secPerFat) % al)
  IN  /\ phase = "place" /\ params.fatBits = 32
      /\ partStart' = al
      /\ rsvdSecCnt' = IF rsvd < 9 THEN rsvd + al ELSE rsvd
      /\ fsAreaSize' = rsvdSecCnt' + (2 * secPerFat)
      /\ phase' = "fit"
      /\ UNCHANGED <<card, args, capacity, params, secPerFat, maxClus, tmpSecPerFat, exfat, reason>>

ClustersFitting == (Low32(params.totSec) - partStart - fsAreaSize) \div params.secPerClus

\* Slip: the two reserved entries are forgotten.
SectorsNeededUnreserved(clusters) == UdivCeil(clusters * params.fatBits, params.bytesPerSec * 8)

SectorsNeeded(clusters) == UdivCeil((2 + clusters) * params.fatBits, params.bytesPerSec * 8)

\* Slip: the sectors gained are not reserved.
ShiftUnreserved ==
  /\ \/ /\ params.fatBits <= 16
        /\ partStart' = partStart + params.alignment
        /\ UNCHANGED fsAreaSize
     \/ /\ params.fatBits = 32
        /\ fsAreaSize' = fsAreaSize + params.alignment
        /\ UNCHANGED partStart
  /\ UNCHANGED <<phase, secPerFat, rsvdSecCnt>>

\* The FAT is too small: less clusters, by one alignment unit.
Shift ==
  /\ \/ /\ params.fatBits <= 16
        /\ partStart' = partStart + params.alignment
        /\ UNCHANGED <<fsAreaSize, rsvdSecCnt>>
     \/ /\ params.fatBits = 32
        /\ fsAreaSize' = fsAreaSize + params.alignment
        /\ rsvdSecCnt' = rsvdSecCnt + params.alignment
        /\ UNCHANGED partStart
  /\ UNCHANGED <<phase, secPerFat>>

\* Slip: FAT32 tries again with the FAT it has.
ShrinkNot ==
  /\ secPerFat' = IF params.fatBits = 32 THEN secPerFat ELSE tmpSecPerFat'
  /\ phase' = "place"
  /\ UNCHANGED <<rsvdSecCnt, fsAreaSize, partStart>>

\* The FAT is too big: once more with a smaller one.
Shrink ==
  /\ secPerFat' = IF params.fatBits = 32 THEN secPerFat - 1 ELSE tmpSecPerFat'
  /\ phase' = "place"
  /\ UNCHANGED <<rsvdSecCnt, fsAreaSize, partStart>>

\* One turn of the inner loop of both calculations.
Fit ==
  /\ phase = "fit"
  /\ maxClus' = ClustersFitting
  /\ tmpSecPerFat' = SectorsNeeded(maxClus')
  /\ \/ tmpSecPerFat' > secPerFat /\ Shift
     \/ tmpSecPerFat' < secPerFat /\ Shrink
     \/ /\ tmpSecPerFat' = secPerFat
        /\ phase' = "check"
        /\ UNCHANGED <<rsvdSecCnt, secPerFat, fsAreaSize, partStart>>
  /\ UNCHANGED <<card, args, capacity, params, exfat, reason>>

\* Slip: only the alignment unit in front of the partition is left out.
CalcFormatExFatOverlong ==
  LET al == params.alignment
  IN  /\ phase = "exfat"
      /\ exfat' = [partitionOffset   |-> al,
                   volumeLength      |-> params.totSec - al,
                   fatOffset         |-> al \div 2,
                   fatLength         |-> al \div 2,
                   clusterHeapOffset |-> al,
                   clusterCount      |-> (params.totSec - al) \div params.secPerClus]
      /\ phase' = "check"
      /\ UNCHANGED <<card, args, capacity, params, fatVars, reason>>

CalcFormatExFat ==
  LET al == params.alignment
  IN  /\ phase = "exfat"
      /\ exfat' = [partitionOffset   |-> al,
                   volumeLength      |-> params.totSec - al,
                   fatOffset         |-> al \div 2,
                   fatLength         |-> al \div 2,
                   clusterHeapOffset |-> al,
                   clusterCount      |-> (params.totSec - (al * 2)) \div params.secPerClus]
      /\ phase' = "check"
      /\ UNCHANGED <<card, args, capacity, params, fatVars, reason>>

\* The checks getFormatParams makes on what was calculated, in its order.
TooManyReserved == rsvdSecCnt > 65535

\* Slip: only the upper limits are checked.
TooManyClusters ==
  \/ params.fatBits = 12 /\ maxClus > 4084
  \/ params.fatBits = 16 /\ maxClus > 65524
  \/ params.fatBits = 32 /\ maxClus > 268435446

\* FAT12_MAX_CLUS, FAT16_MAX_CLUS and FAT32_MAX_CLUS with the lower limits.
WrongClusterCount ==
  \/ params.fatBits = 12 /\ maxClus > 4084
  \/ params.fatBits = 16 /\ (maxClus < 4087 \/ maxClus > 65524)
  \/ params.fatBits = 32 /\ (maxClus < 65525 \/ maxClus > 268435446)

FatVerdict ==
  IF TooManyReserved THEN "reserved"
  ELSE IF WrongClusterCount THEN "clusters"
  ELSE IF (secPerFat * params.bytesPerSec) \div (params.fatBits \div 8) < maxClus + 2 THEN "entries"
  ELSE IF fsAreaSize # rsvdSecCnt + (2 * secPerFat) + RootSectors THEN "area"
  ELSE "none"

\* EXFAT_MAX_CLUS is 2 * 2147483642 + 1.
ExfatVerdict ==
  IF exfat.clusterCount \div 2 > 2147483642 THEN "clusters"
  ELSE IF (exfat.fatLength * params.bytesPerSec) \div 4 < exfat.clusterCount + 2 THEN "entries"
  ELSE IF exfat.fatOffset < 24 \/ exfat.fatOffset > exfat.clusterHeapOffset - exfat.fatLength THEN "offset"
  ELSE "none"

Check ==
  LET verdict == IF params.fatBits = 64 THEN ExfatVerdict ELSE FatVerdict
  IN  /\ phase = "check"
      /\ \/ verdict # "none" /\ Refuse(verdict)
         \/ verdict = "none" /\ phase' = "accepted" /\ UNCHANGED reason
      /\ UNCHANGED <<card, args, capacity, params, fatVars, exfat>>

Next == ChooseCapacity \/ LookUp \/ Place16 \/ Place32 \/ Fit \/ CalcFormatExFat \/ Check

Spec == Init /\ [][Next]_vars

-----------------------------------------------------------------------------
(* Properties.                                                             *)

UsesFat == params.fatBits <= 32

DataStart == partStart + fsAreaSize

(***************************************************************************)
(* No u32 of the calculations wraps: what is left behind the file system   *)
(* area is never negative while the loops move that area about, and no     *)
(* product exceeds 32 bits, here or where makeFsFat turns it into bytes.   *)
(***************************************************************************)
NoWrap ==
  /\ phase \in {"place", "fit"} =>
       /\ ~Exceeds32(params.totSec)
       /\ ~Exceeds32((params.totSec \div params.secPerClus) * params.fatBits)
  /\ phase = "fit" =>
       /\ DataStart <= params.totSec
       /\ ~Exceeds32((2 + ClustersFitting) * params.fatBits)
  /\ phase = "accepted" /\ UsesFat =>
       /\ ~Exceeds32(secPerFat * params.bytesPerSec)
       /\ ~Exceeds32((DataStart + params.secPerClus) * params.bytesPerSec)

(***************************************************************************)
(* Accepted FAT parameters describe a partition that is on the card, does  *)
(* not reach the MBR, has room for the boot sectors in front of the FATs   *)
(* and starts its data area at a multiple of the alignment.                *)
(***************************************************************************)
FatLayout ==
  phase = "accepted" /\ UsesFat =>
    /\ params.totSec * (params.bytesPerSec \div 512) <= card
    /\ DataStart + (maxClus * params.secPerClus) <= params.totSec
    /\ partStart >= params.alignment
    /\ DataStart % params.alignment = 0
    /\ fsAreaSize = rsvdSecCnt + (2 * secPerFat) + RootSectors
    /\ rsvdSecCnt >= (IF params.fatBits = 32 THEN 9 ELSE 1)

\* The FAT of an accepted layout holds an entry for every cluster and the two
\* reserved ones, counted in bits, and would not with one sector less.
FatIsExact ==
  phase = "accepted" /\ UsesFat =>
    LET need == (2 + maxClus) * params.fatBits
        sec  == params.bytesPerSec * 8
    IN  (secPerFat - 1) * sec < need /\ need <= secPerFat * sec

\* The same for exFAT: boot regions, FAT and cluster heap follow each other
\* without overlap, the heap is aligned and ends on the card, and the FAT has
\* an entry for every cluster.
ExfatLayout ==
  phase = "accepted" /\ ~UsesFat =>
    /\ params.totSec <= card
    /\ exfat.fatOffset >= 24
    /\ exfat.fatOffset + exfat.fatLength <= exfat.clusterHeapOffset
    /\ (exfat.partitionOffset + exfat.clusterHeapOffset) % params.alignment = 0
    /\ exfat.clusterHeapOffset + (exfat.clusterCount * params.secPerClus) <= exfat.volumeLength
    /\ exfat.partitionOffset + exfat.volumeLength = params.totSec
    /\ 4 * (exfat.clusterCount + 2) <= exfat.fatLength * params.bytesPerSec

\* The allocation bitmap of an accepted exFAT layout takes a single cluster.
\* writeContinuousExfatChain relies on it: it links the clusters of a longer
\* chain by numbers that do not count the two reserved entries of the FAT.
BitmapFitsOneCluster ==
  phase = "accepted" /\ ~UsesFat =>
    exfat.clusterCount <= params.secPerClus * params.bytesPerSec * 8

\* "Something probably went wrong while calculating" never happens: what the
\* calculations produce passes the checks made on the FAT and the areas, for
\* every capacity; only capacities and cluster counts are ever refused.
CalculationsAreRight == reason \notin {"entries", "area", "offset"}

\* getFormatParams returns, with parameters or a refusal.
Terminates == <>(phase \in {"accepted", "refused"})

(***************************************************************************)
(* What the comments on the tables say.                                    *)
(***************************************************************************)

\* "<=64 MiB", "<=2 GiB", "<=32 GiB", ...: each capacity up to the limit of its
\* row can be formatted with the row's parameters.
EveryRowFormats == reason \in {"none", "size", "capacity"} \/ args.forceFat32
=============================================================================
