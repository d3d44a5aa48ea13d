-------------------------- MODULE FsPrinterProofs --------------------------
(***************************************************************************)
(* Proofs about what is computed from accepted parameters, on top of the   *)
(* invariant of the searches (FormatParamsProofs): the partition entry,    *)
(* the boot sector makeFsFat and makeFsExFat write, the reserved entries   *)
(* of a FAT, the boot checksum, and what fsPrinter makes of them, for      *)
(* every capacity and every flag.                                          *)
(***************************************************************************)
EXTENDS FormatParamsProofs, FsPrinter, SequenceTheorems, WellFoundedInduction

-----------------------------------------------------------------------------
(* The partition entry names the sectors the file system is written to.   *)

Geometry(p, heads, secPerTrk) == p.heads = heads /\ p.secPerTrk = secPerTrk

GeometryFound(p) ==
  \/ Geometry(p,   2, 16)
  \/ Geometry(p,   2, 32)
  \/ Geometry(p,   4, 32)
  \/ Geometry(p,   8, 32)
  \/ Geometry(p,  16, 32)
  \/ Geometry(p,  16, 63)
  \/ Geometry(p,  32, 63)
  \/ Geometry(p,  64, 63)
  \/ Geometry(p, 128, 63)
  \/ Geometry(p, 255, 63)

\* What Inv does not say: the whole capacity is used, the geometry is a row of
\* its table, and what is accepted has passed the checks.
TableInv ==
  phase \in Calculated =>
    params.totSec = Phy2Log(capacity, params.bytesPerSec) /\ GeometryFound(params)

CheckedInv == phase = "accepted" /\ UsesFat => ~TooManyReserved /\ ~WrongClusterCount

\* The entry is the one of the accepted parameters.
EntryInv == entry # NoEntry => phase = "accepted" /\ entry = PartitionEntry

MbrInv == Inv /\ TableInv /\ CheckedInv /\ EntryInv

LEMMA GeometryRows ==
  ASSUME NEW j \in DOMAIN geometryTable, NEW p \in ParamSet,
         p.heads = geometryTable[j].heads, p.secPerTrk = geometryTable[j].secPerTrk
  PROVE  GeometryFound(p)
<1>1. j \in 1 .. 10  BY SMT DEF geometryTable
<1>2. p.heads \in Nat /\ p.secPerTrk \in Nat  BY DEF ParamSet
<1>3. CASE j \in 1 .. 5  BY <1>2, <1>3, SMT DEF geometryTable, GeometryFound, Geometry
<1>4. CASE j \in 6 .. 10  BY <1>2, <1>4, SMT DEF geometryTable, GeometryFound, Geometry
<1> QED  BY <1>1, <1>3, <1>4, SMT

LEMMA TableStep == Inv /\ Inv' /\ TableInv /\ [Next]_vars => TableInv'
<1> SUFFICES ASSUME Inv, Inv', TableInv, [Next]_vars PROVE TableInv'  OBVIOUS
<1>1. CASE ChooseCapacity
  <2>1. phase' \in {"lookup", "refused"}  BY <1>1 DEF ChooseCapacity, Refuse
  <2> QED  BY <2>1, SMT DEF TableInv, Calculated
<1>2. CASE LookUp
  <2>1. CASE Supported
    <3>1. UseRows /\ capacity' = capacity  BY <1>2, <2>1 DEF LookUp
    <3>2. PICK i \in DOMAIN alignTable, j \in DOMAIN geometryTable :
            /\ params'.bytesPerSec = BytesPerSec(alignTable[i], args.forceFat32, args.bigClusters)
            /\ params'.totSec = Phy2Log(capacity, params'.bytesPerSec)
            /\ params'.heads = geometryTable[j].heads
            /\ params'.secPerTrk = geometryTable[j].secPerTrk
      BY <3>1, SMT DEF UseRows
    <3>3. params' \in ParamSet  BY DEF Inv, TypeOK, ParamSet
    <3>4. GeometryFound(params')  BY <3>2, <3>3, GeometryRows
    <3> QED  BY <3>1, <3>2, <3>4, Zenon DEF TableInv, GeometryFound, Geometry
  <2>2. CASE ~Supported
    <3>1. phase' = "refused"  BY <1>2, <2>2, Zenon DEF LookUp, Refuse
    <3> QED  BY <3>1, SMT DEF TableInv, Calculated
  <2> QED  BY <2>1, <2>2
<1>3. CASE Place16 \/ Place32 \/ Fit \/ CalcFormatExFat \/ Check
  <2>1. capacity' = capacity /\ params' = params /\ phase \in Calculated
    BY <1>3, SMT DEF Place16, Place32, Fit, CalcFormatExFat, Check, Calculated
  <2> QED  BY <2>1, Zenon DEF TableInv, GeometryFound, Geometry
<1>4. CASE UNCHANGED vars
  BY <1>4, Zenon DEF vars, TableInv, GeometryFound, Geometry
<1> QED  BY <1>1, <1>2, <1>3, <1>4, Zenon DEF Next

LEMMA CheckedStep == Inv /\ CheckedInv /\ [Next]_vars => CheckedInv'
<1> SUFFICES ASSUME Inv, CheckedInv, [Next]_vars PROVE CheckedInv'  OBVIOUS
<1>1. CASE Check
  <2>1. /\ params' = params /\ maxClus' = maxClus /\ rsvdSecCnt' = rsvdSecCnt
        /\ phase' = "accepted" /\ params.fatBits # 64 => FatVerdict = "none"
    BY <1>1, Zenon DEF Check, Refuse, fatVars
  <2>2. UsesFat => params.fatBits # 64  BY SMT DEF UsesFat
  <2>3. FatVerdict = "none" => ~TooManyReserved /\ ~WrongClusterCount  BY Zenon DEF FatVerdict
  <2> QED  BY <2>1, <2>2, <2>3 DEF CheckedInv, UsesFat, TooManyReserved, WrongClusterCount
<1>2. CASE ChooseCapacity \/ LookUp \/ Place16 \/ Place32 \/ Fit \/ CalcFormatExFat
  <2>1. phase' # "accepted"
    BY <1>2, SMT DEF ChooseCapacity, LookUp, UseRows, Refuse, Place16, Place32, Fit, Shift, Shrink,
                     CalcFormatExFat
  <2> QED  BY <2>1 DEF CheckedInv
<1>3. CASE UNCHANGED vars
  <2>1. /\ params' = params /\ maxClus' = maxClus /\ rsvdSecCnt' = rsvdSecCnt
        /\ phase' = phase
    BY <1>3 DEF vars, fatVars
  <2> QED  BY <2>1, SMT DEF CheckedInv, UsesFat, TooManyReserved, WrongClusterCount
<1> QED  BY <1>1, <1>2, <1>3, Zenon DEF Next

\* Behind an accepting run the calculations stand still.
LEMMA AcceptedStays == phase = "accepted" /\ [Next]_vars => UNCHANGED vars
BY SMT DEF Next, ChooseCapacity, LookUp, Place16, Place32, Fit, CalcFormatExFat, Check

LEMMA EntryKept == UNCHANGED vars => PartitionEntry' = PartitionEntry
<1> SUFFICES ASSUME UNCHANGED vars PROVE PartitionEntry' = PartitionEntry  OBVIOUS
<1>1. params' = params /\ partStart' = partStart /\ exfat' = exfat  BY DEF vars, fatVars
<1> QED  BY <1>1, SMT DEF PartitionEntry, InCardSectors, UsesFat

LEMMA EntryStep == EntryInv /\ [MbrNext]_mbrVars => EntryInv'
<1> SUFFICES ASSUME EntryInv, [MbrNext]_mbrVars PROVE EntryInv'  OBVIOUS
<1>1. CASE CreatePartition
  <2>1. phase' = "accepted" /\ entry' = PartitionEntry /\ UNCHANGED vars
    BY <1>1, Zenon DEF CreatePartition, vars
  <2> QED  BY <2>1, EntryKept, Zenon DEF EntryInv
<1>2. CASE [Next]_vars /\ entry' = entry
  <2>1. CASE entry = NoEntry  BY <1>2, <2>1, Zenon DEF EntryInv, NoEntry
  <2>2. CASE entry # NoEntry
    <3>1. UNCHANGED vars  BY <1>2, <2>2, AcceptedStays DEF EntryInv
    <3> QED  BY <1>2, <2>2, <3>1, EntryKept, Zenon DEF EntryInv, vars
  <2> QED  BY <2>1, <2>2
<1> QED  BY <1>1, <1>2, Zenon DEF MbrNext, mbrVars

\* The parameters, and the entry if there is one, are what they should be.
THEOREM MbrInvariant == MbrSpec => []MbrInv
<1>1. MbrInit => MbrInv
  <2> SUFFICES ASSUME MbrInit PROVE MbrInv  OBVIOUS
  <2>1. Init /\ entry = NoEntry /\ phase = "start"  BY DEF MbrInit, Init
  <2>2. TableInv /\ CheckedInv /\ EntryInv
    BY <2>1, SMT DEF TableInv, CheckedInv, EntryInv, Calculated
  <2> QED  BY <2>1, <2>2, InitInv DEF MbrInv
<1>2. MbrInv /\ [MbrNext]_mbrVars => MbrInv'
  <2> SUFFICES ASSUME MbrInv, [MbrNext]_mbrVars PROVE MbrInv'  OBVIOUS
  <2>1. [Next]_vars  BY Zenon DEF MbrNext, mbrVars, CreatePartition
  <2>2. Inv'  BY <2>1, NextKeepsInv DEF MbrInv
  <2> QED  BY <2>1, <2>2, TableStep, CheckedStep, EntryStep DEF MbrInv
<1> QED  BY <1>1, <1>2, PTL DEF MbrSpec

-----------------------------------------------------------------------------
(* Arithmetic: sectors of the file system are one to eight of the card, and *)
(* an address by cylinder, head and sector is one in mixed radix.           *)

Ratios == {1, 2, 4, 8}

LEMMA Scaling ==
  ASSUME NEW k \in Ratios, NEW s \in Nat, NEW n \in Nat, NEW t \in Nat, s + n <= t
  PROVE  /\ (s * k) * 512 = (512 * k) * s
         /\ (s * k) + (k * n) <= (s * k) + ((t * k) - (s * k))
         /\ (s * k) + ((t * k) - (s * k)) = t * k
<1>1. CASE k = 1  BY <1>1, SMT
<1>2. CASE k = 2  BY <1>2, SMT
<1>3. CASE k = 4  BY <1>3, SMT
<1>4. CASE k = 8  BY <1>4, SMT
<1> QED  BY <1>1, <1>2, <1>3, <1>4 DEF Ratios

LEMMA WholeCard ==
  ASSUME NEW k \in Ratios, NEW cap \in Nat
  PROVE  (cap \div k) * k <= cap /\ cap - k < (cap \div k) * k
<1>1. CASE k = 1  BY <1>1, SMT
<1>2. CASE k = 2  BY <1>2, SMT
<1>3. CASE k = 4  BY <1>3, SMT
<1>4. CASE k = 8  BY <1>4, SMT
<1> QED  BY <1>1, <1>2, <1>3, <1>4 DEF Ratios

LEMMA ScalingDown ==
  ASSUME NEW k \in Ratios, NEW s \in Nat, NEW t \in Nat
  PROVE  ((t * k) - (s * k)) \div k = t - s
<1>1. CASE k = 1  BY <1>1, SMT
<1>2. CASE k = 2  BY <1>2, SMT
<1>3. CASE k = 4  BY <1>3, SMT
<1>4. CASE k = 8  BY <1>4, SMT
<1> QED  BY <1>1, <1>2, <1>3, <1>4 DEF Ratios

Addresses == (0 .. 1023) \X (0 .. 254) \X (0 .. 63)

ChsIsRight(lba, h, spt) ==
  LET chs == Lba2Chs(lba, h, spt)
  IN  /\ IF lba < 1024 * h * spt THEN (((chs[1] * h) + chs[2]) * spt) + chs[3] - 1 = lba
         ELSE chs = Beyond
      /\ chs \in Addresses

LEMMA ChsNamed ==
  ASSUME NEW lba, NEW h, NEW spt, NEW chs, chs = Lba2Chs(lba, h, spt), ChsIsRight(lba, h, spt)
  PROVE  /\ IF lba < 1024 * h * spt THEN (((chs[1] * h) + chs[2]) * spt) + chs[3] - 1 = lba
            ELSE chs = Beyond
         /\ chs \in Addresses
BY SMT DEF ChsIsRight

LEMMA ChsRight ==
  ASSUME NEW p \in ParamSet, GeometryFound(p), NEW lba \in Nat
  PROVE  ChsIsRight(lba, p.heads, p.secPerTrk)
<1> USE DEF ChsIsRight, Lba2Chs, SectorNumber, Addressable, Beyond, Addresses
<1>1. ChsIsRight(lba, 2, 16)    BY SMT
<1>2. ChsIsRight(lba, 2, 32)    BY SMT
<1>3. ChsIsRight(lba, 4, 32)    BY SMT
<1>4. ChsIsRight(lba, 8, 32)    BY SMT
<1>5. ChsIsRight(lba, 16, 32)   BY SMT
<1>6. ChsIsRight(lba, 16, 63)   BY SMT
<1>7. ChsIsRight(lba, 32, 63)   BY SMT
<1>8. ChsIsRight(lba, 64, 63)   BY SMT
<1>9. ChsIsRight(lba, 128, 63)  BY SMT
<1>10. ChsIsRight(lba, 255, 63) BY SMT
<1> HIDE DEF ChsIsRight
<1> QED  BY <1>1, <1>2, <1>3, <1>4, <1>5, <1>6, <1>7, <1>8, <1>9, <1>10, Zenon DEF GeometryFound, Geometry

-----------------------------------------------------------------------------
(* The layout of an entry, in linear terms.                                *)

Ratio == params.bytesPerSec \div 512

\* The first sector of the partition and the areas behind it.
Start    == IF UsesFat THEN partStart ELSE exfat.partitionOffset
FsArea   == IF UsesFat THEN fsAreaSize ELSE exfat.clusterHeapOffset
Clusters == params.secPerClus * (IF UsesFat THEN maxClus ELSE exfat.clusterCount)

LEMMA EntryFacts ==
  ASSUME MbrInv, entry # NoEntry
  PROVE  /\ params \in ParamSet /\ GeometryFound(params)
         /\ Ratio \in Ratios /\ params.bytesPerSec = 512 * Ratio
         /\ Start \in Nat /\ FsArea \in Nat /\ Clusters \in Nat
         /\ params.totSec \in Nat /\ capacity \in Nat
         /\ Start + FsArea + Clusters <= params.totSec
         /\ params.totSec = capacity \div Ratio
         /\ params.totSec >= 1
         /\ entry = PartitionEntry
         /\ phase = "accepted"
<1>1. /\ phase = "accepted" /\ entry = PartitionEntry
      /\ params \in ParamSet /\ GeometryFound(params) /\ capacity \in Nat
      /\ params.totSec = capacity \div Ratio
      /\ params.totSec \in Nat
  <2>1. phase = "accepted" /\ entry = PartitionEntry  BY DEF MbrInv, EntryInv
  <2>2. TypeOK /\ GeometryFound(params) /\ params.totSec = Phy2Log(capacity, params.bytesPerSec)
    BY <2>1, Zenon DEF MbrInv, Inv, TableInv, Calculated
  <2> QED  BY <2>1, <2>2, Zenon DEF TypeOK, ParamSet, Phy2Log, Ratio
<1>2. CASE UsesFat
  <2>1. /\ SmallFat(params) \/ BigFat(params)
        /\ DataStart \in Nat /\ DataStart <= params.totSec /\ maxClus \in Nat
        /\ maxClus * params.secPerClus <= params.totSec - DataStart
    BY <1>1, <1>2, FoundFacts DEF MbrInv
  <2>2. params.bytesPerSec \in SectorSizes /\ params.secPerClus \in ClusterSizes
    BY <1>1, <2>1, ModeFacts, Zenon
  <2>3. Ratio \in Ratios /\ params.bytesPerSec = 512 * Ratio
    BY <2>2, SMT DEF SectorSizes, Ratio, Ratios
  <2>4. partStart \in Nat /\ fsAreaSize \in Nat /\ DataStart = partStart + fsAreaSize
    BY Types DEF MbrInv, Inv, DataStart
  <2>5. Clusters \in Nat /\ Clusters <= params.totSec - DataStart
    BY <1>2, <2>1, <2>2, SMT DEF Clusters, ClusterSizes
  <2>6. params.totSec >= 1
    BY <1>1, <2>1, SMT DEF SmallFat, BigFat, Mode
  <2> QED  BY <1>1, <1>2, <2>1, <2>3, <2>4, <2>5, <2>6, SMT DEF Start, FsArea
<1>3. CASE ~UsesFat
  <2>1. /\ Exfat(params)
        /\ params.alignment \in Nat
        /\ exfat.partitionOffset = params.alignment
        /\ exfat.clusterHeapOffset = params.alignment
        /\ exfat.clusterCount = (params.totSec - (params.alignment * 2)) \div params.secPerClus
    BY <1>1, <1>3, ExfatFacts DEF MbrInv
  <2>2. params.bytesPerSec = 512 * Ratio /\ Ratio \in Ratios
    BY <2>1, SMT DEF Exfat, Mode, Ratio, Ratios
  <2>3. Start = params.alignment /\ FsArea = params.alignment
        /\ Clusters = params.secPerClus * ((params.totSec - (params.alignment * 2)) \div params.secPerClus)
    BY <1>3, <2>1 DEF Start, FsArea, Clusters
  <2>4. Clusters \in Nat /\ (2 * params.alignment) + Clusters <= params.totSec /\ params.totSec >= 1
    BY <1>1, <2>1, <2>3, SMT DEF Exfat, Mode
  <2> QED  BY <1>1, <2>1, <2>2, <2>3, <2>4, SMT
<1> QED  BY <1>2, <1>3

LEMMA EntryFields ==
  ASSUME MbrInv, entry # NoEntry
  PROVE  /\ entry.startLBA = Start * Ratio
         /\ entry.sectors = (params.totSec * Ratio) - (Start * Ratio)
         /\ entry.startCHS = Lba2Chs(Start * Ratio, params.heads, params.secPerTrk)
         /\ entry.endCHS = Lba2Chs((params.totSec * Ratio) - 1, params.heads, params.secPerTrk)
         /\ entry.type = PartitionType(params.fatBits, entry.sectors, params.totSec * Ratio)
<1>1. entry = PartitionEntry  BY EntryFacts
<1>2. /\ InCardSectors(Start) = Start * Ratio
      /\ InCardSectors(params.totSec) = params.totSec * Ratio
  BY Zenon DEF InCardSectors, Log2Phy, Ratio
<1>3. PartitionEntry =
        LET size == InCardSectors(params.totSec) - InCardSectors(Start)
        IN  [type     |-> PartitionType(params.fatBits, size, InCardSectors(params.totSec)),
             startCHS |-> Lba2Chs(InCardSectors(Start), params.heads, params.secPerTrk),
             endCHS   |-> Lba2Chs(InCardSectors(params.totSec) - 1, params.heads, params.secPerTrk),
             startLBA |-> InCardSectors(Start),
             sectors  |-> size]
  BY Zenon DEF PartitionEntry, Start
<1> QED  BY <1>1, <1>2, <1>3, SMT

LEMMA InvHolds == MbrInv => PartitionHoldsFs
<1> SUFFICES ASSUME MbrInv, entry # NoEntry PROVE PartitionHoldsFs  BY DEF PartitionHoldsFs
<1>1. /\ (Start * Ratio) * 512 = (512 * Ratio) * Start
      /\ (Start * Ratio) + (Ratio * (FsArea + Clusters)) <= (Start * Ratio) + entry.sectors
      /\ (Start * Ratio) + entry.sectors <= capacity
      /\ capacity - Ratio < (Start * Ratio) + entry.sectors
  <2> DEFINE k == Ratio
             s == Start
             n == FsArea + Clusters
             t == params.totSec
             size == (t * k) - (s * k)
  <2>1. /\ k \in Ratios /\ s \in Nat /\ n \in Nat /\ t \in Nat /\ capacity \in Nat
        /\ s + n <= t /\ t = capacity \div k
    BY EntryFacts
  <2> HIDE DEF k, s, n, t
  <2>2. /\ (s * k) * 512 = (512 * k) * s
        /\ (s * k) + (k * n) <= (s * k) + size
        /\ (s * k) + size = t * k
        /\ t * k <= capacity /\ capacity - k < t * k
    BY <2>1, Scaling, WholeCard
  <2>3. entry.sectors = size  BY EntryFields DEF k, s, t
  <2> QED  BY <2>2, <2>3 DEF k, s, n
<1>2. /\ entry.startLBA * 512 = params.bytesPerSec * Start
      /\ entry.startLBA + (Ratio * (FsArea + Clusters)) <= entry.startLBA + entry.sectors
      /\ entry.startLBA + entry.sectors <= capacity
      /\ capacity - Ratio < entry.startLBA + entry.sectors
  <2>1. entry.startLBA = Start * Ratio /\ params.bytesPerSec = 512 * Ratio
    BY EntryFacts, EntryFields
  <2> QED  BY <1>1, <2>1
<1> QED  BY <1>2, Zenon DEF PartitionHoldsFs, Start, FsArea, Clusters, Ratio

LEMMA EntryAddresses ==
  ASSUME MbrInv, entry # NoEntry
  PROVE  /\ entry.startLBA \in Nat /\ entry.sectors \in Nat
         /\ entry.startLBA + entry.sectors - 1 = (params.totSec * Ratio) - 1
         /\ (params.totSec * Ratio) - 1 \in Nat
<1>1. Ratio \in Nat \ {0} /\ Start \in Nat /\ params.totSec \in Nat \ {0} /\ Start <= params.totSec
  BY EntryFacts, SMT DEF Ratios
<1> DEFINE a == Start * Ratio
           b == params.totSec * Ratio
<1>2. a \in Nat /\ b \in Nat \ {0} /\ a <= b
  <2>1. Ratio \in Ratios  BY EntryFacts
  <2> QED  BY <1>1, <2>1, SMT DEF Ratios
<1>3. entry.startLBA = a /\ entry.sectors = b - a  BY EntryFields
<1> HIDE DEF a, b
<1>4. a + (b - a) - 1 = b - 1 /\ b - 1 \in Nat /\ b - a \in Nat  BY <1>2, SMT
<1> QED  BY <1>2, <1>3, <1>4 DEF b

LEMMA InvChs == MbrInv => ChsAgreesWithLba
<1> SUFFICES ASSUME MbrInv, entry # NoEntry PROVE ChsAgreesWithLba  BY DEF ChsAgreesWithLba
<1> DEFINE last == entry.startLBA + entry.sectors - 1
<1>1. entry.startLBA \in Nat /\ last \in Nat  BY EntryAddresses
<1>2. /\ entry.startCHS = Lba2Chs(entry.startLBA, params.heads, params.secPerTrk)
      /\ entry.endCHS = Lba2Chs(last, params.heads, params.secPerTrk)
  BY EntryFields, EntryAddresses
<1>3. /\ ChsIsRight(entry.startLBA, params.heads, params.secPerTrk)
      /\ ChsIsRight(last, params.heads, params.secPerTrk)
  BY <1>1, EntryFacts, ChsRight
<1> HIDE DEF last
<1>4. /\ IF entry.startLBA < 1024 * params.heads * params.secPerTrk
           THEN Chs2Lba(entry.startCHS) = entry.startLBA ELSE entry.startCHS = Beyond
      /\ IF last < 1024 * params.heads * params.secPerTrk
           THEN Chs2Lba(entry.endCHS) = last ELSE entry.endCHS = Beyond
  BY <1>2, <1>3, ChsNamed DEF Chs2Lba
<1> QED  BY <1>4, Zenon DEF ChsAgreesWithLba, last

LEMMA InvDrivers == MbrInv => DriversAgree
<1> SUFFICES ASSUME MbrInv, entry # NoEntry PROVE DriversAgree  BY DEF DriversAgree
<1>1. params.fatBits \in {12, 16, 32, 64} /\ (UsesFat <=> params.fatBits # 64)
  BY EntryFacts, SMT DEF ParamSet, UsesFat
<1>2. /\ entry.type = 7 <=> ~UsesFat
      /\ UsesFat => (entry.type = 1 <=> params.fatBits = 12)
      /\ UsesFat => (entry.type \in {11, 12} <=> params.fatBits = 32)
  <2> DEFINE n == entry.sectors
             t == params.totSec * Ratio
  <2>1. entry.type = PartitionType(params.fatBits, n, t)  BY EntryFields
  <2> HIDE DEF n, t
  <2>2. CASE params.fatBits = 12  BY <1>1, <2>1, <2>2, SMT DEF PartitionType
  <2>3. CASE params.fatBits = 16  BY <1>1, <2>1, <2>3, SMT DEF PartitionType
  <2>4. CASE params.fatBits = 32  BY <1>1, <2>1, <2>4, SMT DEF PartitionType
  <2>5. CASE params.fatBits = 64  BY <1>1, <2>1, <2>5, SMT DEF PartitionType
  <2> QED  BY <1>1, <2>2, <2>3, <2>4, <2>5
<1>3. ASSUME UsesFat
      PROVE  LET sectors  == Phy2Log(entry.sectors, params.bytesPerSec)
                 clusters == (sectors - (rsvdSecCnt + (2 * secPerFat) + RootSectors)) \div params.secPerClus
             IN  clusters = maxClus
  <2>1. Phy2Log(entry.sectors, params.bytesPerSec) = params.totSec - partStart
    <3>1. ((params.totSec * Ratio) - (Start * Ratio)) \div Ratio = params.totSec - Start
      <4>1. Ratio \in Ratios /\ Start \in Nat /\ params.totSec \in Nat  BY EntryFacts
      <4> QED  BY <4>1, ScalingDown
    <3>2. Phy2Log(entry.sectors, params.bytesPerSec) = entry.sectors \div Ratio
      BY Zenon DEF Phy2Log, Ratio
    <3>3. entry.sectors = (params.totSec * Ratio) - (Start * Ratio)  BY EntryFields
    <3>4. Start = partStart  BY <1>3 DEF Start
    <3>5. Phy2Log(entry.sectors, params.bytesPerSec) = params.totSec - Start
      BY <3>1, <3>2, <3>3
    <3> QED  BY <3>4, <3>5
  <2>2. /\ fsAreaSize = rsvdSecCnt + (2 * secPerFat) + RootSectors
        /\ maxClus = (params.totSec - DataStart) \div params.secPerClus
    BY <1>3, EntryFacts, Zenon DEF MbrInv, Inv, PlacedInv, FoundInv
  <2>3. (params.totSec - partStart) - fsAreaSize = params.totSec - DataStart
    <3>1. partStart \in Nat /\ fsAreaSize \in Nat /\ params.totSec \in Nat
      BY EntryFacts, Types DEF MbrInv, Inv
    <3> QED  BY <3>1, SMT DEF DataStart
  <2> QED  BY <2>1, <2>2, <2>3, Zenon
<1>4. ASSUME UsesFat
      PROVE  /\ params.fatBits = 12 <=> maxClus < 4085
             /\ params.fatBits = 32 <=> maxClus >= 65525
             /\ params.fatBits < 32 => secPerFat <= 65535
             /\ rsvdSecCnt <= 65535
  <2>1. ~TooManyReserved /\ ~WrongClusterCount  BY <1>4, EntryFacts DEF MbrInv, CheckedInv
  <2>2. /\ maxClus \in Nat /\ rsvdSecCnt \in Nat /\ secPerFat \in Nat
        /\ SmallFat(params) \/ BigFat(params)
        /\ (secPerFat - 1) * (params.bytesPerSec * 8) < (2 + maxClus) * params.fatBits
    BY <1>4, EntryFacts, FoundFacts, Types DEF MbrInv, Inv
  <2>3. params.fatBits # 32 => params.bytesPerSec = 512
    <3>1. PlainSectors(params)  BY <2>2, EntryFacts, ModeFacts
    <3> QED  BY <3>1, Zenon DEF PlainSectors
  <2>4. CASE params.fatBits = 12  BY <2>1, <2>2, <2>3, <2>4, SMT DEF TooManyReserved, WrongClusterCount
  <2>5. CASE params.fatBits = 16  BY <2>1, <2>2, <2>3, <2>5, SMT DEF TooManyReserved, WrongClusterCount
  <2>6. CASE params.fatBits = 32  BY <2>1, <2>2, <2>6, SMT DEF TooManyReserved, WrongClusterCount
  <2> QED  BY <1>1, <1>4, <2>4, <2>5, <2>6
<1> DEFINE sectors  == Phy2Log(entry.sectors, params.bytesPerSec)
           clusters == (sectors - (rsvdSecCnt + (2 * secPerFat) + RootSectors)) \div params.secPerClus
<1>5. UsesFat => clusters = maxClus  BY <1>3
<1> HIDE DEF clusters
<1>6. UsesFat =>
        /\ clusters = maxClus
        /\ entry.type = 1 <=> clusters < 4085
        /\ entry.type \in {11, 12} <=> clusters >= 65525
        /\ params.fatBits < 32 => secPerFat <= 65535
        /\ rsvdSecCnt <= 65535
  BY <1>2, <1>4, <1>5
<1> QED  BY <1>2, <1>6, SMT DEF DriversAgree, clusters

\* The last sector of the card has a number of 32 bits.
LEMMA LastSector ==
  ASSUME MbrInv, entry # NoEntry
  PROVE  ~Exceeds32(entry.startLBA + entry.sectors - 1)
<1> DEFINE last == (params.totSec * Ratio) - 1
<1>1. params.totSec \in Nat /\ phase = "accepted" /\ MbrInv  BY EntryFacts
<1>2. ~Exceeds32(last)
  <2>1. SmallFat(params) \/ BigFat(params) \/ Exfat(params)
    BY <1>1, Zenon DEF MbrInv, Inv, ModeInv
  <2>2. CASE SmallFat(params)  BY <1>1, <2>2, SMT DEF SmallFat, Mode, Ratio, Exceeds32, Width32
  <2>3. CASE BigFat(params)  BY <1>1, <2>3, SMT DEF BigFat, Mode, Ratio, Exceeds32, Width32
  <2>4. CASE Exfat(params)  BY <1>1, <2>4, SMT DEF Exfat, Mode, Ratio, Exceeds32, Width32
  <2> QED  BY <2>1, <2>2, <2>3, <2>4
<1>3. entry.startLBA + entry.sectors - 1 = last  BY EntryAddresses
<1> QED  BY <1>2, <1>3

LEMMA InvMbrType == MbrInv => MbrTypeOK
<1> SUFFICES ASSUME MbrInv PROVE MbrTypeOK  OBVIOUS
<1>1. CASE entry = NoEntry
  <2>1. <<0, 0, 0>> \in (0 .. 1023) \X (0 .. 254) \X (0 .. 63)  BY SMT
  <2> QED  BY <1>1, <2>1, SMT DEF MbrTypeOK, NoEntry, Exceeds32, Width32
<1>2. CASE entry # NoEntry
  <2>1. entry.startLBA \in Nat /\ entry.sectors \in Nat  BY <1>2, EntryAddresses
  <2>2. /\ ChsIsRight(Start * Ratio, params.heads, params.secPerTrk)
        /\ ChsIsRight((params.totSec * Ratio) - 1, params.heads, params.secPerTrk)
    <3>1. Start * Ratio \in Nat /\ (params.totSec * Ratio) - 1 \in Nat
      BY <1>2, EntryFields, EntryAddresses
    <3> QED  BY <1>2, <3>1, EntryFacts, ChsRight
  <2>3. \A chs \in {entry.startCHS, entry.endCHS} : chs \in Addresses
    <3>1. /\ entry.startCHS = Lba2Chs(Start * Ratio, params.heads, params.secPerTrk)
          /\ entry.endCHS = Lba2Chs((params.totSec * Ratio) - 1, params.heads, params.secPerTrk)
      BY <1>2, EntryFields
    <3>2. entry.startCHS \in Addresses /\ entry.endCHS \in Addresses
      BY <2>2, <3>1, ChsNamed
    <3> QED  BY <3>2
  <2>4. entry.type \in {0, 1, 4, 6, 7, 11, 12}
    <3> DEFINE n == entry.sectors
               t == params.totSec * Ratio
    <3>1. entry.type = PartitionType(params.fatBits, n, t)  BY <1>2, EntryFields
    <3>2. params.fatBits \in {12, 16, 32, 64}  BY <1>2, EntryFacts DEF ParamSet
    <3> HIDE DEF n, t
    <3> QED  BY <3>1, <3>2, SMT DEF PartitionType
  <2> QED  BY <1>2, <2>1, <2>3, <2>4, LastSector DEF MbrTypeOK, Addresses
<1> QED  BY <1>1, <1>2

-----------------------------------------------------------------------------
(* The properties.                                                         *)

\* The fields of the entry have the types the structure gives them: cylinders
\* of ten bits, heads of eight, sectors of six, and 32 bits for the last sector.
THEOREM MbrTypeCorrect == MbrSpec => []MbrTypeOK
BY MbrInvariant, InvMbrType, PTL

\* The partition starts where the file system is written, ends with the card,
\* and holds every cluster, whatever the logical sectors are.
THEOREM PartitionIsRight == MbrSpec => []PartitionHoldsFs
BY MbrInvariant, InvHolds, PTL

\* Both addresses of the partition's ends name the same sectors.
THEOREM ChsIsLba == MbrSpec => []ChsAgreesWithLba
BY MbrInvariant, InvChs, PTL

\* A driver that counts the clusters comes to the variant that was made.
THEOREM VariantIsAgreed == MbrSpec => []DriversAgree
BY MbrInvariant, InvDrivers, PTL

-----------------------------------------------------------------------------
(* The boot sector, and what fsPrinter finds.                              *)

\* The steps behind the partition entry leave the steps before it alone.
LEMMA PrinterIsMbr == PrinterSpec => MbrSpec
<1>1. PrinterInit => MbrInit  BY DEF PrinterInit, BootInit
<1>2. [PrinterNext]_printerVars => [MbrNext]_mbrVars
  <2> SUFFICES ASSUME [PrinterNext]_printerVars PROVE [MbrNext]_mbrVars  OBVIOUS
  <2>1. CASE PrintDiskInfo  BY <2>1, Zenon DEF PrintDiskInfo, bootVars
  <2>2. CASE BootNext  BY <2>2, Zenon DEF BootNext, MakeFs
  <2>3. CASE UNCHANGED printerVars  BY <2>3, Zenon DEF printerVars, bootVars
  <2> QED  BY <2>1, <2>2, <2>3, Zenon DEF PrinterNext
<1> QED  BY <1>1, <1>2, PTL DEF PrinterSpec, MbrSpec

BootMade   == IF UsesFat THEN FatBoot ELSE ExfatBoot
PlacesUsed == IF UsesFat THEN FatPlaces ELSE ExfatPlaces

Report ==
  CASE entry.type \in {1, 4, 6, 11, 12} -> PrintFat(entry.startLBA)
    [] entry.type = 7 -> PrintExfat(entry.startLBA)
    [] OTHER -> [fs |-> "unknown"]

\* Boot sector, places and report are those of the accepted parameters.
BootInv == boot # NoBoot => entry # NoEntry /\ boot = BootMade /\ written = PlacesUsed

ReportInv == report # NoReport => boot # NoBoot /\ report = Report

PrinterInv == MbrInv /\ BootInv /\ ReportInv

\* Behind a partition entry the parameters and the entry stand still.
LEMMA EntryStays ==
  ASSUME MbrInv, entry # NoEntry, [MbrNext]_mbrVars
  PROVE  UNCHANGED mbrVars
<1>1. phase = "accepted"  BY DEF MbrInv, EntryInv
<1>2. ~CreatePartition  BY DEF CreatePartition
<1>3. CASE Next /\ UNCHANGED entry
  <2>1. UNCHANGED vars  BY <1>1, <1>3, AcceptedStays
  <2> QED  BY <1>3, <2>1 DEF mbrVars
<1> QED  BY <1>2, <1>3 DEF MbrNext

LEMMA MadeKept ==
  ASSUME UNCHANGED mbrVars
  PROVE  BootMade' = BootMade /\ PlacesUsed' = PlacesUsed
<1>1. /\ params' = params /\ partStart' = partStart /\ exfat' = exfat /\ rsvdSecCnt' = rsvdSecCnt
      /\ secPerFat' = secPerFat /\ maxClus' = maxClus /\ fsAreaSize' = fsAreaSize
  BY DEF mbrVars, vars, fatVars
<1>2. FatBoot' = FatBoot  BY <1>1, SMT DEF FatBoot, FatSz16
<1>3. FatPlaces' = FatPlaces  BY <1>1, SMT DEF FatPlaces
<1>4. BitmapClus' = BitmapClus /\ UpCaseClus' = UpCaseClus
  BY <1>1, SMT DEF BitmapClus, UpCaseClus, BytesPerClus
<1>5. ExfatBoot' = ExfatBoot  BY <1>1, <1>4, SMT DEF ExfatBoot, RootCluster
<1>6. ExfatPlaces' = ExfatPlaces  BY <1>1, <1>4, SMT DEF ExfatPlaces
<1>7. UsesFat' = UsesFat  BY <1>1 DEF UsesFat
<1> QED  BY <1>2, <1>3, <1>5, <1>6, <1>7, Zenon DEF BootMade, PlacesUsed

LEMMA ReportKept ==
  ASSUME UNCHANGED bootVars
  PROVE  Report' = Report
<1>1. entry' = entry /\ boot' = boot  BY DEF bootVars, mbrVars
<1> QED  BY <1>1, SMT DEF Report, PrintFat, PrintExfat, LogicalStart

LEMMA BootStep == MbrInv /\ BootInv /\ ReportInv /\ [PrinterNext]_printerVars => BootInv' /\ ReportInv'
<1> SUFFICES ASSUME MbrInv, BootInv, ReportInv, [PrinterNext]_printerVars
             PROVE  BootInv' /\ ReportInv'
  OBVIOUS
<1>1. ASSUME UNCHANGED <<mbrVars, boot, written>> PROVE BootInv'
  <2>1. entry' = entry  BY <1>1 DEF mbrVars
  <2> QED  BY <1>1, <2>1, MadeKept, Zenon DEF BootInv, NoBoot, NoEntry
<1>2. CASE PrintDiskInfo
  <2>1. UNCHANGED bootVars /\ report' = Report /\ boot # NoBoot
    BY <1>2, Zenon DEF PrintDiskInfo, Report
  <2>2. BootInv'  BY <1>1, <2>1 DEF bootVars
  <2>3. boot' = boot  BY <2>1 DEF bootVars
  <2> QED  BY <2>1, <2>2, <2>3, ReportKept, Zenon DEF ReportInv, NoBoot
<1>3. CASE MakeFs /\ UNCHANGED report
  <2>1. entry # NoEntry /\ boot = NoBoot /\ boot' = BootMade /\ written' = PlacesUsed /\ UNCHANGED mbrVars
    BY <1>3, Zenon DEF MakeFs, BootMade, PlacesUsed
  <2>2. entry' = entry  BY <2>1 DEF mbrVars
  <2>3. BootInv'  BY <2>1, <2>2, MadeKept, Zenon DEF BootInv, NoEntry
  <2>4. report = NoReport  BY <2>1 DEF ReportInv
  <2> QED  BY <1>3, <2>3, <2>4, Zenon DEF ReportInv, NoReport
<1>4. CASE [MbrNext]_mbrVars /\ UNCHANGED <<boot, written, report>>
  <2>1. CASE boot = NoBoot
    <3>1. report = NoReport  BY <2>1 DEF ReportInv
    <3> QED  BY <1>4, <2>1, <3>1, Zenon DEF BootInv, ReportInv, NoBoot, NoReport
  <2>2. CASE boot # NoBoot
    <3>1. UNCHANGED mbrVars  BY <1>4, <2>2, EntryStays DEF BootInv
    <3>2. UNCHANGED bootVars  BY <1>4, <3>1 DEF bootVars
    <3> QED  BY <1>1, <1>4, <3>1, <3>2, ReportKept, Zenon DEF ReportInv, NoReport, NoBoot
  <2> QED  BY <2>1, <2>2
<1>5. \/ PrintDiskInfo
      \/ MakeFs /\ UNCHANGED report
      \/ [MbrNext]_mbrVars /\ UNCHANGED <<boot, written, report>>
  BY Zenon DEF PrinterNext, BootNext, printerVars, bootVars
<1> QED  BY <1>2, <1>3, <1>4, <1>5

\* Entry, boot sector, places and report are those of the accepted parameters.
THEOREM PrinterInvariant == PrinterSpec => []PrinterInv
<1>1. PrinterInit => BootInv /\ ReportInv
  BY Zenon DEF PrinterInit, BootInit, BootInv, ReportInv
<1> QED  BY <1>1, PrinterIsMbr, MbrInvariant, BootStep, PTL DEF PrinterSpec, PrinterInv

-----------------------------------------------------------------------------
(* FAT12, FAT16 and FAT32.                                                 *)

\* Nothing is lost in the fields of 8 and 16 bits.
LEMMA FatFields ==
  ASSUME PrinterInv, boot # NoBoot, UsesFat
  PROVE  /\ params.fatBits \in FatVariants
         /\ params.bytesPerSec \in SectorSizes /\ params.secPerClus \in ClusterSizes
         /\ partStart \in Nat /\ rsvdSecCnt \in Nat /\ secPerFat \in Nat \ {0} /\ maxClus \in Nat
         /\ params.fatBits # 32 => params.bytesPerSec = 512
         /\ params.fatBits = 32 => rsvdSecCnt >= 9
         /\ boot.fs = "FAT" /\ boot.bytesPerSec = params.bytesPerSec
         /\ boot.secPerClus = params.secPerClus /\ boot.rsvdSecCnt = rsvdSecCnt
         /\ boot.numFats = 2 /\ boot.hiddSec = partStart /\ boot.rootClus = 2
         /\ boot.rootEntCnt = IF params.fatBits = 32 THEN 0 ELSE 512
         /\ boot.fatSz16 = IF params.fatBits = 32 THEN 0 ELSE secPerFat
         /\ params.fatBits = 32 => boot.fatSz32 = secPerFat
         /\ boot.fsInfoSector = 1 /\ boot.bkBootSec = 6
         /\ params.fatBits = 32 => boot.freeCount = maxClus - 1
         /\ fsAreaSize = rsvdSecCnt + (2 * secPerFat) + (IF params.fatBits = 32 THEN 0 ELSE 32)
         /\ partStart + fsAreaSize <= params.totSec /\ params.totSec \in Nat
         /\ maxClus = (params.totSec - (partStart + fsAreaSize)) \div params.secPerClus
         /\ (IF boot.totSec16 # 0 THEN boot.totSec16 ELSE boot.totSec32) = params.totSec - partStart
<1>1. entry # NoEntry /\ boot = FatBoot /\ MbrInv  BY Zenon DEF PrinterInv, BootInv, BootMade
<1>2. phase = "accepted" /\ params \in ParamSet /\ params.totSec \in Nat  BY <1>1, EntryFacts
<1>3. /\ SmallFat(params) \/ BigFat(params)
      /\ DataStart <= params.totSec /\ secPerFat \in Nat \ {0} /\ maxClus \in Nat
  BY <1>1, <1>2, FoundFacts DEF MbrInv
<1>4. /\ params.fatBits \in FatVariants /\ params.bytesPerSec \in SectorSizes
      /\ params.secPerClus \in ClusterSizes /\ PlainSectors(params)
  BY <1>2, <1>3, ModeFacts, Zenon
<1>5. params.fatBits # 32 => params.bytesPerSec = 512  BY <1>4, Zenon DEF PlainSectors
<1>6. partStart \in Nat /\ rsvdSecCnt \in Nat /\ fsAreaSize \in Nat /\ DataStart = partStart + fsAreaSize
  BY <1>1, Types DEF MbrInv, Inv, DataStart
<1>7. rsvdSecCnt <= 65535  BY <1>1, <1>2, <1>6, SMT DEF MbrInv, CheckedInv, TooManyReserved
<1>8. params.fatBits < 32 => secPerFat <= 65535
  <2>1. DriversAgree  BY <1>1, InvDrivers
  <2> QED  BY <1>1, <2>1, SMT DEF DriversAgree
<1>9. RootSectors = IF params.fatBits = 32 THEN 0 ELSE 32
  BY <1>4, <1>5, SMT DEF RootSectors, UdivCeil, FatVariants
<1>10. /\ fsAreaSize = rsvdSecCnt + (2 * secPerFat) + RootSectors
       /\ rsvdSecCnt >= (IF params.fatBits = 32 THEN 9 ELSE 1)
       /\ maxClus = (params.totSec - DataStart) \div params.secPerClus
  BY <1>1, <1>2, Zenon DEF MbrInv, Inv, PlacedInv, FoundInv
<1>11. boot.bytesPerSec = params.bytesPerSec /\ boot.secPerClus = params.secPerClus
  BY <1>1, <1>4, SMT DEF FatBoot, U16, U8, SectorSizes, ClusterSizes
<1>12. boot.rsvdSecCnt = rsvdSecCnt
  <2>1. boot.rsvdSecCnt = U16(rsvdSecCnt)  BY <1>1, SMT DEF FatBoot
  <2> QED  BY <2>1, <1>6, <1>7, SMT DEF U16
<1>13. boot.fatSz16 = IF params.fatBits = 32 THEN 0 ELSE secPerFat
  <2>1. boot.fatSz16 = FatSz16  BY <1>1, SMT DEF FatBoot
  <2> QED  BY <2>1, <1>3, <1>4, <1>8, SMT DEF FatSz16, U16, FatVariants
<1>14. /\ boot.fs = "FAT" /\ boot.numFats = 2 /\ boot.hiddSec = partStart /\ boot.rootClus = 2
       /\ boot.rootEntCnt = IF params.fatBits = 32 THEN 0 ELSE 512
       /\ params.fatBits = 32 => boot.fatSz32 = secPerFat
       /\ boot.fsInfoSector = 1 /\ boot.bkBootSec = 6
       /\ params.fatBits = 32 => boot.freeCount = maxClus - 1
  BY <1>1, SMT DEF FatBoot
<1>15. (IF boot.totSec16 # 0 THEN boot.totSec16 ELSE boot.totSec32) = params.totSec - partStart
  <2> DEFINE n    == params.totSec - partStart
             wide == n > 65535 \/ params.fatBits = 32
  <2>1. boot.totSec16 = (IF wide THEN 0 ELSE U16(n)) /\ boot.totSec32 = (IF wide THEN n ELSE 0)
    BY <1>1, SMT DEF FatBoot
  <2>2. n \in Nat /\ n > 0  BY <1>2, <1>3, <1>6, <1>10, <1>9, SMT
  <2> HIDE DEF n
  <2>3. (IF boot.totSec16 # 0 THEN boot.totSec16 ELSE boot.totSec32) = n
    BY <2>1, <2>2, SMT DEF U16
  <2> QED  BY <2>3 DEF n
<1> QED  BY <1>2, <1>3, <1>4, <1>5, <1>6, <1>9, <1>10, <1>11, <1>12, <1>13, <1>14, <1>15

\* The places as numbers of the file system, times the ratio of the sectors.
LEMMA FatWritten ==
  ASSUME PrinterInv, boot # NoBoot, UsesFat
  PROVE  /\ DOMAIN written = {"boot", "fsInfo", "copy", "fat1", "fat2", "root", "end"}
         /\ written.boot = (partStart + 0) * Ratio
         /\ written.fsInfo = (partStart + 1) * Ratio
         /\ written.copy = (partStart + 6) * Ratio
         /\ written.fat1 = (partStart + rsvdSecCnt) * Ratio
         /\ written.fat2 = (partStart + (rsvdSecCnt + secPerFat)) * Ratio
         /\ written.root = (partStart + ((rsvdSecCnt + secPerFat) + secPerFat)) * Ratio
         /\ written.end = (partStart + (fsAreaSize + (IF params.fatBits < 32 THEN 0 ELSE params.secPerClus))) * Ratio
<1>1. written = FatPlaces  BY Zenon DEF PrinterInv, BootInv, PlacesUsed
<1>2. \A n : Log2Phy(n, params.bytesPerSec) = n * Ratio  BY Zenon DEF Log2Phy, Ratio
<1> QED  BY <1>1, <1>2, SMT DEF FatPlaces

LEMMA EntryOfFat ==
  ASSUME PrinterInv, boot # NoBoot, UsesFat
  PROVE  /\ entry.startLBA = partStart * Ratio
         /\ entry.startLBA + entry.sectors = params.totSec * Ratio
         /\ Ratio \in Ratios /\ params.bytesPerSec = 512 * Ratio
         /\ params.bytesPerSec \div 512 = Ratio
         /\ entry.type \in {1, 4, 6, 11, 12}
<1>1. MbrInv /\ entry # NoEntry  BY Zenon DEF PrinterInv, BootInv
<1>2. /\ Ratio \in Ratios /\ params.bytesPerSec = 512 * Ratio
      /\ params.totSec \in Nat /\ params.fatBits \in {12, 16, 32, 64}
  BY <1>1, EntryFacts DEF ParamSet
<1>3. Start = partStart  BY Zenon DEF Start
<1>4. entry.startLBA = partStart * Ratio  BY <1>1, <1>3, EntryFields
<1>5. entry.startLBA + entry.sectors = params.totSec * Ratio
  <2>1. /\ entry.startLBA \in Nat /\ entry.sectors \in Nat
        /\ entry.startLBA + entry.sectors - 1 = (params.totSec * Ratio) - 1
        /\ (params.totSec * Ratio) - 1 \in Nat
    BY <1>1, EntryAddresses
  <2>2. params.totSec * Ratio \in Int  BY <1>2, SMT DEF Ratios
  <2> DEFINE t == params.totSec * Ratio
  <2> HIDE DEF t
  <2>3. entry.startLBA + entry.sectors = t  BY <2>1, <2>2, SMT DEF t
  <2> QED  BY <2>3 DEF t
<1>6. entry.type \in {1, 4, 6, 11, 12}
  <2>1. entry.type \in {0, 1, 4, 6, 7, 11, 12} /\ (entry.type = 7 <=> ~UsesFat)
    <3>1. MbrTypeOK /\ DriversAgree  BY <1>1, InvMbrType, InvDrivers
    <3>2. entry.type \in {0, 1, 4, 6, 7, 11, 12}  BY <3>1 DEF MbrTypeOK
    <3>3. entry.type = 7 <=> ~UsesFat  BY <1>1, <3>1, SMT DEF DriversAgree
    <3> QED  BY <3>2, <3>3
  <2>2. entry.type = PartitionType(params.fatBits, entry.sectors, params.totSec * Ratio)
    BY <1>1, EntryFields
  <2>3. entry.type # 0  BY <1>2, <2>2, SMT DEF PartitionType
  <2> QED  BY <2>1, <2>3
<1> QED  BY <1>2, <1>4, <1>5, <1>6, Zenon DEF Ratio

\* Distance in the file system and on the card.
LEMMA Distances ==
  ASSUME NEW k \in Ratios, NEW s \in Nat, NEW n \in Nat
  PROVE  /\ (s * k) + (n * k) = (s + n) * k
         /\ (s * k) \div k = s
<1>1. CASE k = 1  BY <1>1, SMT
<1>2. CASE k = 2  BY <1>2, SMT
<1>3. CASE k = 4  BY <1>3, SMT
<1>4. CASE k = 8  BY <1>4, SMT
<1> QED  BY <1>1, <1>2, <1>3, <1>4 DEF Ratios

LEMMA SectorInBytes ==
  ASSUME NEW k \in Ratios, NEW s \in Nat
  PROVE  (s * (512 * k)) \div 512 = s * k
<1>1. CASE k = 1  BY <1>1, SMT
<1>2. CASE k = 2  BY <1>2, SMT
<1>3. CASE k = 4  BY <1>3, SMT
<1>4. CASE k = 8  BY <1>4, SMT
<1> QED  BY <1>1, <1>2, <1>3, <1>4 DEF Ratios

\* The numbers a FAT driver computes.
LEMMA FatFoundFacts ==
  ASSUME PrinterInv, boot # NoBoot, UsesFat
  PROVE  /\ FatFound.fat1 = rsvdSecCnt
         /\ FatFound.fat2 = rsvdSecCnt + secPerFat
         /\ FatFound.root = (rsvdSecCnt + secPerFat) + secPerFat
         /\ FatFound.total = params.totSec - partStart
         /\ FatFound.end = fsAreaSize + (IF params.fatBits < 32 THEN 0 ELSE params.secPerClus)
<1> DEFINE fatSz == IF boot.fatSz16 # 0 THEN boot.fatSz16 ELSE boot.fatSz32
           root  == boot.rsvdSecCnt + (boot.numFats * fatSz)
           dir   == ((32 * boot.rootEntCnt) + (boot.bytesPerSec - 1)) \div boot.bytesPerSec
<1>1. fatSz = secPerFat  BY FatFields, SMT
<1>2. dir = IF params.fatBits = 32 THEN 0 ELSE 32
  <2>1. CASE params.fatBits = 32
    <3>1. params.bytesPerSec \in SectorSizes /\ boot.bytesPerSec = params.bytesPerSec /\ boot.rootEntCnt = 0
      BY <2>1, FatFields
    <3> QED  BY <2>1, <3>1, SMT DEF SectorSizes
  <2>2. CASE params.fatBits # 32
    <3>1. boot.bytesPerSec = 512 /\ boot.rootEntCnt = 512  BY <2>2, FatFields
    <3> QED  BY <2>2, <3>1, SMT
  <2> QED  BY <2>1, <2>2
<1>3. root = (rsvdSecCnt + secPerFat) + secPerFat
  <2> HIDE DEF fatSz
  <2> QED  BY <1>1, FatFields, SMT
<1> HIDE DEF fatSz, root, dir
<1>4. /\ FatFound.fat1 = boot.rsvdSecCnt /\ FatFound.fat2 = boot.rsvdSecCnt + fatSz
      /\ FatFound.root = root
      /\ FatFound.total = (IF boot.totSec16 # 0 THEN boot.totSec16 ELSE boot.totSec32)
      /\ FatFound.end = (root + dir) + (IF boot.fatSz16 # 0 THEN 0 ELSE (boot.rootClus - 1) * boot.secPerClus)
  BY SMT DEF FatFound, fatSz, root, dir
<1>5. FatFound.end = fsAreaSize + (IF params.fatBits < 32 THEN 0 ELSE params.secPerClus)
  <2>1. CASE params.fatBits = 32
    <3>1. boot.fatSz16 = 0 /\ boot.rootClus = 2 /\ boot.secPerClus = params.secPerClus
          /\ params.secPerClus \in Nat /\ rsvdSecCnt \in Nat /\ secPerFat \in Nat
          /\ fsAreaSize = rsvdSecCnt + (2 * secPerFat)
      BY <2>1, FatFields, SMT DEF ClusterSizes
    <3> QED  BY <1>2, <1>3, <1>4, <2>1, <3>1, SMT
  <2>2. CASE params.fatBits # 32
    <3>1. boot.fatSz16 # 0 /\ params.fatBits < 32 /\ rsvdSecCnt \in Nat /\ secPerFat \in Nat
          /\ fsAreaSize = rsvdSecCnt + (2 * secPerFat) + 32
      BY <2>2, FatFields, SMT DEF FatVariants
    <3> QED  BY <1>2, <1>3, <1>4, <2>2, <3>1, SMT
  <2> QED  BY <2>1, <2>2
<1> QED  BY <1>1, <1>3, <1>4, <1>5, FatFields

\* A sector of the volume, on the card.
LEMMA OnCard ==
  ASSUME PrinterInv, boot # NoBoot, UsesFat, NEW n \in Nat
  PROVE  entry.startLBA + (n * (boot.bytesPerSec \div 512)) = (partStart + n) * Ratio
<1>1. /\ entry.startLBA = partStart * Ratio /\ boot.bytesPerSec \div 512 = Ratio
      /\ Ratio \in Ratios /\ partStart \in Nat
  BY EntryOfFat, FatFields
<1>2. (partStart * Ratio) + (n * Ratio) = (partStart + n) * Ratio  BY <1>1, Distances
<1> QED  BY <1>1, <1>2

LEMMA FatAreasRight ==
  ASSUME PrinterInv, boot # NoBoot, UsesFat
  PROVE  FatAreasFound
<1> DEFINE Phys(n) == entry.startLBA + (n * (boot.bytesPerSec \div 512))
           last == fsAreaSize + (IF params.fatBits < 32 THEN 0 ELSE params.secPerClus)
<1>1. /\ rsvdSecCnt \in Nat /\ secPerFat \in Nat /\ partStart \in Nat /\ params.totSec \in Nat
      /\ params.secPerClus \in Nat \ {0} /\ fsAreaSize \in Nat /\ partStart + fsAreaSize <= params.totSec
      /\ params.fatBits \in FatVariants
  BY FatFields, SMT DEF ClusterSizes, FatVariants
<1>2. last \in Nat  BY <1>1, SMT DEF FatVariants
<1> HIDE DEF last
<1>3. ASSUME NEW n \in Nat PROVE Phys(n) = (partStart + n) * Ratio  BY OnCard
<1> HIDE DEF Phys
<1>4. \A s \in {"fat1", "fat2", "root", "end"} : Phys(FatFound[s]) = written[s]
  <2>1. Phys(FatFound.fat1) = written.fat1  BY <1>1, <1>3, FatFoundFacts, FatWritten
  <2>2. Phys(FatFound.fat2) = written.fat2
    <3>1. rsvdSecCnt + secPerFat \in Nat  BY <1>1
    <3> QED  BY <3>1, <1>3, FatFoundFacts, FatWritten
  <2>3. Phys(FatFound.root) = written.root
    <3>1. (rsvdSecCnt + secPerFat) + secPerFat \in Nat  BY <1>1
    <3> QED  BY <3>1, <1>3, FatFoundFacts, FatWritten
  <2>4. Phys(FatFound.end) = written.end  BY <1>2, <1>3, FatFoundFacts, FatWritten DEF last
  <2> QED  BY <2>1, <2>2, <2>3, <2>4
<1>5. Phys(0) = written.boot  BY <1>3, FatWritten
<1>6. Phys(FatFound.total) = entry.startLBA + entry.sectors
  <2>1. params.totSec - partStart \in Nat /\ partStart + (params.totSec - partStart) = params.totSec
    BY <1>1, SMT
  <2> QED  BY <1>3, <2>1, FatFoundFacts, EntryOfFat
<1>7. boot.hiddSec = Phy2Log(entry.startLBA, boot.bytesPerSec)
  <2>1. /\ entry.startLBA = partStart * Ratio /\ boot.bytesPerSec \div 512 = Ratio
        /\ Ratio \in Ratios /\ boot.hiddSec = partStart
    BY EntryOfFat, FatFields
  <2>2. (partStart * Ratio) \div Ratio = partStart  BY <1>1, <2>1, Distances
  <2> QED  BY <2>1, <2>2, Zenon DEF Phy2Log
<1>8. ASSUME params.fatBits = 32
      PROVE  /\ Phys(boot.fsInfoSector) = written.fsInfo
             /\ Phys(boot.bkBootSec) = written.copy
             /\ boot.rsvdSecCnt >= boot.bkBootSec + 3
             /\ boot.freeCount = ((FatFound.total - FatFound.root) \div boot.secPerClus) - 1
  <2>1. boot.fsInfoSector = 1 /\ boot.bkBootSec = 6 /\ rsvdSecCnt >= 9 /\ boot.rsvdSecCnt = rsvdSecCnt
    BY <1>8, FatFields
  <2>2. Phys(1) = written.fsInfo /\ Phys(6) = written.copy  BY <1>3, FatWritten
  <2>3. boot.freeCount = maxClus - 1 /\ boot.secPerClus = params.secPerClus
        /\ fsAreaSize = rsvdSecCnt + (2 * secPerFat)
        /\ maxClus = (params.totSec - (partStart + fsAreaSize)) \div params.secPerClus
    BY <1>8, FatFields
  <2>4. FatFound.total - FatFound.root = params.totSec - (partStart + fsAreaSize)
    <3>1. /\ FatFound.total = params.totSec - partStart
          /\ FatFound.root = (rsvdSecCnt + secPerFat) + secPerFat
      BY FatFoundFacts
    <3> QED  BY <1>1, <2>3, <3>1, SMT
  <2>5. boot.rsvdSecCnt >= boot.bkBootSec + 3  BY <2>1, <1>1, SMT
  <2> QED  BY <2>1, <2>2, <2>3, <2>4, <2>5
<1> QED  BY <1>4, <1>5, <1>6, <1>7, <1>8 DEF FatAreasFound, Phys

-----------------------------------------------------------------------------
(* fsPrinter.                                                              *)

LEMMA FatReported ==
  ASSUME PrinterInv, report # NoReport, UsesFat
  PROVE  /\ report.fs = IF params.fatBits = 32 THEN "FAT32" ELSE "FAT12/FAT16"
         /\ report.boot = partStart * Ratio
         /\ params.fatBits = 32 => report.fsInfo = (partStart + 1) * Ratio
         /\ report.fat1 = partStart + rsvdSecCnt
         /\ report.fat2 = partStart + (rsvdSecCnt + secPerFat)
         /\ report.root = partStart + ((rsvdSecCnt + secPerFat) + secPerFat)
         /\ report.data = partStart + fsAreaSize
<1>1. boot # NoBoot /\ report = Report  BY DEF PrinterInv, ReportInv
<1>2. report = PrintFat(entry.startLBA)
  <2>1. entry.type \in {1, 4, 6, 11, 12}  BY <1>1, EntryOfFat
  <2> QED  BY <1>1, <2>1, SMT DEF Report
<1> DEFINE fatSize == IF boot.fatSz16 = 0 THEN boot.fatSz32 ELSE boot.fatSz16
           dir     == ((32 * boot.rootEntCnt) + (boot.bytesPerSec - 1)) \div boot.bytesPerSec
           start   == LogicalStart(entry.startLBA)
           data    == boot.rsvdSecCnt + (fatSize * boot.numFats) + dir
<1>3. /\ report.fs = IF boot.fatSz16 = 0 THEN "FAT32" ELSE "FAT12/FAT16"
      /\ report.boot = entry.startLBA
      /\ boot.fatSz16 = 0 => report.fsInfo = ((start + boot.fsInfoSector) * boot.bytesPerSec) \div 512
      /\ report.fat1 = start + boot.rsvdSecCnt
      /\ report.fat2 = start + boot.rsvdSecCnt + fatSize
      /\ report.root = start + (data - dir)
      /\ report.data = start + data
  <2> HIDE DEF fatSize, dir, start
  <2> QED  BY <1>2, SMT DEF PrintFat, fatSize, dir, start
<1>4. /\ params.fatBits \in FatVariants /\ partStart \in Nat /\ rsvdSecCnt \in Nat /\ secPerFat \in Nat \ {0}
      /\ boot.rsvdSecCnt = rsvdSecCnt /\ boot.numFats = 2 /\ boot.fsInfoSector = 1
      /\ boot.bytesPerSec = params.bytesPerSec
      /\ boot.fatSz16 = IF params.fatBits = 32 THEN 0 ELSE secPerFat
      /\ fsAreaSize = rsvdSecCnt + (2 * secPerFat) + (IF params.fatBits = 32 THEN 0 ELSE 32)
  BY <1>1, FatFields
<1>5. fatSize = secPerFat  BY <1>1, FatFields, SMT
<1>6. dir = IF params.fatBits = 32 THEN 0 ELSE 32
  <2>1. CASE params.fatBits = 32
    <3>1. params.bytesPerSec \in SectorSizes /\ boot.bytesPerSec = params.bytesPerSec /\ boot.rootEntCnt = 0
      BY <1>1, <2>1, FatFields
    <3> QED  BY <2>1, <3>1, SMT DEF SectorSizes
  <2>2. CASE params.fatBits # 32
    <3>1. boot.bytesPerSec = 512 /\ boot.rootEntCnt = 512  BY <1>1, <2>2, FatFields
    <3> QED  BY <2>2, <3>1, SMT
  <2> QED  BY <2>1, <2>2
<1>7. /\ entry.startLBA = partStart * Ratio /\ Ratio \in Ratios
      /\ params.bytesPerSec = 512 * Ratio /\ params.bytesPerSec \div 512 = Ratio
  BY <1>1, EntryOfFat
<1>8. start = partStart
  <2>1. start = (partStart * Ratio) \div Ratio  BY <1>4, <1>7 DEF LogicalStart
  <2> QED  BY <1>4, <1>7, <2>1, Distances
<1> HIDE DEF fatSize, dir, start
<1>9. params.fatBits = 32 => report.fsInfo = (partStart + 1) * Ratio
  <2>1. ((partStart + 1) * (512 * Ratio)) \div 512 = (partStart + 1) * Ratio
    <3> DEFINE s == partStart + 1
    <3>1. s \in Nat /\ Ratio \in Ratios  BY <1>4, <1>7
    <3> HIDE DEF s
    <3>2. (s * (512 * Ratio)) \div 512 = s * Ratio  BY <3>1, SectorInBytes
    <3> QED  BY <3>2 DEF s
  <2>2. ASSUME params.fatBits = 32
        PROVE  report.fsInfo = ((partStart + 1) * (512 * Ratio)) \div 512
    <3>1. report.fsInfo = ((start + boot.fsInfoSector) * boot.bytesPerSec) \div 512
      BY <1>3, <1>4, <2>2
    <3>2. start = partStart /\ boot.fsInfoSector = 1 /\ boot.bytesPerSec = 512 * Ratio
      BY <1>4, <1>7, <1>8
    <3> QED  BY <3>1, <3>2
  <2> QED  BY <2>1, <2>2
<1>10. /\ report.fat1 = partStart + rsvdSecCnt
       /\ report.fat2 = partStart + (rsvdSecCnt + secPerFat)
       /\ report.root = partStart + ((rsvdSecCnt + secPerFat) + secPerFat)
       /\ report.data = partStart + fsAreaSize
  <2>1. data = rsvdSecCnt + (2 * secPerFat) + dir  BY <1>4, <1>5, <1>6, SMT
  <2> HIDE DEF data
  <2> QED  BY <1>3, <1>4, <1>5, <1>6, <1>8, <2>1, SMT DEF FatVariants
<1>11. report.fs = IF params.fatBits = 32 THEN "FAT32" ELSE "FAT12/FAT16"  BY <1>3, <1>4, SMT
<1> QED  BY <1>3, <1>7, <1>9, <1>10, <1>11

LEMMA ExfatReported ==
  ASSUME PrinterInv, report # NoReport, ~UsesFat
  PROVE  /\ report.fs = "exFAT" /\ report.boot = written.boot /\ report.oemParams = written.oemParams
         /\ DOMAIN written = {"boot", "oemParams", "copy", "fat1", "bitmap", "upCase", "root", "end"}
<1>1. boot # NoBoot /\ report = Report  BY DEF PrinterInv, ReportInv
<1>2. MbrInv /\ entry # NoEntry /\ written = ExfatPlaces
  BY <1>1, Zenon DEF PrinterInv, BootInv, PlacesUsed
<1>3. entry.type = 7
  <2>1. DriversAgree  BY <1>2, InvDrivers
  <2> QED  BY <1>2, <2>1, SMT DEF DriversAgree
<1>4. report = PrintExfat(entry.startLBA)
  <2>1. entry.type \notin {1, 4, 6, 11, 12}  BY <1>3
  <2> QED  BY <1>1, <1>3, <2>1, Zenon DEF Report
<1>5. entry.startLBA = exfat.partitionOffset
  <2>1. phase = "accepted"  BY <1>2, EntryFacts
  <2>2. Exfat(params) /\ exfat.partitionOffset = params.alignment /\ params.alignment \in Nat
    BY <1>2, <2>1, ExfatFacts DEF MbrInv
  <2>3. Ratio = 1  BY <2>2, SMT DEF Exfat, Mode, Ratio
  <2>4. entry.startLBA = Start * Ratio /\ Start = exfat.partitionOffset
    BY <1>2, EntryFields, Zenon DEF Start
  <2> QED  BY <2>2, <2>3, <2>4, SMT
<1> QED  BY <1>2, <1>4, <1>5, SMT DEF PrintExfat, ExfatPlaces

LEMMA InvFinds == PrinterInv => PrinterFindsFs
<1> SUFFICES ASSUME PrinterInv, report # NoReport PROVE PrinterFindsFs  BY DEF PrinterFindsFs
<1>1. boot # NoBoot  BY DEF PrinterInv, ReportInv
<1>2. MbrInv /\ entry # NoEntry  BY <1>1, Zenon DEF PrinterInv, BootInv
<1>3. params.fatBits \in {12, 16, 32, 64}  BY <1>2, EntryFacts DEF ParamSet
<1>4. CASE UsesFat
  <2> DEFINE Phys(n) == Log2Phy(n, params.bytesPerSec)
  <2>1. \A n : Phys(n) = n * Ratio  BY Zenon DEF Log2Phy, Ratio
  <2> HIDE DEF Phys
  <2>2. /\ report.boot = written.boot
        /\ params.fatBits = 32 => report.fsInfo = written.fsInfo
        /\ Phys(report.fat1) = written.fat1 /\ Phys(report.fat2) = written.fat2
        /\ Phys(report.root) = written.root
        /\ Phys(report.data) = Phys(partStart + fsAreaSize)
    <3>1. partStart + 0 = partStart  BY <1>1, <1>4, FatFields
    <3> QED  BY <1>1, <1>4, <2>1, <3>1, FatReported, FatWritten
  <2>3. DOMAIN written = {"boot", "fsInfo", "copy", "fat1", "fat2", "root", "end"}
    BY <1>1, <1>4, FatWritten
  <2>4. /\ "boot" \in At(report.boot)
        /\ params.fatBits = 32 => "fsInfo" \in At(report.fsInfo)
        /\ "fat1" \in At(Phys(report.fat1)) /\ "fat2" \in At(Phys(report.fat2))
        /\ "root" \in At(Phys(report.root))
    BY <2>2, <2>3, SMT DEF At
  <2>5. report.fs = IF params.fatBits = 32 THEN "FAT32" ELSE "FAT12/FAT16"  BY <1>4, FatReported
  <2>6. params.fatBits # 64  BY <1>4, SMT DEF UsesFat
  <2>7. report.fs = (CASE params.fatBits < 32 -> "FAT12/FAT16"
                       [] params.fatBits = 32 -> "FAT32"
                       [] OTHER -> "exFAT")
    BY <1>3, <2>5, <2>6, SMT
  <2>8. report.fs # "exFAT" /\ (report.fs = "FAT32" => params.fatBits = 32)  BY <2>5
  <2> QED  BY <2>2, <2>4, <2>7, <2>8 DEF PrinterFindsFs, Phys
<1>5. CASE ~UsesFat
  <2>1. params.fatBits = 64  BY <1>3, <1>5, SMT DEF UsesFat
  <2>2. /\ report.fs = "exFAT" /\ report.boot = written.boot /\ report.oemParams = written.oemParams
        /\ DOMAIN written = {"boot", "oemParams", "copy", "fat1", "bitmap", "upCase", "root", "end"}
    BY <1>5, ExfatReported
  <2>3. "boot" \in At(report.boot) /\ "oemParams" \in At(report.oemParams)  BY <2>2, SMT DEF At
  <2>4. report.fs = (CASE params.fatBits < 32 -> "FAT12/FAT16"
                       [] params.fatBits = 32 -> "FAT32"
                       [] OTHER -> "exFAT")
    BY <2>1, <2>2, SMT
  <2>5. report.fs # "FAT32"  BY <2>2
  <2> QED  BY <1>5, <2>3, <2>4, <2>5 DEF PrinterFindsFs
<1> QED  BY <1>4, <1>5

LEMMA InvPrinterType == PrinterInv => PrinterTypeOK
<1> SUFFICES ASSUME PrinterInv PROVE PrinterTypeOK  OBVIOUS
<1>1. TypeOK /\ MbrTypeOK  BY InvMbrType, Zenon DEF PrinterInv, MbrInv, Inv
<1>2. boot.fs \in {"none", "FAT", "EXFAT"}
  <2>1. CASE boot = NoBoot  BY <2>1, SMT DEF NoBoot
  <2>2. CASE boot # NoBoot
    <3>1. boot = BootMade  BY <2>2, Zenon DEF PrinterInv, BootInv
    <3>2. FatBoot.fs = "FAT"  BY SMT DEF FatBoot
    <3>3. ExfatBoot.fs = "EXFAT"  BY SMT DEF ExfatBoot
    <3> QED  BY <3>1, <3>2, <3>3 DEF BootMade
  <2> QED  BY <2>1, <2>2
<1>3. report.fs \in {"none", "FAT12/FAT16", "FAT32", "exFAT", "unknown"}
  <2>1. CASE report = NoReport  BY <2>1, SMT DEF NoReport
  <2>2. CASE report # NoReport
    <3>1. UsesFat => report.fs = IF params.fatBits = 32 THEN "FAT32" ELSE "FAT12/FAT16"
      BY <2>2, FatReported
    <3>2. ~UsesFat => report.fs = "exFAT"  BY <2>2, ExfatReported
    <3> QED  BY <3>1, <3>2
  <2> QED  BY <2>1, <2>2
<1> QED  BY <1>1, <1>2, <1>3 DEF PrinterTypeOK

-----------------------------------------------------------------------------
(* The boot sector of exFAT.                                               *)

\* The shifts of sectors and clusters, one exponent at a time.
PowerIs(k) == (2 ^ k = 256 => k = 8) /\ (2 ^ k = 512 => k = 9) /\ (2 ^ k = 1024 => k = 10)

LEMMA Powers == ASSUME NEW k \in 0 .. 30  PROVE PowerIs(k)
<1>1. CASE k = 0  BY <1>1, SMT DEF PowerIs
<1>2. CASE k = 1  BY <1>2, SMT DEF PowerIs
<1>3. CASE k = 2  BY <1>3, SMT DEF PowerIs
<1>4. CASE k = 3  BY <1>4, SMT DEF PowerIs
<1>5. CASE k = 4  BY <1>5, SMT DEF PowerIs
<1>6. CASE k = 5  BY <1>6, SMT DEF PowerIs
<1>7. CASE k = 6  BY <1>7, SMT DEF PowerIs
<1>8. CASE k = 7  BY <1>8, SMT DEF PowerIs
<1>9. CASE k = 8  BY <1>9, SMT DEF PowerIs
<1>10. CASE k = 9  BY <1>10, SMT DEF PowerIs
<1>11. CASE k = 10  BY <1>11, SMT DEF PowerIs
<1>12. CASE k = 11  BY <1>12, SMT DEF PowerIs
<1>13. CASE k = 12  BY <1>13, SMT DEF PowerIs
<1>14. CASE k = 13  BY <1>14, SMT DEF PowerIs
<1>15. CASE k = 14  BY <1>15, SMT DEF PowerIs
<1>16. CASE k = 15  BY <1>16, SMT DEF PowerIs
<1>17. CASE k = 16  BY <1>17, SMT DEF PowerIs
<1>18. CASE k = 17  BY <1>18, SMT DEF PowerIs
<1>19. CASE k = 18  BY <1>19, SMT DEF PowerIs
<1>20. CASE k = 19  BY <1>20, SMT DEF PowerIs
<1>21. CASE k = 20  BY <1>21, SMT DEF PowerIs
<1>22. CASE k = 21  BY <1>22, SMT DEF PowerIs
<1>23. CASE k = 22  BY <1>23, SMT DEF PowerIs
<1>24. CASE k = 23  BY <1>24, SMT DEF PowerIs
<1>25. CASE k = 24  BY <1>25, SMT DEF PowerIs
<1>26. CASE k = 25  BY <1>26, SMT DEF PowerIs
<1>27. CASE k = 26  BY <1>27, SMT DEF PowerIs
<1>28. CASE k = 27  BY <1>28, SMT DEF PowerIs
<1>29. CASE k = 28  BY <1>29, SMT DEF PowerIs
<1>30. CASE k = 29  BY <1>30, SMT DEF PowerIs
<1>31. CASE k = 30  BY <1>31, SMT DEF PowerIs
<1> QED  BY <1>1, <1>2, <1>3, <1>4, <1>5, <1>6, <1>7, <1>8, <1>9, <1>10, <1>11, <1>12, <1>13, <1>14,
     <1>15, <1>16, <1>17, <1>18, <1>19, <1>20, <1>21, <1>22, <1>23, <1>24, <1>25, <1>26, <1>27, <1>28,
     <1>29, <1>30, <1>31, SMT

LEMMA Shifts ==
  ASSUME NEW n \in {256, 512, 1024}
  PROVE  Log2(n) \in 8 .. 10 /\ 2 ^ Log2(n) = n /\ (n = 512 => Log2(n) = 9)
<1>1. \A k \in 0 .. 30 : PowerIs(k)  BY Powers
<1>2. 256 = 2 ^ 8 /\ 512 = 2 ^ 9 /\ 1024 = 2 ^ 10  BY SMT
<1>3. \E k \in 0 .. 30 : n = 2 ^ k
  <2>1. CASE n = 256
    <3>1. 8 \in 0 .. 30 /\ n = 2 ^ 8  BY <1>2, <2>1
    <3> QED  BY <3>1
  <2>2. CASE n = 512
    <3>1. 9 \in 0 .. 30 /\ n = 2 ^ 9  BY <1>2, <2>2
    <3> QED  BY <3>1
  <2>3. CASE n = 1024
    <3>1. 10 \in 0 .. 30 /\ n = 2 ^ 10  BY <1>2, <2>3
    <3> QED  BY <3>1
  <2> QED  BY <2>1, <2>2, <2>3
<1>4. Log2(n) \in 0 .. 30 /\ n = 2 ^ Log2(n)  BY <1>3, Zenon DEF Log2
<1> DEFINE k == Log2(n)
           m == 2 ^ k
<1>5. (m = 256 => k = 8) /\ (m = 512 => k = 9) /\ (m = 1024 => k = 10)
  <2>1. PowerIs(k)  BY <1>1, <1>4
  <2> HIDE DEF k
  <2> QED  BY <2>1 DEF PowerIs
<1>6. n = m  BY <1>4
<1> HIDE DEF k, m
<1>7. k \in 8 .. 10 /\ (n = 512 => k = 9)  BY <1>5, <1>6, SMT
<1> QED  BY <1>6, <1>7 DEF k, m

\* Bitmap and up-case table take a cluster each.
LEMMA OneCluster ==
  ASSUME NEW spc \in {256, 512, 1024}, NEW cc \in Nat \ {0}, cc <= spc * 4096,
         NEW size \in Nat \ {0}, size <= 131072
  PROVE  /\ UdivCeil(cc, (spc * 512) * 8) = 1
         /\ UdivCeil(size, spc * 512) = 1
         /\ UdivCeil(UdivCeil(cc, 8), spc * 512) = 1
<1>1. CASE spc = 256  BY <1>1, SMT DEF UdivCeil
<1>2. CASE spc = 512  BY <1>2, SMT DEF UdivCeil
<1>3. CASE spc = 1024  BY <1>3, SMT DEF UdivCeil
<1> QED  BY <1>1, <1>2, <1>3

LEMMA ExfatNumbers ==
  ASSUME Inv, phase \in {"check", "accepted"}, ~UsesFat
  PROVE  /\ params.bytesPerSec = 512 /\ params.secPerClus \in {256, 512, 1024}
         /\ params.alignment \in Nat /\ params.alignment >= 32768
         /\ exfat.clusterCount \in Nat /\ exfat.clusterCount >= 3 /\ exfat.clusterCount <= params.secPerClus * 4096
         /\ exfat.partitionOffset = params.alignment /\ exfat.clusterHeapOffset = params.alignment
         /\ exfat.fatOffset = params.alignment \div 2
         /\ BitmapClus = 1 /\ UpCaseClus = 1 /\ RootCluster = 4
<1>1. /\ params.bytesPerSec = 512 /\ params.secPerClus \in {256, 512, 1024}
      /\ params.alignment \in Nat /\ params.alignment >= 32768
      /\ exfat.clusterCount \in Nat /\ exfat.clusterCount >= 3 /\ exfat.clusterCount <= params.secPerClus * 4096
  BY ExfatFacts, SMT DEF Exfat, Mode
<1>2. /\ exfat.partitionOffset = params.alignment /\ exfat.clusterHeapOffset = params.alignment
      /\ exfat.fatOffset = params.alignment \div 2
  BY ExfatFacts
<1>3. UpCaseSize \in Nat \ {0} /\ UpCaseSize <= 131072  BY UpCaseAssumption
<1>4. BitmapClus = 1 /\ UpCaseClus = 1
  <2> DEFINE spc == params.secPerClus
             cc  == exfat.clusterCount
  <2>1. cc \in Nat \ {0} /\ cc <= spc * 4096  BY <1>1, SMT
  <2>2. BytesPerClus = spc * 512  BY <1>1 DEF BytesPerClus
  <2> HIDE DEF spc
  <2>3. UdivCeil(cc, (spc * 512) * 8) = 1 /\ UdivCeil(UpCaseSize, spc * 512) = 1
    <3>1. spc \in {256, 512, 1024}  BY <1>1 DEF spc
    <3> HIDE DEF cc
    <3> QED  BY <1>3, <2>1, <3>1, OneCluster
  <2> QED  BY <2>2, <2>3 DEF BitmapClus, UpCaseClus
<1>5. RootCluster = 4  BY <1>4, SMT DEF RootCluster
<1> QED  BY <1>1, <1>2, <1>4, <1>5

\* Whoever reads the exFAT boot sector comes to what makeFsExFat has written.
LEMMA ExfatRight ==
  ASSUME PrinterInv, boot # NoBoot, ~UsesFat
  PROVE  ExfatLeads
<1>1. MbrInv /\ entry # NoEntry /\ boot = ExfatBoot /\ written = ExfatPlaces
  BY Zenon DEF PrinterInv, BootInv, BootMade, PlacesUsed
<1>2. phase = "accepted" /\ Inv  BY <1>1, EntryFacts DEF MbrInv
<1> DEFINE al  == params.alignment
           spc == params.secPerClus
           cc  == exfat.clusterCount
           sh  == Log2(spc)
<1>3. /\ params.bytesPerSec = 512 /\ spc \in {256, 512, 1024} /\ al \in Nat /\ al >= 32768
      /\ cc \in Nat /\ cc >= 3 /\ cc <= spc * 4096 /\ exfat.partitionOffset = al /\ exfat.clusterHeapOffset = al
      /\ exfat.fatOffset = al \div 2 /\ BitmapClus = 1 /\ UpCaseClus = 1 /\ RootCluster = 4
  BY <1>2, ExfatNumbers
<1>4. entry.startLBA = al /\ entry.sectors = exfat.volumeLength
  <2>1. /\ exfat.volumeLength = params.totSec - al /\ params.totSec \in Nat
    BY <1>2, ExfatFacts
  <2>2. Ratio = 1  BY <1>3, SMT DEF Ratio
  <2>3. Start = al  BY <1>3 DEF Start
  <2> QED  BY <1>1, <1>3, <2>1, <2>2, <2>3, EntryFields, SMT
<1>5. sh \in 8 .. 10 /\ 2 ^ sh = spc /\ Log2(512) = 9 /\ 2 ^ Log2(512) = 512  BY <1>3, Shifts
<1>6. /\ boot.partitionOffset = al /\ boot.volumeLength = exfat.volumeLength
      /\ boot.fatOffset = al \div 2 /\ boot.clusterHeapOffset = al /\ boot.clusterCount = cc
      /\ boot.firstClusterOfRootDirectory = 4
      /\ boot.bytesPerSectorShift = 9 /\ boot.sectorsPerClusterShift = sh
      /\ boot.bitmap.firstCluster = 2 /\ boot.bitmap.dataLength = UdivCeil(cc, 8)
      /\ boot.upCase.firstCluster = 3 /\ boot.upCase.dataLength = UpCaseSize
  <2> HIDE DEF sh
  <2>1. Log2(params.bytesPerSec) = 9  BY <1>3, <1>5
  <2>2. sh = Log2(params.secPerClus)  BY DEF sh
  <2> HIDE DEF al, spc, cc
  <2> QED  BY <1>1, <1>3, <2>1, <2>2, SMT DEF ExfatBoot, cc
<1>7. /\ written.fat1 = al + (al \div 2) /\ written.copy = al + 12
      /\ written.bitmap = al + al /\ written.upCase = al + al + spc /\ written.root = al + al + spc + spc
  <2> HIDE DEF sh, cc
  <2>1. (spc * 1) = spc  BY <1>3, SMT
  <2> QED  BY <1>1, <1>3, <2>1, SMT DEF ExfatPlaces
<1>8. UdivCeil(UpCaseSize, spc * 512) = 1 /\ UdivCeil(UdivCeil(cc, 8), spc * 512) = 1
  <2>1. cc \in Nat \ {0} /\ cc <= spc * 4096  BY <1>3, SMT
  <2> HIDE DEF spc, cc
  <2> QED  BY <1>3, <2>1, OneCluster, UpCaseAssumption
<1> DEFINE secPerClus == 2 ^ boot.sectorsPerClusterShift
           Phys(c)    == boot.partitionOffset + boot.clusterHeapOffset + ((c - 2) * secPerClus)
           Takes(ent) == UdivCeil(ent.dataLength, secPerClus * (2 ^ boot.bytesPerSectorShift))
<1>9. secPerClus = spc /\ 2 ^ boot.bytesPerSectorShift = 512
  <2>1. boot.bytesPerSectorShift = Log2(512) /\ boot.sectorsPerClusterShift = sh  BY <1>5, <1>6
  <2> HIDE DEF sh, spc
  <2> QED  BY <1>5, <2>1
<1>10. Takes(boot.bitmap) = 1 /\ Takes(boot.upCase) = 1
  <2> HIDE DEF spc, secPerClus
  <2> QED  BY <1>6, <1>8, <1>9
<1> HIDE DEF Takes, sh
<1>11. Phys(2) = al + al /\ Phys(3) = al + al + spc /\ Phys(4) = al + al + spc + spc
  <2> HIDE DEF secPerClus
  <2> QED  BY <1>3, <1>6, <1>9, SMT
<1> HIDE DEF Phys, secPerClus
<1>12. /\ entry.startLBA = boot.partitionOffset /\ entry.sectors = boot.volumeLength
       /\ boot.partitionOffset + boot.fatOffset = written.fat1
       /\ written.copy + 12 <= written.fat1
  <2> HIDE DEF spc, cc
  <2> QED  BY <1>3, <1>4, <1>6, <1>7, SMT
<1>13. /\ Phys(boot.bitmap.firstCluster) = written.bitmap
       /\ Phys(boot.upCase.firstCluster) = written.upCase
       /\ Phys(boot.firstClusterOfRootDirectory) = written.root
  BY <1>6, <1>7, <1>11
<1>14. /\ boot.bitmap.firstCluster + Takes(boot.bitmap) = boot.upCase.firstCluster
       /\ boot.upCase.firstCluster + Takes(boot.upCase) = boot.firstClusterOfRootDirectory
  <2>1. 2 + 1 = 3 /\ 3 + 1 = 4  BY SMT
  <2> QED  BY <1>6, <1>10, <2>1
<1>15. /\ boot.firstClusterOfRootDirectory < boot.clusterCount + 2
       /\ boot.bytesPerSectorShift \in 9 .. 12
       /\ boot.sectorsPerClusterShift <= 25 - boot.bytesPerSectorShift
  <2> HIDE DEF al
  <2> QED  BY <1>3, <1>5, <1>6, SMT
<1> QED  BY <1>12, <1>13, <1>14, <1>15 DEF ExfatLeads, Phys, Takes, secPerClus

-----------------------------------------------------------------------------
(* The reserved entries of a FAT.                                          *)

Digit == 0 .. 15

\* Digits of an entry.
Digits(bits) == IF bits = 12 THEN 3 ELSE IF bits = 16 THEN 4 ELSE 8

LEMMA EndOfFileIs ==
  ASSUME NEW bits \in FatVariants
  PROVE  /\ EndOfFile(bits) \in Seq(Digit) /\ Len(EndOfFile(bits)) = Digits(bits)
         /\ \A i \in 1 .. Digits(bits) : EndOfFile(bits)[i] = IF i = 8 THEN 0 ELSE 15
<1>1. CASE bits = 12  BY <1>1, SMT DEF EndOfFile, Digits, Digit
<1>2. CASE bits = 16  BY <1>2, SMT DEF EndOfFile, Digits, Digit
<1>3. CASE bits = 32  BY <1>3, SMT DEF EndOfFile, Digits, Digit
<1> QED  BY <1>1, <1>2, <1>3 DEF FatVariants

\* The media type takes the place of the two lowest digits.
LEMMA WithMediaIs ==
  ASSUME NEW n \in Seq(Digit), Len(n) >= 2
  PROVE  /\ WithMedia(n) \in Seq(Digit) /\ Len(WithMedia(n)) = Len(n)
         /\ \A i \in 1 .. Len(n) : WithMedia(n)[i] = IF i = 1 THEN 8 ELSE IF i = 2 THEN 15 ELSE n[i]
<1> DEFINE media == <<8, 15>>
           rest  == SubSeq(n, 3, Len(n))
<1>1. media \in Seq(Digit) /\ Len(media) = 2 /\ media[1] = 8 /\ media[2] = 15  BY SMT DEF Digit
<1>2. Len(n) \in Nat  BY LenProperties
<1>3. rest \in Seq(Digit) /\ Len(rest) = Len(n) - 2 /\ \A i \in 1 .. Len(n) - 2 : rest[i] = n[i + 2]
  <2>1. PICK three \in Nat : three = 3  OBVIOUS
  <2>2. three .. Len(n) \subseteq 1 .. Len(n)  BY <2>1
  <2> DEFINE len == Len(n)
  <2> HIDE DEF len
  <2>3. /\ SubSeq(n, three, len) \in Seq(Digit)
        /\ Len(SubSeq(n, three, len)) = IF three <= len THEN len - three + 1 ELSE 0
        /\ \A i \in 1 .. len - three + 1 : SubSeq(n, three, len)[i] = n[three + i - 1]
    <3>1. three \in Int /\ len \in Int  BY <1>2, <2>1 DEF len
    <3>2. \A i \in three .. len : n[i] \in Digit  BY <2>2, ElementOfSeq DEF len
    <3> QED  BY <3>1, <3>2, SubSeqProperties
  <2>4. (IF three <= len THEN len - three + 1 ELSE 0) = len - 2 /\ len - three + 1 = len - 2
    <3>1. len \in Nat /\ len >= 2  BY <1>2 DEF len
    <3> QED  BY <2>1, <3>1
  <2>5. \A i \in 1 .. len - 2 : three + i - 1 = i + 2
    <3>1. len \in Nat  BY <1>2 DEF len
    <3> QED  BY <2>1, <3>1
  <2>6. rest = SubSeq(n, three, len)  BY <2>1 DEF len
  <2> HIDE DEF rest
  <2>7. \A i \in 1 .. Len(n) - 2 : rest[i] = n[i + 2]
    <3> TAKE i \in 1 .. Len(n) - 2
    <3>1. i \in 1 .. len - three + 1 /\ three + i - 1 = i + 2  BY <2>4, <2>5 DEF len
    <3> QED  BY <2>3, <2>6, <3>1
  <2> QED  BY <2>3, <2>4, <2>6, <2>7 DEF len
<1> HIDE DEF media, rest
<1>4. /\ media \o rest \in Seq(Digit) /\ Len(media \o rest) = Len(media) + Len(rest)
      /\ \A i \in 1 .. Len(media) + Len(rest) :
           (media \o rest)[i] = IF i <= Len(media) THEN media[i] ELSE rest[i - Len(media)]
  <2>1. media \in Seq(Digit) /\ rest \in Seq(Digit)  BY <1>1, <1>3
  <2> QED  BY <2>1, ConcatProperties
<1>5. Len(media) + Len(rest) = Len(n)  BY <1>1, <1>2, <1>3
<1>6. ASSUME NEW i \in 1 .. Len(n)
      PROVE  (media \o rest)[i] = IF i = 1 THEN 8 ELSE IF i = 2 THEN 15 ELSE n[i]
  <2>1. CASE i <= 2
    <3>1. i = 1 \/ i = 2  BY <2>1
    <3>2. (media \o rest)[i] = media[i]  BY <1>1, <1>4, <1>5, <2>1
    <3> QED  BY <1>1, <3>1, <3>2
  <2>2. CASE i > 2
    <3>1. i - 2 \in 1 .. Len(n) - 2 /\ (i - 2) + 2 = i  BY <1>2, <2>2
    <3>2. (media \o rest)[i] = rest[i - 2]  BY <1>1, <1>4, <1>5, <2>2
    <3> QED  BY <1>3, <2>2, <3>1, <3>2
  <2>3. i <= 2 \/ i > 2  BY <1>2
  <2> QED  BY <2>1, <2>2, <2>3
<1>7. WithMedia(n) = media \o rest  BY DEF WithMedia, media, rest
<1> QED  BY <1>4, <1>5, <1>6, <1>7

\* What both FATs begin with, digit by digit.
Reserved(bits) == IF bits = 32 THEN 24 ELSE 2 * Digits(bits)

LEMMA ReservedIs ==
  ASSUME NEW bits \in FatVariants
  PROVE  /\ ReservedEntries(bits) \in Seq(Digit) /\ Len(ReservedEntries(bits)) = Reserved(bits)
         /\ \A i \in 1 .. Reserved(bits) :
              ReservedEntries(bits)[i] =
                IF i = 1 THEN 8 ELSE IF bits = 32 /\ i \in {8, 16, 24} THEN 0 ELSE 15
<1> DEFINE d == Digits(bits)
           e == EndOfFile(bits)
<1>1. /\ e \in Seq(Digit) /\ Len(e) = d /\ \A i \in 1 .. d : e[i] = IF i = 8 THEN 0 ELSE 15
      /\ d \in {3, 4, 8} /\ (bits = 32 <=> d = 8)
  <2>1. d \in {3, 4, 8} /\ (bits = 32 <=> d = 8)  BY DEF Digits, FatVariants
  <2> QED  BY <2>1, EndOfFileIs
<1>2. CASE bits < 32
  <2>1. ReservedEntries(bits) = WithMedia(e \o e) /\ bits # 32 /\ d \in {3, 4}
    BY <1>1, <1>2 DEF ReservedEntries, FatVariants
  <2>2. Reserved(bits) = 2 * d  BY <2>1 DEF Reserved
  <2> HIDE DEF d, e
  <2>3. /\ e \o e \in Seq(Digit) /\ Len(e \o e) = Len(e) + Len(e)
        /\ \A i \in 1 .. Len(e) + Len(e) : (e \o e)[i] = IF i <= Len(e) THEN e[i] ELSE e[i - Len(e)]
    BY <1>1, ConcatProperties
  <2>4. ASSUME NEW i \in 1 .. 2 * d  PROVE (e \o e)[i] = 15
    <3>1. CASE i <= d
      <4>1. i \in 1 .. d /\ i # 8  BY <2>1, <3>1
      <4> QED  BY <1>1, <2>1, <2>3, <3>1, <4>1
    <3>2. CASE i > d
      <4>1. i - d \in 1 .. d /\ i - d # 8  BY <2>1, <3>2
      <4>2. (e \o e)[i] = e[i - d]  BY <1>1, <2>1, <2>3, <3>2
      <4> QED  BY <1>1, <4>1, <4>2
    <3>3. i <= d \/ i > d  BY <2>1
    <3> QED  BY <3>1, <3>2, <3>3
  <2> DEFINE n == e \o e
  <2>5. n \in Seq(Digit) /\ Len(n) = 2 * d /\ Len(n) >= 2  BY <1>1, <2>1, <2>3
  <2>6. \A i \in 1 .. Len(n) : n[i] = 15  BY <2>4, <2>5
  <2> HIDE DEF n
  <2>7. /\ WithMedia(n) \in Seq(Digit) /\ Len(WithMedia(n)) = Len(n)
        /\ \A i \in 1 .. Len(n) : WithMedia(n)[i] = IF i = 1 THEN 8 ELSE IF i = 2 THEN 15 ELSE n[i]
    BY <2>5, WithMediaIs
  <2>8. ReservedEntries(bits) = WithMedia(n)  BY <2>1 DEF n
  <2> QED  BY <2>1, <2>2, <2>5, <2>6, <2>7, <2>8
<1>3. CASE bits = 32
  <2>1. d = 8 /\ Reserved(bits) = 24  BY <1>3 DEF Digits, Reserved
  <2>2. ReservedEntries(bits) = (WithMedia(e) \o e) \o e  BY <1>3 DEF ReservedEntries
  <2> HIDE DEF d, e
  <2> DEFINE m == WithMedia(e)
             two == m \o e
             three == two \o e
  <2>3. e \in Seq(Digit) /\ Len(e) = 8 /\ Len(e) >= 2 /\ \A i \in 1 .. 8 : e[i] = IF i = 8 THEN 0 ELSE 15
    BY <1>1, <2>1
  <2>4. /\ m \in Seq(Digit) /\ Len(m) = 8
        /\ \A i \in 1 .. 8 : m[i] = IF i = 1 THEN 8 ELSE IF i = 8 THEN 0 ELSE 15
    <3>1. /\ m \in Seq(Digit) /\ Len(m) = Len(e)
          /\ \A i \in 1 .. Len(e) : m[i] = IF i = 1 THEN 8 ELSE IF i = 2 THEN 15 ELSE e[i]
      BY <2>3, WithMediaIs
    <3> HIDE DEF m
    <3> QED  BY <2>3, <3>1
  <2> HIDE DEF m
  <2>5. /\ two \in Seq(Digit) /\ Len(two) = Len(m) + Len(e)
        /\ \A i \in 1 .. Len(m) + Len(e) : two[i] = IF i <= Len(m) THEN m[i] ELSE e[i - Len(m)]
    <3>1. m \in Seq(Digit) /\ e \in Seq(Digit)  BY <2>3, <2>4
    <3> QED  BY <3>1, ConcatProperties DEF two
  <2> HIDE DEF two
  <2>6. /\ three \in Seq(Digit) /\ Len(three) = Len(two) + Len(e)
        /\ \A i \in 1 .. Len(two) + Len(e) : three[i] = IF i <= Len(two) THEN two[i] ELSE e[i - Len(two)]
    <3>1. two \in Seq(Digit) /\ e \in Seq(Digit)  BY <2>3, <2>5
    <3> QED  BY <3>1, ConcatProperties DEF three
  <2> HIDE DEF three
  <2>7. Len(two) = 16 /\ Len(three) = 24  BY <2>3, <2>4, <2>5, <2>6
  <2>lens. Len(e) = 8 /\ Len(m) = 8 /\ Len(two) = 16  BY <2>3, <2>4, <2>7
  <2>8. ASSUME NEW i \in 1 .. 24
        PROVE  three[i] = IF i = 1 THEN 8 ELSE IF i \in {8, 16, 24} THEN 0 ELSE 15
    <3>1. CASE i <= 8
      <4>1. i \in 1 .. 8 /\ i \in 1 .. Len(two) + Len(e) /\ i <= Len(two)
            /\ i \in 1 .. Len(m) + Len(e) /\ i <= Len(m)
        BY <2>lens, <3>1
      <4>2. three[i] = two[i] /\ two[i] = m[i]  BY <2>5, <2>6, <4>1
      <4> QED  BY <2>4, <3>1, <4>1, <4>2
    <3>2. CASE i > 8 /\ i <= 16
      <4>1. i - 8 \in 1 .. 8 /\ i \in 1 .. Len(two) + Len(e) /\ i <= Len(two)
            /\ i \in 1 .. Len(m) + Len(e) /\ ~(i <= Len(m)) /\ i - Len(m) = i - 8
        BY <2>lens, <3>2
      <4>2. three[i] = two[i] /\ two[i] = e[i - 8]  BY <2>5, <2>6, <4>1
      <4>3. i - 8 = 8 <=> i = 16  BY <3>2
      <4> QED  BY <2>3, <3>2, <4>1, <4>2, <4>3
    <3>3. CASE i > 16
      <4>1. i - 16 \in 1 .. 8 /\ i \in 1 .. Len(two) + Len(e) /\ ~(i <= Len(two)) /\ i - Len(two) = i - 16
        BY <2>lens, <3>3
      <4>2. three[i] = e[i - 16]  BY <2>6, <4>1
      <4>3. i - 16 = 8 <=> i = 24  BY <3>3
      <4> QED  BY <2>3, <3>3, <4>1, <4>2, <4>3
    <3> QED  BY <3>1, <3>2, <3>3
  <2>9. ReservedEntries(bits) = three  BY <2>2 DEF three, two, m
  <2> QED  BY <1>3, <2>1, <2>6, <2>7, <2>8, <2>9
<1> QED  BY <1>2, <1>3 DEF FatVariants

\* A driver finds the two reserved entries, and no cluster in use but that of a
\* FAT32 root directory.
LEMMA FatEntriesRight ==
  ASSUME PrinterInv, boot # NoBoot, UsesFat
  PROVE  FatEntriesFound
<1> DEFINE bits == params.fatBits
           d    == Digits(bits)
           r    == boot.fat
<1>1. bits \in FatVariants /\ boot.rootClus = 2  BY FatFields
<1>2. r = ReservedEntries(bits)
  <2>1. boot = FatBoot  BY Zenon DEF PrinterInv, BootInv, BootMade
  <2> QED  BY <2>1, SMT DEF FatBoot
<1>3. bits \div 4 = d /\ d \in {3, 4, 8} /\ (bits = 32 <=> d = 8)
  <2> HIDE DEF bits
  <2> QED  BY <1>1, SMT DEF Digits, FatVariants
<1> HIDE DEF r, bits
<1>4. /\ r \in Seq(Digit) /\ Len(r) = Reserved(bits) /\ DOMAIN r = 1 .. Reserved(bits)
      /\ \A i \in 1 .. Reserved(bits) :
           r[i] = IF i = 1 THEN 8 ELSE IF bits = 32 /\ i \in {8, 16, 24} THEN 0 ELSE 15
  <2>1. /\ r \in Seq(Digit) /\ Len(r) = Reserved(bits)
        /\ \A i \in 1 .. Reserved(bits) :
             r[i] = IF i = 1 THEN 8 ELSE IF bits = 32 /\ i \in {8, 16, 24} THEN 0 ELSE 15
    BY <1>1, <1>2, ReservedIs
  <2> QED  BY <2>1, LenProperties
<1>5. Reserved(bits) = IF bits = 32 THEN 24 ELSE 2 * d  BY DEF Reserved
<1> HIDE DEF d
<1>6. \A c : FatEntry(c) = [i \in 1 .. d |-> IF (c * d) + i \in 1 .. Reserved(bits) THEN r[(c * d) + i] ELSE 0]
  BY <1>3, <1>4, Zenon DEF FatEntry, r, bits
<1>7. /\ EndOfFile(bits) \in Seq(Digit) /\ Len(EndOfFile(bits)) = d
      /\ \A i \in 1 .. d : EndOfFile(bits)[i] = IF i = 8 THEN 0 ELSE 15
  BY <1>1, EndOfFileIs DEF d
<1>8. /\ WithMedia(EndOfFile(bits)) \in Seq(Digit) /\ Len(WithMedia(EndOfFile(bits))) = d
      /\ \A i \in 1 .. d : WithMedia(EndOfFile(bits))[i] = IF i = 1 THEN 8 ELSE IF i = 8 THEN 0 ELSE 15
  <2> DEFINE n == EndOfFile(bits)
  <2>1. n \in Seq(Digit) /\ Len(n) = d /\ Len(n) >= 2  BY <1>3, <1>7
  <2> HIDE DEF n
  <2>2. /\ WithMedia(n) \in Seq(Digit) /\ Len(WithMedia(n)) = Len(n)
        /\ \A i \in 1 .. Len(n) : WithMedia(n)[i] = IF i = 1 THEN 8 ELSE IF i = 2 THEN 15 ELSE n[i]
    BY <2>1, WithMediaIs
  <2>3. \A i \in 1 .. d : n[i] = IF i = 8 THEN 0 ELSE 15  BY <1>7 DEF n
  <2>4. \A i \in 1 .. d : WithMedia(n)[i] = IF i = 1 THEN 8 ELSE IF i = 8 THEN 0 ELSE 15
    BY <1>3, <2>1, <2>2, <2>3
  <2> QED  BY <2>1, <2>2, <2>4 DEF n
<1>9. FatEntry(0) = WithMedia(EndOfFile(bits))
  <2> DEFINE f == FatEntry(0)
             w == WithMedia(EndOfFile(bits))
  <2>1. f = [i \in 1 .. d |-> f[i]] /\ DOMAIN f = 1 .. d  BY <1>6, Zenon
  <2>2. w \in [1 .. d -> Digit]  BY <1>8, LenProperties
  <2>3. ASSUME NEW i \in 1 .. d PROVE f[i] = w[i]
    <3>1. (0 * d) + i = i /\ i \in 1 .. Reserved(bits) /\ (bits = 32 /\ i \in {8, 16, 24} <=> i = 8)
      BY <1>3, <1>5
    <3>2. f[i] = IF (0 * d) + i \in 1 .. Reserved(bits) THEN r[(0 * d) + i] ELSE 0  BY <1>6, Zenon
    <3>3. f[i] = r[i]  BY <3>1, <3>2
    <3> HIDE DEF f, w
    <3>4. w[i] = IF i = 1 THEN 8 ELSE IF i = 8 THEN 0 ELSE 15  BY <1>8 DEF w
    <3> QED  BY <1>4, <3>1, <3>3, <3>4
  <2> HIDE DEF f, w
  <2>4. f = w  BY <2>1, <2>2, <2>3
  <2> QED  BY <2>4 DEF f, w
<1>10. FatEntry(1) = EndOfFile(bits)
  <2> DEFINE f == FatEntry(1)
             w == EndOfFile(bits)
  <2>1. f = [i \in 1 .. d |-> f[i]] /\ DOMAIN f = 1 .. d  BY <1>6, Zenon
  <2>2. w \in [1 .. d -> Digit]  BY <1>7, LenProperties
  <2>3. ASSUME NEW i \in 1 .. d PROVE f[i] = w[i]
    <3>1. /\ (1 * d) + i = d + i /\ d + i \in 1 .. Reserved(bits) /\ d + i # 1
          /\ (bits = 32 /\ d + i \in {8, 16, 24} <=> i = 8)
      BY <1>3, <1>5
    <3>2. f[i] = IF (1 * d) + i \in 1 .. Reserved(bits) THEN r[(1 * d) + i] ELSE 0  BY <1>6, Zenon
    <3>3. f[i] = r[d + i]  BY <3>1, <3>2
    <3> HIDE DEF f, w
    <3>4. w[i] = IF i = 8 THEN 0 ELSE 15  BY <1>7 DEF w
    <3> QED  BY <1>4, <3>1, <3>3, <3>4
  <2> HIDE DEF f, w
  <2>4. f = w  BY <2>1, <2>2, <2>3
  <2> QED  BY <2>4 DEF f, w
<1>11. ASSUME NEW c \in 2 .. 6
       PROVE  Contains(FatEntry(c), 15) <=> bits = 32 /\ c = boot.rootClus
  <2> DEFINE f == FatEntry(c)
  <2>1. f = [i \in 1 .. d |-> f[i]] /\ DOMAIN f = 1 .. d  BY <1>6, Zenon
  <2>2. ASSUME NEW i \in 1 .. d
        PROVE  f[i] = IF (c * d) + i \in 1 .. Reserved(bits) THEN r[(c * d) + i] ELSE 0
    BY <1>6, Zenon
  <2> HIDE DEF f
  <2>3. CASE bits = 32 /\ c = 2
    <3>1. d = 8 /\ 1 \in 1 .. d /\ (c * d) + 1 = 17 /\ 17 \in 1 .. Reserved(bits)  BY <1>3, <1>5, <2>3
    <3>2. f[1] = r[17] /\ r[17] = 15  BY <1>4, <2>2, <3>1
    <3>3. Contains(f, 15)  BY <2>1, <3>1, <3>2 DEF Contains
    <3> QED  BY <1>1, <2>3, <3>3 DEF f
  <2>4. CASE ~(bits = 32 /\ c = 2)
    <3>1. ASSUME NEW i \in 1 .. d PROVE f[i] = 0
      <4>1. (c * d) + i > Reserved(bits)
        <5>1. CASE d = 8
          <6>1. c >= 3 /\ bits = 32  BY <1>3, <2>4, <5>1
          <6> QED  BY <1>5, <5>1, <6>1
        <5>2. CASE d = 3  BY <1>3, <1>5, <5>2
        <5>3. CASE d = 4  BY <1>3, <1>5, <5>3
        <5> QED  BY <1>3, <5>1, <5>2, <5>3
      <4>2. Reserved(bits) \in Nat  BY <1>3, <1>5
      <4>3. (c * d) + i \notin 1 .. Reserved(bits)  BY <4>1, <4>2
      <4> QED  BY <2>2, <4>3
    <3>2. DOMAIN f = 1 .. Len(f)
      <4>1. f \in [1 .. d -> {0}] /\ d \in Nat  BY <1>3, <2>1, <3>1
      <4>2. f \in Seq({0})  BY <4>1, SeqDef
      <4> QED  BY <4>2, LenProperties
    <3>3. \A i \in 1 .. Len(f) : f[i] = 0
      <4> TAKE i \in 1 .. Len(f)
      <4>1. i \in 1 .. d  BY <2>1, <3>2
      <4> QED  BY <3>1, <4>1
    <3>4. ~Contains(f, 15)  BY <3>3 DEF Contains
    <3> QED  BY <1>1, <2>4, <3>4 DEF f
  <2> QED  BY <2>3, <2>4
<1> QED  BY <1>9, <1>10, <1>11 DEF FatEntriesFound, bits

LEMMA InvBoot == PrinterInv => BootSectorLeadsToFs
BY FatAreasRight, FatEntriesRight, ExfatRight DEF BootSectorLeadsToFs, FatLeads

-----------------------------------------------------------------------------
(* The boot checksum of exFAT.                                             *)

IsByte(b) == b \in Nat /\ b <= 255
IsWord(w) == w \in [high : Nat, low : Nat] /\ w.high <= 65535 /\ w.low <= 65535

\* A number of 16 bits, rotated by one bit with another.
LEMMA Halves ==
  ASSUME NEW n \in Nat, n <= 65535
  PROVE  n % 2 \in {0, 1} /\ n \div 2 \in Nat /\ n \div 2 <= 32767 /\ n = (2 * (n \div 2)) + (n % 2)
BY SMT

LEMMA Rotated ==
  ASSUME NEW m \in Nat, m <= 65535, NEW n \in Nat, n <= 65535
  PROVE  ((m % 2) * 32768) + (n \div 2) \in Nat /\ ((m % 2) * 32768) + (n \div 2) <= 65535
<1>1. m % 2 \in {0, 1} /\ n \div 2 \in Nat /\ n \div 2 <= 32767  BY Halves
<1> DEFINE a == m % 2
           b == n \div 2
<1> HIDE DEF a, b
<1>2. a \in {0, 1} /\ b \in Nat /\ b <= 32767  BY <1>1 DEF a, b
<1>3. (a * 32768) + b \in Nat /\ (a * 32768) + b <= 65535  BY <1>2, SMT
<1> QED  BY <1>3 DEF a, b

LEMMA RotatedBack ==
  ASSUME NEW a \in {0, 1}, NEW b \in Nat, b <= 32767, NEW c \in {0, 1}, NEW d \in Nat, d <= 32767,
         (a * 32768) + b = (c * 32768) + d
  PROVE  a = c /\ b = d
BY SMT

\* A byte that is added to 16 bits is not lost in the carry.
LEMMA Carried ==
  ASSUME NEW x \in Nat, x <= 65535, NEW y \in Nat, y <= 65535, NEW a, IsByte(a), NEW b, IsByte(b),
         (x + a) % 65536 = (y + b) % 65536, x = y \/ a = b
  PROVE  x = y /\ a = b
BY SMT DEF IsByte

\* The two halves of the sum, rotated.
LowHalf(w)  == ((w.high % 2) * 32768) + (w.low \div 2)
HighHalf(w) == ((w.low % 2) * 32768) + (w.high \div 2)

LEMMA StepIs ==
  ASSUME NEW w, IsWord(w), NEW b, IsByte(b)
  PROVE  /\ ChecksumStep(w, b) = [high |-> (HighHalf(w) + ((LowHalf(w) + b) \div 65536)) % 65536,
                                  low  |-> (LowHalf(w) + b) % 65536]
         /\ LowHalf(w) \in Nat /\ LowHalf(w) <= 65535
         /\ HighHalf(w) \in Nat /\ HighHalf(w) <= 65535
<1>1. w.high \in Nat /\ w.high <= 65535 /\ w.low \in Nat /\ w.low <= 65535  BY DEF IsWord
<1>2. ChecksumStep(w, b) = [high |-> (HighHalf(w) + ((LowHalf(w) + b) \div 65536)) % 65536,
                            low  |-> (LowHalf(w) + b) % 65536]
  <2> DEFINE low  == ((w.high % 2) * 32768) + (w.low \div 2) + b
             high == ((w.low % 2) * 32768) + (w.high \div 2)
  <2>1. ChecksumStep(w, b) = [high |-> (high + (low \div 65536)) % 65536, low |-> low % 65536]
    BY DEF ChecksumStep, U16
  <2>2. LowHalf(w) + b = low /\ HighHalf(w) = high  BY DEF LowHalf, HighHalf
  <2> HIDE DEF low, high
  <2> QED  BY <2>1, <2>2
<1>3. LowHalf(w) \in Nat /\ LowHalf(w) <= 65535  BY <1>1, Rotated DEF LowHalf
<1>4. HighHalf(w) \in Nat /\ HighHalf(w) <= 65535  BY <1>1, Rotated DEF HighHalf
<1> QED  BY <1>2, <1>3, <1>4

LEMMA StepType ==
  ASSUME NEW w, IsWord(w), NEW b, IsByte(b)
  PROVE  IsWord(ChecksumStep(w, b))
<1> DEFINE h == HighHalf(w) + ((LowHalf(w) + b) \div 65536)
           l == LowHalf(w) + b
<1>1. l \in Nat /\ h \in Nat  BY StepIs, SMT DEF IsByte
<1>2. ChecksumStep(w, b) = [high |-> h % 65536, low |-> l % 65536]  BY StepIs
<1> HIDE DEF h, l
<1>3. h % 65536 \in Nat /\ h % 65536 <= 65535 /\ l % 65536 \in Nat /\ l % 65536 <= 65535  BY <1>1, SMT
<1> QED  BY <1>2, <1>3 DEF IsWord

SameStep(v, a, w, b) == ChecksumStep(v, a) = ChecksumStep(w, b) /\ (v = w \/ a = b)

\* One turn loses nothing: neither of the sum nor of the byte.
LEMMA StepInjective ==
  ASSUME NEW v, IsWord(v), NEW w, IsWord(w), NEW a, IsByte(a), NEW b, IsByte(b),
         SameStep(v, a, w, b)
  PROVE  v = w /\ a = b
<1> DEFINE x == LowHalf(v)
           y == LowHalf(w)
           p == HighHalf(v)
           q == HighHalf(w)
           cx == (x + a) \div 65536
           cy == (y + b) \div 65536
<1>1. /\ x \in Nat /\ x <= 65535 /\ y \in Nat /\ y <= 65535
      /\ p \in Nat /\ p <= 65535 /\ q \in Nat /\ q <= 65535
      /\ (x + a) % 65536 = (y + b) % 65536
      /\ (p + cx) % 65536 = (q + cy) % 65536
  <2> DEFINE hv == (p + cx) % 65536
             lv == (x + a) % 65536
             hw == (q + cy) % 65536
             lw == (y + b) % 65536
  <2>1. ChecksumStep(v, a) = [high |-> hv, low |-> lv] /\ ChecksumStep(w, b) = [high |-> hw, low |-> lw]
    BY StepIs
  <2>2. ChecksumStep(v, a) = ChecksumStep(w, b)  BY Zenon DEF SameStep
  <2>3. hv = hw /\ lv = lw
    <3> HIDE DEF hv, lv, hw, lw
    <3> QED  BY <2>1, <2>2
  <2>4. /\ x \in Nat /\ x <= 65535 /\ y \in Nat /\ y <= 65535
        /\ p \in Nat /\ p <= 65535 /\ q \in Nat /\ q <= 65535
    BY StepIs
  <2> HIDE DEF x, y, p, q, cx, cy
  <2> QED  BY <2>3, <2>4
<1>2. x = y /\ a = b
  <2>1. x = y \/ a = b  BY Zenon DEF SameStep
  <2> HIDE DEF x, y, p, q, cx, cy
  <2> QED  BY <1>1, <2>1, Carried
<1>3. p = q
  <2>1. cx = cy  BY <1>2
  <2>2. IsByte(cx)
    <3> HIDE DEF x
    <3> QED  BY <1>1, SMT DEF IsByte
  <2> HIDE DEF x, y, p, q, cx, cy
  <2> QED  BY <1>1, <2>1, <2>2, Carried
<1>4. /\ v.high \in Nat /\ v.high <= 65535 /\ v.low \in Nat /\ v.low <= 65535
      /\ w.high \in Nat /\ w.high <= 65535 /\ w.low \in Nat /\ w.low <= 65535
      /\ v = [high |-> v.high, low |-> v.low] /\ w = [high |-> w.high, low |-> w.low]
  BY DEF IsWord
<1> DEFINE bit(n) == n % 2
           rest(n) == n \div 2
<1>5. ASSUME NEW n \in Nat, n <= 65535
      PROVE  bit(n) \in {0, 1} /\ rest(n) \in Nat /\ rest(n) <= 32767 /\ n = (2 * rest(n)) + bit(n)
  BY <1>5, Halves
<1>6. /\ (bit(v.high) * 32768) + rest(v.low) = (bit(w.high) * 32768) + rest(w.low)
      /\ (bit(v.low) * 32768) + rest(v.high) = (bit(w.low) * 32768) + rest(w.high)
  <2> DEFINE xv == (bit(v.high) * 32768) + rest(v.low)
             yw == (bit(w.high) * 32768) + rest(w.low)
             pv == (bit(v.low) * 32768) + rest(v.high)
             qw == (bit(w.low) * 32768) + rest(w.high)
  <2>1. x = xv /\ y = yw /\ p = pv /\ q = qw  BY DEF LowHalf, HighHalf
  <2> HIDE DEF x, y, p, q, xv, yw, pv, qw
  <2>2. xv = yw /\ pv = qw  BY <1>2, <1>3, <2>1
  <2> QED  BY <2>2 DEF xv, yw, pv, qw
<1> HIDE DEF bit, rest
<1>7. /\ bit(v.high) = bit(w.high) /\ rest(v.low) = rest(w.low)
      /\ bit(v.low) = bit(w.low) /\ rest(v.high) = rest(w.high)
  BY <1>4, <1>5, <1>6, RotatedBack
<1>8. v.high = w.high /\ v.low = w.low  BY <1>4, <1>5, <1>7
<1> QED  BY <1>2, <1>4, <1>8

\* The sums up to each byte, turn by turn.
Turn(f, data, first, i) ==
  IF i < first THEN Zero32
  ELSE IF i \in Skipped THEN f[i - 1] ELSE ChecksumStep(f[i - 1], data[i])

IsSum(f, data, first, last) == f = [i \in first - 1 .. last |-> Turn(f, data, first, i)]

\* A set of numbers has a least one.
LEMMA LeastNatural ==
  ASSUME NEW T \in SUBSET Nat, T # {}
  PROVE  \E x \in T : \A y \in T : x <= y
<1>1. PICK x \in T : \A y \in T : ~(<<y, x>> \in OpToRel(<, Nat))
  BY NatLessThanWellFounded, WFMin
<1>2. ASSUME NEW y \in T  PROVE x <= y
  <2>1. ~(y < x)  BY <1>1 DEF OpToRel
  <2> QED  BY <2>1
<1> QED  BY <1>2

LEMMA SumStep ==
  ASSUME NEW data, NEW first \in Nat \ {0}, NEW n \in Nat, n >= first,
         NEW f, IsSum(f, data, first, n - 1)
  PROVE  \E g : IsSum(g, data, first, n)
<1> DEFINE D == first - 1 .. n
           g == [i \in D |-> IF i = n THEN Turn(f, data, first, n) ELSE f[i]]
<1>1. ASSUME NEW i \in D PROVE g[i] = Turn(g, data, first, i)
  <2>1. i \in Int /\ (i >= first => i - 1 \in D /\ i - 1 # n)  OBVIOUS
  <2>2. i >= first => g[i - 1] = f[i - 1]  BY <2>1
  <2>3. Turn(g, data, first, i) = Turn(f, data, first, i)
    <3>1. CASE i < first  BY <3>1 DEF Turn
    <3>2. CASE i >= first
      <4>1. g[i - 1] = f[i - 1]  BY <2>2, <3>2
      <4> HIDE DEF g
      <4> QED  BY <4>1, Zenon DEF Turn
    <3> QED  BY <2>1, <3>1, <3>2
  <2>4. g[i] = Turn(f, data, first, i)
    <3>1. CASE i = n  BY <3>1
    <3>2. CASE i # n
      <4>1. i \in first - 1 .. n - 1  BY <3>2
      <4>2. f[i] = Turn(f, data, first, i)  BY <4>1, Zenon DEF IsSum
      <4> QED  BY <3>2, <4>2
    <3> QED  BY <3>1, <3>2
  <2> QED  BY <2>3, <2>4
<1>2. g = [i \in D |-> g[i]]  OBVIOUS
<1> HIDE DEF g
<1>3. g = [i \in D |-> Turn(g, data, first, i)]  BY <1>1, <1>2
<1> QED  BY <1>3 DEF IsSum

LEMMA SumExists ==
  ASSUME NEW data, NEW first \in Nat \ {0}, NEW last \in Nat
  PROVE  \E f : IsSum(f, data, first, last)
<1> DEFINE T == {n \in Nat : ~\E f : IsSum(f, data, first, n)}
<1>1. SUFFICES ASSUME T # {} PROVE FALSE  OBVIOUS
<1>2. PICK n \in T : \A m \in T : n <= m
  <2>1. T \in SUBSET Nat  OBVIOUS
  <2> HIDE DEF T
  <2> QED  BY <1>1, <2>1, LeastNatural
<1>3. CASE n < first
  <2> DEFINE f == [i \in first - 1 .. n |-> Zero32]
  <2>1. ASSUME NEW i \in first - 1 .. n PROVE f[i] = Turn(f, data, first, i)
    <3>1. i < first  BY <1>2, <1>3
    <3>2. Turn(f, data, first, i) = Zero32  BY <3>1 DEF Turn
    <3> QED  BY <3>2
  <2>2. f = [i \in first - 1 .. n |-> f[i]]  OBVIOUS
  <2> HIDE DEF f
  <2>3. f = [i \in first - 1 .. n |-> Turn(f, data, first, i)]  BY <2>1, <2>2
  <2> QED  BY <1>2, <2>3 DEF IsSum
<1>4. CASE n >= first
  <2>1. n - 1 \in Nat /\ ~(n <= n - 1)  BY <1>2, <1>4
  <2>2. PICK f : IsSum(f, data, first, n - 1)  BY <1>2, <2>1
  <2> QED  BY <1>2, <1>4, <2>2, SumStep
<1>5. n < first \/ n >= first  BY <1>2
<1> QED  BY <1>3, <1>4, <1>5

LEMMA ChecksumIs ==
  ASSUME NEW data, NEW first \in Nat \ {0}, NEW last \in Nat
  PROVE  \E f : IsSum(f, data, first, last) /\ BootChecksum(data, first, last) = f[last]
<1> DEFINE f == CHOOSE g : IsSum(g, data, first, last)
<1>1. IsSum(f, data, first, last)  BY SumExists
<1>2. BootChecksum(data, first, last) = f[last]  BY Zenon DEF BootChecksum, IsSum, Turn
<1> QED  BY <1>1, <1>2

AreBytes(data, first, last) == \A i \in first .. last : IsByte(data[i])

LEMMA SumTurns ==
  ASSUME NEW f, NEW data, NEW first, NEW last, IsSum(f, data, first, last), NEW i \in first - 1 .. last
  PROVE  f[i] = Turn(f, data, first, i)
BY Zenon DEF IsSum

LEMMA SumType ==
  ASSUME NEW data, NEW first \in Nat \ {0}, NEW last \in Nat, AreBytes(data, first, last),
         NEW f, IsSum(f, data, first, last), NEW k \in first - 1 .. last
  PROVE  IsWord(f[k])
<1> DEFINE T == {i \in first - 1 .. last : ~IsWord(f[i])}
<1>1. SUFFICES ASSUME T # {} PROVE FALSE  OBVIOUS
<1>2. PICK i \in T : \A j \in T : i <= j
  <2>1. T \in SUBSET Nat  OBVIOUS
  <2> HIDE DEF T
  <2> QED  BY <1>1, <2>1, LeastNatural
<1>3. i \in first - 1 .. last /\ f[i] = Turn(f, data, first, i) /\ ~IsWord(f[i])  BY <1>2, SumTurns
<1>4. CASE i < first
  <2>1. f[i] = Zero32  BY <1>3, <1>4 DEF Turn
  <2> QED  BY <1>3, <2>1 DEF Zero32, IsWord
<1>5. CASE i >= first
  <2>1. i - 1 \in first - 1 .. last /\ ~(i <= i - 1) /\ i \in first .. last /\ ~(i < first)  BY <1>3, <1>5
  <2>2. IsWord(f[i - 1])  BY <1>2, <2>1
  <2>3. IsByte(data[i])  BY <2>1 DEF AreBytes
  <2>4. f[i] = f[i - 1] \/ f[i] = ChecksumStep(f[i - 1], data[i])  BY <1>3, <2>1, Zenon DEF Turn
  <2> QED  BY <1>3, <2>2, <2>3, <2>4, StepType
<1>6. i < first \/ i >= first  BY <1>3
<1> QED  BY <1>4, <1>5, <1>6

\* The regions are the same but for byte k.
OnlyAt(k, data, other, first, last) == \A i \in first .. last : i # k => data[i] = other[i]

LEMMA SameSums ==
  ASSUME NEW data, NEW other, NEW first \in Nat \ {0}, NEW last \in Nat,
         NEW k \in first .. last, OnlyAt(k, data, other, first, last),
         NEW f, IsSum(f, data, first, last), NEW g, IsSum(g, other, first, last),
         NEW i \in first - 1 .. last, i < k \/ k \in Skipped
  PROVE  f[i] = g[i]
<1> DEFINE T == {j \in first - 1 .. last : (j < k \/ k \in Skipped) /\ f[j] # g[j]}
<1>1. SUFFICES ASSUME T # {} PROVE FALSE  OBVIOUS
<1>2. PICK j \in T : \A m \in T : j <= m
  <2>1. T \in SUBSET Nat  OBVIOUS
  <2> HIDE DEF T
  <2> QED  BY <1>1, <2>1, LeastNatural
<1>3. /\ j \in first - 1 .. last /\ (j < k \/ k \in Skipped) /\ f[j] # g[j]
      /\ f[j] = Turn(f, data, first, j) /\ g[j] = Turn(g, other, first, j)
  BY <1>2, SumTurns
<1>4. ~(j < first)  BY <1>3 DEF Turn
<1>5. j - 1 \in first - 1 .. last /\ ~(j <= j - 1) /\ j \in first .. last /\ (j < k => j - 1 < k)
  BY <1>3, <1>4
<1>6. f[j - 1] = g[j - 1]
  <2>1. j - 1 \notin T  BY <1>2, <1>5
  <2> QED  BY <1>3, <1>5, <2>1
<1>7. j \notin Skipped  BY <1>3, <1>4, <1>6, Zenon DEF Turn
<1>8. j # k  BY <1>3, <1>5, <1>7
<1>9. data[j] = other[j]  BY <1>5, <1>8 DEF OnlyAt
<1> QED  BY <1>3, <1>4, <1>6, <1>7, <1>9, Zenon DEF Turn

LEMMA OtherSums ==
  ASSUME NEW data, NEW other, NEW first \in Nat \ {0}, NEW last \in Nat,
         AreBytes(data, first, last), AreBytes(other, first, last),
         NEW k \in first .. last, OnlyAt(k, data, other, first, last),
         k \notin Skipped, data[k] # other[k],
         NEW f, IsSum(f, data, first, last), NEW g, IsSum(g, other, first, last),
         NEW i \in k .. last
  PROVE  f[i] # g[i]
<1> DEFINE T == {j \in k .. last : f[j] = g[j]}
<1>1. SUFFICES ASSUME T # {} PROVE FALSE  OBVIOUS
<1>2. PICK j \in T : \A m \in T : j <= m
  <2>1. T \in SUBSET Nat  OBVIOUS
  <2> HIDE DEF T
  <2> QED  BY <1>1, <2>1, LeastNatural
<1>3. j \in k .. last /\ f[j] = g[j]  BY <1>2
<1>4. /\ j \in first .. last /\ j - 1 \in first - 1 .. last /\ j \in first - 1 .. last /\ ~(j < first)
      /\ ~(j <= j - 1) /\ (j # k => j - 1 \in k .. last) /\ (j = k => j - 1 < k)
  BY <1>3
<1>5. f[j] = Turn(f, data, first, j) /\ g[j] = Turn(g, other, first, j)  BY <1>4, SumTurns
<1>6. IsWord(f[j - 1]) /\ IsWord(g[j - 1])  BY <1>4, SumType
<1>7. IsByte(data[j]) /\ IsByte(other[j])  BY <1>4 DEF AreBytes
<1>8. CASE j = k
  <2>1. f[j - 1] = g[j - 1]  BY <1>4, <1>8, SameSums
  <2>2. ChecksumStep(f[j - 1], data[j]) = ChecksumStep(g[j - 1], other[j])
    BY <1>3, <1>4, <1>5, <1>8, Zenon DEF Turn
  <2>3. data[j] = other[j]  BY <1>6, <1>7, <2>1, <2>2, StepInjective DEF SameStep
  <2> QED  BY <1>8, <2>3
<1>9. CASE j # k
  <2>1. f[j - 1] # g[j - 1]
    <3>1. j - 1 \notin T /\ j - 1 \in k .. last  BY <1>2, <1>4, <1>9
    <3> QED  BY <3>1
  <2>2. data[j] = other[j]  BY <1>4, <1>9 DEF OnlyAt
  <2>3. CASE j \in Skipped
    <3>1. f[j] = f[j - 1] /\ g[j] = g[j - 1]  BY <1>4, <1>5, <2>3, Zenon DEF Turn
    <3> QED  BY <1>3, <2>1, <3>1
  <2>4. CASE j \notin Skipped
    <3>1. ChecksumStep(f[j - 1], data[j]) = ChecksumStep(g[j - 1], other[j])
      BY <1>3, <1>4, <1>5, <2>4, Zenon DEF Turn
    <3>2. f[j - 1] = g[j - 1]  BY <1>6, <1>7, <2>2, <3>1, StepInjective DEF SameStep
    <3> QED  BY <2>1, <3>2
  <2> QED  BY <2>3, <2>4
<1> QED  BY <1>8, <1>9

\* calcExFatBootChecksum, for a region of any length and contents: one byte that
\* differs is one sum that differs, unless the byte is one of the three that are
\* left out, which never make a difference.
THEOREM ChecksumIsSensitive ==
  ASSUME NEW data, NEW other, NEW first \in Nat \ {0}, NEW last \in Nat,
         AreBytes(data, first, last), AreBytes(other, first, last),
         NEW k \in first .. last, OnlyAt(k, data, other, first, last), data[k] # other[k]
  PROVE  BootChecksum(data, first, last) = BootChecksum(other, first, last) <=> k \in Skipped
<1>1. PICK f : IsSum(f, data, first, last) /\ BootChecksum(data, first, last) = f[last]  BY ChecksumIs
<1>2. PICK g : IsSum(g, other, first, last) /\ BootChecksum(other, first, last) = g[last]  BY ChecksumIs
<1>3. last \in first - 1 .. last /\ last \in k .. last  OBVIOUS
<1>4. k \in Skipped => f[last] = g[last]  BY <1>1, <1>2, <1>3, SameSums
<1>5. k \notin Skipped => f[last] # g[last]  BY <1>1, <1>2, <1>3, OtherSums
<1> QED  BY <1>1, <1>2, <1>4, <1>5

LEMMA ImagesAreBytes ==
  ASSUME NEW data \in Images
  PROVE  data = [i \in FirstByte .. LastByte |-> data[i]] /\ AreBytes(data, FirstByte, LastByte)
<1>1. ASSUME NEW i \in FirstByte .. LastByte PROVE IsByte((7 * i * i) % 256) /\ IsByte(0)
  <2>1. i \in Nat /\ 7 * i * i \in Nat  BY SMT DEF FirstByte, LastByte
  <2> DEFINE n == 7 * i * i
  <2> HIDE DEF n
  <2>2. IsByte(n % 256) /\ IsByte(0)
    <3>1. n \in Nat  BY <2>1 DEF n
    <3> QED  BY <3>1, SMT DEF IsByte
  <2> QED  BY <2>2 DEF n
<1>2. CASE data = [i \in FirstByte .. LastByte |-> 0]  BY <1>1, <1>2 DEF AreBytes
<1>3. CASE data = [i \in FirstByte .. LastByte |-> (7 * i * i) % 256]  BY <1>1, <1>3 DEF AreBytes
<1> QED  BY <1>2, <1>3 DEF Images

LEMMA InvChecksum == ChecksumSeesEveryByte
<1> SUFFICES ASSUME NEW data \in Images, NEW i \in FirstByte .. LastByte, NEW byte \in {1, 128, 255}
             PROVE  LET changed == [data EXCEPT ![i] = (@ + byte) % 256]
                    IN  BootChecksum(changed, FirstByte, LastByte) = BootChecksum(data, FirstByte, LastByte)
                          <=> i \in Skipped
  BY Zenon DEF ChecksumSeesEveryByte, EveryByteCounts
<1> DEFINE changed == [data EXCEPT ![i] = (@ + byte) % 256]
<1>1. FirstByte \in Nat \ {0} /\ LastByte \in Nat  BY DEF FirstByte, LastByte
<1>2. DOMAIN data = FirstByte .. LastByte /\ AreBytes(data, FirstByte, LastByte)  BY ImagesAreBytes
<1>3. IsByte(data[i])  BY <1>2 DEF AreBytes
<1>4. IsByte((data[i] + byte) % 256) /\ (data[i] + byte) % 256 # data[i]
  <2> DEFINE n == data[i]
  <2>1. IsByte(n)  BY <1>3
  <2> HIDE DEF n
  <2>2. IsByte((n + byte) % 256) /\ (n + byte) % 256 # n  BY <2>1, SMT DEF IsByte
  <2> QED  BY <2>2 DEF n
<1>5. changed[i] = (data[i] + byte) % 256 /\ \A j \in FirstByte .. LastByte : j # i => changed[j] = data[j]
  BY <1>2
<1> HIDE DEF changed
<1>6. AreBytes(changed, FirstByte, LastByte)
  <2> SUFFICES ASSUME NEW j \in FirstByte .. LastByte PROVE IsByte(changed[j])  BY DEF AreBytes
  <2>1. CASE j = i  BY <1>4, <1>5, <2>1
  <2>2. CASE j # i  BY <1>2, <1>5, <2>2 DEF AreBytes
  <2> QED  BY <2>1, <2>2
<1>7. OnlyAt(i, changed, data, FirstByte, LastByte) /\ changed[i] # data[i]  BY <1>4, <1>5 DEF OnlyAt
<1>8. BootChecksum(changed, FirstByte, LastByte) = BootChecksum(data, FirstByte, LastByte) <=> i \in Skipped
  BY <1>1, <1>2, <1>6, <1>7, ChecksumIsSensitive
<1> QED  BY <1>8 DEF changed

-----------------------------------------------------------------------------
(* The properties.                                                         *)

\* Entry, boot sector and report keep their types; the tool never meets a
\* partition type it does not know.
THEOREM PrinterTypeCorrect == PrinterSpec => []PrinterTypeOK
BY PrinterInvariant, InvPrinterType, PTL

\* Whoever reads the boot sector, of FAT or exFAT, comes to the sectors the
\* structures were written to, in a volume as long as its partition; the reserved
\* entries of a FAT and the clusters taken are those a driver expects.
THEOREM BootLeads == PrinterSpec => []BootSectorLeadsToFs
BY PrinterInvariant, InvBoot, PTL

\* For the images the run uses, too, the checksum sees every byte that counts.
THEOREM ChecksumHolds == PrinterSpec => []ChecksumSeesEveryByte
BY InvChecksum, PTL

\* fsPrinter names the file system that was made and finds its structures.
THEOREM PrinterIsRight == PrinterSpec => []PrinterFindsFs
BY PrinterInvariant, InvFinds, PTL
=============================================================================
