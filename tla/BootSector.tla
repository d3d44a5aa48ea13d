----------------------------- MODULE BootSector -----------------------------
(***************************************************************************)
(* The boot sectors makeFsFat (source/fat.cpp) and makeFsExFat             *)
(* (source/exfat.cpp) compute from the parameters, with the widths the     *)
(* structures of include/fat.h and include/exfat.h give their fields, and  *)
(* where on the card both write what the boot sector leads to.             *)
(*                                                                         *)
(* The bytes of the card are in FormatSd; here are the numbers, for every  *)
(* card FormatParams accepts, behind the partition entry of Mbr.           *)
(***************************************************************************)
EXTENDS Mbr, SequencesExt

CONSTANT UpCaseSize   \* sizeof(g_upCaseTable)

\* The table fits into the smallest cluster of exFAT, of 128 KiB.
ASSUME UpCaseAssumption == UpCaseSize \in Nat \ {0} /\ UpCaseSize <= 131072

VARIABLES
  boot,         \* BootSec or ExfatBootSec
  written       \* first physical sector of each structure

bootVars == <<mbrVars, boot, written>>

NoBoot == [fs |-> "none"]
NoPlaces == [boot |-> 0]

\* Stores to fields of 8 and of 16 bits.
U8(n)  == n % 256
U16(n) == n % 65536

\* util::countTrailingZeros of a power of two.
Log2(n) == CHOOSE k \in 0 .. 30 : n = 2 ^ k

-----------------------------------------------------------------------------
(* makeFsFat.                                                              *)

\* Slip: the 16 bit size of the FAT is filled in whatever the variant.
FatSz16Always == U16(secPerFat)

FatSz16 == IF secPerFat > 65535 \/ params.fatBits = 32 THEN 0 ELSE U16(secPerFat)

\* FAT12_EOF, FAT16_EOF and FAT32_EOF in digits of four bits, the lowest first.
EndOfFile(bits) ==
  CASE bits = 12 -> <<15, 15, 15>>
    [] bits = 16 -> <<15, 15, 15, 15>>
    [] bits = 32 -> <<15, 15, 15, 15, 15, 15, 15, 0>>

\* (n & ~0xFF) | BPB_DEFAULT_MEDIA
WithMedia(n) == <<8, 15>> \o SubSeq(n, 3, Len(n))

\* What both FATs begin with, zeros follow: FAT12 and FAT16 shift their second
\* entry behind the first.
ReservedEntries(bits) ==
  IF bits < 32 THEN WithMedia(EndOfFile(bits) \o EndOfFile(bits))
  ELSE WithMedia(EndOfFile(32)) \o EndOfFile(32) \o EndOfFile(32)

FatBoot ==
  LET partSectors == params.totSec - partStart
      wide        == partSectors > 65535 \/ params.fatBits = 32
  IN  [fs           |-> "FAT",
       bytesPerSec  |-> U16(params.bytesPerSec),
       secPerClus   |-> U8(params.secPerClus),
       rsvdSecCnt   |-> U16(rsvdSecCnt),
       numFats      |-> 2,
       rootEntCnt   |-> IF params.fatBits = 32 THEN 0 ELSE 512,
       totSec16     |-> IF wide THEN 0 ELSE U16(partSectors),
       totSec32     |-> IF wide THEN partSectors ELSE 0,
       fatSz16      |-> FatSz16,
       fatSz32      |-> IF params.fatBits = 32 THEN secPerFat ELSE 0,
       hiddSec      |-> partStart,
       rootClus     |-> 2,
       fsInfoSector |-> 1,
       bkBootSec    |-> 6,
       freeCount    |-> IF params.fatBits = 32 THEN maxClus - 1 ELSE 0,
       fat          |-> ReservedEntries(params.fatBits)]

\* curOffset at each of the writes.
FatPlaces ==
  LET At(n) == Log2Phy(partStart + n, params.bytesPerSec)
      fat1  == rsvdSecCnt
      fat2  == fat1 + secPerFat
  IN  [boot |-> At(0), fsInfo |-> At(1), copy |-> At(6), fat1 |-> At(fat1), fat2 |-> At(fat2),
       root |-> At(fat2 + secPerFat),
       end  |-> At(fsAreaSize + (IF params.fatBits < 32 THEN 0 ELSE params.secPerClus))]

-----------------------------------------------------------------------------
(* makeFsExFat.                                                            *)

BytesPerClus == params.secPerClus * params.bytesPerSec
BitmapClus   == UdivCeil(exfat.clusterCount, BytesPerClus * 8)
UpCaseClus   == UdivCeil(UpCaseSize, BytesPerClus)

\* EXFAT_FIRST_ENT is 2.
RootCluster == 2 + BitmapClus + UpCaseClus

ExfatBoot ==
  [fs                          |-> "EXFAT",
   partitionOffset             |-> exfat.partitionOffset,
   volumeLength                |-> exfat.volumeLength,
   fatOffset                   |-> exfat.fatOffset,
   fatLength                   |-> exfat.fatLength,
   clusterHeapOffset           |-> exfat.clusterHeapOffset,
   clusterCount                |-> exfat.clusterCount,
   firstClusterOfRootDirectory |-> RootCluster,
   bytesPerSectorShift         |-> Log2(params.bytesPerSec),
   sectorsPerClusterShift      |-> Log2(params.secPerClus),
   numberOfFats                |-> 1,
   bitmap                      |-> [firstCluster |-> 2, dataLength |-> UdivCeil(exfat.clusterCount, 8)],
   upCase                      |-> [firstCluster |-> 2 + BitmapClus, dataLength |-> UpCaseSize]]

\* u32 as its two halves of 16 bits.
Zero32 == [high |-> 0, low |-> 0]

\* Slip: the bit that is shifted out is lost.
ChecksumStepLossy(sum, byte) ==
  LET low == ((sum.high % 2) * 32768) + (sum.low \div 2) + byte
  IN  [high |-> U16((sum.high \div 2) + (low \div 65536)), low |-> U16(low)]

\* (checksum & 1 ? 0x80000000 : 0) + (checksum>>1) + byte
ChecksumStep(sum, byte) ==
  LET low  == ((sum.high % 2) * 32768) + (sum.low \div 2) + byte
      high == ((sum.low % 2) * 32768) + (sum.high \div 2)
  IN  [high |-> U16(high + (low \div 65536)), low |-> U16(low)]

\* calcExFatBootChecksum without volumeFlags and percentInUse, of the bytes from
\* first to last; zeros in front of them leave the sum as it is.
Skipped == {106, 107, 112}

BootChecksum(data, first, last) ==
  LET Sum[i \in first - 1 .. last] ==
        IF i < first THEN Zero32
        ELSE IF i \in Skipped THEN Sum[i - 1] ELSE ChecksumStep(Sum[i - 1], data[i])
  IN  Sum[last]

ExfatPlaces ==
  LET start  == exfat.partitionOffset
      heap   == start + exfat.clusterHeapOffset
      upCase == heap + (params.secPerClus * BitmapClus)
      root   == upCase + (params.secPerClus * UpCaseClus)
  IN  [boot |-> start, oemParams |-> start + 9, copy |-> start + 12,
       fat1 |-> start + exfat.fatOffset, bitmap |-> heap, upCase |-> upCase, root |-> root,
       end  |-> root + params.secPerClus]

-----------------------------------------------------------------------------
MakeFs ==
  /\ entry # NoEntry /\ boot = NoBoot
  /\ boot' = IF UsesFat THEN FatBoot ELSE ExfatBoot
  /\ written' = IF UsesFat THEN FatPlaces ELSE ExfatPlaces
  /\ UNCHANGED mbrVars

BootInit == MbrInit /\ boot = NoBoot /\ written = NoPlaces

BootNext ==
  \/ MbrNext /\ UNCHANGED <<boot, written>>
  \/ MakeFs

-----------------------------------------------------------------------------
(* Properties.                                                             *)

\* What a FAT driver makes of the boot sector, in logical sectors of the volume.
FatFound ==
  LET fatSz == IF boot.fatSz16 # 0 THEN boot.fatSz16 ELSE boot.fatSz32
      fat2  == boot.rsvdSecCnt + fatSz
      root  == boot.rsvdSecCnt + (boot.numFats * fatSz)
      data  == root + (((32 * boot.rootEntCnt) + (boot.bytesPerSec - 1)) \div boot.bytesPerSec)
  IN  [fat1 |-> boot.rsvdSecCnt, fat2 |-> fat2, root |-> root,
       total |-> IF boot.totSec16 # 0 THEN boot.totSec16 ELSE boot.totSec32,
       end  |-> data + (IF boot.fatSz16 # 0 THEN 0 ELSE (boot.rootClus - 1) * boot.secPerClus)]

\* Entry c of the FAT as a driver takes it from the bits.
FatEntry(c) ==
  LET digits == params.fatBits \div 4
  IN  [i \in 1 .. digits |-> IF (c * digits) + i \in DOMAIN boot.fat
                            THEN boot.fat[(c * digits) + i] ELSE 0]

\* Those who read the numbers come to the sectors written.
FatAreasFound ==
  LET Phys(n) == entry.startLBA + (n * (boot.bytesPerSec \div 512))
      found   == FatFound
  IN  /\ \A s \in {"fat1", "fat2", "root", "end"} : Phys(found[s]) = written[s]
      /\ Phys(0) = written.boot
      /\ Phys(found.total) = entry.startLBA + entry.sectors
      /\ boot.hiddSec = Phy2Log(entry.startLBA, boot.bytesPerSec)
      /\ params.fatBits = 32 =>
           /\ Phys(boot.fsInfoSector) = written.fsInfo
           /\ Phys(boot.bkBootSec) = written.copy
           /\ boot.rsvdSecCnt >= boot.bkBootSec + 3
           /\ boot.freeCount =
                ((found.total - found.root) \div boot.secPerClus) - 1

FatEntriesFound ==
  /\ FatEntry(0) = WithMedia(EndOfFile(params.fatBits))
  /\ FatEntry(1) = EndOfFile(params.fatBits)
  /\ \A c \in 2 .. 6 :
       Contains(FatEntry(c), 15) <=> params.fatBits = 32 /\ c = boot.rootClus

FatLeads == FatAreasFound /\ FatEntriesFound

ExfatLeads ==
  LET secPerClus == 2 ^ boot.sectorsPerClusterShift
      Phys(c)    == boot.partitionOffset + boot.clusterHeapOffset + ((c - 2) * secPerClus)
      Takes(ent) == UdivCeil(ent.dataLength, secPerClus * (2 ^ boot.bytesPerSectorShift))
  IN  /\ entry.startLBA = boot.partitionOffset /\ entry.sectors = boot.volumeLength
      /\ boot.partitionOffset + boot.fatOffset = written.fat1
      /\ written.copy + 12 <= written.fat1
      /\ Phys(boot.bitmap.firstCluster) = written.bitmap
      /\ Phys(boot.upCase.firstCluster) = written.upCase
      /\ Phys(boot.firstClusterOfRootDirectory) = written.root
      /\ boot.bitmap.firstCluster + Takes(boot.bitmap) = boot.upCase.firstCluster
      /\ boot.upCase.firstCluster + Takes(boot.upCase) = boot.firstClusterOfRootDirectory
      /\ boot.firstClusterOfRootDirectory < boot.clusterCount + 2
      /\ boot.bytesPerSectorShift \in 9 .. 12
      /\ boot.sectorsPerClusterShift <= 25 - boot.bytesPerSectorShift

(***************************************************************************)
(* Nothing is lost when the parameters are stored into the 8 and 16 bits   *)
(* of a field: whoever reads the boot sector, with the arithmetic the      *)
(* format prescribes, comes to the sectors makeFs* has written each        *)
(* structure to, in a volume as long as its partition, and to as many      *)
(* clusters for the bitmap and the up-case table as their chains have.     *)
(* The FAT has its two reserved entries, and no cluster is taken but that  *)
(* of a FAT32 root directory.                                              *)
(***************************************************************************)
BootSectorLeadsToFs == boot # NoBoot => IF UsesFat THEN FatLeads ELSE ExfatLeads

\* bound: two images of the boot region, zero but for 45 bytes, of which the
\* first is shifted out at the right and comes back at the left.
FirstByte == 80
LastByte  == 124
Images == {[i \in FirstByte .. LastByte |-> 0], [i \in FirstByte .. LastByte |-> (7 * i * i) % 256]}

\* Adding to one byte changes the checksum if and only if the byte counts.
EveryByteCounts ==
  \A data \in Images : \A i \in FirstByte .. LastByte : \A byte \in {1, 128, 255} :
    LET changed == [data EXCEPT ![i] = (@ + byte) % 256]
    IN  BootChecksum(changed, FirstByte, LastByte) = BootChecksum(data, FirstByte, LastByte)
          <=> i \in Skipped

\* A byte of an exFAT boot region that went wrong changes the checksum, wherever
\* it is; what a driver changes while the volume is mounted does not.
ChecksumSeesEveryByte == boot.fs = "EXFAT" => EveryByteCounts
=============================================================================
