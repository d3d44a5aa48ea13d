------------------------------ MODULE FormatSd ------------------------------
(***************************************************************************)
(* formatSd (source/format.cpp) and the functions that write the file      *)
(* system: createMbrAndPartition, makeFsFat and makeFsExFat, on top of the *)
(* writer of BufferedFsWriter, from opening the card to the exit code of   *)
(* the process, with its destructors.  Main calls it.                      *)
(*                                                                         *)
(* The functions that write are sequences of calls on the writer; each     *)
(* returns at the first call that fails.  Here such a function is the      *)
(* sequence itself ("todo"), built from the parameters, and every call of  *)
(* it runs step by step as BufferedFsWriter says.                          *)
(*                                                                         *)
(* A sector is SecSize cells.  A structure takes as many cells as it needs *)
(* to have a start and an end of its own: a sector for boot sectors and    *)
(* FSInfo, a cell for a FAT entry, a directory entry, a word of the        *)
(* allocation bitmap, or the end of a sector that holds a signature.       *)
(***************************************************************************)
EXTENDS BufferedFsWriter, Privileges, Sequences

CONSTANTS
  Layouts,      \* what getFormatParams may answer for this card
  UpCaseSize    \* sizeof(g_upCaseTable)

\* What FormatParams shows of accepted parameters.  Lengths are logical sectors,
\* bytesPerSec is the size of one in cells.  That a sector of the FAT and a
\* cluster have room for three entries, and a heap for the three clusters that
\* are in use, holds by far for every row of the tables.
ASSUME LayoutAssumption ==
  \A p \in Layouts :
    /\ p.fatBits \in {12, 16, 32, 64}
    /\ \E k \in 1 .. p.bytesPerSec : p.bytesPerSec = k * SecSize
    /\ p.secPerClus \in Nat \ {0}
    /\ p.fatBits <= 32 =>
         /\ {p.partStart, p.secPerFat} \subseteq Nat \ {0}
         /\ {p.rsvdSecCnt, p.fsAreaSize} \subseteq Nat
         /\ p.rsvdSecCnt >= (IF p.fatBits = 32 THEN 9 ELSE 1)
         /\ p.secPerFat * p.bytesPerSec >= 3
         /\ p.fsAreaSize >= p.rsvdSecCnt + (2 * p.secPerFat) + (IF p.fatBits = 32 THEN 0 ELSE 1)
         /\ (p.partStart + p.fsAreaSize + p.secPerClus) * p.bytesPerSec <= DevSize
    /\ p.fatBits = 64 =>
         /\ p.partitionOffset \in Nat \ {0}
         /\ {p.fatOffset, p.fatLength, p.clusterHeapOffset, p.clusterCount} \subseteq Nat
         /\ p.clusterCount >= 3 /\ p.secPerClus * p.bytesPerSec >= 3
         /\ p.fatOffset >= 24 /\ p.fatOffset + p.fatLength <= p.clusterHeapOffset
         /\ p.clusterCount + 2 <= p.fatLength * p.bytesPerSec
         /\ p.clusterCount <= 32 * p.secPerClus * p.bytesPerSec
         /\ UpCaseSize <= p.secPerClus * p.bytesPerSec
         /\ (p.partitionOffset + p.clusterHeapOffset + (p.clusterCount * p.secPerClus))
              * p.bytesPerSec <= DevSize

\* A cell of zeros is no structure: a FAT entry that is zero is not reserved.
ASSUME ZeroAssumption == Zero[1] # "rsvdEntries"

\* A capacity is a u64.
ASSUME CardAssumption == DevSize < Word /\ UpCaseSize \in Nat \ {0}

VARIABLES
  phase,        \* where formatSd is
  layout,       \* params
  labelled,     \* a label was given
  flags,        \* ArgFlags
  todo,         \* calls the running function still has to make
  unwinding,    \* an exception is on its way to main
  code,         \* what formatSd returns
  exit          \* exit code of the process

sdVars == <<phase, layout, labelled, flags, todo, unwinding, code, exit>>
allVars == <<vars, sdVars, idVars>>

NoLayout == [fatBits |-> 0]

NoFlags ==
  [bigClusters |-> FALSE, erase |-> FALSE, forceFat32 |-> FALSE, secErase |-> FALSE, verbose |-> FALSE]

\* errors.h
OK == 0
ERR_INVALID_ARG == 1
ERR_DEV_OPEN == 2
ERR_DEV_TOO_SMALL == 3
ERR_ERASE == 4
ERR_FORMAT_PARAMS == 5
ERR_PARTITION == 6
ERR_FORMAT == 7
ERR_CLOSE_DEV == 8
ERR_EXCEPTION == 9

Running == -1   \* no exit code yet
Aborted == -2   \* abort() or std::terminate()

-----------------------------------------------------------------------------
(* Calls on the writer, and what they write.                               *)

FillTo(at) == [call |-> "fill", offset |-> at, src |-> NoBytes, size |-> 0]

Write(src, n) == [call |-> "write", offset |-> 0, src |-> src, size |-> n]

FillAndWrite(src, n, at) == <<FillTo(at), Write(src, n)>>

\* new(std::nothrow)
Allocate == [call |-> "new", offset |-> 0, src |-> NoBytes, size |-> 0]

\* A structure of n cells whose fields are read back from its first cell.
Struct(kind, fields, n) ==
  [i \in 0 .. n - 1 |-> <<kind, IF i = 0 THEN fields ELSE <<i>>>>]

Token(kind) == Struct(kind, <<>>, 1)

\* The MBR tells where the partition starts, in physical sectors.
Mbr(p) ==
  LET start == IF p.fatBits < 64 THEN p.partStart ELSE p.partitionOffset
  IN  Struct("mbr", <<start * (p.bytesPerSec \div SecSize)>>, SecSize)

CreateMbrAndPartition(p) == <<Write(Mbr(p), SecSize)>>

-----------------------------------------------------------------------------
(* makeFsFat.                                                              *)

FatBoot(p) ==
  Struct("boot", <<p.bytesPerSec, p.secPerClus, p.rsvdSecCnt, p.secPerFat>>, SecSize)

FsInfo(free) == Struct("fsInfo", free, SecSize)

\* Slip: also for sectors of 512 bytes, whose boot sector has the word already.
SignatureUnchecked(p, sector) ==
  FillAndWrite(Token("sig"), 1, sector + p.bytesPerSec - 1)

\* The signature word at the end of a sector larger than 512 bytes.
Signature(p, sector) ==
  IF p.bytesPerSec > SecSize
  THEN FillAndWrite(Token("sig"), 1, sector + p.bytesPerSec - 1)
  ELSE <<>>

\* Boot sector, FSInfo and third sector of FAT32, and their copies.
Fat32BootSectors(p, at) ==
  LET bps == p.bytesPerSec
  IN  <<Write(FatBoot(p), SecSize)>>
      \o Signature(p, at)
      \o <<Write(FsInfo(<<p.maxClus - 1>>), SecSize)>>
      \o FillAndWrite(Token("sig"), 1, at + (2 * bps) + bps - 1)
      \o FillAndWrite(FatBoot(p), SecSize, at + (6 * bps))
      \o Signature(p, at + (6 * bps))
      \o <<Write(FsInfo(<<>>), SecSize)>>
      \o FillAndWrite(Token("sig"), 1, at + (8 * bps) + bps - 1)

\* The reserved entries: one word for FAT12 and FAT16, and the root directory
\* cluster with FAT32.
ReservedEntries(p) == Struct("rsvdEntries", <<>>, IF p.fatBits < 32 THEN 1 ELSE 3)

\* Slip: the label entry goes to where the second FAT is.
FatTablesShort(p, at, hasLabel) ==
  LET bps  == p.bytesPerSec
      size == IF p.fatBits < 32 THEN 1 ELSE 3
      fat1 == at + (p.rsvdSecCnt * bps)
      fat2 == fat1 + (p.secPerFat * bps)
  IN  FillAndWrite(ReservedEntries(p), size, fat1)
      \o FillAndWrite(ReservedEntries(p), size, fat2)
      \o (IF hasLabel THEN <<Write(Token("volumeId"), 1)>> ELSE <<>>)

\* Both FATs and the label entry of the root directory behind them.
FatTables(p, at, hasLabel) ==
  LET bps  == p.bytesPerSec
      size == IF p.fatBits < 32 THEN 1 ELSE 3
      fat1 == at + (p.rsvdSecCnt * bps)
      fat2 == fat1 + (p.secPerFat * bps)
      root == fat2 + (p.secPerFat * bps)
  IN  FillAndWrite(ReservedEntries(p), size, fat1)
      \o FillAndWrite(ReservedEntries(p), size, fat2)
      \o (IF hasLabel THEN FillAndWrite(Token("volumeId"), 1, root) ELSE <<>>)

\* Slip: room for a root directory cluster with FAT12 and FAT16, too.
FatEndWithCluster(p) == (p.partStart + p.fsAreaSize + p.secPerClus) * p.bytesPerSec

\* The file system area, with the root directory cluster of FAT32.
FatEnd(p) ==
  (p.partStart + p.fsAreaSize + (IF p.fatBits < 32 THEN 0 ELSE p.secPerClus)) * p.bytesPerSec

\* Slip: no last fill, what is behind the last structure is not cleared.
MakeFsFatUnfilled(p, hasLabel) ==
  LET at == p.partStart * p.bytesPerSec
  IN  <<FillTo(at)>>
      \o (IF p.fatBits < 32 THEN <<Write(FatBoot(p), SecSize)>> ELSE Fat32BootSectors(p, at))
      \o FatTables(p, at, hasLabel)

MakeFsFat(p, hasLabel) ==
  LET at == p.partStart * p.bytesPerSec
  IN  <<FillTo(at)>>
      \o (IF p.fatBits < 32 THEN <<Write(FatBoot(p), SecSize)>> ELSE Fat32BootSectors(p, at))
      \o FatTables(p, at, hasLabel)
      \o <<FillTo(FatEnd(p))>>

-----------------------------------------------------------------------------
(* makeFsExFat.                                                            *)

ClusterCells(p) == p.secPerClus * p.bytesPerSec

\* Clusters of the allocation bitmap, of 32 bits in a cell, and of the up-case table.
BitmapClus(p) == ((p.clusterCount - 1) \div (32 * ClusterCells(p))) + 1
UpCaseClus(p) == ((UpCaseSize - 1) \div ClusterCells(p)) + 1

\* EXFAT_FIRST_ENT is 2.
BitmapCluster == 2
UpCaseCluster(p) == 2 + BitmapClus(p)
RootCluster(p) == 2 + BitmapClus(p) + UpCaseClus(p)

\* bootRegion: boot sector, 8 extended boot sectors that end in a signature,
\* OEM parameters, a reserved sector, and one filled with the checksum.
BootRegion(p) ==
  LET bps    == p.bytesPerSec
      fields == <<bps, p.secPerClus, p.fatOffset, p.clusterHeapOffset, p.clusterCount, RootCluster(p)>>
      Sector(i) == i \div bps
      Last(i)   == i % bps = bps - 1
  IN  [i \in 0 .. (12 * bps) - 1 |->
         IF i = 0 THEN <<"exfatBoot", fields>>
         ELSE IF Sector(i) = 0 THEN <<"exfatBoot", <<i>>>>
         ELSE IF Sector(i) \in 1 .. 8 /\ Last(i) THEN <<"extBootSig", <<>>>>
         ELSE IF i = 9 * bps THEN <<"flashParams", <<>>>>
         ELSE IF Sector(i) = 11 THEN <<"checksum", <<>>>>
         ELSE Zero]

\* writeContinuousExfatChain: entries that point to start + 1 .. start + length - 1
\* and the end mark.
Chain(start, length) ==
  [i \in 1 .. length |->
     Write(IF i < length THEN Struct("next", <<start + i>>, 1) ELSE Token("eof"), 1)]

\* writeInitialBitmapEntries: words of up to 32 bits.
BitmapWords(count) ==
  [i \in 1 .. ((count - 1) \div 32) + 1 |->
     Write(Struct("bits", <<Lesser(32, count - (32 * (i - 1)))>>, 1), 1)]

UpCaseTable == Struct("upCase", <<>>, UpCaseSize)

\* Label, bitmap and up-case table; the label entry is there without a label, too.
RootEntries(p, hasLabel) ==
  [i \in 0 .. 2 |->
     IF i = 0 THEN <<"volLabel", <<IF hasLabel THEN 1 ELSE 0>>>>
     ELSE IF i = 1 THEN <<"bitmapEnt", <<BitmapCluster>>>>
     ELSE <<"upCaseEnt", <<UpCaseCluster(p)>>>>]

MakeFsExFat(p, hasLabel) ==
  LET bps    == p.bytesPerSec
      start  == p.partitionOffset * bps
      fat    == start + (p.fatOffset * bps)
      heap   == start + (p.clusterHeapOffset * bps)
      upCase == heap + (ClusterCells(p) * BitmapClus(p))
      root   == upCase + (ClusterCells(p) * UpCaseClus(p))
  IN  <<FillTo(start), Allocate>>
      \o <<Write(BootRegion(p), 12 * bps), Write(BootRegion(p), 12 * bps)>>
      \o FillAndWrite(Struct("exfatRsvd", <<>>, 2), 2, fat)
      \o Chain(0, BitmapClus(p))
      \o Chain(BitmapClus(p), UpCaseClus(p))
      \o Chain(BitmapClus(p) + UpCaseClus(p), 1)
      \o <<FillTo(heap)>>
      \o BitmapWords(BitmapClus(p) + UpCaseClus(p) + 1)
      \o FillAndWrite(UpCaseTable, UpCaseSize, upCase)
      \o FillAndWrite(RootEntries(p, hasLabel), 3, root)
      \o <<FillTo(root + ClusterCells(p))>>

\* What the functions write, and that it is made of bytes.
Sources(p, hasLabel) ==
  {Mbr(p)} \cup
    IF p.fatBits <= 32
    THEN {FatBoot(p), FsInfo(<<p.maxClus - 1>>), FsInfo(<<>>), Token("sig"), ReservedEntries(p),
          Token("volumeId")}
    ELSE {BootRegion(p), Struct("exfatRsvd", <<>>, 2), Token("eof"), Struct("bits", <<3>>, 1),
          UpCaseTable, RootEntries(p, hasLabel)}

ASSUME CellAssumption ==
  \A p \in Layouts, hasLabel \in BOOLEAN :
    \A src \in Sources(p, hasLabel) : \A i \in DOMAIN src : src[i] \in Cell

-----------------------------------------------------------------------------
(* formatSd.                                                               *)

SdInit ==
  /\ Init
  /\ IdInit
  /\ layout = NoLayout
  /\ labelled = FALSE
  /\ flags = NoFlags
  /\ todo = <<>>
  /\ unwinding = FALSE
  /\ code = OK
  /\ exit = Running

\* return: the destructor of the writer runs next.
Return(c) ==
  /\ code' = c
  /\ phase' = "return"
  /\ todo' = <<>>
  /\ UNCHANGED <<layout, labelled, flags, exit>>

Goto(next) ==
  /\ phase' = next
  /\ UNCHANGED <<layout, labelled, flags, todo, unwinding, code, exit>>

\* The process is gone; the kernel closes the descriptor.
Die ==
  /\ exit' = Aborted
  /\ phase' = "end"
  /\ fd' = FALSE
  /\ UNCHANGED <<dirty, sectors, disk, durable, writerVars, layout, labelled, flags, todo, unwinding, code>>

OpenCard ==
  /\ phase = "start"
  /\ Open
  /\ \/ step' = "idle" /\ Goto("privileges")
     \/ step' = "closed" /\ Return(ERR_DEV_OPEN) /\ UNCHANGED unwinding

(***************************************************************************)
(* dropPrivileges: for any user but root the group first, as it takes the  *)
(* user id 0 to set it for good, then the user, and root must be out of    *)
(* reach.  A call that fails is abort().                                   *)
(***************************************************************************)
DropPrivileges ==
  /\ phase = "privileges"
  /\ Goto(IF uid.real = 0 THEN "params" ELSE "first")
  /\ UNCHANGED <<vars, idVars>>

\* Slip: the user goes first.
DropIdsUserFirst ==
  /\ \/ phase = "first" /\ SetUid(uid.real) /\ Goto("second")
     \/ phase = "second" /\ SetGid(gid.real) /\ Goto("paranoid")
  /\ UNCHANGED vars

DropIds ==
  /\ \/ phase = "first" /\ SetGid(gid.real) /\ Goto("second")
     \/ phase = "second" /\ SetUid(uid.real) /\ Goto("paranoid")
  /\ UNCHANGED vars

DropFails == phase \in {"first", "second"} /\ Die /\ UNCHANGED idVars

\* "Extra paranoid check."
ParanoidCheck ==
  /\ phase = "paranoid"
  /\ \/ SetUid(0) /\ Die
     \/ ~MaySet(uid, 0) /\ Goto("params") /\ UNCHANGED <<vars, idVars>>

\* exFAT needs a card that FAT32 was not forced on, larger sectors need -f and -b.
Meant(p) ==
  /\ p.fatBits = 64 => ~flags.forceFat32
  /\ p.bytesPerSec > SecSize => flags.forceFat32 /\ flags.bigClusters

\* The capacity, and getFormatParams (FormatParams).
ChooseParams ==
  /\ phase = "params"
  /\ \/ Return(ERR_DEV_TOO_SMALL) /\ UNCHANGED unwinding
     \/ Return(ERR_FORMAT_PARAMS) /\ UNCHANGED unwinding
     \/ /\ layout' \in {p \in Layouts : Meant(p)}
        /\ phase' = "label"
        /\ UNCHANGED <<labelled, flags, todo, unwinding, code, exit>>
  /\ UNCHANGED vars

\* convertCheckFatLabel or convertCheckExfatLabel may refuse a label.
CheckLabel ==
  /\ phase = "label"
  /\ \/ labelled /\ Return(ERR_INVALID_ARG) /\ UNCHANGED unwinding
     \/ Goto("erase")
  /\ UNCHANGED vars

ToErase == flags.erase \/ flags.secErase

\* Slip: the label is looked at when the card has been erased.
EraseCardFirst ==
  /\ phase = "erase"
  /\ \/ ~ToErase /\ Goto("mbr") /\ UNCHANGED vars
     \/ /\ ToErase /\ EraseAll
        /\ \/ err' = "none" /\ Goto("mbr")
           \/ labelled /\ Return(ERR_INVALID_ARG) /\ UNCHANGED unwinding
           \/ err' # "none" /\ Return(ERR_ERASE) /\ UNCHANGED unwinding

EraseCard ==
  /\ phase = "erase"
  /\ \/ ~ToErase /\ Goto("mbr") /\ UNCHANGED vars
     \/ /\ ToErase /\ EraseAll
        /\ \/ err' = "none" /\ Goto("mbr")
           \/ err' # "none" /\ Return(ERR_ERASE) /\ UNCHANGED unwinding

Partition ==
  /\ phase = "mbr"
  /\ todo' = CreateMbrAndPartition(layout)
  /\ phase' = "partition"
  /\ UNCHANGED <<vars, layout, labelled, flags, unwinding, code, exit>>

\* The MBR is taken: on to the file system.  The label is handed over as a
\* std::u16string, whose constructor throws when there is no memory.
Format ==
  /\ phase = "partition" /\ todo = <<>> /\ Ready
  /\ UNCHANGED vars
  /\ \/ /\ phase' = "format"
        /\ todo' = IF layout.fatBits <= 32 THEN MakeFsFat(layout, labelled)
                   ELSE MakeFsExFat(layout, labelled)
        /\ UNCHANGED <<layout, labelled, flags, unwinding, code, exit>>
     \/ /\ layout.fatBits = 64 /\ labelled
        /\ Return(ERR_EXCEPTION)
        /\ unwinding' = TRUE

\* The error the running function makes formatSd return.
ErrorCode == IF phase = "partition" THEN ERR_PARTITION ELSE ERR_FORMAT

\* The next call of the running function.
Call ==
  /\ phase \in {"partition", "format"} /\ Ready /\ todo # <<>>
  /\ LET c == Head(todo)
     IN  \/ c.call = "fill" /\ FillCall(c.offset)
         \/ c.call = "write" /\ WriteCall(c.size, c.src)
         \/ c.call = "new" /\ UNCHANGED vars
  /\ todo' = Tail(todo)
  /\ UNCHANGED <<phase, layout, labelled, flags, unwinding, code, exit>>

\* A call goes on.
Continue ==
  /\ phase \in {"partition", "format"}
  /\ FlushHead \/ FillBlock \/ FillDone \/ WriteBlock \/ WriteDone
  /\ UNCHANGED sdVars

\* A call has failed, or there is no memory for the boot region.
GiveUp ==
  /\ phase \in {"partition", "format"} /\ step = "idle"
  /\ \/ err # "none"
     \/ err = "none" /\ todo # <<>> /\ Head(todo).call = "new"
  /\ Return(ErrorCode)
  /\ UNCHANGED <<vars, unwinding>>

FormatDone ==
  /\ phase = "format" /\ todo = <<>> /\ Ready
  /\ Goto("close")
  /\ UNCHANGED vars

\* "Explicitly close dev to get the result."
CloseCard ==
  /\ phase = "close"
  /\ CloseFlush
  /\ Goto("closing")

Closed ==
  /\ phase = "closing"
  /\ CloseDev
  /\ Return(IF closeRes = "ok" THEN OK ELSE ERR_CLOSE_DEV)
  /\ UNCHANGED unwinding

\* Slip: without a position there is nothing to flush, and nothing is closed.
DestroyOnlyFlushed ==
  /\ phase = "return"
  /\ \/ pos > 0 /\ CloseFlush /\ Goto("returning")
     \/ /\ pos = 0
        /\ exit' = code /\ phase' = "end"
        /\ UNCHANGED <<vars, layout, labelled, flags, todo, unwinding, code>>

(***************************************************************************)
(* ~BufferedFsWriter calls close() when there is a position; ~BlockDev     *)
(* closes the descriptor in any case.                                      *)
(***************************************************************************)
Destroy ==
  /\ phase = "return"
  /\ \/ pos > 0 /\ CloseFlush /\ Goto("returning")
     \/ /\ pos = 0
        /\ IF fd THEN DevClose ELSE UNCHANGED devVars
        /\ step' = "closed"
        /\ exit' = code /\ phase' = "end"
        /\ UNCHANGED <<buf, pos, op, cur, target, data, err, closeRes, histVars,
                       layout, labelled, flags, todo, unwinding, code>>

\* Slip: the destructor does not look at the result.
DestroyedSilently ==
  /\ phase = "returning"
  /\ CloseDev
  /\ exit' = code
  /\ phase' = "end"
  /\ UNCHANGED <<layout, labelled, flags, todo, unwinding, code>>

\* A failed flush makes the destructor throw, which main turns into an exit
\* code; while another exception is on its way that is std::terminate().
Destroyed ==
  /\ phase = "returning"
  /\ CloseDev
  /\ exit' = IF closeRes = "ok" THEN code
             ELSE IF unwinding THEN Aborted ELSE ERR_EXCEPTION
  /\ phase' = "end"
  /\ UNCHANGED <<layout, labelled, flags, todo, unwinding, code>>

Finished == phase = "end" /\ UNCHANGED allVars

\* formatSd and its destructors.
SdNext ==
  \/ DropPrivileges \/ DropIds \/ DropFails \/ ParanoidCheck
  \/ /\ \/ OpenCard \/ ChooseParams \/ CheckLabel \/ EraseCard
        \/ Partition \/ Format \/ Call \/ Continue \/ GiveUp \/ FormatDone
        \/ CloseCard \/ Closed \/ Destroy \/ Destroyed \/ Finished
     /\ UNCHANGED idVars

-----------------------------------------------------------------------------
(* Properties.                                                             *)
(* What a driver reads from the card, from the MBR on.                     *)

Kind(a) == disk[a][1]

Fields(a) == disk[a][2]

Blank(from, to) == \A a \in from .. to - 1 : disk[a] = Zero

PartitionStart == Fields(0)[1] * SecSize

\* FAT12, FAT16, FAT32: the boot sector leads to two equal FATs with the
\* reserved entries and nothing else, and to an empty root directory that has
\* the label if there is one.  FAT32 has its boot sectors twice, with FSInfo
\* and the signatures in the three sectors they belong to.
FatMounts ==
  LET at     == PartitionStart
      bps    == Fields(at)[1]
      spc    == Fields(at)[2]
      fatLen == Fields(at)[4] * bps
      fat1   == at + (Fields(at)[3] * bps)
      fat2   == fat1 + fatLen
      root   == fat2 + fatLen
      fat32  == Kind(fat1 + 1) = "rsvdEntries"
  IN  /\ Kind(at) = "boot" /\ Kind(fat1) = "rsvdEntries"
      /\ fat32 <=> layout.fatBits = 32
      /\ \A i \in 0 .. fatLen - 1 : disk[fat1 + i] = disk[fat2 + i]
      /\ Blank(fat1 + (IF fat32 THEN 3 ELSE 1), fat2)
      /\ disk[root] = IF labelled THEN <<"volumeId", <<>>>> ELSE Zero
      /\ Blank(root + 1, IF fat32 THEN root + (spc * bps) ELSE at + (layout.fsAreaSize * bps))
      /\ IF ~fat32 THEN Blank(at + SecSize, fat1)
         ELSE /\ Fields(at + bps) = <<layout.maxClus - 1>>
              /\ \A s \in {0, 6} :
                   /\ \A i \in 0 .. bps - 1 : disk[at + (s * bps) + i] = disk[at + i]
                   /\ Kind(at + ((s + 1) * bps)) = "fsInfo"
                   /\ Kind(at + ((s + 3) * bps) - 1) = "sig"
                   /\ bps > SecSize => Kind(at + ((s + 1) * bps) - 1) = "sig"
              /\ Blank(at + (3 * bps), at + (6 * bps)) /\ Blank(at + (9 * bps), fat1)

\* exFAT: both boot regions are equal, the root directory leads to the bitmap
\* and to the up-case table, the FAT has a chain that ends for each of the
\* three, and the bitmap marks their clusters and no other.
ExfatMounts ==
  LET at       == PartitionStart
      bps      == Fields(at)[1]
      clus     == Fields(at)[2] * bps
      fat      == at + (Fields(at)[3] * bps)
      heap     == at + (Fields(at)[4] * bps)
      root     == Fields(at)[6]
      Data(c)  == heap + ((c - 2) * clus)
      bitmap   == Fields(Data(root) + 1)[1]
      upCase   == Fields(Data(root) + 2)[1]
      Chained(first, next) ==
        \A c \in first .. next - 1 :
          disk[fat + c] = IF c = next - 1 THEN <<"eof", <<>>>> ELSE <<"next", <<c + 1>>>>
  IN  /\ Kind(at) = "exfatBoot"
      /\ \A i \in 0 .. (12 * bps) - 1 : disk[at + i] = disk[at + (12 * bps) + i]
      /\ Blank(at + (24 * bps), fat)
      /\ Kind(fat) = "exfatRsvd"
      /\ Chained(bitmap, upCase) /\ Chained(upCase, root) /\ Chained(root, root + 1)
      /\ Blank(fat + root + 1, heap)
      /\ disk[Data(bitmap)] = <<"bits", <<root - 1>>>>
      /\ Blank(Data(bitmap) + 1, Data(upCase))
      /\ \A i \in 0 .. UpCaseSize - 1 : disk[Data(upCase) + i] = UpCaseTable[i]
      /\ Blank(Data(upCase) + UpCaseSize, Data(root))
      /\ disk[Data(root)] = <<"volLabel", <<IF labelled THEN 1 ELSE 0>>>>
      /\ Kind(Data(root) + 1) = "bitmapEnt" /\ Kind(Data(root) + 2) = "upCaseEnt"
      /\ Blank(Data(root) + 3, Data(root) + clus)

\* A driver that knows nothing but the card finds a complete and consistent file
\* system on it.
Mounts ==
  /\ layout # NoLayout
  /\ Kind(0) = "mbr"
  /\ Blank(SecSize, PartitionStart)
  /\ IF layout.fatBits <= 32 THEN FatMounts ELSE ExfatMounts

\* Where the structures of the file system end: behind the file system area of
\* FAT12 and FAT16, the cluster of the root directory of FAT32, the third
\* cluster of exFAT.
EndOf(p) ==
  IF p = NoLayout THEN 0
  ELSE p.bytesPerSec *
         (IF p.fatBits < 32 THEN p.partStart + p.fsAreaSize
          ELSE IF p.fatBits = 32 THEN p.partStart + p.fsAreaSize + p.secPerClus
          ELSE p.partitionOffset + p.clusterHeapOffset + (3 * p.secPerClus))

FsEnd == EndOf(layout)

\* Formatting writes the structures and nothing behind them, also when it
\* fails: the clusters that hold the user's old data are not touched.
DataAreaUntouched == \A a \in Addr : a >= FsEnd => disk[a] = base[a]

\* Every refusal of the arguments, and of the card, comes before the first
\* change of the card.
RefusedUntouched ==
  exit \in {ERR_INVALID_ARG, ERR_DEV_OPEN, ERR_DEV_TOO_SMALL, ERR_FORMAT_PARAMS} =>
    \A a \in Addr : disk[a] = Old

\* The offsets of makeFsFat and makeFsExFat never go back, for no layout that
\* getFormatParams accepts: fill never answers EINVAL.
NeverSeeksBack == err # "EINVAL"

\* The last fill ends with a sector, so the case in which close() drops the
\* last block does not occur, and the stream is one ByteStream speaks of.
ClosesAtSectorEnd == phase = "close" => pos % SecSize = 0

\* Whichever way the process ends, it has closed the card, and it has tried to
\* flush what the writer took: only a call of abort() leaves bytes behind.
CardIsReleased ==
  phase = "end" => ~fd /\ (exit # Aborted /\ step # "new" => step = "closed" /\ pos = 0)

(***************************************************************************)
(* "Don't make errors on flushing the buffer go unnoticed": on no way out  *)
(* is a failure of the card lost, be it of a call or of the flush, which   *)
(* close() or the destructor does, and each of the codes says how far the  *)
(* program came.  Only a flush that fails while an exception is under way  *)
(* aborts with a changed card.  (What fsync says is lost, as               *)
(* SuccessIsDurable shows.)                                                *)
(***************************************************************************)
ExitTellsFailure ==
  phase = "end" =>
    /\ err # "none" => exit \in {ERR_ERASE, ERR_PARTITION, ERR_FORMAT, ERR_EXCEPTION}
    /\ closeRes = "EIO" => exit \in {ERR_CLOSE_DEV, ERR_EXCEPTION, Aborted}
    /\ exit = ERR_CLOSE_DEV => err = "none" /\ closeRes = "EIO"
    /\ exit = ERR_ERASE => \A a \in Addr : disk[a] \in {Old, Trimmed}
    /\ exit = Aborted => (unwinding /\ closeRes = "EIO") \/ \A a \in Addr : disk[a] = Old

\* From the moment a layout is chosen, before the first change of the card, a
\* process that is not root's cannot become root again, nor of root's group:
\* neither the real nor the effective nor the saved id is left behind.
NoWayBack == layout # NoLayout /\ uid.real # 0 => NobodyElse
=============================================================================
