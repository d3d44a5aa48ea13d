# Formal models of sdFormatLinux

TLA+ models of `sdFormatLinux`, the program that formats an SD card the way the
SD Association intends: what is modelled, what TLC checks on small instances,
and what TLAPS proves for all of them. Line numbers refer to the sources beside
this directory (`source/`, `include/`, `tools/`).

## 1. The system

One process, one thread, one device. It opens a block device, chooses a layout
for its capacity, converts a label, optionally discards the card, and writes an
MBR and an empty FAT12, FAT16, FAT32 or exFAT file system through a buffer of
8 MiB. Nothing is read back, nothing is persisted elsewhere, nothing else runs
concurrently in the program.

    main: options -> formatSd
                     -> BlockDev::open ............. lsblk, descriptor, capacity
                     -> dropPrivileges
                     -> getFormatParams -> calcFormatFat / Fat32 / ExFat
                     -> convertCheckFatLabel / convertCheckExfatLabel
                     -> BufferedFsWriter::eraseAll
                     -> createMbrAndPartition ...... fill, write ) BufferedFsWriter
                     -> makeFsFat / makeFsExFat .... fill, write ) -> BlockDev::write
                     -> BufferedFsWriter::close
                  ~BufferedFsWriter, ~BlockDev, catch -> exit code

A second program, `fsPrinter`, prints what it finds on a card.

| Component | State it keeps | Operations | Where it is hard | What makes it correct |
|---|---|---|---|---|
| `BlockDev` | `m_fd`, `m_dirty`, `m_sectors`; the card and the page cache | open, read, write, eraseAll, close | short transfers, a failure behind something that was opened, ignored results | an operation does all of it or says so; nothing stays open; unsynced data is never left by a close that does not know of it |
| `BufferedFsWriter` | `m_buf`, `m_pos` | open, fill, write, eraseAll, close, destructor | block boundaries, errors between two blocks of one call, a buffer that is not initialised, a destructor that writes and throws | the card gets the stream, all of it, in its place, and nothing else |
| `getFormatParams`, `calcFormat*` | `FormatParams` (a union) | tables, two nested searches, checks | u32 arithmetic, termination, table limits | the layout is on the card, aligned, exact; the search ends |
| `formatSd` | `params`, label, exit code | one pass with an error return at every step | an error anywhere, and the destructors behind it | exit code 0 means a complete file system, no failure is missing from the exit code; a refused card is untouched |
| `makeFsFat`, `makeFsExFat` | offset, structures | 6 to 18 calls on the writer | offsets advanced by hand, functions that rely on the position | a driver finds every structure where the others say it is |
| `createMbrAndPartition` | one partition entry | computes, one write | logical and physical sectors, CHS limits | both addresses name the same sectors, the type is true |
| labels | 44 byte copy, 13 wide characters, 12 units | strncpy, mbstowcs, CP850, UTF-16 | characters of 1 to 4 bytes and 1 or 2 units against fixed buffers | no overrun, no torn character, nothing dropped silently |
| `dropPrivileges` | real, effective and saved ids of the process | set, verify, or abort | order of group and user, dies with the card open | root is out of reach before the card is changed |
| `main` | flags, label buffer, capacity | the loop over the options, one call | repeated options, errors behind valid ones | formatSd gets what the line says |
| `fsPrinter` | descriptor | MBR, boot sector, FSInfo, OEM parameters | physical and logical sectors, telling FAT32 | it finds what the formatter wrote |
| `verbose_printf`, `util_endian.h`, build files | | | | not modelled, see section 9 |

The full list of hazards, each at its line and with the properties that watch
it, is `hazards` in `PROJECT.json`.

## 2. Modules

| Module | Models | Builds on |
|---|---|---|
| `BlockDev` | `class BlockDev` and the card, as steps with outcomes | |
| `BlockDevIo` | the same class, one system call at a time | `BlockDev` (refinement) |
| `BufferedFsWriter` | `class BufferedFsWriter`, one step per device write | `BlockDev` |
| `ByteStream` | abstract: what the writer promises its caller | |
| `FormatParams` | capacity, tables, the three calculations, the checks | |
| `Mbr` | the partition entry, and a driver's count of the clusters | `FormatParams` |
| `BootSector` | both boot sectors, FAT entries, checksum, and where each structure goes | `Mbr` |
| `FsPrinter` | what `fsPrinter` finds on the card | `BootSector` |
| `Privileges` | ids of the process, setuid and setgid | |
| `FormatSd` | `formatSd`, `dropPrivileges`, MBR and file system writers, destructors | `BufferedFsWriter`, `Privileges` |
| `Main` | `main`: options, operands, the call, exit code | `FormatSd` |
| `VolLabel` | the way of a label from the command line to the structures | |
| `MC...` | constants for TLC, one module per specification | |
| `BufferedFsWriterProofs`, `BlockDevIoProofs`, `FormatParamsProofs`, `FsPrinterProofs`, `MainProofs`, `FormatSdProofs`, `MountProofs`, `VolLabelProofs` | theorems | |

There are three stacks. `Main` over `FormatSd` over the writer is the process
with its cells on a small card; `FsPrinter` over `BootSector` over `Mbr` over
`FormatParams` is the arithmetic with real numbers, for every card; `BlockDevIo`
is what is below `BlockDev`. `VolLabel` stands alone.

Definitions called *Slip* stand next to the ones they resemble. Each is a
mistake that could have been made in that place; a property that does not notice
it says nothing, and every property here notices one.

### BlockDev and BufferedFsWriter

Bytes are cells. `disk` is what a later read returns, `durable` says that no
write waits in the page cache. `DevWriteFails` leaves any proper prefix of the
bytes on the card. A fill or write is the sequence its code is: `FillCall` or
`WriteCall` up to and including the part that goes into the current block,
`FlushHead` for the block this completes, `FillBlock`/`WriteBlock` for each full
block, `FillDone`/`WriteDone` for the rest; `cur` and `target` are the locals
`pos` and `offset`/`end`. `CloseFlush` and `CloseDev` are `close()`. After an
error only `close()` follows, as every caller in the program returns at the
first error. `stream`, `base` and `closedAt` are history variables that
properties compare the card with.

A stream that ends inside a sector is not "saved" in the sense of `ByteStream`
(`Unsaved`): `close()` pads it, or drops it (finding 1). `makeFsFat` and
`makeFsExFat` always end at one (`ClosesAtSectorEnd`).

### BlockDevIo

Each system call is a step, with what it may answer: `popen`, the line and the
exit status of `lsblk`, `open`, `BLKGETSIZE64`, each `pread` and `pwrite` with
any number of bytes up to what was asked for (`OnCard`), `fsync`, `close` with
EINTR. `call` is the frame of the running operation (request, bytes done, the
caller's buffer); `Advance` is the three updates at the end of the loop, which
always move together. `cards` counts the descriptors the kernel has open. From
outside, the card changes when an operation returns (`Seen`).

### FormatParams

One step per turn of the inner loop (`Fit`) and of the outer one (`Place16`,
`Place32`). Sums and products are those of mathematics, and `NoWrap` says that
the u32 of the source hold them. The limits of the tables are compared in units
of four sectors because 2^32 is beyond TLC's integers; the proofs use the same
text and have no such limit.

### FormatSd

The functions that write are sequences of calls that return at the first
failure. Such a function is the sequence (`todo`), computed from the layout by
`MakeFsFat` or `MakeFsExFat`; each call then runs step by step as in
`BufferedFsWriter`, with a failure possible at each device write. A structure is
as many cells as it needs for a start and an end of its own, and its first cell
holds the fields other structures are found by. `FatMounts` and `ExfatMounts`
read the card from sector 0 on with nothing but those fields, like a driver.
`LayoutAssumption` is what `FormatParams` shows about accepted parameters
(`FatLayout`, `ExfatLayout`, `BitmapFitsOneCluster`); there it is proved. It adds
that a FAT and a cluster have room for three entries and the exFAT heap has
three clusters, which in the tables is 128 and thousands. `CardAssumption` is
that a capacity is a u64, `CellAssumption` that what the functions write is bytes,
and `ZeroAssumption` that a zero is no structure.

The end of the process is part of the model: `Return` goes to `Destroy`
(`~BufferedFsWriter`, which flushes when `m_pos > 0`, and `~BlockDev`), a flush
that fails throws, and `main` turns that into `ERR_EXCEPTION`, or
`std::terminate()` ends the process when the exception of the `std::u16string`
was already on its way.

### Privileges and Main

`Privileges` is the kernel's side of `setuid` and `setgid`: with privilege all
three ids are set, without only the effective one. `IdInit` lists who may run
the program: root, a user with or without file capabilities, and the set-user-ID
root program the comment in `dropPrivileges` speaks of, with or without its
group set as well. `DropIds` makes the two calls in the order of the code.

`Main` runs the loop over the options on every command line of up to
`MaxOptions` options and zero to two operands. When `formatSd` is called the
line is forgotten, as nothing looks at it again.

### Mbr, BootSector, FsPrinter

Each adds one action behind an accepting run of `FormatParams`: the entry, the
boot sector with the sectors everything is written to, and the report. Fields
have the width of the structure (`U8`, `U16`). `BootSectorLeadsToFs` reads the
boot sector with the arithmetic the format prescribes and compares with
`written`; `PrinterFindsFs` does so with the arithmetic of the tool. The FAT's
reserved entries are sequences of four bit digits, so FAT12 entries overlap
bytes as they do on the card. `BootChecksum` is the rotating sum over a region
that is zero but for a few bytes.

### VolLabel

A character is the class the code puts it in; characters take 1 to 4 bytes in
the 44 byte copy of `main` and 1 or 2 units in UTF-16, so the three buffers fill
at different speeds. Those of `cp850Lut` take two bytes (`latin`) or three (`box`,
the line drawing characters). Two characters have a class of their own, because
of one entry of the table: the acute accent, which is in the code page and not in
the table, and U+ACCE, which is in the table and not in the code page; `Written`
is what the byte it is turned into reads as. `ToWide` is `label2wchar`: up to
twelve characters are in `wLabel` (`Wide`) before the label is looked at, and stay
there when it is refused.

## 3. Abstract specifications

`ByteStream`: a stream is appended to, the card may hold anything meanwhile, and
when the writer says "saved" the card is what it was before with exactly the
stream laid over its beginning. The mapping is `StreamState` with `media <- disk`;
TLC checks it (`writer`, `ImplementsByteStream`) and `BufferedFsWriterProofs` proves it,
for every sequence of calls.

`BlockDev` is the abstract specification of `BlockDevIo`: `ImplementsBlockDev`
says that, however the kernel cuts a transfer and wherever it fails, an operation
is one of the steps `DevOpen`, `DevWrite`, `DevWriteFails`, `DevErase`, `DevClose`
that `BufferedFsWriter` and `FormatSd` are built from. TLC checks it (`block_io`)
and `BlockDevIoProofs` proves it.

## 4. Runs

| Run | Question | Distinct states |
|---|---|---|
| `writer` | Do buffer, card and stream agree at every step, for every sequence of calls and failures, is the writer a `ByteStream`, and does every call return? | 291 933 |
| `layout` | Do the searches end, in a layout that is on the card, aligned, exact, computed without wrapping; do partition entry and boot sector lead a driver to every structure; does `fsPrinter` find them? | 201 463 |
| `format_card` | Does the process end, does `formatSd` get what the line says, is root out of reach, does exit code 0 mean a file system that mounts, is every failure in the exit code, are the data area and a refused card untouched, is the card released? | 64 220 |
| `label_safe` | Does a label fit its buffers, are its units counted, is an accepted FAT label whole? | 104 040 |
| `block_io` | Is `BlockDev` what the other modules take it for, for every cut of every transfer? | 15 485 |
| `writer_partial_sector`, `writer_failed_fill`, `writer_unsynced`, `params_rows`, `label_dropped`, `label_acute`, `block_io_read_end` | The findings of section 7: a statement of the repository that the code does not keep. | |

Each property of the first five runs is of several steps or relates two parts of
the state; which mistake it notices is in `mutants` of `PROJECT.json`.

### Bounds, and why they are enough

* **Writer.** A card of two and a half blocks of two sectors of two cells. Every
  relation the code tells apart occurs: inside a sector, at a sector's end, at a
  block's end, across one and across two blocks, at and beyond the end of the
  card, and the sum that exceeds the word (`Word` = 24). Each position has its
  own payload value, so a misplaced byte is a wrong byte.
* **Layout.** About 850 capacities: three around every limit of both tables, of
  the CHS fields and of the 16 bit counts, those with the most turns of the loops,
  and a net in every row, each with every flag and six overrides. Above 1 TiB the proofs take over.
* **BlockDevIo.** Two sectors of two bytes and transfers of at most three, so that
  a request takes one to four calls, is cut inside a sector, ends at the end of
  the card or goes behind it.
* **Main and FormatSd.** A card of 80 cells, blocks of four sectors, one layout of
  each kind: FAT16 (FAT12 makes the same calls), FAT32 with sectors of 512 bytes
  and larger ones with the least number of reserved sectors, exFAT. Blocks are so
  small that every structure crosses the end of one, so a failure is possible
  between any two structures. Two options on a line are every order and every
  repetition of two; labels are shorter than, as long as and longer than the
  buffer of two cells; capacities lie on both sides of the limit.
* **Labels.** All of one to three characters, all of one to nine where only the
  number of units matters, and those around 11 characters, 12 characters and 44
  bytes.

`CHECK_DEADLOCK FALSE` is said for pure calculations (`layout`, the label and
parameter runs), which stop when they are done, and for the writer, whose object
is not used after `close()`. `format_card` and the `BlockDevIo` runs check for
deadlock: only `Finished` may stay.

## 5. Fairness

The program is one thread that waits for nothing but system calls, which
return: weak fairness on its next step. An error is possible at each call but
never *required*: `FairSpec` and `MainFairSpec` are fair for steps without a new
error (`err' = err`), so no liveness property holds just because the device is
bound to fail. The one exception is a write behind the end of the card, which
cannot succeed; the writer's `FairSpec` says so. `BlockDevIo` is fair in
`Continue`: a transfer may move nothing now and then, but not for ever while the
card has something to transfer; where it has nothing, fairness asks for nothing,
and the read of finding 7 does not return. The calculations have no environment:
`PrinterFairSpec` is fair in all of `PrinterNext`.

## 6. What is proved

All theorems hold for every value of the constants under the named assumptions
of the modules: `DevAssumption`, `WriterAssumption`, `ParamsAssumption`,
`UpCaseAssumption`, `IoAssumption`, `UserAssumption`, `LayoutAssumption`,
`CardAssumption`, `CellAssumption`, `ZeroAssumption`, `LabelsAssumption` and
`MainAssumption` (an option is one `getopt_long` returns, a capacity is a number,
a label is a sequence).

**Writer** (`BufferedFsWriterProofs`). Assumed are only that a block is a whole
number, at least two, of sectors, that `Junk` is distinguishable from what
callers write, and that arguments are u64. `TypeOK` is not inductive: that the
buffer is not overrun depends on where in a call the writer is. `Control` adds
the relation of `step`, `cur`, `pos`, `target` and `data` (a head block starts
at `pos`; in the body, `cur` is at a block boundary unless the call has
nothing left); `Shape == TypeOK /\ Control` is inductive, with one lemma per action. On
it rest `StreamIsStored` (the bytes below the current block are on the card, the
others in the buffer, at every step), `NothingIsBeyond`, and `CloseFlushes`,
which also needs what `CloseFlush` has just written (`ClosingFlushed`) and so
uses the conjunction `WriterInv`.

`DirtyIsKnown` holds by a case per action, and so does `BlocksAreFinal`: with
`Shape`, each write starts at or above the block of `cur`, which is never below
the position (`BlockStartMonotone`), and only `CloseDev` takes the position back
(`ForwardStep`). What it does not say is that a call that fails keeps the blocks it
has left: `cur` is gone then, and finding 2 is what happens.
`NoJunkIsWritten` needs a conjunct more, `Clean`: what callers hand over has no junk in it, and the buffer has none
below the position, or below the end of the block while one is being flushed.

**Refinement** (at the end of the same module). `WriterImplementsStream`: initial states map
to initial states, and each action to a `ByteStream` action or a stutter, given
`WriterInv` and that a running write hands over the payload (`DataIsPayload`),
which is proved an invariant as well: nothing is assumed about the callers.

**Partition, boot sector, `fsPrinter`** (`FsPrinterProofs`). `MbrInv`
adds to `Inv` that the whole capacity is used, that the geometry is a row of its
table, that what is accepted has passed the checks, and that the entry is the one
of the parameters; `PrinterInv` the same of boot sector, places and report.
Logical sectors are 1, 2, 4 or 8 of the card (`Ratio`), and each case is linear.
From there `PartitionIsRight`, `ChsIsLba`, `VariantIsAgreed`, `BootLeads` and
`PrinterIsRight`, for every capacity and flag. `PrinterIsMbr` carries what is
proved of `MbrSpec` over to `PrinterSpec`. `BootLeads` is by file system. FAT: no
field of 8 or 16 bits loses anything, and the reserved entries of each width are
compared with the ones a driver expects digit by digit. exFAT: the shifts of
sectors and clusters are powers the provers know nothing of, so each exponent a
layout can have is a case (`Shifts`), and bitmap and up-case table take a cluster
each (`OneCluster`).

**Boot checksum** (same module). `ChecksumIsSensitive` is about
`calcExFatBootChecksum` for a region of any length. A turn adds a byte to the sum
rotated by one bit, which loses neither (`StepInjective`). That the sums up to
each byte exist, are equal below the byte that differs and different above it,
would be inductions; they are stated as: a set of natural numbers that is not
empty has a least one (`LeastNatural`, from the well-foundedness of `<`), and the
least counterexample is impossible. `ChecksumHolds` is the case TLC runs.

**Device** (`BlockDevIoProofs`). `IoInv` joins the descriptors and pipes to the
step the operation is at (`Descriptors`), and, for the loops, what is on the card
or in the caller's buffer to the bytes done (`WriteProgress`, `ReadProgress`,
`CloseProgress`). From it `NothingStaysOpen`, `TransfersAreWhole` and
`IoImplementsBlockDev`, for every way the kernel may cut or refuse a call.

**Process** (`MainProofs`), for every command line, user, card and layout.
`RootIsOutOfReach`: `IdInv` has the ids step by step, and that no layout is
chosen before the last of them. `RefusalIsHarmless`: `RefusalInv` keeps the card
old up to the erase, behind which no refusal is left. `CardIsAlwaysReleased`:
`ReleaseInv` follows the descriptor through the returns and the destructors.
`ErrorsAreTold`: `ExitInv` has where a failure may be known, what the destructor
finds when `formatSd` has returned (`Leaving`: the code is the one of the failure,
and where `close()` was called there is no position left that would be flushed a
second time), and what it leaves (`Flushing`); an exception is only under way while
nothing has failed.

**Format functions** (`FormatSdProofs`), for every layout that satisfies
`LayoutAssumption`. `Runs(s, a, b)` says that the calls `s` lead a writer from `a`
to `b`, each starting where the one before ended; it is composed piece by piece
for boot sectors, FATs, chains, bitmap and directory, up to
"`MakeFsFat(p, hasLabel)` runs from the end of the MBR to `FunctionEnd(p)`". The
invariant `SeekInv` is that what is left of `todo` runs from where the writer is,
or is going to, to that end: from it `OffsetsGoForward` and `EndsWithSector`.
`UserDataStays` needs `SdInv`: that the writer's own invariant `Shape` also holds
when formatSd calls it, that it is idle, busy or closing as the phase says
(`StepOfPhase`), and that what was asked of it last, even if that failed, ends
within the structures (`DataInv`).

**Command line** (`MainProofs`). `LineIsMeant`: `LineInv` says what the loop has made
of the first *n* options (`Parsed`): each flag is whether its option is among them,
label and capacity are those of the last that gave them, padded, and none of them
has ended the loop.

**Labels** (`VolLabelProofs`), for labels of any length, of characters of any width.
That a label has a longest part the copy of 44 bytes has whole (`KeptIs`) is by the
least number of characters with which the copy is full. A part of at most 11
characters of the table takes at most 33 bytes (`BytesBound`), so a label that
was cut is too long or ends inside a character and is refused (`CutIsSeen`), and
one that `mbstowcs` did not end has twelve characters (`WideIs`): `LabelIsWhole`.
`LabelInv` has that the copy is whole once the conversion runs (`WholeCopy`), relates
what is converted to what is left, and for exFAT says that the units come in whole
pairs; from it `LabelsFit` and `LabelIsCounted`.

**A successful process leaves a file system** (`MountProofs`), the theorem about
the whole: `SuccessIsAFileSystem`. `Stored(s, a, b, m)` is `Runs` with contents: on a
card `m`, the cells from `a` to `b` are what the calls `s` write. Four parts follow.
(1) `FunctionsMount`: a card on which both functions are stored satisfies `Mounts`.
Each function is taken apart call by call (`StoredMakeFsFat`, `StoredMakeFsExFat`),
which says what is in every cell between the MBR and the end, and then read as
`FatMounts` and `ExfatMounts` read it, from the fields of the boot sector.
(2) `StreamSd`: `StreamStored` also holds for the writer inside of the process.
(3) `TakenInv`: the calls taken so far, followed by `todo`, are the function, and
they are stored in `Image`, what the writer has acknowledged and what the call
that runs will add. A call that is taken adds one to them (`CallStored`), the steps
inside of a call change nothing of it (`ImageKept`), and a failure ends the claim
together with the chance of the exit code 0. (4) `close()` without an error moves
the rest to the card (`FlushCells`), as its position ends a sector, and nothing
behind it writes again.

**Parameters** (`FormatParamsProofs`). The invariants TLC checks say nothing
about why an unsigned subtraction in a loop cannot go below zero. The inductive
invariant `Inv` has the reason (`SearchInv`, `PlacedInv`): while a FAT of *n*
sectors is tried, *there is* an aligned place on the card for the data area for
which such a FAT is enough (`Witness`): at first because the estimate counts the
whole card as clusters, later because it is the place of the turn before. The
inner loop moves the data area by one alignment unit at a time and cannot pass
that place: nothing wraps, and the outer loop only continues with a smaller FAT.
From `Inv` follow `NoWrap`, `FatLayout`, `FatIsExact`, `ExfatLayout`,
`BitmapFitsOneCluster` and `CalculationsAreRight`, for every card and override, up
to the 2^32 sectors the program accepts.

**Only model-checked.** Liveness (`CallReturns`, `OperationReturns`, both
`Terminates`), because fairness and ENABLED are out of the prover's reach, and the
runs that end in a violation. Every other property of a run that passes is a
theorem.

## 7. Findings

1. `buffered_fs_writer.cpp:110`: `close()` with the position inside the last
   sector of a block computes 0 sectors, writes nothing and returns 0
   (`writer_partial_sector`). No caller ends there (`ClosesAtSectorEnd`).
2. `buffered_fs_writer.cpp:37`: a fill that fails has cleared the buffer, and the
   destructor flushes it over the block of `m_pos` (`writer_failed_fill`).
3. `blockdev.cpp:196`: the result of `fsync` is dropped, and success is reported
   for data that did not reach the card (`writer_unsynced`).
4. `format.cpp:59`, `:63`: some capacities inside a row of the alignment table are
   refused because the clusters are too many or too few for its FAT variant
   (`params_rows`).
5. `vol_label.cpp:137`: an exFAT label that fills 11 units before its last
   character is cut silently (`label_dropped`).
6. `vol_label.cpp:27`: 0xACCE stands for U+00B4 in the code page table. A FAT label
   with an acute accent is refused (`label_acute`), and one with U+ACCE is accepted
   and written with the accent in its place, which is the one exception that
   `FatLabelIsGiven` has to make.
7. `blockdev.cpp:125`: a read behind the end of the device gets 0 from `pread`,
   which is neither progress nor an error, and never returns
   (`block_io_read_end`). `sdFormatLinux` does not call `read`; `fsPrinter` has the
   same loop (`fs_printer.cpp:43`) and reads where a partition table says.

Seen on the way, without a run of their own: the geometry table is searched with
a capacity rounded down to MiB (`format.cpp:71`), so 262145 sectors use the row of
128 MiB, whose addresses do not reach the last one. The help promises 11 code points for
exFAT (`main.cpp:22`), 11 UTF-16 units are accepted (`vol_label.cpp:147`).
`writeContinuousExfatChain` (`exfat.cpp:45`) links clusters without the two
reserved entries, which no accepted layout reaches (`BitmapTakesOneCluster`
proves that the bitmap has one cluster; the up-case table of 5836 bytes has one
as well). `ERR_PARTITION` cannot be returned, as the MBR only goes to the buffer.
FAT16 type 0x04 is never used. The check of `format.cpp:140` counts 12 bit
entries as bytes and so asks less of FAT12 than it could. A forced FAT32 above
512 GiB is mostly refused for its reserved sectors (`format.cpp:117`). A loop
over `pwrite` or `getrandom` that makes no progress does not give up
(`blockdev.cpp:160`, `mbr.cpp:40`). A set-user-ID program of another owner than
root, or one that only sets its group, would keep the saved id: without privilege
`setuid` and `setgid` set the effective one. `fsPrinter` divides by
`bytesPerSec >> 9`, which is 0 when the formatter was interrupted between the MBR
and the boot sector (`fs_printer.cpp:98`).

## 8. Faithfulness in detail

* A structure's constant fields, time stamps and the random disk signature are in
  no module: no property depends on them.
* `FormatSd` has one cell where `BootSector` has numbers; the lengths, offsets and
  order of the calls are the same in both.
* `m_blkSize` and `m_sectorSize` are powers of two, so masks are remainders.
* `-e secure` differs from `-e trim` in the ioctl only. EOPNOTSUPP is "erased nothing, no error".
* The label model is for an UTF-8 locale; in another one `mbstowcs` refuses what
  it cannot convert.
* `Cards` may be anything, and 0 sectors (an empty reader) is among the values a
  card answers in `ChooseCapacity`'s refusal.

## 9. What is not modelled

Verbose output, the text of messages and help, `getopt_long` and `strtoull`
beyond what they return; the words of the up-case table; constant fields and
time stamps of the structures (`makeVolId`); the text of the `lsblk` command,
whose path is cut after 20 characters (`blockdev.cpp:25`); the branches of
`REDIRECT_FOR_DEBUG`; in `fsPrinter` what is printed as it was read; helpers the
program does not use (`util_endian.h`, `calcLdirChksum`, most of `util.h`); build
files; other processes that use the card at the same time, which the comment at
`blockdev.cpp:69` leaves to hope.

## 10. Plan

1. *Done:* writer, its abstract specification and refinement; parameters with
   their inductive invariant; the process from the command line to the exit code;
   the offsets of the format functions and the file system they leave; partition entry, boot sectors,
   boot checksum, `fsPrinter`, labels, with proofs; `BlockDev` call
   by call.
2. `FormatSd` as a client of `ByteStream`: the mount properties from the abstract
   writer alone.
3. The words of the up-case table and its checksum.
