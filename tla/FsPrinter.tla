------------------------------ MODULE FsPrinter ------------------------------
(***************************************************************************)
(* tools/fsPrinter/fs_printer.cpp on a card that has just been formatted:  *)
(* printDiskInfo takes the partition from the MBR, goes by its type to     *)
(* printFat or printExfat, and these read the boot sector (BootSector),    *)
(* look for what it leads to and print where that is.  The entry, the boot *)
(* sector, and the structures at their places are the card here; the       *)
(* numbers that are printed as they were read are left out.                *)
(***************************************************************************)
EXTENDS BootSector

VARIABLE report  \* what fsPrinter has found

printerVars == <<bootVars, report>>

NoReport == [fs |-> "none"]

\* The structure a read of physical sector lba gets.
At(lba) == {s \in DOMAIN written \ {"end"} : written[s] = lba}

\* Slip: the start of the partition stays in physical sectors.
LogicalStartPhysical(lba) == lba

\* "Adjust for logical sectors."
LogicalStart(lba) == lba \div (boot.bytesPerSec \div 512)

\* printFat: not the recommended way of telling FAT32, but that of the drivers.
PrintFat(lba) ==
  LET start   == LogicalStart(lba)
      isFat32 == boot.fatSz16 = 0
      fatSize == IF isFat32 THEN boot.fatSz32 ELSE boot.fatSz16
      rootDirSectors == ((32 * boot.rootEntCnt) + (boot.bytesPerSec - 1)) \div boot.bytesPerSec
      dataStart == boot.rsvdSecCnt + (fatSize * boot.numFats) + rootDirSectors
  IN  [fs     |-> IF isFat32 THEN "FAT32" ELSE "FAT12/FAT16",
       boot   |-> lba,
       fsInfo |-> IF isFat32
                  THEN ((start + boot.fsInfoSector) * boot.bytesPerSec) \div 512 ELSE 0,
       fat1   |-> start + boot.rsvdSecCnt,
       fat2   |-> start + boot.rsvdSecCnt + fatSize,
       root   |-> start + (dataStart - rootDirSectors),
       data   |-> start + dataStart]

\* printExfat reads the OEM parameters, too.
PrintExfat(lba) == [fs |-> "exFAT", boot |-> lba, oemParams |-> lba + 9]

\* printDiskInfo
PrintDiskInfo ==
  /\ boot # NoBoot /\ report = NoReport
  /\ entry.startLBA # 0 /\ entry.sectors # 0
  /\ report' = CASE entry.type \in {1, 4, 6, 11, 12} -> PrintFat(entry.startLBA)
                 [] entry.type = 7 -> PrintExfat(entry.startLBA)
                 [] OTHER -> [fs |-> "unknown"]
  /\ UNCHANGED bootVars

PrinterInit == BootInit /\ report = NoReport

PrinterNext ==
  \/ BootNext /\ UNCHANGED report
  \/ PrintDiskInfo

PrinterSpec == PrinterInit /\ [][PrinterNext]_printerVars

\* Sequential programs: nothing but themselves keeps them from the next step.
PrinterFairSpec == PrinterSpec /\ WF_printerVars(PrinterNext)

-----------------------------------------------------------------------------
(* Properties.                                                             *)

PrinterTypeOK ==
  /\ TypeOK /\ MbrTypeOK
  /\ boot.fs \in {"none", "FAT", "EXFAT"}
  /\ report.fs \in {"none", "FAT12/FAT16", "FAT32", "exFAT", "unknown"}

\* The tool agrees with the formatter about the card: it names the file system
\* that was made, FSInfo and the OEM parameters are where it reads them, and the
\* "absolute" sectors it prints, in sectors of the file system, are those where
\* makeFsFat has put the FATs, the root directory and the first cluster.
PrinterFindsFs ==
  report # NoReport =>
    LET Phys(n) == Log2Phy(n, params.bytesPerSec)
    IN  /\ report.fs = (CASE params.fatBits < 32 -> "FAT12/FAT16"
                          [] params.fatBits = 32 -> "FAT32"
                          [] OTHER -> "exFAT")
        /\ "boot" \in At(report.boot)
        /\ report.fs = "exFAT" => "oemParams" \in At(report.oemParams)
        /\ report.fs = "FAT32" => "fsInfo" \in At(report.fsInfo)
        /\ UsesFat =>
             /\ \A s \in {"fat1", "fat2", "root"} : s \in At(Phys(report[s]))
             /\ Phys(report.data) = Log2Phy(partStart + fsAreaSize, params.bytesPerSec)
=============================================================================
