------------------------------ MODULE BlockDev ------------------------------
(***************************************************************************)
(* class BlockDev (include/blockdev.h, source/blockdev.cpp): the object    *)
(* that owns the file descriptor of the card, and the card behind it.      *)
(* The operators below are the steps other modules take on the device; a   *)
(* write is seen here as one step whose outcome is either all of the bytes *)
(* or a prefix of them and an error.                                       *)
(*                                                                         *)
(* Bytes are abstract cells, addressed from 0.  The card starts with       *)
(* unknown old content in every cell.                                      *)
(***************************************************************************)
EXTENDS Integers

CONSTANTS
  DevSize,      \* capacity of the card in cells
  SecSize,      \* BlockDev::m_sectorSize in cells
  Cell,         \* what a cell may hold
  Zero,         \* the zero byte
  Old,          \* whatever the card held before
  Trimmed       \* whatever a discarded cell reads as

ASSUME DevAssumption ==
  /\ DevSize \in Nat
  /\ SecSize \in Nat \ {0}
  /\ {Zero, Old, Trimmed} \subseteq Cell

VARIABLES
  fd,           \* m_fd # -1
  dirty,        \* m_dirty
  sectors,      \* m_sectors
  disk,         \* content of the card as later reads would return it
  durable       \* no write is waiting in the page cache (fsync has succeeded)

devVars == <<fd, dirty, sectors, disk, durable>>

Addr == 0 .. DevSize - 1

DevTypeOK ==
  /\ fd \in BOOLEAN
  /\ dirty \in BOOLEAN
  /\ sectors \in Nat
  /\ disk \in [Addr -> Cell]
  /\ durable \in BOOLEAN

DevInit ==
  /\ fd = FALSE
  /\ dirty = FALSE
  /\ sectors = 0
  /\ disk = [a \in Addr |-> Old]
  /\ durable = TRUE

(***************************************************************************)
(* memcpy/memset/pwrite: f with n cells from position at replaced by those *)
(* of src that start at index skip.                                        *)
(***************************************************************************)
Patch(f, at, n, src, skip) ==
  [i \in DOMAIN f |-> IF at <= i /\ i < at + n THEN src[skip + (i - at)] ELSE f[i]]

(***************************************************************************)
(* BlockDev::open succeeds: lsblk reports a hotplug disk with 512 byte     *)
(* sectors (or a loop device), open(O_EXCL) and BLKGETSIZE64 succeed.      *)
(***************************************************************************)
DevOpen ==
  /\ fd' = TRUE
  /\ sectors' = DevSize \div SecSize
  /\ UNCHANGED <<dirty, disk, durable>>

\* BlockDev::open fails: the descriptor, if any, is closed, m_fd stays -1.
DevOpenFails == UNCHANGED devVars

\* Slip: the device is only marked dirty once the write has succeeded.
DevWriteFailsClean(at, n, src, skip) ==
  /\ \E k \in 0 .. n - 1 :
       /\ k = 0 \/ at + k <= DevSize
       /\ disk' = Patch(disk, at, k, src, skip)
       /\ durable' = (durable /\ k = 0)
  /\ UNCHANGED <<fd, dirty, sectors>>

(***************************************************************************)
(* BlockDev::write of n cells at position at.  Marked dirty first; on      *)
(* success every cell is in the page cache, on an error a proper prefix    *)
(* is, as the loop over pwrite stops at the first -1.  No pwrite succeeds  *)
(* beyond the end of the card.                                             *)
(***************************************************************************)
DevWrite(at, n, src, skip) ==
  /\ at + n <= DevSize
  /\ disk' = Patch(disk, at, n, src, skip)
  /\ dirty' = TRUE
  /\ durable' = FALSE
  /\ UNCHANGED <<fd, sectors>>

DevWriteFails(at, n, src, skip) ==
  /\ \E k \in 0 .. n - 1 :
       /\ k = 0 \/ at + k <= DevSize
       /\ disk' = Patch(disk, at, k, src, skip)
       /\ durable' = (durable /\ k = 0)
  /\ dirty' = TRUE
  /\ UNCHANGED <<fd, sectors>>

(***************************************************************************)
(* BlockDev::eraseAll: BLKDISCARD of the whole card; after an error a      *)
(* prefix may already be gone.  The dirty flag is not touched.             *)
(***************************************************************************)
DevErase(k) ==
  /\ k \in 0 .. DevSize
  /\ disk' = [a \in Addr |-> IF a < k THEN Trimmed ELSE disk[a]]
  /\ UNCHANGED <<fd, dirty, sectors, durable>>

(***************************************************************************)
(* BlockDev::close: fsync (whose result is not looked at) and BLKRRPART    *)
(* only when dirty, then close.                                            *)
(***************************************************************************)
DevClose ==
  /\ durable' \in IF dirty THEN {durable, TRUE} ELSE {durable}
  /\ fd' = FALSE
  /\ dirty' = FALSE
  /\ sectors' = 0
  /\ UNCHANGED disk
=============================================================================
