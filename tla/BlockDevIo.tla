----------------------------- MODULE BlockDevIo -----------------------------
(***************************************************************************)
(* The inside of class BlockDev (source/blockdev.cpp), one system call at  *)
(* a time: the check by lsblk, open and BLKGETSIZE64 with what is released *)
(* when one of them fails, the loops over pread and pwrite that go on      *)
(* after a short transfer, BLKDISCARD, and fsync and close.  BlockDev is   *)
(* the same class seen from outside, where an operation is a single step;  *)
(* ImplementsBlockDev relates the two.                                     *)
(*                                                                         *)
(* readSectors of tools/fsPrinter is the loop of read once more.           *)
(***************************************************************************)
EXTENDS Integers

CONSTANTS
  DevSize,      \* bytes of the card
  SecSize,      \* m_sectorSize
  MaxChunk,     \* 0x40000000
  Cell,         \* what a byte may be
  Zero, Old, Trimmed,
  Bytes,        \* what callers hand to write
  Requests      \* bound: [sector, count] of the calls of read and write

ASSUME IoAssumption ==
  /\ DevSize \in Nat /\ SecSize \in Nat \ {0} /\ MaxChunk \in Nat \ {0}
  /\ {Zero, Old, Trimmed} \subseteq Cell
  /\ Requests \subseteq [sector : Nat, count : Nat \ {0}]
  /\ \A r \in Requests : \A i \in 0 .. (r.count * SecSize) - 1 : Bytes[i] \in Cell

VARIABLES
  step,         \* the operation that runs, and where in it
  mFd,          \* m_fd # -1
  mDirty, mSectors,
  pipe, cards,  \* the kernel's side: pipe to lsblk, open descriptors of the card
  disk, durable,
  call,         \* locals of the operation that runs
  res           \* result of the last operation

members == <<mFd, mDirty, mSectors>>
kernel == <<pipe, cards, disk, durable>>
vars == <<step, members, kernel, call, res>>

Addr == 0 .. DevSize - 1

Card == [dirty |-> mDirty, disk |-> disk, durable |-> durable]

\* line: what lsblk printed; req: arguments of read and write; done: bytes
\* transferred, _buf, offset and totSize follow from it; buf: the caller's buffer
\* of read; before: history, the card when write or close began.
NoCall ==
  [line |-> "none", req |-> [sector |-> 0, count |-> 0], done |-> 0, buf |-> <<>>,
   before |-> [dirty |-> FALSE, disk |-> <<>>, durable |-> TRUE]]

Init ==
  /\ step = "closed"
  /\ mFd = FALSE /\ mDirty = FALSE /\ mSectors = 0
  /\ pipe = FALSE /\ cards = 0
  /\ call = NoCall
  /\ res = "ok"
  /\ disk = [a \in Addr |-> Old] /\ durable = TRUE

Goto(s) == step' = s /\ UNCHANGED <<res, call>>

\* The operation returns, and the object is open or not.
ReturnAs(open, r) ==
  /\ step' = IF open THEN "idle" ELSE "closed"
  /\ res' = r
  /\ call' = NoCall

Return(r) == ReturnAs(mFd, r) /\ UNCHANGED members

-----------------------------------------------------------------------------
(* open.                                                                   *)

\* popen: an error is returned before there is anything to close.
Popen ==
  /\ step = "closed"
  /\ \/ pipe' = TRUE /\ Goto("lsblk") /\ UNCHANGED members
     \/ UNCHANGED pipe /\ Return("errno")
  /\ UNCHANGED <<cards, disk, durable>>

\* fgets: nothing, a line that names a suitable device, or another one.
ReadLine ==
  /\ step = "lsblk"
  /\ \E l \in {"none", "suitable", "other"} : call' = [call EXCEPT !.line = l]
  /\ step' = "pclose"
  /\ UNCHANGED <<members, kernel, res>>

\* pclose may fail itself, or report that lsblk did: that overrides the line.
Pclose ==
  /\ step = "pclose"
  /\ pipe' = FALSE
  /\ \/ call.line = "suitable" /\ Goto("open") /\ UNCHANGED members
     \/ Return("EINVAL")
     \/ call.line # "none" /\ Return("errno")
  /\ UNCHANGED <<cards, disk, durable>>

\* open(O_EXCL): EBUSY when it is mounted, EACCES, ENOENT, ...
OpenNode ==
  /\ step = "open"
  /\ \/ cards' = cards + 1 /\ Goto("size") /\ UNCHANGED members
     \/ UNCHANGED cards /\ Return("errno")
  /\ UNCHANGED <<pipe, disk, durable>>

\* Only now the object has the descriptor.
GotSize ==
  /\ mFd' = TRUE /\ mSectors' = DevSize \div SecSize
  /\ ReturnAs(TRUE, "ok")
  /\ UNCHANGED <<mDirty, kernel>>

\* Slip: the descriptor of a card without a size stays open.
GetSizeUnreleased ==
  /\ step = "size"
  /\ GotSize \/ (Return("errno") /\ UNCHANGED kernel)

\* BLKGETSIZE64; an error closes the descriptor.
GetSize ==
  /\ step = "size"
  /\ \/ GotSize
     \/ cards' = cards - 1 /\ Return("errno") /\ UNCHANGED <<pipe, disk, durable>>

-----------------------------------------------------------------------------
(* read and write.                                                         *)

Lesser(m, n) == IF m < n THEN m ELSE n

Offset == (call.req.sector * SecSize) + call.done
TotSize == (call.req.count * SecSize) - call.done

\* What the next pread or pwrite is asked for.
BlkSize == Lesser(TotSize, MaxChunk)

\* How much of it the card may take or give.
OnCard == {n \in 1 .. BlkSize : Offset + n <= DevSize}

ReadCall(r) ==
  /\ step = "idle"
  /\ step' = "read"
  /\ call' = [NoCall EXCEPT !.req = r,
                            !.buf = [i \in 0 .. (r.count * SecSize) - 1 |-> Zero]]
  /\ UNCHANGED <<members, kernel, res>>

\* "Mark as dirty since we are about to write data."
WriteCall(r) ==
  /\ step = "idle"
  /\ step' = "write"
  /\ call' = [NoCall EXCEPT !.req = r, !.before = Card]
  /\ mDirty' = TRUE
  /\ UNCHANGED <<mFd, mSectors, kernel, res>>

\* Slip: a short transfer is taken for a whole one.
AdvanceWhole(n) == call.done + BlkSize

\* Slip: the loop repeats the call instead of going on behind it.
AdvanceNot(n) == call.done

\* _buf += n, offset += n, totSize -= n
Advance(n) == call.done + n

\* pwrite takes n bytes.
Pwrite ==
  /\ step = "write" /\ TotSize > 0
  /\ \E n \in OnCard :
       /\ disk' = [a \in Addr |-> IF a \in Offset .. Offset + n - 1
                                  THEN Bytes[call.done + (a - Offset)] ELSE disk[a]]
       /\ call' = [call EXCEPT !.done = Advance(n)]
  /\ durable' = FALSE
  /\ UNCHANGED <<step, members, pipe, cards, res>>

\* pread gives n bytes.
Pread ==
  /\ step = "read" /\ TotSize > 0
  /\ \E n \in OnCard :
       call' = [call EXCEPT
                  !.done = Advance(n),
                  !.buf = [i \in DOMAIN @ |-> IF i \in call.done .. call.done + n - 1
                                              THEN disk[Offset + (i - call.done)] ELSE @[i]]]
  /\ UNCHANGED <<step, members, kernel, res>>

\* -1 ends the loop.  Reading behind the end is no error.
TransferFails ==
  /\ step = "write" \/ (step = "read" /\ Offset < DevSize)
  /\ TotSize > 0
  /\ Return("errno")
  /\ UNCHANGED kernel

\* 0: nothing was transferred, and the loop makes the same call again.
TransferNothing ==
  /\ step \in {"read", "write"} /\ TotSize > 0
  /\ UNCHANGED vars

TransferDone ==
  /\ step \in {"read", "write"} /\ TotSize = 0
  /\ Return("ok")
  /\ UNCHANGED kernel

\* BLKDISCARD, or BLKSECDISCARD; an error may come when a part is gone.
EraseAll ==
  /\ step = "idle"
  /\ \E k \in 0 .. DevSize :
       /\ disk' = [a \in Addr |-> IF a < k THEN Trimmed ELSE disk[a]]
       /\ \/ k = DevSize /\ Return("ok")
          \/ Return("errno")
  /\ UNCHANGED <<pipe, cards, durable>>

-----------------------------------------------------------------------------
(* close.                                                                  *)

\* fsync, whose result is dropped, and BLKRRPART.
Fsync ==
  /\ step = "idle"
  /\ durable' \in IF mDirty THEN {durable, TRUE} ELSE {durable}
  /\ call' = [NoCall EXCEPT !.before = Card]
  /\ step' = "close"
  /\ UNCHANGED <<members, pipe, cards, disk, res>>

\* The kernel lets go of the descriptor, also when close answers EINTR.
SysClose ==
  /\ step = "close"
  /\ cards' = cards - 1
  /\ step' \in {"interrupted", "reset"}
  /\ UNCHANGED <<members, pipe, disk, durable, call, res>>

\* "while(::close(fd) == -1 && errno == EINTR)": there is nothing left to close,
\* and EBADF ends the loop.
CloseAgain ==
  /\ step = "interrupted"
  /\ Goto("reset")
  /\ UNCHANGED <<members, kernel>>

\* Slip: the object stays dirty, for the next card.
ResetKeepingDirty ==
  /\ step = "reset"
  /\ mFd' = FALSE /\ mSectors' = 0
  /\ ReturnAs(FALSE, "ok")
  /\ UNCHANGED <<mDirty, kernel>>

Reset ==
  /\ step = "reset"
  /\ mFd' = FALSE /\ mDirty' = FALSE /\ mSectors' = 0
  /\ ReturnAs(FALSE, "ok")
  /\ UNCHANGED kernel

-----------------------------------------------------------------------------
\* What the running operation does next when its transfers succeed.
Continue ==
  \/ ReadLine \/ Pclose \/ OpenNode \/ GetSize
  \/ Pwrite \/ Pread \/ TransferDone
  \/ SysClose \/ CloseAgain \/ Reset

Next ==
  \/ Popen
  \/ \E r \in Requests : ReadCall(r) \/ WriteCall(r)
  \/ EraseAll
  \/ Fsync
  \/ Continue
  \/ TransferFails
  \/ TransferNothing

Spec == Init /\ [][Next]_vars

(***************************************************************************)
(* One thread, and system calls return.  pread and pwrite may transfer     *)
(* nothing now and then, but not for ever while the card has something to  *)
(* transfer.  An error is possible, but never relied on.                   *)
(***************************************************************************)
FairSpec == Spec /\ WF_vars(Continue)

-----------------------------------------------------------------------------
(* Properties.                                                             *)

\* From outside the card and the dirty flag change when an operation returns.
Seen == IF step \in {"write", "close", "interrupted", "reset"} THEN call.before ELSE Card

Outside == INSTANCE BlockDev
  WITH fd <- mFd, dirty <- Seen.dirty, sectors <- mSectors, disk <- Seen.disk, durable <- Seen.durable

OutsideNext ==
  \/ Outside!DevOpen \/ Outside!DevOpenFails \/ Outside!DevClose
  \/ \E k \in 0 .. DevSize : Outside!DevErase(k)
  \/ \E r \in Requests :
       \/ Outside!DevWrite(r.sector * SecSize, r.count * SecSize, Bytes, 0)
       \/ Outside!DevWriteFails(r.sector * SecSize, r.count * SecSize, Bytes, 0)

(***************************************************************************)
(* However the kernel cuts a transfer, and wherever it fails, the          *)
(* operations are those BlockDev says: all bytes in their place, or a      *)
(* prefix and an error, nothing from a read, and a card that was written   *)
(* is dirty until it has been closed.                                      *)
(***************************************************************************)
ImplementsBlockDev == Outside!DevInit /\ [][OutsideNext]_(Outside!devVars)

\* Byte i of the request is where the operation that ends should have put it.
Arrived(i) ==
  LET a == (call.req.sector * SecSize) + i
  IN  /\ a \in Addr
      /\ disk[a] = IF step = "write" THEN Bytes[i] ELSE call.buf[i]

\* Success of read and of write is about all of the bytes asked for: write has
\* put them on the card, read has them from there.
TransferIsWhole ==
  [][(step \in {"read", "write"} /\ step' = "idle" /\ res' = "ok")
       => \A i \in 0 .. (call.req.count * SecSize) - 1 : Arrived(i)]_vars

\* Whatever fails, between two operations the process has one descriptor of the
\* card if the object has it and none otherwise, and no pipe to lsblk.
DescriptorsReleased ==
  step \in {"idle", "closed"} => ~pipe /\ cards = (IF mFd THEN 1 ELSE 0)

\* Every operation returns, a transfer without the help of an error as long as
\* it asks for sectors the card has.
OperationReturns ==
  step \notin {"idle", "closed"} /\ (step \in {"read", "write"} => Offset + TotSize <= DevSize)
    ~> step \in {"idle", "closed"}

(***************************************************************************)
(* What the comments of the class promise.                                 *)
(***************************************************************************)

\* "Reads sectors from the block device.  Returns 0 on success or errno."
ReadReturns == step = "read" ~> step # "read"
=============================================================================
