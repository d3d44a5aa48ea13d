-------------------------- MODULE BufferedFsWriter --------------------------
(***************************************************************************)
(* class BufferedFsWriter (include/buffered_fs_writer.h,                   *)
(* source/buffered_fs_writer.cpp): a strictly sequential writer with one   *)
(* block of buffer.  fill(offset) appends zeros up to offset, write(buf,   *)
(* size) appends bytes, close() flushes the sectors still in the buffer.   *)
(*                                                                         *)
(* A call is a sequence of steps, one per BlockDev::write, so that every   *)
(* prefix of a call is a state: the device may fail between any two of     *)
(* them.  step is the control point inside the current call, cur and       *)
(* target are the locals pos and offset/end of fill and write.             *)
(*                                                                         *)
(* stream, closedAt and base are history variables: what the writer has    *)
(* acknowledged, its length when the writer was closed, and what the card  *)
(* held before the writer's first byte.                                    *)
(***************************************************************************)
EXTENDS BlockDev

CONSTANTS
  BlkSize,      \* m_blkSize in cells
  Word,         \* one more than the largest u64
  Junk,         \* content of memory nobody has written
  Payload,      \* what a caller would write at each position
  Offsets,      \* bound: arguments fill is called with
  Sizes         \* bound: arguments write is called with

ASSUME WriterAssumption ==
  /\ \E k \in 2 .. BlkSize : BlkSize = SecSize * k
  /\ BlkSize \in Nat
  /\ Word \in Nat
  /\ Junk \in Cell \ {Zero, Old, Trimmed}
  /\ Payload \in [0 .. Word - 1 -> Cell \ {Junk}]
  /\ Offsets \subseteq 0 .. Word - 1
  /\ Sizes \subseteq 0 .. Word - 1

VARIABLES
  buf,          \* m_buf
  pos,          \* m_pos
  step,         \* where the object, or the current call on it, is
  op,           \* the current or last call: "fill" or "write"
  cur,          \* local pos of the call (m_pos when no call is running)
  target,       \* local offset of fill, end of write
  data,         \* the caller's bytes for write
  err,          \* result of the last fill or write
  closeRes,     \* result of close
  stream,       \* history: bytes acknowledged so far
  closedAt,     \* history: m_pos when close was called
  base          \* history: the card before the first byte was written

callVars == <<step, op, cur, target, data>>
histVars == <<stream, closedAt, base>>
writerVars == <<buf, pos, callVars, err, closeRes, histVars>>
vars == <<devVars, writerVars>>

Steps == {"new", "idle", "head", "body", "closing", "closed"}

Acked == IF step = "closed" THEN closedAt ELSE pos

TypeOK ==
  /\ DevTypeOK
  /\ buf \in [0 .. BlkSize - 1 -> Cell]
  /\ pos \in Nat
  /\ step \in Steps
  /\ op \in {"fill", "write"}
  /\ cur \in Nat
  /\ target \in Nat
  /\ data \in [0 .. (IF op = "write" THEN target - pos ELSE 0) - 1 -> Cell]
  /\ err \in {"none", "EINVAL", "EIO"}
  /\ closeRes \in {"none", "ok", "EIO"}
  /\ closedAt \in Nat
  /\ base \in [Addr -> Cell]
  /\ stream \in [0 .. Acked - 1 -> Cell]

-----------------------------------------------------------------------------
(* Positions and blocks.  BlkSize and SecSize are powers of two, so the    *)
(* source's masks are remainders.                                          *)

\* n & ~m_blkMask
BlockStart(n) == n - (n % BlkSize)

\* ((n + mask) & ~mask) - n, for a block or a sector of the given size
Misalignment(n, size) == (size - (n % size)) % size

\* The sector boundary at or above n.
SectorEnd(n) == n + Misalignment(n, SecSize)

Lesser(m, n) == IF m < n THEN m ELSE n

Zeros == [i \in 0 .. BlkSize - 1 |-> Zero]

NoBytes == [i \in {} |-> Zero]

-----------------------------------------------------------------------------
Init ==
  /\ DevInit
  /\ buf = [i \in 0 .. BlkSize - 1 |-> Junk]
  /\ pos = 0
  /\ step = "new"
  /\ op = "fill"
  /\ cur = 0
  /\ target = 0
  /\ data = NoBytes
  /\ err = "none"
  /\ closeRes = "none"
  /\ stream = NoBytes
  /\ closedAt = 0
  /\ base = disk

\* BufferedFsWriter::open on a freshly constructed object.  ENOMEM (no
\* buffer) and every failure of BlockDev::open leave it unopened.
Open ==
  /\ step = "new"
  /\ \/ DevOpen /\ step' = "idle"
     \/ DevOpenFails /\ step' = "closed"
  /\ UNCHANGED <<buf, pos, op, cur, target, data, err, closeRes, histVars>>

(***************************************************************************)
(* Every caller in the program returns at the first error, after which     *)
(* only close() runs (from the destructor).                                *)
(***************************************************************************)
Ready == step = "idle" /\ err = "none"

\* eraseAll resets m_pos.  EOPNOTSUPP is no error for the caller.
EraseAll ==
  /\ Ready
  /\ pos' = 0 /\ cur' = 0 /\ target' = 0
  /\ data' = NoBytes /\ op' = "fill"
  /\ stream' = NoBytes
  /\ \E k \in 0 .. DevSize :
       /\ DevErase(k)
       /\ err' \in IF k = DevSize THEN {"none"}
                   ELSE IF k = 0 THEN {"none", "EIO"} ELSE {"EIO"}
  /\ base' = disk'
  /\ UNCHANGED <<buf, step, closeRes, closedAt>>

\* A call that returns without having changed anything.
ReturnEarly(res) ==
  /\ err' = res
  /\ UNCHANGED <<devVars, buf, pos, callVars, closeRes, histVars>>

\* A call that returns a device error: its locals are gone, m_pos has not moved.
ReturnError ==
  /\ step' = "idle"
  /\ cur' = pos
  /\ target' = pos
  /\ data' = NoBytes
  /\ err' = "EIO"
  /\ UNCHANGED <<pos, op, closeRes, histVars>>

\* A call that returns 0: m_pos reaches target and src is acknowledged.
ReturnOk(src) ==
  /\ pos' = target
  /\ step' = "idle"
  /\ cur' = target
  /\ data' = NoBytes
  /\ stream' = [a \in 0 .. target - 1 |-> IF a < pos THEN stream[a] ELSE src[a - pos]]
  /\ err' = "none"
  /\ UNCHANGED <<op, target, closeRes, closedAt, base>>

(***************************************************************************)
(* "Align to buffer size", common to fill and write: the part of the call  *)
(* that still fits into the current block goes to the buffer; when that    *)
(* completes the block, it has to be written ("head").                     *)
(***************************************************************************)
AlignToBuffer(call, end, bytes, src) ==
  LET misalignment == Misalignment(pos, BlkSize)
      size         == Lesser(end - pos, misalignment)
      full         == misalignment > 0 /\ size = misalignment
  IN  /\ buf' = Patch(buf, pos % BlkSize, size, src, 0)
      /\ op' = call
      /\ target' = end
      /\ data' = bytes
      /\ step' = IF full THEN "head" ELSE "body"
      /\ cur' = IF full THEN pos ELSE pos + size
      /\ UNCHANGED <<devVars, pos, err, closeRes, histVars>>

FillCall(offset) ==
  /\ Ready
  /\ \/ offset = pos /\ ReturnEarly("none")
     \/ offset < pos /\ ReturnEarly("EINVAL")
     \/ offset > pos /\ AlignToBuffer("fill", offset, NoBytes, Zeros)

\* Slip: no check of the u64 sum.
WriteCallWrapping(size, src) ==
  /\ Ready
  /\ \/ size = 0 /\ ReturnEarly("none")
     \/ size > 0 /\ AlignToBuffer("write", (pos + size) % Word, src, src)

\* end < size in u64 arithmetic is pos + size >= Word.
WriteCall(size, src) ==
  /\ Ready
  /\ \/ size = 0 /\ ReturnEarly("none")
     \/ size > 0 /\ pos + size >= Word /\ ReturnEarly("EINVAL")
     \/ size > 0 /\ pos + size < Word /\ AlignToBuffer("write", pos + size, src, src)

\* The block completed by AlignToBuffer goes to the device.
FlushHead ==
  /\ step = "head"
  /\ \/ /\ DevWrite(BlockStart(cur), BlkSize, buf, 0)
        /\ cur' = cur + Misalignment(cur, BlkSize)
        /\ step' = "body"
        /\ UNCHANGED <<buf, pos, op, target, data, err, closeRes, histVars>>
     \/ /\ DevWriteFails(BlockStart(cur), BlkSize, buf, 0)
        /\ ReturnError
        /\ UNCHANGED buf

\* "Write full blocks" of fill: the buffer itself becomes a block of zeros.
FillBlock ==
  /\ step = "body" /\ op = "fill"
  /\ (target - cur) \div BlkSize > 0
  /\ buf' = Zeros
  /\ \/ /\ DevWrite(cur, BlkSize, Zeros, 0)
        /\ cur' = cur + BlkSize
        /\ UNCHANGED <<pos, step, op, target, data, err, closeRes, histVars>>
     \/ DevWriteFails(cur, BlkSize, Zeros, 0) /\ ReturnError

\* "Remaining bytes" of fill.  After FillBlock the buffer is zero already.
FillDone ==
  /\ step = "body" /\ op = "fill"
  /\ (target - cur) \div BlkSize = 0
  /\ buf' = Patch(buf, 0, target - cur, Zeros, 0)
  /\ ReturnOk([i \in 0 .. target - pos - 1 |-> Zero])
  /\ UNCHANGED devVars

\* Slip: _buf is not advanced behind the bytes that went to the buffer.
WriteBlockUnskipped ==
  /\ step = "body" /\ op = "write"
  /\ cur < BlockStart(target)
  /\ \/ /\ DevWrite(cur, BlkSize, data, 0)
        /\ cur' = cur + BlkSize
        /\ UNCHANGED <<pos, step, op, target, data, err, closeRes, histVars>>
     \/ DevWriteFails(cur, BlkSize, data, 0) /\ ReturnError
  /\ UNCHANGED buf

\* Slip: the blocks of the bytes are written from the block of m_pos on.
WriteBlockFromPos ==
  /\ step = "body" /\ op = "write"
  /\ cur < BlockStart(target)
  /\ \/ /\ DevWrite(BlockStart(pos), BlkSize, data, 0)
        /\ cur' = cur + BlkSize
        /\ UNCHANGED <<pos, step, op, target, data, err, closeRes, histVars>>
     \/ DevWriteFails(cur, BlkSize, data, cur - pos) /\ ReturnError
  /\ UNCHANGED buf

\* Slip: pos is not advanced behind a block, only _buf is.
WriteBlockStuck ==
  /\ step = "body" /\ op = "write"
  /\ cur < BlockStart(target)
  /\ \/ /\ DevWrite(cur, BlkSize, data, cur - pos)
        /\ UNCHANGED <<cur, pos, step, op, target, data, err, closeRes, histVars>>
     \/ DevWriteFails(cur, BlkSize, data, cur - pos) /\ ReturnError
  /\ UNCHANGED buf

\* "Write full blocks" of write: straight from the caller's bytes.
WriteBlock ==
  /\ step = "body" /\ op = "write"
  /\ cur < BlockStart(target)
  /\ \/ /\ DevWrite(cur, BlkSize, data, cur - pos)
        /\ cur' = cur + BlkSize
        /\ UNCHANGED <<pos, step, op, target, data, err, closeRes, histVars>>
     \/ DevWriteFails(cur, BlkSize, data, cur - pos) /\ ReturnError
  /\ UNCHANGED buf

\* "Remaining bytes" of write.
WriteDone ==
  /\ step = "body" /\ op = "write"
  /\ cur >= BlockStart(target)
  /\ buf' = Patch(buf, 0, target - cur, data, cur - pos)
  /\ ReturnOk(data)
  /\ UNCHANGED devVars

-----------------------------------------------------------------------------
(* close(), called by formatSd after success and by the destructor         *)
(* otherwise.                                                              *)

\* Slip: the last, partly filled sector is left out.
FlushSizeFullSectors == (pos - (pos % SecSize)) % BlkSize

\* Slip: the whole buffer, not the sectors in use.
FlushSizeBlock == IF pos % BlkSize = 0 THEN 0 ELSE BlkSize

\* Cells close() hands to BlockDev::write: whole sectors of the last block.
FlushSize == SectorEnd(pos) % BlkSize

\* Slip: the rest of the last sector is not cleared.
CloseFlushUnpadded ==
  /\ step = "idle"
  /\ \/ FlushSize = 0 /\ closeRes' = "ok" /\ UNCHANGED devVars
     \/ FlushSize > 0 /\ DevWrite(BlockStart(pos), FlushSize, buf, 0) /\ closeRes' = "ok"
     \/ FlushSize > 0 /\ DevWriteFails(BlockStart(pos), FlushSize, buf, 0) /\ closeRes' = "EIO"
  /\ step' = "closing"
  /\ UNCHANGED <<buf, pos, op, cur, target, data, err, histVars>>

\* Slip: the result of the last write is not returned.
CloseFlushUnchecked ==
  LET padded == Patch(buf, pos % BlkSize, Misalignment(pos, SecSize), Zeros, 0)
  IN  /\ step = "idle"
          /\ buf' = padded
      /\ \/ FlushSize = 0 /\ UNCHANGED devVars
         \/ FlushSize > 0 /\ DevWrite(BlockStart(pos), FlushSize, padded, 0)
         \/ FlushSize > 0 /\ DevWriteFails(BlockStart(pos), FlushSize, padded, 0)
      /\ closeRes' = "ok"
      /\ step' = "closing"
      /\ UNCHANGED <<pos, op, cur, target, data, err, histVars>>

CloseFlush ==
  LET padded == Patch(buf, pos % BlkSize, Misalignment(pos, SecSize), Zeros, 0)
  IN  /\ step = "idle"
          /\ buf' = padded
      /\ \/ FlushSize = 0 /\ closeRes' = "ok" /\ UNCHANGED devVars
         \/ /\ FlushSize > 0
            /\ DevWrite(BlockStart(pos), FlushSize, padded, 0)
            /\ closeRes' = "ok"
         \/ /\ FlushSize > 0
            /\ DevWriteFails(BlockStart(pos), FlushSize, padded, 0)
            /\ closeRes' = "EIO"
      /\ step' = "closing"
      /\ UNCHANGED <<pos, op, cur, target, data, err, histVars>>

CloseDev ==
  /\ step = "closing"
  /\ DevClose
  /\ pos' = 0 /\ cur' = 0 /\ target' = 0
  /\ data' = NoBytes
  /\ closedAt' = pos
  /\ step' = "closed"
  /\ UNCHANGED <<buf, op, err, closeRes, stream, base>>

-----------------------------------------------------------------------------
\* The steps a call takes once it has been made.
CallStep == FlushHead \/ FillBlock \/ FillDone \/ WriteBlock \/ WriteDone \/ CloseDev

Next ==
  \/ Open
  \/ pos = 0 /\ EraseAll     \* formatSd erases before its first write
  \/ \E offset \in Offsets : FillCall(offset)
  \/ \E size \in Sizes : WriteCall(size, [i \in 0 .. size - 1 |-> Payload[pos + i]])
  \/ CloseFlush
  \/ CallStep

Spec == Init /\ [][Next]_vars

(***************************************************************************)
(* A call that was made runs on: nothing in it waits for another thread.   *)
(* The device answers what it can serve and refuses what lies behind its   *)
(* end; that it refuses anything else is possible but never relied on.     *)
(***************************************************************************)
FairSpec ==
  /\ Spec
  /\ WF_vars(CallStep /\ err' = err)
  /\ WF_vars(CallStep /\ BlockStart(cur) + BlkSize > DevSize)

-----------------------------------------------------------------------------
(* Properties.  Expected(a) is the byte that belongs at position a: an     *)
(* acknowledged one, or one the running call will acknowledge.             *)

Expected(a) ==
  IF a < pos THEN stream[a] ELSE IF op = "write" THEN data[a - pos] ELSE Zero

\* How far the buffer is valid: a completed block waits for the device in "head".
Gathered == IF step = "head" THEN pos + Misalignment(pos, BlkSize) ELSE cur

OnCard == \A a \in 0 .. BlockStart(cur) - 1 : a \in Addr /\ disk[a] = Expected(a)

InBuffer == \A a \in BlockStart(cur) .. Gathered - 1 : buf[a % BlkSize] = Expected(a)

(***************************************************************************)
(* Every byte the writer has taken is where the next step looks for it:    *)
(* below the current block on the card, from there on in the buffer.  This *)
(* holds at every step of fill and write, not only between calls, as long  *)
(* as no device write has failed.                                          *)
(***************************************************************************)
StreamStored ==
  step \in {"idle", "head", "body"} /\ err = "none" => OnCard /\ InBuffer

\* The last sector of a block is partly filled: close() computes no sectors then.
PartialLastSector(n) == n % SecSize # 0 /\ SectorEnd(n) % BlkSize = 0

\* The card holds n bytes of the stream, the rest of their last sector is zero,
\* and what is behind it is what was there before.
Flushed(n) ==
  \A a \in Addr : disk[a] = IF a < n THEN stream[a]
                           ELSE IF a < SectorEnd(n) THEN Zero ELSE base[a]

(***************************************************************************)
(* A writer that reported no error and whose close() returned 0 has put    *)
(* exactly the bytes it was given on the card, the rest of the last sector *)
(* is zero, and nothing behind it was touched.                             *)
(***************************************************************************)
FlushedOnClose ==
  /\ step = "closed" /\ closeRes = "ok" /\ err = "none"
  /\ ~PartialLastSector(closedAt)
  => Flushed(closedAt)

\* While no device write has failed, no byte behind the sector of the end of
\* the running call (or of the writer's position) differs from what the card
\* held before: fill and write never run past the bytes they were given.
NothingBeyond ==
  err = "none" =>
    \A a \in Addr :
      (a >= SectorEnd(pos) /\ a >= target /\ a >= SectorEnd(closedAt)) => disk[a] = base[a]

\* The uninitialised memory of the buffer never reaches the card, whichever
\* calls were made and whichever of them failed: neither fill, write nor the
\* flush of close() hands out a part of m_buf nobody has written.
NoJunkOnCard == \A a \in Addr : disk[a] # Junk

\* What a caller may find on an open device: unsynced writes imply m_dirty, so
\* that BlockDev::close() never skips the fsync of a card that was written.
UnsyncedIsDirty == fd /\ ~durable => dirty

(***************************************************************************)
(* The writer is sequential.  A byte below the block of m_pos is final: no *)
(* call, whether it fails or not, and no close() writes it again, and      *)
(* m_pos itself only goes back when the object is closed.  Within a call   *)
(* the same is true of every block the call has left, as long as no write  *)
(* has failed.  A call that fails gives such blocks up again: close() may  *)
(* then rewrite the block of m_pos, as FailedCallKeepsStream shows.        *)
(***************************************************************************)
FlushedIsFinal ==
  [][/\ \A a \in Addr :
          \/ a < BlockStart(pos)
          \/ a < BlockStart(cur) /\ err = "none"
          => disk'[a] = disk[a]
     /\ pos' < pos => step' = "closed"]_vars

\* Every call that was made returns, to its caller or by closing the object.
CallReturns == step \in {"head", "body", "closing"} ~> step \in {"idle", "closed"}

(***************************************************************************)
(* The writer implements a byte stream: a failed write, or a failed flush, *)
(* is never taken for success, and success means the card holds the stream *)
(* and is otherwise untouched.  A stream that ends inside a sector is not  *)
(* saved in this sense: close() writes whole sectors, or nothing.          *)
(***************************************************************************)
Unsaved ==
  \/ err # "none" \/ closeRes = "EIO"
  \/ step = "closed" /\ closeRes = "none"
  \/ closeRes = "ok" /\ Acked % SecSize # 0

StreamState ==
  IF step = "new" THEN "new"
  ELSE IF Unsaved THEN "failed"
  ELSE IF closeRes = "ok" THEN "saved" ELSE "open"

Abstract == INSTANCE ByteStream WITH state <- StreamState, media <- disk

ImplementsByteStream == Abstract!Spec

(***************************************************************************)
(* What the class documentation promises without the exceptions above.     *)
(***************************************************************************)

\* "Flushes the buffer and closes the block device. Returns 0 on success":
\* after close() returned 0 every byte acknowledged before is on the card,
\* wherever the last one lies.
CloseFlushesAll ==
  step = "closed" /\ closeRes = "ok" /\ err = "none" =>
    \A a \in Addr : a < closedAt => disk[a] = stream[a]

\* "Seeks to offset and fills the distance with zeros": a fill that fails leaves
\* the bytes before m_pos alone, so the flush by the destructor keeps them.
FailedCallKeepsStream ==
  step = "closed" /\ closeRes = "ok" /\ closedAt % SecSize = 0 =>
    \A a \in Addr : a < closedAt => disk[a] = stream[a]

\* "Flush all writes to the device" and "Don't make errors on flushing the
\* buffer go unnoticed": success means the bytes survive a loss of power.
SuccessIsDurable == step = "closed" /\ closeRes = "ok" /\ err = "none" => durable
=============================================================================
