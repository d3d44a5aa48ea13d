-------------------------- MODULE BlockDevIoProofs --------------------------
(***************************************************************************)
(* Theorems about class BlockDev, for every card, every request and every  *)
(* way the kernel may cut a transfer: the system calls of an operation     *)
(* together are the one step of BlockDev.                                  *)
(***************************************************************************)
EXTENDS BlockDevIo, TLAPS

\* First byte of the running request, and its bytes.
From == call.req.sector * SecSize
Size == call.req.count * SecSize

\* The frame of a call has its fields, and what is done is at most the request.
CallType ==
  /\ call = [line |-> call.line, req |-> call.req, done |-> call.done, buf |-> call.buf,
             before |-> call.before]
  /\ call.done \in Nat
  /\ step \in {"read", "write"} =>
       /\ call.req \in Requests
       /\ From \in Nat /\ Size \in Nat \ {0} /\ call.done <= Size
       /\ call.done = 0 \/ From + call.done <= DevSize

IoType ==
  /\ step \in {"closed", "lsblk", "pclose", "open", "size", "idle", "read", "write", "close",
               "interrupted", "reset"}
  /\ mDirty \in BOOLEAN /\ durable \in BOOLEAN
  /\ disk \in [Addr -> Cell]
  /\ CallType

\* Which operation holds which descriptor.
Descriptors ==
  /\ mFd <=> step \in {"idle", "read", "write", "close", "interrupted", "reset"}
  /\ pipe <=> step \in {"lsblk", "pclose"}
  /\ cards = IF step \in {"size", "idle", "read", "write", "close"} THEN 1 ELSE 0
  /\ pipe \in BOOLEAN /\ mFd \in BOOLEAN

\* The card is what it was before the write, with the bytes done so far.
WriteProgress ==
  step = "write" =>
    /\ mDirty
    /\ disk = [a \in Addr |-> IF a \in From .. From + call.done - 1
                              THEN Bytes[a - From] ELSE call.before.disk[a]]
    /\ call.before.disk \in [Addr -> Cell]
    /\ durable = (call.before.durable /\ call.done = 0)

\* The buffer has, up to what is done, what the card has.
ReadProgress ==
  step = "read" =>
    /\ DOMAIN call.buf = 0 .. Size - 1
    /\ \A i \in 0 .. call.done - 1 : call.buf[i] = disk[From + i]

\* Of what close began with only the page cache has changed.
CloseProgress ==
  step \in {"close", "interrupted", "reset"} =>
    /\ disk = call.before.disk /\ mDirty = call.before.dirty
    /\ durable = call.before.durable \/ (mDirty /\ durable = TRUE)

IoInv == IoType /\ Descriptors /\ WriteProgress /\ ReadProgress /\ CloseProgress

LEMMA Constants_ ==
  /\ DevSize \in Nat /\ SecSize \in Nat \ {0} /\ MaxChunk \in Nat \ {0}
  /\ Zero \in Cell /\ Old \in Cell /\ Trimmed \in Cell
BY IoAssumption

LEMMA RequestType ==
  ASSUME NEW r \in Requests
  PROVE  /\ r.sector * SecSize \in Nat /\ r.count * SecSize \in Nat \ {0}
         /\ \A i \in 0 .. (r.count * SecSize) - 1 : Bytes[i] \in Cell
<1>1. r \in [sector : Nat, count : Nat \ {0}]  BY IoAssumption
<1> DEFINE s == r.sector
           n == r.count
<1>2. s \in Nat /\ n \in Nat \ {0}  BY <1>1
<1> HIDE DEF s, n
<1>3. s * SecSize \in Nat  BY <1>2, Constants_
<1>4. n * SecSize \in Nat \ {0}  BY <1>2, Constants_
<1> QED  BY <1>3, <1>4, IoAssumption DEF s, n

\* An operation that returns: nothing is known of its frame any more.
LEMMA Returned ==
  ASSUME IoInv, NEW r, Return(r), mFd => cards' = 1, ~mFd => cards' = 0, ~pipe', pipe' \in BOOLEAN,
         disk' \in [Addr -> Cell], durable' \in BOOLEAN
  PROVE  IoInv'
<1>1. call' = NoCall /\ step' = (IF mFd THEN "idle" ELSE "closed") /\ UNCHANGED members
  BY DEF Return, ReturnAs
<1>2. IoType'
  BY <1>1 DEF IoInv, IoType, CallType, NoCall, members, Addr
<1>3. Descriptors'  BY <1>1 DEF IoInv, Descriptors, members
<1>4. WriteProgress' /\ ReadProgress' /\ CloseProgress'
  BY <1>1 DEF WriteProgress, ReadProgress, CloseProgress
<1> QED  BY <1>2, <1>3, <1>4 DEF IoInv

\* How far the transfer is behind a successful call.
LEMMA Transferred ==
  ASSUME IoInv, step \in {"read", "write"}, NEW n \in OnCard
  PROVE  /\ n \in Nat /\ From \in Nat /\ Size \in Nat \ {0} /\ call.done \in Nat
         /\ call.done + n <= Size /\ From + (call.done + n) <= DevSize
         /\ Offset = From + call.done /\ TotSize = Size - call.done
<1>1. /\ From \in Nat /\ Size \in Nat \ {0} /\ call.done \in Nat /\ call.done <= Size
  BY DEF IoInv, IoType, CallType
<1>2. Offset = From + call.done /\ TotSize = Size - call.done  BY DEF Offset, TotSize, From, Size
<1>3. n \in 1 .. Lesser(TotSize, MaxChunk) /\ Offset + n <= DevSize  BY DEF OnCard, BlkSize
<1>4. n \in Nat /\ n <= TotSize  BY <1>1, <1>2, <1>3, Constants_ DEF Lesser
<1> QED  BY <1>1, <1>2, <1>3, <1>4, Constants_

LEMMA PwriteKeeps == IoInv /\ Pwrite => IoInv'
<1> SUFFICES ASSUME IoInv, Pwrite PROVE IoInv'  OBVIOUS
<1>1. step = "write"  BY DEF Pwrite
<1>2. PICK n \in OnCard :
        /\ disk' = [a \in Addr |-> IF a \in Offset .. Offset + n - 1
                                   THEN Bytes[call.done + (a - Offset)] ELSE disk[a]]
        /\ call' = [call EXCEPT !.done = Advance(n)]
  BY DEF Pwrite
<1>3. /\ n \in Nat /\ From \in Nat /\ Size \in Nat \ {0} /\ call.done \in Nat
      /\ call.done + n <= Size /\ From + (call.done + n) <= DevSize
      /\ Offset = From + call.done
  BY <1>1, Transferred
<1>4. /\ call'.line = call.line /\ call'.req = call.req /\ call'.done = call.done + n
      /\ call'.buf = call.buf /\ call'.before = call.before
      /\ call' = [line |-> call.line, req |-> call.req, done |-> call.done + n, buf |-> call.buf,
                  before |-> call.before]
  BY <1>2 DEF IoInv, IoType, CallType, Advance
<1>5. From' = From /\ Size' = Size  BY <1>4 DEF From, Size
<1>6. /\ UNCHANGED <<step, mFd, mDirty, mSectors, pipe, cards>> /\ durable' = FALSE
  BY DEF Pwrite, members
<1>7. n > 0  BY <1>3 DEF OnCard
<1>8. call.req \in Requests /\ Addr \subseteq Nat  BY <1>1 DEF IoInv, IoType, CallType, Addr
<1>9. disk' \in [Addr -> Cell]
  <2>1. ASSUME NEW a \in Addr, a \in Offset .. Offset + n - 1
        PROVE  Bytes[call.done + (a - Offset)] \in Cell
    <3>1. call.done + (a - Offset) \in 0 .. Size - 1  BY <1>3, <1>8, <2>1
    <3> QED  BY <1>8, <3>1, RequestType DEF Size
  <2>2. disk \in [Addr -> Cell]  BY DEF IoInv, IoType
  <2> QED  BY <1>2, <2>1, <2>2
<1>10. IoType'
  <2>1. CallType'  BY <1>1, <1>3, <1>4, <1>5, <1>6, <1>8 DEF CallType
  <2> QED  BY <1>1, <1>6, <1>9, <2>1 DEF IoInv, IoType, Addr
<1>11. Descriptors'  BY <1>6 DEF IoInv, Descriptors
<1>12. WriteProgress'
  <2> DEFINE old == call.before.disk
  <2>1. /\ mDirty /\ old \in [Addr -> Cell]
        /\ disk = [a \in Addr |-> IF a \in From .. From + call.done - 1 THEN Bytes[a - From] ELSE old[a]]
    BY <1>1 DEF IoInv, WriteProgress
  <2> HIDE DEF old
  <2>2. ASSUME NEW a \in Addr
        PROVE  disk'[a] = IF a \in From .. From + (call.done + n) - 1 THEN Bytes[a - From] ELSE old[a]
    <3>1. a \in Nat  BY <1>8
    <3>2. CASE a \in Offset .. Offset + n - 1
      <4>1. call.done + (a - Offset) = a - From  BY <1>3, <3>1
      <4>2. a \in From .. From + (call.done + n) - 1  BY <1>3, <3>1, <3>2
      <4> QED  BY <1>2, <3>2, <4>1, <4>2
    <3>3. CASE a \notin Offset .. Offset + n - 1
      <4>1. a \in From .. From + call.done - 1 <=> a \in From .. From + (call.done + n) - 1
        BY <1>3, <3>1, <3>3
      <4>2. disk'[a] = disk[a]  BY <1>2, <3>3
      <4> QED  BY <2>1, <4>1, <4>2
    <3> QED  BY <3>2, <3>3
  <2>3. disk' = [a \in Addr |-> IF a \in From .. From + (call.done + n) - 1 THEN Bytes[a - From] ELSE old[a]]
    BY <1>9, <2>2
  <2>4. call'.done # 0  BY <1>3, <1>4, <1>7
  <2> QED  BY <1>1, <1>4, <1>5, <1>6, <2>1, <2>3, <2>4 DEF WriteProgress, old, Addr
<1> QED  BY <1>1, <1>6, <1>10, <1>11, <1>12 DEF IoInv, ReadProgress, CloseProgress

LEMMA PreadKeeps == IoInv /\ Pread => IoInv'
<1> SUFFICES ASSUME IoInv, Pread PROVE IoInv'  OBVIOUS
<1>1. step = "read"  BY DEF Pread
<1>2. PICK n \in OnCard :
        call' = [call EXCEPT
                   !.done = Advance(n),
                   !.buf = [i \in DOMAIN @ |-> IF i \in call.done .. call.done + n - 1
                                               THEN disk[Offset + (i - call.done)] ELSE @[i]]]
  BY DEF Pread
<1>3. /\ n \in Nat /\ From \in Nat /\ Size \in Nat \ {0} /\ call.done \in Nat
      /\ call.done + n <= Size /\ From + (call.done + n) <= DevSize
      /\ Offset = From + call.done
  BY <1>1, Transferred
<1>4. /\ call'.line = call.line /\ call'.req = call.req /\ call'.done = call.done + n
      /\ call'.before = call.before
      /\ call'.buf = [i \in DOMAIN call.buf |-> IF i \in call.done .. call.done + n - 1
                                                THEN disk[Offset + (i - call.done)] ELSE call.buf[i]]
      /\ call' = [line |-> call.line, req |-> call.req, done |-> call.done + n, buf |-> call'.buf,
                  before |-> call.before]
  BY <1>2 DEF IoInv, IoType, CallType, Advance
<1>5. From' = From /\ Size' = Size  BY <1>4 DEF From, Size
<1>6. UNCHANGED <<step, mFd, mDirty, mSectors, pipe, cards, disk, durable>>
  BY DEF Pread, members, kernel
<1>7. IoType'
  <2>1. call.req \in Requests  BY <1>1 DEF IoInv, IoType, CallType
  <2>2. CallType'  BY <1>1, <1>3, <1>4, <1>5, <1>6, <2>1 DEF CallType
  <2> QED  BY <1>1, <1>6, <2>2 DEF IoInv, IoType, Addr
<1>8. Descriptors'  BY <1>6 DEF IoInv, Descriptors
<1>9. ReadProgress'
  <2>1. /\ DOMAIN call.buf = 0 .. Size - 1
        /\ \A i \in 0 .. call.done - 1 : call.buf[i] = disk[From + i]
    BY <1>1 DEF IoInv, ReadProgress
  <2>2. ASSUME NEW i \in 0 .. (call.done + n) - 1 PROVE call'.buf[i] = disk[From + i]
    <3>1. i \in DOMAIN call.buf  BY <1>3, <2>1
    <3>2. CASE i \in call.done .. call.done + n - 1
      <4>1. Offset + (i - call.done) = From + i  BY <1>3, <3>2
      <4> QED  BY <1>4, <3>1, <3>2, <4>1
    <3>3. CASE i \notin call.done .. call.done + n - 1
      <4>1. i \in 0 .. call.done - 1  BY <1>3, <3>3
      <4> QED  BY <1>4, <2>1, <3>1, <3>3, <4>1
    <3> QED  BY <3>2, <3>3
  <2>3. DOMAIN call'.buf = 0 .. Size - 1  BY <1>4, <2>1
  <2> QED  BY <1>4, <1>5, <1>6, <2>2, <2>3 DEF ReadProgress
<1> QED  BY <1>1, <1>6, <1>7, <1>8, <1>9 DEF IoInv, WriteProgress, CloseProgress

LEMMA IoStep == IoInv /\ [Next]_vars => IoInv'
<1> SUFFICES ASSUME IoInv, [Next]_vars PROVE IoInv'  OBVIOUS
<1>0. /\ disk \in [Addr -> Cell] /\ durable \in BOOLEAN /\ mDirty \in BOOLEAN
      /\ call.done \in Nat
      /\ call = [line |-> call.line, req |-> call.req, done |-> call.done, buf |-> call.buf,
                 before |-> call.before]
  BY DEF IoInv, IoType, CallType
<1>1. CASE Popen
  <2>1. CASE Return("errno")
    <3>1. /\ step = "closed" /\ UNCHANGED <<cards, disk, durable>>
          /\ UNCHANGED pipe
      BY <1>1, <2>1 DEF Popen, Goto, Return, ReturnAs
    <3>2. ~pipe /\ pipe \in BOOLEAN /\ ~mFd /\ cards = 0  BY <3>1 DEF IoInv, Descriptors
    <3> QED  BY <1>0, <2>1, <3>1, <3>2, Returned
  <2>2. CASE pipe' = TRUE /\ Goto("lsblk") /\ UNCHANGED members
    BY <1>1, <2>2 DEF Popen, Goto, members, IoInv, IoType, CallType, Descriptors, WriteProgress,
       ReadProgress, CloseProgress, Addr
  <2> QED  BY <1>1, <2>1, <2>2 DEF Popen
<1>2. CASE ReadLine
  <2>1. /\ step = "lsblk" /\ step' = "pclose" /\ UNCHANGED <<mFd, mDirty, mSectors, pipe, cards, disk, durable>>
    BY <1>2 DEF ReadLine, members, kernel
  <2>2. PICK l : call' = [call EXCEPT !.line = l]  BY <1>2 DEF ReadLine
  <2>3. /\ call' = [line |-> l, req |-> call.req, done |-> call.done, buf |-> call.buf,
                    before |-> call.before]
    BY <1>0, <2>2
  <2> QED
    BY <1>0, <2>1, <2>3 DEF IoInv, IoType, CallType, Descriptors, WriteProgress, ReadProgress,
       CloseProgress, Addr
<1>3. CASE Pclose
  <2>1. CASE \E r : Return(r)
    BY <1>0, <1>3, <2>1, Returned DEF Pclose, IoInv, Descriptors
  <2>2. CASE Goto("open") /\ UNCHANGED members
    BY <1>3, <2>2 DEF Pclose, Goto, members, IoInv, IoType, CallType, Descriptors, WriteProgress,
       ReadProgress, CloseProgress, Addr
  <2> QED  BY <1>3, <2>1, <2>2 DEF Pclose
<1>4. CASE OpenNode
  <2>1. CASE Return("errno") /\ UNCHANGED cards
    BY <1>0, <1>4, <2>1, Returned DEF OpenNode, IoInv, Descriptors
  <2>2. CASE cards' = cards + 1 /\ Goto("size") /\ UNCHANGED members
    BY <1>4, <2>2 DEF OpenNode, Goto, members, IoInv, IoType, CallType, Descriptors, WriteProgress,
       ReadProgress, CloseProgress, Addr
  <2> QED  BY <1>4, <2>1, <2>2 DEF OpenNode
<1>5. CASE GetSize
  <2>1. CASE GotSize
    BY <1>0, <1>5, <2>1 DEF GetSize, GotSize, ReturnAs, kernel, NoCall, IoInv, IoType, CallType,
       Descriptors, WriteProgress, ReadProgress, CloseProgress, Addr
  <2>2. CASE cards' = cards - 1 /\ Return("errno") /\ UNCHANGED <<pipe, disk, durable>>
    BY <1>0, <1>5, <2>2, Returned DEF GetSize, IoInv, Descriptors
  <2> QED  BY <1>5, <2>1, <2>2 DEF GetSize
<1>6. ASSUME NEW r \in Requests, ReadCall(r) PROVE IoInv'
  <2>1. r.sector * SecSize \in Nat /\ r.count * SecSize \in Nat \ {0}  BY RequestType
  <2>2. /\ step = "idle" /\ step' = "read"
        /\ UNCHANGED <<mFd, mDirty, mSectors, pipe, cards, disk, durable>>
    BY <1>6 DEF ReadCall, members, kernel
  <2>3. /\ call'.req = r /\ call'.done = 0 /\ DOMAIN call'.buf = 0 .. (r.count * SecSize) - 1
        /\ call' = [line |-> call'.line, req |-> call'.req, done |-> call'.done, buf |-> call'.buf,
                    before |-> call'.before]
    BY <1>6 DEF ReadCall, NoCall
  <2>4. From' = r.sector * SecSize /\ Size' = r.count * SecSize  BY <2>3 DEF From, Size
  <2>5. CallType'  BY <2>1, <2>2, <2>3, <2>4 DEF CallType
  <2>6. ReadProgress'  BY <2>3, <2>4 DEF ReadProgress
  <2> QED
    BY <1>0, <2>2, <2>5, <2>6 DEF IoInv, IoType, Descriptors, WriteProgress, CloseProgress, Addr
<1>7. ASSUME NEW r \in Requests, WriteCall(r) PROVE IoInv'
  <2>1. r.sector * SecSize \in Nat /\ r.count * SecSize \in Nat \ {0}  BY RequestType
  <2>2. /\ step = "idle" /\ step' = "write" /\ mDirty' = TRUE
        /\ UNCHANGED <<mFd, mSectors, pipe, cards, disk, durable>>
    BY <1>7 DEF WriteCall, kernel
  <2>3. /\ call'.req = r /\ call'.done = 0 /\ call'.before = Card
        /\ call' = [line |-> call'.line, req |-> call'.req, done |-> call'.done, buf |-> call'.buf,
                    before |-> call'.before]
    BY <1>7 DEF WriteCall, NoCall
  <2>4. From' = r.sector * SecSize /\ Size' = r.count * SecSize  BY <2>3 DEF From, Size
  <2>5. CallType'  BY <2>1, <2>2, <2>3, <2>4 DEF CallType
  <2>6. WriteProgress'
    <3>1. call'.before.disk = disk /\ call'.before.durable = durable  BY <2>3 DEF Card
    <3>2. From' .. From' + call'.done - 1 = {}  BY <2>1, <2>3, <2>4
    <3> QED  BY <1>0, <2>2, <2>3, <3>1, <3>2 DEF WriteProgress, Addr
  <2> QED
    BY <1>0, <2>2, <2>5, <2>6 DEF IoInv, IoType, Descriptors, ReadProgress, CloseProgress, Addr
<1>8. CASE TransferFails \/ TransferDone
  <2>1. step \in {"read", "write"} /\ UNCHANGED <<pipe, cards, disk, durable>> /\ (\E r : Return(r))
    BY <1>8 DEF TransferFails, TransferDone, kernel
  <2> QED  BY <1>0, <2>1, Returned DEF IoInv, Descriptors
<1>9. CASE EraseAll
  <2>1. disk' \in [Addr -> Cell]  BY <1>0, <1>9, Constants_ DEF EraseAll
  <2>2. step = "idle" /\ UNCHANGED <<pipe, cards, durable>> /\ (\E r : Return(r))
    BY <1>9 DEF EraseAll
  <2> QED  BY <1>0, <2>1, <2>2, Returned DEF IoInv, Descriptors
<1>10. CASE Fsync
  <2>1. /\ step = "idle" /\ step' = "close" /\ UNCHANGED <<mFd, mDirty, mSectors, pipe, cards, disk>>
        /\ durable' = durable \/ (mDirty /\ durable' = TRUE)
    BY <1>10 DEF Fsync, members
  <2>2. /\ call'.done = 0 /\ call'.before = Card
        /\ call' = [line |-> call'.line, req |-> call'.req, done |-> call'.done, buf |-> call'.buf,
                    before |-> call'.before]
    BY <1>10 DEF Fsync, NoCall
  <2>3. CloseProgress'  BY <2>1, <2>2 DEF CloseProgress, Card
  <2>4. durable' \in BOOLEAN  BY <1>0, <2>1
  <2>5. CallType'  BY <2>1, <2>2 DEF CallType
  <2>6. IoType'  BY <1>0, <2>1, <2>4, <2>5 DEF IoType, Addr
  <2>7. Descriptors'  BY <2>1 DEF IoInv, Descriptors
  <2> QED  BY <2>1, <2>3, <2>6, <2>7 DEF IoInv, WriteProgress, ReadProgress
<1>11. CASE SysClose \/ CloseAgain
  <2>1. /\ step \in {"close", "interrupted"} /\ step' \in {"interrupted", "reset"}
        /\ cards' = (IF step = "close" THEN cards - 1 ELSE cards)
        /\ UNCHANGED <<mFd, mDirty, mSectors, pipe, disk, durable, call>>
    BY <1>11 DEF SysClose, CloseAgain, Goto, members, kernel
  <2> QED
    BY <1>0, <2>1 DEF IoInv, IoType, CallType, Descriptors, WriteProgress, ReadProgress, CloseProgress, Addr
<1>12. CASE Reset
  BY <1>0, <1>12 DEF Reset, ReturnAs, kernel, NoCall, IoInv, IoType, CallType, Descriptors,
     WriteProgress, ReadProgress, CloseProgress, Addr
<1>13. CASE TransferNothing \/ UNCHANGED vars
  <2>1. UNCHANGED <<step, mFd, mDirty, mSectors, pipe, cards, disk, durable, call>>
    BY <1>13 DEF TransferNothing, vars, members, kernel
  <2>2. From' = From /\ Size' = Size  BY <2>1 DEF From, Size
  <2>3. IoType' /\ Descriptors'  BY <2>1, <2>2 DEF IoInv, IoType, CallType, Descriptors, Addr
  <2>4. WriteProgress'  BY <2>1, <2>2 DEF IoInv, WriteProgress, Addr
  <2>5. ReadProgress' /\ CloseProgress'  BY <2>1, <2>2 DEF IoInv, ReadProgress, CloseProgress
  <2> QED  BY <2>3, <2>4, <2>5 DEF IoInv
<1> QED
  BY <1>1, <1>2, <1>3, <1>4, <1>5, <1>6, <1>7, <1>8, <1>9, <1>10, <1>11, <1>12, <1>13, PwriteKeeps, PreadKeeps
  DEF Next, Continue

THEOREM IoInvariant == Spec => []IoInv
<1>1. Init => IoInv
  <2> SUFFICES ASSUME Init PROVE IoInv  OBVIOUS
  <2>1. CallType  BY DEF Init, CallType, NoCall
  <2>2. IoType  BY <2>1, Constants_ DEF Init, IoType, Addr
  <2>3. Descriptors  BY DEF Init, Descriptors
  <2> QED  BY <2>2, <2>3 DEF Init, IoInv, WriteProgress, ReadProgress, CloseProgress
<1> QED  BY <1>1, IoStep, PTL DEF Spec

\* Whatever fails, between two operations the process holds one descriptor of the
\* card if the object has it, none otherwise, and no pipe to lsblk.
THEOREM NothingStaysOpen == Spec => []DescriptorsReleased
<1>1. IoInv => DescriptorsReleased  BY DEF IoInv, Descriptors, DescriptorsReleased
<1> QED  BY <1>1, IoInvariant, PTL

-----------------------------------------------------------------------------
(* Transfers.                                                              *)

\* Only the end of a transfer returns success.
LEMMA SuccessIsDone ==
  ASSUME IoInv, Next, step \in {"read", "write"}, step' = "idle", res' = "ok"
  PROVE  TransferDone
<1>1. CASE TransferFails  BY <1>1 DEF TransferFails, Return, ReturnAs
<1>2. CASE TransferNothing \/ Pwrite \/ Pread
  BY <1>2 DEF TransferNothing, Pwrite, Pread, vars
<1> QED
  BY <1>1, <1>2 DEF Next, Continue, Popen, ReadCall, WriteCall, EraseAll, Fsync, ReadLine, Pclose,
     OpenNode, GetSize, SysClose, CloseAgain, Reset

LEMMA DoneIsWhole ==
  ASSUME IoInv, TransferDone
  PROVE  /\ From \in Nat /\ Size \in Nat \ {0} /\ call.done = Size /\ From + Size <= DevSize
         /\ \A i \in 0 .. Size - 1 : Arrived(i)
<1>1. /\ step \in {"read", "write"} /\ From \in Nat /\ Size \in Nat \ {0} /\ call.done \in Nat
      /\ call.done = 0 \/ From + call.done <= DevSize
  BY DEF TransferDone, IoInv, IoType, CallType
<1>2. call.done = Size  BY <1>1 DEF TransferDone, TotSize, Size
<1>3. From + Size <= DevSize  BY <1>1, <1>2
<1>4. ASSUME NEW i \in 0 .. Size - 1 PROVE Arrived(i)
  <2>1. From + i \in Addr /\ (From + i) - From = i  BY <1>1, <1>3, <1>4, Constants_ DEF Addr
  <2>2. CASE step = "write"
    <3>1. From + i \in From .. From + call.done - 1  BY <1>1, <1>2, <1>4
    <3>2. disk[From + i] = Bytes[(From + i) - From]
      BY <2>1, <2>2, <3>1 DEF IoInv, WriteProgress
    <3> QED  BY <2>1, <2>2, <3>2 DEF Arrived, From
  <2>3. CASE step = "read"
    <3>1. call.buf[i] = disk[From + i]  BY <1>2, <1>4, <2>3 DEF IoInv, ReadProgress
    <3> QED  BY <2>1, <2>3, <3>1 DEF Arrived, From
  <2> QED  BY <1>1, <2>2, <2>3
<1> QED  BY <1>1, <1>2, <1>3, <1>4

\* A read or write that returns 0 has transferred all bytes, each from or to its
\* place, for every way the kernel cuts the transfer.
THEOREM TransfersAreWhole == Spec => TransferIsWhole
<1>1. IoInv /\ [Next]_vars =>
        [(step \in {"read", "write"} /\ step' = "idle" /\ res' = "ok")
           => \A i \in 0 .. (call.req.count * SecSize) - 1 : Arrived(i)]_vars
  BY SuccessIsDone, DoneIsWhole DEF Size
<1> QED  BY <1>1, IoInvariant, PTL DEF Spec, TransferIsWhole

-----------------------------------------------------------------------------
(* The operations as BlockDev has them.                                    *)

\* Nothing is seen of the running operation but its beginning.
Hidden == {"write", "close", "interrupted", "reset"}

\* A write that returns, with all of the bytes or with a prefix of them.
LEMMA WriteReturns ==
  ASSUME IoInv, step = "write", NEW r, Return(r), UNCHANGED kernel,
         TotSize = 0 \/ TotSize > 0
  PROVE  OutsideNext
<1> DEFINE req == call.req
           n == call.done
<1>1. /\ req \in Requests /\ From \in Nat /\ Size \in Nat \ {0} /\ n \in Nat /\ n <= Size
      /\ n = 0 \/ From + n <= DevSize
      /\ mFd
  BY DEF IoInv, IoType, CallType, Descriptors
<1>2. /\ mDirty /\ mDirty \in BOOLEAN /\ call.before.disk \in [Addr -> Cell]
      /\ disk = [a \in Addr |-> IF a \in From .. From + n - 1 THEN Bytes[a - From] ELSE call.before.disk[a]]
      /\ durable = (call.before.durable /\ n = 0)
  BY DEF IoInv, IoType, WriteProgress
<1>3. /\ step' = "idle" /\ UNCHANGED <<mFd, mDirty, mSectors, disk, durable>>
  BY <1>1 DEF Return, ReturnAs, members, kernel
<1>4. /\ Seen = call.before
      /\ Seen'.dirty = mDirty /\ Seen'.disk = disk /\ Seen'.durable = durable
  BY <1>3 DEF Seen, Card
<1>5. disk = Outside!Patch(call.before.disk, From, n, Bytes, 0)
  <2>1. \A a \in Addr : /\ a \in From .. From + n - 1 <=> From <= a /\ a < From + n
                        /\ 0 + (a - From) = a - From
    BY <1>1, Constants_ DEF Addr
  <2> QED  BY <1>2, <2>1 DEF Outside!Patch
<1>6. TotSize = Size - n  BY DEF TotSize, Size
<1> HIDE DEF n
<1>7. CASE TotSize = 0
  <2>1. n = Size /\ From + Size <= DevSize /\ n # 0  BY <1>1, <1>6, <1>7
  <2>2. durable = FALSE  BY <1>2, <2>1
  <2>3. Outside!DevWrite(From, Size, Bytes, 0)
    BY <1>2, <1>3, <1>4, <1>5, <2>1, <2>2 DEF Outside!DevWrite
  <2> QED  BY <1>1, <2>3 DEF OutsideNext, From, Size
<1>8. CASE TotSize > 0
  <2>1. n \in 0 .. Size - 1 /\ (n = 0 \/ From + n <= DevSize)  BY <1>1, <1>6, <1>8
  <2>2. Outside!DevWriteFails(From, Size, Bytes, 0)
    BY <1>2, <1>3, <1>4, <1>5, <2>1 DEF Outside!DevWriteFails
  <2> QED  BY <1>1, <2>2 DEF OutsideNext, From, Size
<1> QED  BY <1>7, <1>8

LEMMA StepSeen == IoInv /\ [Next]_vars => [OutsideNext]_(Outside!devVars)
<1> SUFFICES ASSUME IoInv, [Next]_vars
             PROVE  OutsideNext \/ UNCHANGED Outside!devVars
  OBVIOUS
<1>1. ASSUME UNCHANGED <<mFd, mSectors>>, Seen' = Seen PROVE UNCHANGED Outside!devVars
  BY <1>1 DEF Outside!devVars
<1>2. ASSUME step \notin Hidden, step' \notin Hidden, UNCHANGED <<mFd, mDirty, mSectors, disk, durable>>
      PROVE  UNCHANGED Outside!devVars
  BY <1>1, <1>2 DEF Seen, Card, Hidden
<1>3. CASE Popen \/ ReadLine \/ Pclose \/ OpenNode
  <2>1. ~mFd  BY <1>3 DEF Popen, ReadLine, Pclose, OpenNode, IoInv, Descriptors
  <2>2. /\ step \notin Hidden /\ step' \notin Hidden
        /\ UNCHANGED <<mFd, mDirty, mSectors, disk, durable>>
    BY <1>3, <2>1 DEF Popen, ReadLine, Pclose, OpenNode, Goto, Return, ReturnAs, members, kernel, Hidden
  <2> QED  BY <1>2, <2>2
<1>4. CASE GetSize
  <2>1. step = "size" /\ ~mFd  BY <1>4 DEF GetSize, IoInv, Descriptors
  <2>2. CASE GotSize
    <3>1. step' = "idle" /\ UNCHANGED <<mDirty, disk, durable>>
          /\ mFd' = TRUE /\ mSectors' = DevSize \div SecSize
      BY <2>2 DEF GotSize, ReturnAs, kernel
    <3>2. Outside!DevOpen  BY <2>1, <3>1 DEF Outside!DevOpen, Seen, Card
    <3> QED  BY <3>2 DEF OutsideNext
  <2>3. CASE Return("errno") /\ UNCHANGED <<disk, durable>>
    <3>1. step' = "closed" /\ UNCHANGED <<mFd, mDirty, mSectors, disk, durable>>
      BY <2>1, <2>3 DEF Return, ReturnAs, members
    <3> QED  BY <1>2, <2>1, <3>1 DEF Hidden
  <2> QED  BY <1>4, <2>2, <2>3 DEF GetSize
<1>5. ASSUME NEW r \in Requests, ReadCall(r) \/ WriteCall(r) PROVE UNCHANGED Outside!devVars
  <2>1. CASE ReadCall(r)
    BY <1>2, <2>1 DEF ReadCall, members, kernel, Hidden
  <2>2. CASE WriteCall(r)
    <3>1. Seen = Card /\ Seen' = Card
      BY <2>2 DEF WriteCall, Seen, NoCall
    <3> QED  BY <1>1, <2>2, <3>1 DEF WriteCall
  <2> QED  BY <1>5, <2>1, <2>2
<1>6. CASE TransferFails \/ TransferDone
  <2>1. PICK r : Return(r) /\ UNCHANGED kernel /\ step \in {"read", "write"} /\ (TotSize = 0 \/ TotSize > 0)
    BY <1>6 DEF TransferFails, TransferDone
  <2>2. CASE step = "write"  BY <2>1, <2>2, WriteReturns
  <2>3. CASE step = "read"
    <3>1. mFd  BY <2>3 DEF IoInv, Descriptors
    <3>2. step' = "idle" /\ UNCHANGED <<mFd, mDirty, mSectors, disk, durable>>
      BY <2>1, <3>1 DEF Return, ReturnAs, members, kernel
    <3> QED  BY <1>2, <2>3, <3>2 DEF Hidden
  <2> QED  BY <2>1, <2>2, <2>3
<1>7. CASE EraseAll
  <2>1. mFd /\ step = "idle"  BY <1>7 DEF EraseAll, IoInv, Descriptors
  <2>2. PICK k \in 0 .. DevSize : disk' = [a \in Addr |-> IF a < k THEN Trimmed ELSE disk[a]]
    BY <1>7 DEF EraseAll
  <2>3. step' = "idle" /\ UNCHANGED <<mFd, mDirty, mSectors, durable>>
    BY <1>7, <2>1 DEF EraseAll, Return, ReturnAs, members
  <2>4. Outside!DevErase(k)
    BY <2>1, <2>2, <2>3 DEF Outside!DevErase, Seen, Card, Addr, Outside!Addr
  <2> QED  BY <2>4 DEF OutsideNext
<1>8. CASE Fsync
  <2>1. Seen = Card /\ Seen' = Card  BY <1>8 DEF Fsync, Seen, NoCall
  <2> QED  BY <1>1, <1>8, <2>1 DEF Fsync, members
<1>9. CASE Pwrite
  <2>1. step = "write" /\ step' = "write" /\ call'.before = call.before
    BY <1>9 DEF Pwrite, IoInv, IoType, CallType
  <2>2. Seen' = Seen  BY <2>1 DEF Seen
  <2> QED  BY <1>1, <1>9, <2>2 DEF Pwrite, members
<1>10. CASE Pread
  BY <1>2, <1>10 DEF Pread, members, kernel, Hidden
<1>11. CASE SysClose \/ CloseAgain
  <2>1. Seen' = Seen  BY <1>11 DEF SysClose, CloseAgain, Goto, Seen
  <2> QED  BY <1>1, <1>11, <2>1 DEF SysClose, CloseAgain, members
<1>12. CASE Reset
  <2>1. /\ step = "reset" /\ step' = "closed" /\ mFd' = FALSE /\ mDirty' = FALSE /\ mSectors' = 0
        /\ UNCHANGED <<disk, durable>>
    BY <1>12 DEF Reset, ReturnAs, kernel
  <2>2. /\ disk = call.before.disk /\ mDirty = call.before.dirty
        /\ durable = call.before.durable \/ (mDirty /\ durable = TRUE)
    BY <2>1 DEF IoInv, CloseProgress
  <2>3. Outside!DevClose
    BY <2>1, <2>2 DEF Outside!DevClose, Seen, Card
  <2> QED  BY <2>3 DEF OutsideNext
<1>13. CASE TransferNothing \/ UNCHANGED vars
  BY <1>1, <1>13 DEF TransferNothing, vars, members, kernel, Seen, Card
<1> QED
  BY <1>3, <1>4, <1>5, <1>6, <1>7, <1>8, <1>9, <1>10, <1>11, <1>12, <1>13 DEF Next, Continue

\* The operations of class BlockDev, made of system calls that may transfer any
\* part of what they are asked for and fail anywhere, are those of BlockDev.
THEOREM IoImplementsBlockDev == Spec => ImplementsBlockDev
<1>1. Init => Outside!DevInit
  BY DEF Init, Outside!DevInit, Seen, Card, Addr, Outside!Addr
<1> QED  BY <1>1, IoInvariant, StepSeen, PTL DEF Spec, ImplementsBlockDev
=============================================================================
