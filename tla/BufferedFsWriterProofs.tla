----------------------- MODULE BufferedFsWriterProofs -----------------------
(***************************************************************************)
(* Theorems about BufferedFsWriter, for every size of card, sector and     *)
(* block, every payload and every set of arguments.                        *)
(***************************************************************************)
EXTENDS BufferedFsWriter, TLAPS

-----------------------------------------------------------------------------
(* Arithmetic of positions and blocks.                                     *)

\* Division with remainder, in the form the provers can use.
LEMMA Division ==
  ASSUME NEW n \in Nat, NEW b \in Nat \ {0}
  PROVE  /\ n % b \in 0 .. b - 1
         /\ n \div b \in Nat
         /\ n = b * (n \div b) + (n % b)
  OBVIOUS

\* The remainder is the only one.
LEMMA Remainder ==
  ASSUME NEW q \in Nat, NEW b \in Nat \ {0}, NEW r \in 0 .. b - 1
  PROVE  (b * q + r) % b = r
  OBVIOUS

\* A position inside the block that starts at a.
LEMMA InBlock ==
  ASSUME NEW b \in Nat \ {0}, NEW a \in Nat, a % b = 0, NEW r \in 0 .. b - 1
  PROVE  (a + r) % b = r
<1>1. a = b * (a \div b) /\ a \div b \in Nat  BY Division
<1> QED  BY <1>1, Remainder

\* The block behind an aligned position is aligned.
LEMMA NextBlock ==
  ASSUME NEW b \in Nat \ {0}, NEW a \in Nat, a % b = 0
  PROVE  (a + b) % b = 0
<1>1. a = b * (a \div b) /\ a \div b \in Nat  BY Division
<1> DEFINE q == a \div b
<1>2. a + b = b * (q + 1) + 0  BY <1>1
<1>3. q + 1 \in Nat /\ 0 \in 0 .. b - 1  BY <1>1
<1> HIDE DEF q
<1>4. (b * (q + 1) + 0) % b = 0  BY <1>3, Remainder
<1> QED  BY <1>2, <1>4

\* Aligned positions are a whole number of blocks apart.
LEMMA BlocksApart ==
  ASSUME NEW b \in Nat \ {0}, NEW a \in Nat, NEW c \in Nat,
         a % b = 0, c % b = 0, a < c
  PROVE  a + b <= c
<1>1. SUFFICES ASSUME c < a + b PROVE FALSE  OBVIOUS
<1>2. c - a \in 0 .. b - 1  BY <1>1
<1>3. (a + (c - a)) % b = c - a  BY <1>2, InBlock
<1> QED  BY <1>3

\* BlockStart rounds down to a block.
LEMMA BlockStartFacts ==
  ASSUME NEW n \in Nat, BlkSize \in Nat \ {0}
  PROVE  /\ BlockStart(n) \in Nat
         /\ BlockStart(n) <= n
         /\ n < BlockStart(n) + BlkSize
         /\ BlockStart(n) % BlkSize = 0
         /\ n % BlkSize = n - BlockStart(n)
<1> DEFINE q == n \div BlkSize
<1>1. q \in Nat /\ n = BlkSize * q + (n % BlkSize) /\ n % BlkSize \in 0 .. BlkSize - 1  BY Division
<1>2. BlockStart(n) = BlkSize * q + 0  BY <1>1 DEF BlockStart
<1> HIDE DEF q
<1>3. (BlkSize * q + 0) % BlkSize = 0  BY <1>1, Remainder
<1>4. BlkSize * q \in Nat  BY <1>1
<1> QED  BY <1>1, <1>2, <1>3, <1>4 DEF BlockStart

\* BlockStart of a position inside the block that starts at a.
LEMMA BlockStartIs ==
  ASSUME BlkSize \in Nat \ {0}, NEW a \in Nat, a % BlkSize = 0,
         NEW n \in Nat, a <= n, n < a + BlkSize
  PROVE  BlockStart(n) = a
<1>1. n - a \in 0 .. BlkSize - 1  OBVIOUS
<1>2. (a + (n - a)) % BlkSize = n - a  BY <1>1, InBlock
<1>3. a + (n - a) = n  OBVIOUS
<1> QED  BY <1>2, <1>3 DEF BlockStart

\* Misalignment is the way to the next boundary, none on a boundary.
LEMMA MisalignmentFacts ==
  ASSUME NEW n \in Nat, NEW b \in Nat \ {0}
  PROVE  /\ n % b = 0 => Misalignment(n, b) = 0
         /\ n % b # 0 => Misalignment(n, b) = b - (n % b)
         /\ Misalignment(n, b) \in 0 .. b - 1
         /\ (n + Misalignment(n, b)) % b = 0
<1>1. n % b \in 0 .. b - 1  BY Division
<1>2. CASE n % b = 0
  <2>1. b % b = 0  BY Remainder, b * 1 + 0 = b, 0 \in 0 .. b - 1
  <2> QED  BY <1>2, <2>1 DEF Misalignment
<1>3. CASE n % b # 0
  <2> DEFINE r == b - (n % b)
             q == n \div b
  <2>1. r \in 1 .. b - 1  BY <1>1, <1>3
  <2>2. r % b = r  BY <2>1
  <2>3. q \in Nat /\ n = b * q + (n % b)  BY Division
  <2>4. n + r = b * (q + 1) + 0 /\ q + 1 \in Nat  BY <2>3, <1>1
  <2> HIDE DEF q
  <2>5. (b * (q + 1) + 0) % b = 0  BY <2>4, Remainder, 0 \in 0 .. b - 1
  <2>6. Misalignment(n, b) = r  BY <2>2 DEF Misalignment
  <2> QED  BY <1>3, <2>1, <2>4, <2>5, <2>6
<1> QED  BY <1>2, <1>3

-----------------------------------------------------------------------------
(* Types and control.                                                      *)

\* What the control point says about the locals of the call.
Control ==
  /\ step \in {"new", "idle", "closing", "closed"} => cur = pos /\ target = pos
  /\ step = "new" => pos = 0
  /\ step \in {"head", "body"} => err = "none" /\ pos < target
  /\ step = "head" =>
       cur = pos /\ pos % BlkSize # 0 /\ BlockStart(pos) + BlkSize <= target
  /\ step = "body" =>
       pos <= cur /\ cur <= target /\ (cur % BlkSize = 0 \/ cur = target)
  /\ step \notin {"closing", "closed"} => closeRes = "none"
  /\ step = "closing" => closeRes # "none"
  /\ step # "closed" => closedAt = 0

Shape == TypeOK /\ Control

\* The constants as the leaves below use them.
LEMMA Sizes_ ==
  /\ BlkSize \in Nat \ {0} /\ SecSize \in Nat \ {0} /\ DevSize \in Nat /\ Word \in Nat
  /\ \E k \in 2 .. BlkSize : BlkSize = SecSize * k
  /\ Zero \in Cell /\ Old \in Cell /\ Trimmed \in Cell /\ Junk \in Cell
  /\ Payload \in [0 .. Word - 1 -> Cell]
<1>1. BlkSize # 0
  <2>1. PICK k \in 2 .. BlkSize : BlkSize = SecSize * k  BY WriterAssumption
  <2> QED  BY <2>1, WriterAssumption, DevAssumption
<1> QED  BY <1>1, WriterAssumption, DevAssumption

\* memcpy inside both arrays keeps an array of cells.
LEMMA PatchType ==
  ASSUME NEW D \in SUBSET Nat, NEW C, NEW f \in [D -> C], NEW len \in Nat,
         NEW src \in [0 .. len - 1 -> C], NEW at \in Nat, NEW n \in Nat,
         NEW skip \in Nat, skip + n <= len
  PROVE  Patch(f, at, n, src, skip) \in [D -> C]
<1>1. ASSUME NEW i \in D, at <= i, i < at + n  PROVE src[skip + (i - at)] \in C
  <2>1. skip + (i - at) \in 0 .. len - 1  BY <1>1
  <2> QED  BY <2>1
<1> QED  BY <1>1 DEF Patch

LEMMA NoBytesType == ASSUME NEW n \in Int, n <= 0 PROVE NoBytes \in [0 .. n - 1 -> Cell]
<1>1. 0 .. n - 1 = {}  OBVIOUS
<1> QED  BY <1>1 DEF NoBytes

LEMMA ShapeInit == Init => Shape
<1> SUFFICES ASSUME Init PROVE Shape  OBVIOUS
<1>1. NoBytes \in [0 .. 0 - 1 -> Cell]  BY NoBytesType
<1> QED  BY <1>1, Sizes_ DEF Init, Shape, TypeOK, Control, DevInit, DevTypeOK, Steps, Acked

LEMMA ShapeOpen == Shape /\ Open => Shape'
<1> SUFFICES ASSUME Shape, Open PROVE Shape'  OBVIOUS
<1>1. DevSize \div SecSize \in Nat  BY Sizes_, Division
<1> QED  BY <1>1 DEF Open, Shape, TypeOK, Control, DevOpen, DevOpenFails, DevTypeOK, Steps,
     Acked, devVars, histVars, Addr

LEMMA ShapeErase == Shape /\ EraseAll => Shape'
<1> SUFFICES ASSUME Shape, EraseAll PROVE Shape'  OBVIOUS
<1>1. NoBytes \in [0 .. 0 - 1 -> Cell]  BY NoBytesType
<1>2. disk' \in [Addr -> Cell]
  BY Sizes_ DEF EraseAll, DevErase, Shape, TypeOK, DevTypeOK
<1> QED  BY <1>1, <1>2 DEF EraseAll, Ready, Shape, TypeOK, Control, DevErase, DevTypeOK, Steps,
     Acked, Addr

LEMMA ShapeReturnEarly ==
  ASSUME Shape, Ready, NEW res \in {"none", "EINVAL"}, ReturnEarly(res)
  PROVE  Shape'
BY DEF Ready, ReturnEarly, Shape, TypeOK, Control, DevTypeOK, Steps, Acked, devVars, callVars,
   histVars, Addr, BlockStart

\* The part of the call that goes to the buffer, and where it ends.
LEMMA AlignFacts ==
  ASSUME Shape, NEW end \in Nat, pos < end
  PROVE  LET m == Misalignment(pos, BlkSize)
             n == Lesser(end - pos, m)
         IN  /\ m \in 0 .. BlkSize - 1
             /\ n \in 0 .. BlkSize - 1
             /\ n <= end - pos
             /\ n <= m
             /\ n = m \/ n = end - pos
             /\ pos % BlkSize \in 0 .. BlkSize - 1
             /\ m > 0 => pos % BlkSize # 0 /\ pos + m = BlockStart(pos) + BlkSize
             /\ m = 0 => pos % BlkSize = 0
<1> DEFINE m == Misalignment(pos, BlkSize)
<1>1. pos \in Nat /\ BlkSize \in Nat \ {0}  BY Sizes_ DEF Shape, TypeOK
<1>2. pos % BlkSize \in 0 .. BlkSize - 1  BY <1>1, Division
<1>3. /\ m \in 0 .. BlkSize - 1
      /\ pos % BlkSize = 0 => m = 0
      /\ pos % BlkSize # 0 => m = BlkSize - (pos % BlkSize)
  BY <1>1, MisalignmentFacts
<1> HIDE DEF m
<1> QED  BY <1>1, <1>2, <1>3 DEF Lesser, BlockStart, m

LEMMA ShapeAlignToBuffer ==
  ASSUME Shape, Ready, NEW call \in {"fill", "write"}, NEW end \in Nat, pos < end,
         NEW bytes \in [0 .. (IF call = "write" THEN end - pos ELSE 0) - 1 -> Cell],
         NEW len \in Nat, NEW src \in [0 .. len - 1 -> Cell],
         Lesser(end - pos, Misalignment(pos, BlkSize)) <= len,
         AlignToBuffer(call, end, bytes, src)
  PROVE  Shape'
<1> DEFINE m == Misalignment(pos, BlkSize)
           n == Lesser(end - pos, m)
           full == m > 0 /\ n = m
<1>1. /\ m \in 0 .. BlkSize - 1 /\ n \in 0 .. BlkSize - 1 /\ n <= end - pos
      /\ n = m \/ n = end - pos
      /\ pos % BlkSize \in 0 .. BlkSize - 1
      /\ m > 0 => pos % BlkSize # 0 /\ pos + m = BlockStart(pos) + BlkSize
      /\ m = 0 => pos % BlkSize = 0
  BY AlignFacts
<1>2. n <= len  OBVIOUS
<1>3. /\ buf' = Patch(buf, pos % BlkSize, n, src, 0)
      /\ op' = call /\ target' = end /\ data' = bytes
      /\ step' = (IF full THEN "head" ELSE "body")
      /\ cur' = (IF full THEN pos ELSE pos + n)
      /\ UNCHANGED <<devVars, pos, err, closeRes, histVars>>
  BY DEF AlignToBuffer
<1> HIDE DEF m, n
<1>4. buf' \in [0 .. BlkSize - 1 -> Cell]
  <2>1. buf \in [0 .. BlkSize - 1 -> Cell] /\ 0 .. BlkSize - 1 \in SUBSET Nat  BY Sizes_ DEF Shape, TypeOK
  <2>2. pos % BlkSize \in Nat /\ n \in Nat /\ 0 \in Nat /\ 0 + n <= len  BY <1>1, <1>2
  <2>3. Patch(buf, pos % BlkSize, n, src, 0) \in [0 .. BlkSize - 1 -> Cell]
    BY <2>1, <2>2, PatchType
  <2> QED  BY <1>3, <2>3
<1>5. TypeOK'
  BY <1>1, <1>3, <1>4, Sizes_ DEF Shape, TypeOK, DevTypeOK, Ready, Steps, Acked, devVars, histVars, Addr
<1>6. Control'
  <2>1. pos \in Nat /\ step = "idle" /\ err = "none"  BY DEF Shape, TypeOK, Ready
  <2>2. CASE full
    BY <1>1, <1>3, <2>1, <2>2 DEF Shape, Control, Ready, histVars, BlockStart
  <2>3. CASE ~full
    <3>1. (n = m /\ m = 0) \/ n = end - pos  BY <1>1, <2>3
    <3>2. cur' % BlkSize = 0 \/ cur' = end  BY <1>1, <1>3, <2>1, <2>3, <3>1
    <3> QED  BY <1>1, <1>3, <2>1, <2>3, <3>2 DEF Shape, Control, Ready, histVars
  <2> QED  BY <2>2, <2>3
<1> QED  BY <1>5, <1>6 DEF Shape

LEMMA ShapeFillCall ==
  ASSUME Shape, NEW offset \in Nat, FillCall(offset)
  PROVE  Shape'
<1>1. offset \in Nat /\ Ready  BY DEF FillCall
<1>2. CASE offset > pos /\ AlignToBuffer("fill", offset, NoBytes, Zeros)
  <2>1. NoBytes \in [0 .. (IF "fill" = "write" THEN offset - pos ELSE 0) - 1 -> Cell]
    BY NoBytesType
  <2>2. Zeros \in [0 .. BlkSize - 1 -> Cell]  BY Sizes_ DEF Zeros
  <2>3. pos < offset  BY <1>1, <1>2 DEF Shape, TypeOK
  <2>4. Lesser(offset - pos, Misalignment(pos, BlkSize)) <= BlkSize
    BY <1>1, <2>3, AlignFacts, Sizes_
  <2> QED  BY <1>1, <1>2, <2>1, <2>2, <2>3, <2>4, Sizes_, ShapeAlignToBuffer
<1>3. CASE ReturnEarly("none") \/ ReturnEarly("EINVAL")
  BY <1>1, <1>3, ShapeReturnEarly
<1> QED  BY <1>2, <1>3 DEF FillCall

\* What WriteCall of Next is given.
Given(size) == [i \in 0 .. size - 1 |-> Payload[pos + i]]

LEMMA GivenType ==
  ASSUME pos \in Nat, NEW size \in Nat, pos + size < Word
  PROVE  Given(size) \in [0 .. size - 1 -> Cell]
BY Sizes_ DEF Given

LEMMA ShapeWriteBytes ==
  ASSUME Shape, NEW size \in Nat, NEW src,
         pos + size < Word => src \in [0 .. size - 1 -> Cell],
         WriteCall(size, src)
  PROVE  Shape'
<1>1. Ready /\ pos \in Nat  BY DEF WriteCall, Shape, TypeOK
<1>2. CASE size > 0 /\ pos + size < Word /\ AlignToBuffer("write", pos + size, src, src)
  <2>1. src \in [0 .. size - 1 -> Cell]  BY <1>2
  <2>2. pos + size \in Nat /\ pos < pos + size /\ (pos + size) - pos = size  BY <1>1, <1>2
  <2>3. Lesser((pos + size) - pos, Misalignment(pos, BlkSize)) <= size
    BY <2>2, AlignFacts
  <2> QED  BY <1>1, <1>2, <2>1, <2>2, <2>3, ShapeAlignToBuffer
<1>3. CASE ReturnEarly("none") \/ ReturnEarly("EINVAL")
  BY <1>1, <1>3, ShapeReturnEarly
<1> QED  BY <1>2, <1>3 DEF WriteCall

LEMMA ShapeWriteCall ==
  ASSUME Shape, NEW size \in Sizes, WriteCall(size, Given(size))
  PROVE  Shape'
<1>1. size \in Nat /\ pos \in Nat  BY WriterAssumption DEF Shape, TypeOK
<1>2. pos + size < Word => Given(size) \in [0 .. size - 1 -> Cell]  BY <1>1, GivenType
<1> QED  BY <1>1, <1>2, ShapeWriteBytes

\* A write to the card keeps the card's type, whether it fails or not.
LEMMA DevWriteType ==
  ASSUME DevTypeOK, NEW at \in Nat, NEW n \in Nat, NEW len \in Nat,
         NEW src \in [0 .. len - 1 -> Cell], NEW skip \in Nat, skip + n <= len,
         DevWrite(at, n, src, skip) \/ DevWriteFails(at, n, src, skip)
  PROVE  DevTypeOK'
<1>0. Addr \in SUBSET Nat /\ disk \in [Addr -> Cell]  BY Sizes_ DEF Addr, DevTypeOK
<1>1. CASE DevWrite(at, n, src, skip)
  <2>1. Patch(disk, at, n, src, skip) \in [Addr -> Cell]  BY <1>0, PatchType
  <2> QED  BY <1>1, <2>1 DEF DevWrite, DevTypeOK, Addr
<1>2. CASE DevWriteFails(at, n, src, skip)
  <2>1. PICK k \in 0 .. n - 1 : /\ disk' = Patch(disk, at, k, src, skip)
                                /\ durable' = (durable /\ k = 0)
    BY <1>2 DEF DevWriteFails
  <2>2. k \in Nat /\ skip + k <= len  OBVIOUS
  <2>3. Patch(disk, at, k, src, skip) \in [Addr -> Cell]  BY <1>0, <2>2, PatchType
  <2>4. durable' \in BOOLEAN  BY <2>1
  <2> QED  BY <1>2, <2>1, <2>3, <2>4 DEF DevWriteFails, DevTypeOK, Addr
<1> QED  BY <1>1, <1>2

\* A call that returns an error leaves a writer that can be closed.
LEMMA ShapeReturnError ==
  ASSUME Shape, step \in {"head", "body"}, DevTypeOK', buf' \in [0 .. BlkSize - 1 -> Cell],
         ReturnError
  PROVE  Shape'
<1>1. pos - pos = 0 /\ pos \in Nat  BY DEF Shape, TypeOK
<1>2. NoBytes \in [0 .. (IF op' = "write" THEN target' - pos' ELSE 0) - 1 -> Cell]
  BY <1>1, NoBytesType DEF ReturnError
<1>3. /\ step' = "idle" /\ cur' = pos /\ target' = pos /\ data' = NoBytes /\ err' = "EIO"
      /\ UNCHANGED <<pos, op, closeRes, stream, closedAt, base>>
  BY DEF ReturnError, histVars
<1>4. TypeOK'
  BY <1>1, <1>2, <1>3 DEF Shape, TypeOK, Steps, Acked, Addr
<1>5. Control'
  BY <1>3 DEF Shape, Control
<1> QED  BY <1>4, <1>5 DEF Shape

\* A call that returns 0 acknowledges every byte up to its target.
LEMMA ShapeReturnOk ==
  ASSUME Shape, step = "body", UNCHANGED devVars, buf' \in [0 .. BlkSize - 1 -> Cell],
         NEW src \in [0 .. target - pos - 1 -> Cell], ReturnOk(src)
  PROVE  Shape'
<1>1. pos \in Nat /\ target \in Nat /\ pos < target /\ stream \in [0 .. pos - 1 -> Cell]
  BY DEF Shape, TypeOK, Control, Acked
<1>2. NoBytes \in [0 .. (IF op' = "write" THEN target' - pos' ELSE 0) - 1 -> Cell]
  <2>1. (IF op' = "write" THEN target' - pos' ELSE 0) = 0  BY <1>1 DEF ReturnOk
  <2> QED  BY <2>1, NoBytesType
<1>3. /\ pos' = target /\ step' = "idle" /\ cur' = target /\ data' = NoBytes /\ err' = "none"
      /\ UNCHANGED <<op, target, closeRes, closedAt, base>>
  BY DEF ReturnOk
<1>4. stream' \in [0 .. target - 1 -> Cell]
  <2>1. ASSUME NEW a \in 0 .. target - 1, a >= pos PROVE src[a - pos] \in Cell
    <3>1. a - pos \in 0 .. target - pos - 1  BY <1>1, <2>1
    <3> QED  BY <3>1
  <2> QED  BY <1>1, <2>1 DEF ReturnOk
<1>5. TypeOK'
  BY <1>1, <1>2, <1>3, <1>4 DEF Shape, TypeOK, DevTypeOK, devVars, Steps, Acked, Addr
<1>6. Control'
  BY <1>3 DEF Shape, Control
<1> QED  BY <1>5, <1>6 DEF Shape

\* The operands of the device writes in FlushHead, FillBlock and WriteBlock.
LEMMA CallFacts ==
  ASSUME Shape, step \in {"head", "body"}
  PROVE  /\ pos \in Nat /\ cur \in Nat /\ target \in Nat /\ pos < target
         /\ BlockStart(cur) \in Nat
         /\ buf \in [0 .. BlkSize - 1 -> Cell]
         /\ Zeros \in [0 .. BlkSize - 1 -> Cell]
         /\ op = "write" => data \in [0 .. target - pos - 1 -> Cell]
         /\ step = "body" => cur - pos \in Nat /\ target - cur \in Nat
<1>1. pos \in Nat /\ cur \in Nat /\ target \in Nat /\ BlkSize \in Nat \ {0}
  BY Sizes_ DEF Shape, TypeOK
<1>2. BlockStart(cur) \in Nat  BY <1>1, BlockStartFacts
<1> QED  BY <1>1, <1>2, Sizes_ DEF Shape, TypeOK, Control, Zeros

LEMMA ShapeFlushHead == Shape /\ FlushHead => Shape'
<1> SUFFICES ASSUME Shape, FlushHead PROVE Shape'  OBVIOUS
<1>1. step = "head" /\ DevTypeOK  BY DEF FlushHead, Shape, TypeOK
<1>2. DevTypeOK'
  <2>1. \/ DevWrite(BlockStart(cur), BlkSize, buf, 0)
        \/ DevWriteFails(BlockStart(cur), BlkSize, buf, 0)
    BY DEF FlushHead
  <2>2. BlkSize \in Nat /\ 0 \in Nat /\ 0 + BlkSize <= BlkSize  BY Sizes_
  <2> QED  BY <1>1, <2>1, <2>2, CallFacts, DevWriteType
<1>3. CASE UNCHANGED buf /\ ReturnError
  BY <1>1, <1>2, <1>3, CallFacts, ShapeReturnError
<1>4. CASE /\ cur' = cur + Misalignment(cur, BlkSize)
           /\ step' = "body"
           /\ UNCHANGED <<buf, pos, op, target, data, err, closeRes, histVars>>
  <2>1. cur = pos /\ pos % BlkSize # 0 /\ BlockStart(pos) + BlkSize <= target
    BY <1>1 DEF Shape, Control
  <2>2. pos \in Nat /\ target \in Nat /\ BlkSize \in Nat \ {0}  BY Sizes_ DEF Shape, TypeOK
  <2>3. /\ cur' \in Nat /\ pos <= cur' /\ cur' <= target /\ cur' % BlkSize = 0
    <3>1. pos % BlkSize \in 0 .. BlkSize - 1  BY <2>2, Division
    <3>2. cur' = pos + (BlkSize - (pos % BlkSize))  BY <1>4, <2>1, <2>2, MisalignmentFacts
    <3>3. cur' % BlkSize = 0  BY <1>4, <2>1, <2>2, MisalignmentFacts
    <3> QED  BY <2>1, <2>2, <3>1, <3>2, <3>3 DEF BlockStart
  <2>4. TypeOK'
    BY <1>1, <1>2, <1>4, <2>3 DEF Shape, TypeOK, Steps, Acked, histVars, Addr
  <2>5. Control'
    BY <1>1, <1>4, <2>3 DEF Shape, Control, histVars
  <2> QED  BY <2>4, <2>5 DEF Shape
<1> QED  BY <1>3, <1>4 DEF FlushHead

\* A whole block of the call lies between an aligned cur and target.
LEMMA BlockFits ==
  ASSUME Shape, step = "body",
         (target - cur) \div BlkSize > 0 \/ cur < BlockStart(target)
  PROVE  cur % BlkSize = 0 /\ cur + BlkSize <= target
<1>1. /\ cur \in Nat /\ target \in Nat /\ target - cur \in Nat /\ BlkSize \in Nat \ {0}
      /\ cur % BlkSize = 0 \/ cur = target
  BY CallFacts, Sizes_ DEF Shape, Control
<1>2. CASE (target - cur) \div BlkSize > 0
  <2> DEFINE q == (target - cur) \div BlkSize
  <2>1. q \in Nat /\ target - cur = BlkSize * q + ((target - cur) % BlkSize)
        /\ (target - cur) % BlkSize \in 0 .. BlkSize - 1
    BY <1>1, Division
  <2>2. q >= 1  BY <1>2, <2>1
  <2> HIDE DEF q
  <2>3. BlkSize * q >= BlkSize  BY <1>1, <2>1, <2>2
  <2>4. BlkSize * q \in Nat  BY <1>1, <2>1
  <2>5. cur + BlkSize <= target  BY <1>1, <2>1, <2>3, <2>4
  <2> QED  BY <1>1, <2>5
<1>3. CASE cur < BlockStart(target)
  <2>1. BlockStart(target) \in Nat /\ BlockStart(target) <= target /\ BlockStart(target) % BlkSize = 0
    BY <1>1, BlockStartFacts
  <2>2. cur % BlkSize = 0  BY <1>1, <1>3, <2>1
  <2>3. cur + BlkSize <= BlockStart(target)  BY <1>1, <1>3, <2>1, <2>2, BlocksApart
  <2> QED  BY <1>1, <2>1, <2>2, <2>3
<1> QED  BY <1>2, <1>3

\* A block of fill or write went to the card.
LEMMA ShapeBlockWritten ==
  ASSUME Shape, step = "body", DevTypeOK', buf' \in [0 .. BlkSize - 1 -> Cell],
         cur % BlkSize = 0, cur + BlkSize <= target, cur' = cur + BlkSize,
         UNCHANGED <<pos, step, op, target, data, err, closeRes, histVars>>
  PROVE  Shape'
<1>1. cur \in Nat /\ BlkSize \in Nat \ {0}  BY Sizes_ DEF Shape, TypeOK
<1>2. cur' % BlkSize = 0 /\ cur' \in Nat
  <2>1. (cur + BlkSize) % BlkSize = 0  BY <1>1, NextBlock
  <2> QED  BY <1>1, <2>1
<1>3. TypeOK'  BY <1>2 DEF Shape, TypeOK, Steps, Acked, histVars, Addr
<1>4. Control'  BY <1>1, <1>2 DEF Shape, TypeOK, Control, histVars
<1> QED  BY <1>3, <1>4 DEF Shape

LEMMA ShapeFillBlock == Shape /\ FillBlock => Shape'
<1> SUFFICES ASSUME Shape, FillBlock PROVE Shape'  OBVIOUS
<1>1. step = "body" /\ DevTypeOK /\ buf' = Zeros /\ Zeros \in [0 .. BlkSize - 1 -> Cell]
  BY CallFacts DEF FillBlock, Shape, TypeOK
<1>2. DevTypeOK'
  <2>1. DevWrite(cur, BlkSize, Zeros, 0) \/ DevWriteFails(cur, BlkSize, Zeros, 0)
    BY DEF FillBlock
  <2>2. BlkSize \in Nat /\ 0 \in Nat /\ 0 + BlkSize <= BlkSize  BY Sizes_
  <2> QED  BY <1>1, <2>1, <2>2, CallFacts, DevWriteType
<1>3. CASE ReturnError
  BY <1>1, <1>2, <1>3, ShapeReturnError
<1>4. CASE /\ cur' = cur + BlkSize
           /\ UNCHANGED <<pos, step, op, target, data, err, closeRes, histVars>>
  <2>1. cur % BlkSize = 0 /\ cur + BlkSize <= target  BY <1>1, BlockFits DEF FillBlock
  <2> QED  BY <1>1, <1>2, <1>4, <2>1, ShapeBlockWritten
<1> QED  BY <1>3, <1>4 DEF FillBlock

LEMMA ShapeWriteBlock == Shape /\ WriteBlock => Shape'
<1> SUFFICES ASSUME Shape, WriteBlock PROVE Shape'  OBVIOUS
<1>1. /\ step = "body" /\ DevTypeOK /\ buf' \in [0 .. BlkSize - 1 -> Cell]
      /\ data \in [0 .. target - pos - 1 -> Cell]
  BY CallFacts DEF WriteBlock, Shape, TypeOK
<1>2. cur % BlkSize = 0 /\ cur + BlkSize <= target  BY <1>1, BlockFits DEF WriteBlock
<1>3. DevTypeOK'
  <2>1. DevWrite(cur, BlkSize, data, cur - pos) \/ DevWriteFails(cur, BlkSize, data, cur - pos)
    BY DEF WriteBlock
  <2>2. /\ BlkSize \in Nat /\ cur - pos \in Nat /\ target - pos \in Nat /\ cur \in Nat
        /\ (cur - pos) + BlkSize <= target - pos
    BY <1>1, <1>2, CallFacts, Sizes_
  <2> QED  BY <1>1, <2>1, <2>2, DevWriteType
<1>4. CASE ReturnError
  BY <1>1, <1>3, <1>4, ShapeReturnError
<1>5. CASE /\ cur' = cur + BlkSize
           /\ UNCHANGED <<pos, step, op, target, data, err, closeRes, histVars>>
  BY <1>1, <1>2, <1>3, <1>5, ShapeBlockWritten
<1> QED  BY <1>4, <1>5 DEF WriteBlock

\* What is left of the call when no whole block is: less than a block.
LEMMA RestFits ==
  ASSUME Shape, step = "body",
         (target - cur) \div BlkSize = 0 \/ cur >= BlockStart(target)
  PROVE  target - cur \in 0 .. BlkSize - 1
<1>1. cur \in Nat /\ target \in Nat /\ target - cur \in Nat /\ BlkSize \in Nat \ {0}
  BY CallFacts, Sizes_
<1>2. CASE (target - cur) \div BlkSize = 0
  <2>1. target - cur = BlkSize * ((target - cur) \div BlkSize) + ((target - cur) % BlkSize)
        /\ (target - cur) % BlkSize \in 0 .. BlkSize - 1
    BY <1>1, Division
  <2>2. target - cur = (target - cur) % BlkSize  BY <1>1, <1>2, <2>1
  <2> QED  BY <2>1, <2>2
<1>3. CASE cur >= BlockStart(target)
  BY <1>1, <1>3, BlockStartFacts
<1> QED  BY <1>2, <1>3

LEMMA ShapeFillDone == Shape /\ FillDone => Shape'
<1> SUFFICES ASSUME Shape, FillDone PROVE Shape'  OBVIOUS
<1>1. step = "body" /\ UNCHANGED devVars  BY DEF FillDone
<1>2. target - cur \in 0 .. BlkSize - 1  BY <1>1, RestFits DEF FillDone
<1>3. buf' \in [0 .. BlkSize - 1 -> Cell]
  <2>1. /\ 0 .. BlkSize - 1 \in SUBSET Nat /\ BlkSize \in Nat /\ target - cur \in Nat
        /\ 0 \in Nat /\ 0 + (target - cur) <= BlkSize
    BY <1>2, Sizes_
  <2>2. Patch(buf, 0, target - cur, Zeros, 0) \in [0 .. BlkSize - 1 -> Cell]
    BY <1>1, <2>1, CallFacts, PatchType
  <2> QED  BY <2>2 DEF FillDone
<1>4. [i \in 0 .. target - pos - 1 |-> Zero] \in [0 .. target - pos - 1 -> Cell]  BY Sizes_
<1> QED  BY <1>1, <1>3, <1>4, ShapeReturnOk DEF FillDone

LEMMA ShapeWriteDone == Shape /\ WriteDone => Shape'
<1> SUFFICES ASSUME Shape, WriteDone PROVE Shape'  OBVIOUS
<1>1. /\ step = "body" /\ UNCHANGED devVars
      /\ data \in [0 .. target - pos - 1 -> Cell]
  BY CallFacts DEF WriteDone
<1>2. target - cur \in 0 .. BlkSize - 1  BY <1>1, RestFits DEF WriteDone
<1>3. buf' \in [0 .. BlkSize - 1 -> Cell]
  <2>1. /\ 0 .. BlkSize - 1 \in SUBSET Nat /\ target - pos \in Nat /\ target - cur \in Nat
        /\ 0 \in Nat /\ cur - pos \in Nat /\ (cur - pos) + (target - cur) <= target - pos
    BY <1>1, <1>2, Sizes_, CallFacts
  <2>2. Patch(buf, 0, target - cur, data, cur - pos) \in [0 .. BlkSize - 1 -> Cell]
    BY <1>1, <2>1, CallFacts, PatchType
  <2> QED  BY <2>2 DEF WriteDone
<1> QED  BY <1>1, <1>3, ShapeReturnOk DEF WriteDone

\* What close() hands to BlockDev::write: part of one block.
LEMMA FlushFacts ==
  ASSUME Shape, step = "idle"
  PROVE  /\ pos \in Nat /\ BlockStart(pos) \in Nat
         /\ FlushSize \in 0 .. BlkSize - 1
         /\ pos % BlkSize \in 0 .. BlkSize - 1
         /\ Misalignment(pos, SecSize) \in 0 .. BlkSize
         /\ Patch(buf, pos % BlkSize, Misalignment(pos, SecSize), Zeros, 0)
              \in [0 .. BlkSize - 1 -> Cell]
<1>1. /\ pos \in Nat /\ BlkSize \in Nat \ {0} /\ SecSize \in Nat \ {0} /\ SecSize <= BlkSize
      /\ buf \in [0 .. BlkSize - 1 -> Cell] /\ Zeros \in [0 .. BlkSize - 1 -> Cell]
  <2>1. PICK k \in 2 .. BlkSize : BlkSize = SecSize * k  BY Sizes_
  <2> QED  BY <2>1, Sizes_ DEF Shape, TypeOK, Zeros
<1>2. BlockStart(pos) \in Nat /\ pos % BlkSize \in 0 .. BlkSize - 1
  BY <1>1, BlockStartFacts, Division
<1>3. Misalignment(pos, SecSize) \in 0 .. SecSize - 1  BY <1>1, MisalignmentFacts
<1>4. Misalignment(pos, SecSize) \in 0 .. BlkSize  BY <1>1, <1>3
<1>5. FlushSize \in 0 .. BlkSize - 1
  <2>1. SectorEnd(pos) \in Nat  BY <1>1, <1>4 DEF SectorEnd
  <2> QED  BY <1>1, <2>1, Division DEF FlushSize
<1>6. /\ 0 .. BlkSize - 1 \in SUBSET Nat /\ pos % BlkSize \in Nat /\ BlkSize \in Nat
      /\ Misalignment(pos, SecSize) \in Nat /\ 0 \in Nat
      /\ 0 + Misalignment(pos, SecSize) <= BlkSize
  BY <1>1, <1>2, <1>4
<1>7. Patch(buf, pos % BlkSize, Misalignment(pos, SecSize), Zeros, 0)
        \in [0 .. BlkSize - 1 -> Cell]
  BY <1>1, <1>6, PatchType
<1> QED  BY <1>1, <1>2, <1>4, <1>5, <1>7

LEMMA ShapeCloseFlush == Shape /\ CloseFlush => Shape'
<1> SUFFICES ASSUME Shape, CloseFlush PROVE Shape'  OBVIOUS
<1> DEFINE padded == Patch(buf, pos % BlkSize, Misalignment(pos, SecSize), Zeros, 0)
<1>1. /\ step = "idle" /\ step' = "closing" /\ buf' = padded /\ closeRes' \in {"ok", "EIO"}
      /\ UNCHANGED <<pos, op, cur, target, data, err, histVars>>
  BY DEF CloseFlush
<1>2. padded \in [0 .. BlkSize - 1 -> Cell]  BY <1>1, FlushFacts
<1>3. DevTypeOK'
  <2>1. DevTypeOK  BY DEF Shape, TypeOK
  <2>2. CASE UNCHANGED devVars  BY <2>1, <2>2 DEF devVars, DevTypeOK, Addr
  <2>3. CASE \/ DevWrite(BlockStart(pos), FlushSize, padded, 0)
             \/ DevWriteFails(BlockStart(pos), FlushSize, padded, 0)
    <3>1. /\ BlkSize \in Nat /\ BlockStart(pos) \in Nat /\ FlushSize \in Nat /\ 0 \in Nat
          /\ 0 + FlushSize <= BlkSize
      BY <1>1, FlushFacts, Sizes_
    <3> HIDE DEF padded
    <3> QED  BY <1>2, <2>1, <2>3, <3>1, DevWriteType
  <2> QED  BY <2>2, <2>3 DEF CloseFlush
<1> HIDE DEF padded
<1>4. TypeOK'  BY <1>1, <1>2, <1>3 DEF Shape, TypeOK, Steps, Acked, histVars, Addr
<1>5. Control'  BY <1>1 DEF Shape, Control, histVars
<1> QED  BY <1>4, <1>5 DEF Shape

LEMMA ShapeCloseDev == Shape /\ CloseDev => Shape'
<1> SUFFICES ASSUME Shape, CloseDev PROVE Shape'  OBVIOUS
<1>1. DevTypeOK'  BY DEF CloseDev, DevClose, Shape, TypeOK, DevTypeOK, Addr
<1>2. NoBytes \in [0 .. (IF op' = "write" THEN target' - pos' ELSE 0) - 1 -> Cell]
  <2>1. (IF op' = "write" THEN target' - pos' ELSE 0) = 0  BY DEF CloseDev
  <2> QED  BY <2>1, NoBytesType
<1>3. TypeOK'  BY <1>1, <1>2 DEF CloseDev, Shape, TypeOK, Steps, Acked, Addr
<1>4. Control'  BY DEF CloseDev, Shape, Control
<1> QED  BY <1>3, <1>4 DEF Shape

\* Every step keeps types and control.
LEMMA ShapeStep == Shape /\ [Next]_vars => Shape'
<1> SUFFICES ASSUME Shape, [Next]_vars PROVE Shape'  OBVIOUS
<1>1. CASE Open  BY <1>1, ShapeOpen
<1>2. CASE EraseAll  BY <1>2, ShapeErase
<1>3. CASE \E offset \in Offsets : FillCall(offset)
  BY <1>3, WriterAssumption, ShapeFillCall
<1>4. CASE \E size \in Sizes : WriteCall(size, [i \in 0 .. size - 1 |-> Payload[pos + i]])
  BY <1>4, ShapeWriteCall DEF Given
<1>5. CASE CloseFlush  BY <1>5, ShapeCloseFlush
<1>6. CASE CallStep
  BY <1>6, ShapeFlushHead, ShapeFillBlock, ShapeFillDone, ShapeWriteBlock, ShapeWriteDone,
     ShapeCloseDev DEF CallStep
<1>7. CASE UNCHANGED vars
  BY <1>7 DEF vars, writerVars, callVars, histVars, devVars, Shape, TypeOK, Control, DevTypeOK,
     Steps, Acked, Addr, BlockStart
<1> QED  BY <1>1, <1>2, <1>3, <1>4, <1>5, <1>6, <1>7 DEF Next

\* Types and control of the writer, for every card, block size and client.
THEOREM ShapeInvariant == Spec => []Shape
BY ShapeInit, ShapeStep, PTL DEF Spec

\* Every variable of the writer keeps its type: the locals of a call describe
\* the bytes the call was given, and stream has exactly m_pos bytes.
THEOREM TypeCorrect == Spec => []TypeOK
<1>1. Shape => TypeOK  BY DEF Shape
<1> QED  BY <1>1, ShapeInvariant, PTL

-----------------------------------------------------------------------------
(* The bytes of the stream are on the card or in the buffer.               *)

\* What a successful write leaves on the card.
LEMMA DevWriteEffect ==
  ASSUME DevTypeOK, NEW at \in Nat, NEW n \in Nat, NEW src, NEW skip \in Nat,
         DevWrite(at, n, src, skip)
  PROVE  /\ \A a \in Addr : a < at \/ a >= at + n => disk'[a] = disk[a]
         /\ \A a \in at .. at + n - 1 : a \in Addr /\ disk'[a] = src[skip + (a - at)]
<1>1. disk \in [Addr -> Cell] /\ DevSize \in Nat  BY Sizes_ DEF DevTypeOK
<1>2. DOMAIN disk = Addr  BY <1>1
<1>3. \A a \in Addr :
        disk'[a] = IF at <= a /\ a < at + n THEN src[skip + (a - at)] ELSE disk[a]
  BY <1>2 DEF DevWrite, Patch
<1>4. ASSUME NEW a \in Addr, a < at \/ a >= at + n  PROVE disk'[a] = disk[a]
  BY <1>3, <1>4, <1>1 DEF Addr
<1>5. ASSUME NEW a \in at .. at + n - 1  PROVE a \in Addr /\ disk'[a] = src[skip + (a - at)]
  <2>1. a \in Addr  BY <1>1 DEF DevWrite, Addr
  <2> QED  BY <1>3, <2>1
<1> QED  BY <1>4, <1>5

\* What memcpy and memset leave in the buffer.
LEMMA BufferEffect ==
  ASSUME buf \in [0 .. BlkSize - 1 -> Cell], NEW at \in Nat, NEW n \in Nat, NEW src,
         NEW skip \in Nat, NEW b, b = Patch(buf, at, n, src, skip)
  PROVE  /\ \A i \in 0 .. BlkSize - 1 : i < at \/ i >= at + n => b[i] = buf[i]
         /\ \A i \in 0 .. BlkSize - 1 : i >= at /\ i < at + n => b[i] = src[skip + (i - at)]
<1>1. DOMAIN buf = 0 .. BlkSize - 1 /\ BlkSize \in Nat  BY Sizes_
<1> QED  BY <1>1 DEF Patch

\* Where a position of the current block lies in the buffer.
LEMMA Slot ==
  ASSUME NEW n \in Nat, NEW a \in BlockStart(n) .. BlockStart(n) + BlkSize - 1
  PROVE  a \in Nat /\ a % BlkSize = a - BlockStart(n) /\ a % BlkSize \in 0 .. BlkSize - 1
<1>1. BlockStart(n) \in Nat /\ BlockStart(n) % BlkSize = 0 /\ BlkSize \in Nat \ {0}
  BY BlockStartFacts, Sizes_
<1>2. a - BlockStart(n) \in 0 .. BlkSize - 1 /\ a \in Nat  BY <1>1
<1>3. (BlockStart(n) + (a - BlockStart(n))) % BlkSize = a - BlockStart(n)
  BY <1>1, <1>2, InBlock
<1>4. BlockStart(n) + (a - BlockStart(n)) = a  BY <1>1, <1>2
<1> QED  BY <1>2, <1>3, <1>4

LEMMA StreamAlignToBuffer ==
  ASSUME Shape, StreamStored, Ready, NEW call \in {"fill", "write"}, NEW end \in Nat, pos < end,
         NEW bytes, NEW src,
         \A i \in 0 .. Lesser(end - pos, Misalignment(pos, BlkSize)) - 1 :
           src[i] = IF call = "write" THEN bytes[i] ELSE Zero,
         AlignToBuffer(call, end, bytes, src)
  PROVE  StreamStored'
<1> DEFINE m == Misalignment(pos, BlkSize)
           n == Lesser(end - pos, m)
           full == m > 0 /\ n = m
           B == BlockStart(pos)
<1>1. /\ m \in 0 .. BlkSize - 1 /\ n \in 0 .. BlkSize - 1 /\ n <= end - pos /\ n <= m
      /\ n = m \/ n = end - pos
      /\ m > 0 => pos + m = B + BlkSize
      /\ m = 0 => pos % BlkSize = 0
  BY AlignFacts
<1>2. /\ buf' = Patch(buf, pos % BlkSize, n, src, 0)
      /\ op' = call /\ target' = end /\ data' = bytes
      /\ step' = (IF full THEN "head" ELSE "body")
      /\ cur' = (IF full THEN pos ELSE pos + n)
      /\ UNCHANGED <<devVars, pos, err, closeRes, histVars>>
  BY DEF AlignToBuffer
<1>3. \A i \in 0 .. n - 1 : src[i] = IF call = "write" THEN bytes[i] ELSE Zero
  OBVIOUS
<1>4. /\ pos \in Nat /\ cur = pos /\ step = "idle" /\ err = "none"
      /\ buf \in [0 .. BlkSize - 1 -> Cell] /\ BlkSize \in Nat \ {0}
  BY Sizes_ DEF Shape, TypeOK, Control, Ready
<1>5. B \in Nat /\ B <= pos /\ pos < B + BlkSize /\ pos % BlkSize = pos - B /\ B % BlkSize = 0
  BY <1>4, BlockStartFacts
<1>6. BlockStart(cur)' = B
  <2>1. CASE cur' = pos  BY <2>1 DEF BlockStart
  <2>2. CASE cur' # pos
    <3>1. cur' = pos + n /\ n > 0 /\ n < m  BY <1>1, <1>2, <1>4, <2>2
    <3> HIDE DEF B, m, n
    <3>2. cur' \in Nat /\ B <= cur' /\ cur' < B + BlkSize  BY <1>1, <1>4, <1>5, <3>1
    <3>3. \A c \in Nat : B <= c /\ c < B + BlkSize => BlockStart(c) = B
      BY <1>4, <1>5, BlockStartIs
    <3>4. BlockStart(cur') = B  BY <3>2, <3>3
    <3> QED  BY <3>4 DEF BlockStart
  <2> QED  BY <2>1, <2>2
<1>7. Gathered' = pos + n
  BY <1>1, <1>2, <1>4 DEF Gathered
<1>8. OnCard'
  <2> SUFFICES ASSUME NEW a \in 0 .. B - 1 PROVE (a \in Addr /\ disk[a] = Expected(a))'
    BY <1>6 DEF OnCard
  <2>1. a < pos /\ a \in Addr /\ disk[a] = Expected(a)
    BY <1>4, <1>5 DEF StreamStored, OnCard
  <2> QED  BY <1>2, <2>1 DEF Expected, devVars, histVars, Addr
<1> HIDE DEF m, n, B
<1>9. InBuffer'
  <2> SUFFICES ASSUME NEW a \in B .. pos + n - 1 PROVE (buf[a % BlkSize] = Expected(a))'
    BY <1>1, <1>4, <1>6, <1>7 DEF InBuffer
  <2>1. a \in B .. B + BlkSize - 1  BY <1>1, <1>4, <1>5
  <2>2. a \in Nat /\ a % BlkSize = a - B /\ a % BlkSize \in 0 .. BlkSize - 1
    BY <1>4, <2>1, Slot DEF B
  <2>3. pos % BlkSize \in Nat /\ n \in Nat  BY <1>1, <1>4, <1>5
  <2>4. CASE a < pos
    <3>1. buf[a % BlkSize] = stream[a]
      <4>1. a \in BlockStart(cur) .. Gathered - 1  BY <1>4, <1>5, <2>2, <2>4 DEF Gathered, B
      <4> QED  BY <1>4, <2>4, <4>1 DEF StreamStored, InBuffer, Expected
    <3>2. a % BlkSize < pos % BlkSize  BY <1>4, <1>5, <2>2, <2>4
    <3>3. buf'[a % BlkSize] = buf[a % BlkSize]
      BY <1>2, <1>4, <2>2, <2>3, <3>2, BufferEffect
    <3> QED  BY <1>2, <2>4, <3>1, <3>3 DEF Expected, histVars
  <2>5. CASE a >= pos
    <3> DEFINE i == a % BlkSize
               at == pos % BlkSize
    <3>1. i = a - B /\ at = pos - B /\ i \in 0 .. BlkSize - 1 /\ at \in Nat /\ a \in Nat
      BY <1>5, <2>2, <2>3
    <3> HIDE DEF i, at
    <3>2. i >= at /\ i < at + n /\ 0 + (i - at) = a - pos /\ a - pos \in 0 .. n - 1
      <4>1. n \in Nat /\ pos \in Nat /\ B \in Nat /\ a < pos + n  BY <1>1, <1>4, <1>5, <3>1
      <4> QED  BY <2>5, <3>1, <4>1
    <3>3. buf'[i] = src[a - pos]
      <4>1. buf'[i] = src[0 + (i - at)]
        BY <1>2, <1>4, <2>3, <3>1, <3>2, BufferEffect DEF at
      <4> QED  BY <3>2, <4>1
    <3>4. src[a - pos] = IF call = "write" THEN bytes[a - pos] ELSE Zero  BY <1>3, <3>2
    <3>5. ~(a < pos)  BY <1>4, <2>2, <2>5
    <3> QED  BY <1>2, <3>3, <3>4, <3>5 DEF Expected, i
  <2> QED  BY <1>4, <2>2, <2>4, <2>5
<1> QED  BY <1>8, <1>9 DEF StreamStored

\* A block of the stream goes to the card.
LEMMA StreamBlock ==
  ASSUME Shape, StreamStored, step \in {"head", "body"}, NEW src, NEW skip \in Nat,
         DevWrite(BlockStart(cur), BlkSize, src, skip),
         \A i \in 0 .. BlkSize - 1 : src[skip + i] = Expected(BlockStart(cur) + i),
         step' = "body", cur' = BlockStart(cur) + BlkSize,
         UNCHANGED <<pos, op, target, data, err, histVars>>
  PROVE  StreamStored'
<1> DEFINE B == BlockStart(cur)
<1>1. cur \in Nat /\ BlkSize \in Nat \ {0} /\ B \in Nat /\ B % BlkSize = 0 /\ DevTypeOK
  <2>1. cur \in Nat /\ BlkSize \in Nat \ {0} /\ DevTypeOK  BY Sizes_ DEF Shape, TypeOK
  <2> QED  BY <2>1, BlockStartFacts
<1>2. OnCard /\ err = "none"  BY DEF Shape, Control, StreamStored
<1>3. cur' = B + BlkSize  OBVIOUS
<1>4. BlockStart(cur)' = B + BlkSize
  <2>1. (B + BlkSize) % BlkSize = 0  BY <1>1, NextBlock
  <2>2. cur' % BlkSize = 0  BY <1>3, <2>1
  <2> QED  BY <1>1, <1>3, <2>2 DEF BlockStart
<1>5. \A a : Expected(a)' = Expected(a)  BY DEF Expected, histVars
<1>6. /\ \A a \in Addr : a < B \/ a >= B + BlkSize => disk'[a] = disk[a]
      /\ \A a \in B .. B + BlkSize - 1 : a \in Addr /\ disk'[a] = src[skip + (a - B)]
  <2>1. DevWrite(B, BlkSize, src, skip) /\ BlkSize \in Nat  BY <1>1
  <2> HIDE DEF B
  <2> QED  BY <1>1, <2>1, DevWriteEffect
<1>7. \A i \in 0 .. BlkSize - 1 : src[skip + i] = Expected(B + i)
  OBVIOUS
<1>8. \A a \in 0 .. B - 1 : a \in Addr /\ disk[a] = Expected(a)  BY <1>2 DEF OnCard
<1> HIDE DEF B
<1>9. OnCard'
  <2> SUFFICES ASSUME NEW a \in 0 .. B + BlkSize - 1
               PROVE  (a \in Addr /\ disk[a] = Expected(a))'
    BY <1>1, <1>4 DEF OnCard
  <2>1. CASE a < B
    <3>1. a \in 0 .. B - 1  BY <1>1, <2>1
    <3> QED  BY <1>5, <1>6, <1>8, <2>1, <3>1 DEF Addr
  <2>2. CASE a >= B
    <3>1. a \in B .. B + BlkSize - 1 /\ a - B \in 0 .. BlkSize - 1 /\ B + (a - B) = a
      BY <1>1, <2>2
    <3> QED  BY <1>5, <1>6, <1>7, <3>1 DEF Addr
  <2> QED  BY <1>1, <2>1, <2>2
<1>10. InBuffer'
  <2>1. Gathered' = B + BlkSize  BY <1>3 DEF Gathered
  <2>2. (B + BlkSize) .. (B + BlkSize) - 1 = {}  BY <1>1
  <2> QED  BY <1>4, <2>1, <2>2 DEF InBuffer
<1> QED  BY <1>9, <1>10 DEF StreamStored

\* The call is over: what is left of it goes to the buffer.
LEMMA StreamReturnOk ==
  ASSUME Shape, StreamStored, step = "body", UNCHANGED devVars,
         target - cur \in 0 .. BlkSize - 1, NEW s, NEW skip \in Nat,
         buf' = Patch(buf, 0, target - cur, s, skip),
         \A a \in cur .. target - 1 : s[skip + (a - cur)] = Expected(a),
         NEW src, \A a \in pos .. target - 1 : src[a - pos] = Expected(a),
         ReturnOk(src)
  PROVE  StreamStored'
<1>1. /\ pos \in Nat /\ cur \in Nat /\ target \in Nat /\ BlkSize \in Nat \ {0}
      /\ pos <= cur /\ cur <= target /\ err = "none"
      /\ cur % BlkSize = 0 \/ cur = target
      /\ buf \in [0 .. BlkSize - 1 -> Cell]
  BY Sizes_ DEF Shape, TypeOK, Control
<1>2. OnCard /\ InBuffer  BY <1>1 DEF StreamStored
<1>3. Gathered = cur /\ Gathered' = target  BY DEF Gathered, ReturnOk
<1>4. /\ pos' = target /\ cur' = target
      /\ stream' = [a \in 0 .. target - 1 |-> IF a < pos THEN stream[a] ELSE src[a - pos]]
  BY DEF ReturnOk
<1>5. \A a \in 0 .. target - 1 : Expected(a)' = Expected(a)
  <2> SUFFICES ASSUME NEW a \in 0 .. target - 1 PROVE Expected(a)' = Expected(a)  OBVIOUS
  <2>1. Expected(a)' = stream'[a]  BY <1>1, <1>4 DEF Expected
  <2>2. CASE a < pos  BY <1>4, <2>1, <2>2 DEF Expected
  <2>3. CASE a >= pos
    <3>1. a \in pos .. target - 1 /\ ~(a < pos)  BY <1>1, <2>3
    <3> QED  BY <1>4, <2>1, <3>1
  <2> QED  BY <1>1, <2>2, <2>3
<1> DEFINE B == BlockStart(cur)
<1>6. B \in Nat /\ B <= cur /\ cur < B + BlkSize /\ B % BlkSize = 0
  BY <1>1, BlockStartFacts
<1>7. BlockStart(cur)' = B /\ target < B + BlkSize
  <2>1. CASE cur = target  BY <1>1, <1>4, <1>6, <2>1
  <2>2. CASE cur % BlkSize = 0
    <3>1. B = cur  BY <1>1, <2>2 DEF BlockStart
    <3>2. BlockStart(target) = cur  BY <1>1, <2>2, BlockStartIs
    <3> QED  BY <1>1, <1>4, <3>1, <3>2
  <2> QED  BY <1>1, <2>1, <2>2
<1>8. \A a \in 0 .. B - 1 : a \in Addr /\ disk[a] = Expected(a)  BY <1>2 DEF OnCard
<1>9. \A a \in B .. cur - 1 : buf[a % BlkSize] = Expected(a)  BY <1>2, <1>3 DEF InBuffer
<1>10. \A a \in B .. target - 1 :
         a \in Nat /\ a % BlkSize = a - B /\ a % BlkSize \in 0 .. BlkSize - 1
  <2> TAKE a \in B .. target - 1
  <2>1. a \in B .. B + BlkSize - 1  BY <1>1, <1>6, <1>7
  <2> QED  BY <1>1, <2>1, Slot
<1>11. cur = target \/ B = cur
  BY <1>1 DEF BlockStart
<1> HIDE DEF B
<1>12. OnCard'
  <2> SUFFICES ASSUME NEW a \in 0 .. B - 1 PROVE (a \in Addr /\ disk[a] = Expected(a))'
    BY <1>7 DEF OnCard
  <2>1. a \in 0 .. target - 1  BY <1>1, <1>6
  <2> QED  BY <1>5, <1>8, <2>1 DEF devVars, Addr
<1>13. InBuffer'
  <2> SUFFICES ASSUME NEW a \in B .. target - 1 PROVE (buf[a % BlkSize] = Expected(a))'
    BY <1>3, <1>7 DEF InBuffer
  <2>1. a \in 0 .. target - 1 /\ a \in Nat /\ a < target  BY <1>1, <1>6, <1>10
  <2>2. a % BlkSize = a - B /\ a % BlkSize \in 0 .. BlkSize - 1  BY <1>10
  <2>3. target - cur \in Nat /\ 0 \in Nat  BY <1>1
  <2>4. CASE a < cur
    <3>1. a \in B .. cur - 1 /\ cur = target  BY <1>1, <1>6, <1>11, <2>1, <2>4
    <3>2. a % BlkSize >= 0 + (target - cur)  BY <1>1, <2>2, <3>1
    <3>3. buf'[a % BlkSize] = buf[a % BlkSize]
      BY <1>1, <2>2, <2>3, <3>2, BufferEffect
    <3> QED  BY <1>5, <1>9, <2>1, <3>1, <3>3
  <2>5. CASE a >= cur
    <3>1. B = cur  BY <1>1, <1>11, <2>1, <2>5
    <3> DEFINE i == a % BlkSize
    <3>2. i \in 0 .. BlkSize - 1 /\ i >= 0 /\ i = a - cur /\ i - 0 = a - cur /\ i < 0 + (target - cur)
      BY <1>1, <2>1, <2>2, <3>1
    <3> HIDE DEF i
    <3>3. buf'[i] = s[skip + (i - 0)]  BY <1>1, <2>3, <3>2, BufferEffect
    <3>4. s[skip + (a - cur)] = Expected(a)
      <4>1. a \in cur .. target - 1  BY <1>1, <2>1, <2>5
      <4> QED  BY <4>1
    <3> QED  BY <1>5, <2>1, <3>2, <3>3, <3>4 DEF i
  <2> QED  BY <1>1, <2>1, <2>4, <2>5
<1> QED  BY <1>12, <1>13 DEF StreamStored

LEMMA StreamKept == ASSUME StreamStored, UNCHANGED <<disk, writerVars>> PROVE StreamStored'
BY DEF writerVars, callVars, histVars, StreamStored, OnCard, InBuffer, Expected, Gathered,
   BlockStart, Addr

\* Nothing is taken yet, or nothing any more.
LEMMA StreamOpen ==
  ASSUME Shape, Open
  PROVE  StreamStored'
<1>1. cur' = 0 /\ (step' = "idle" \/ step' = "closed")
  BY DEF Open, Shape, Control
<1>2. BlockStart(cur)' = 0 /\ (step' = "idle" => Gathered' = 0)
  <2>1. 0 % BlkSize = 0  BY Sizes_
  <2> QED  BY <1>1, <2>1 DEF BlockStart, Gathered
<1>3. 0 .. 0 - 1 = {}  OBVIOUS
<1> QED  BY <1>1, <1>2, <1>3 DEF StreamStored, OnCard, InBuffer

LEMMA StreamErase ==
  ASSUME EraseAll
  PROVE  StreamStored'
<1>1. cur' = 0 /\ step' = step /\ step = "idle"  BY DEF EraseAll, Ready
<1>2. BlockStart(cur)' = 0 /\ Gathered' = 0
  <2>1. 0 % BlkSize = 0  BY Sizes_
  <2> QED  BY <1>1, <2>1 DEF BlockStart, Gathered
<1>3. 0 .. 0 - 1 = {}  OBVIOUS
<1> QED  BY <1>2, <1>3 DEF StreamStored, OnCard, InBuffer

\* Calls, whatever their arguments.
LEMMA StreamFillCall ==
  ASSUME Shape, StreamStored, NEW offset \in Nat, FillCall(offset)
  PROVE  StreamStored'
<1>1. offset \in Nat /\ Ready /\ pos \in Nat /\ BlkSize \in Nat
  BY WriterAssumption DEF FillCall, Shape, TypeOK
<1>2. CASE offset > pos /\ AlignToBuffer("fill", offset, NoBytes, Zeros)
  <2>1. Lesser(offset - pos, Misalignment(pos, BlkSize)) \in 0 .. BlkSize - 1
    BY <1>1, <1>2, AlignFacts
  <2>2. \A i \in 0 .. Lesser(offset - pos, Misalignment(pos, BlkSize)) - 1 : Zeros[i] = Zero
    BY <1>1, <2>1 DEF Zeros
  <2> QED  BY <1>1, <1>2, <2>2, StreamAlignToBuffer
<1>3. CASE ReturnEarly("none") \/ ReturnEarly("EINVAL")
  BY <1>1, <1>3 DEF ReturnEarly, Ready, devVars, callVars, histVars, StreamStored, OnCard,
     InBuffer, Expected, Gathered, BlockStart, Addr
<1> QED  BY <1>2, <1>3 DEF FillCall

LEMMA StreamWriteCall ==
  ASSUME Shape, StreamStored, NEW size \in Nat, NEW src, WriteCall(size, src)
  PROVE  StreamStored'
<1>1. size \in Nat /\ Ready /\ pos \in Nat
  BY WriterAssumption DEF WriteCall, Shape, TypeOK
<1>2. CASE size > 0 /\ AlignToBuffer("write", pos + size, src, src)
  <2>1. pos + size \in Nat /\ pos < pos + size  BY <1>1, <1>2
  <2> QED  BY <1>1, <1>2, <2>1, StreamAlignToBuffer
<1>3. CASE ReturnEarly("none") \/ ReturnEarly("EINVAL")
  BY <1>1, <1>3 DEF ReturnEarly, Ready, devVars, callVars, histVars, StreamStored, OnCard,
     InBuffer, Expected, Gathered, BlockStart, Addr
<1> QED  BY <1>2, <1>3 DEF WriteCall

\* The steps a call takes.
LEMMA StreamFlushHead ==
  ASSUME Shape, StreamStored, FlushHead
  PROVE  StreamStored'
<1>1. CASE ReturnError  BY <1>1 DEF ReturnError, StreamStored
<1>2. CASE /\ DevWrite(BlockStart(cur), BlkSize, buf, 0)
           /\ cur' = cur + Misalignment(cur, BlkSize)
           /\ step' = "body"
           /\ UNCHANGED <<pos, op, target, data, err, histVars>>
  <2> DEFINE B == BlockStart(cur)
  <2>1. /\ step = "head" /\ err = "none" /\ cur = pos /\ pos % BlkSize # 0 /\ pos < target
        /\ pos \in Nat /\ target \in Nat /\ BlkSize \in Nat \ {0}
    BY Sizes_ DEF FlushHead, Shape, TypeOK, Control
  <2>2. pos + Misalignment(pos, BlkSize) = B + BlkSize /\ B \in Nat
    <3>1. Misalignment(pos, BlkSize) > 0  BY <2>1, MisalignmentFacts, Division
    <3> QED  BY <2>1, <3>1, AlignFacts, BlockStartFacts
  <2>3. cur' = B + BlkSize  BY <1>2, <2>1, <2>2
  <2>4. \A i \in 0 .. BlkSize - 1 : buf[0 + i] = Expected(B + i)
    <3> TAKE i \in 0 .. BlkSize - 1
    <3> HIDE DEF B
    <3>1. B + i \in B .. B + BlkSize - 1 /\ 0 + i = i /\ (B + i) - B = i  BY <2>1, <2>2
    <3>2. (B + i) % BlkSize = i  BY <2>1, <3>1, Slot DEF B
    <3>3. Gathered = B + BlkSize  BY <2>1, <2>2 DEF Gathered
    <3>4. InBuffer  BY <2>1 DEF StreamStored
    <3>5. buf[(B + i) % BlkSize] = Expected(B + i)  BY <2>1, <2>2, <3>1, <3>3, <3>4 DEF InBuffer, B
    <3> QED  BY <3>1, <3>2, <3>5
  <2> QED  BY <1>2, <2>1, <2>3, <2>4, StreamBlock
<1> QED  BY <1>1, <1>2 DEF FlushHead

LEMMA StreamFullBlock ==
  ASSUME Shape, StreamStored, FillBlock \/ WriteBlock
  PROVE  StreamStored'
<1>1. step = "body" /\ cur % BlkSize = 0 /\ cur + BlkSize <= target
  BY BlockFits DEF FillBlock, WriteBlock
<1>2. /\ pos \in Nat /\ cur \in Nat /\ target \in Nat /\ BlkSize \in Nat \ {0} /\ pos <= cur
  BY <1>1, Sizes_ DEF Shape, TypeOK, Control
<1>3. BlockStart(cur) = cur  BY <1>1, <1>2 DEF BlockStart
<1>4. CASE ReturnError  BY <1>4 DEF ReturnError, StreamStored
<1>5. CASE /\ op = "fill" /\ DevWrite(cur, BlkSize, Zeros, 0)
           /\ cur' = cur + BlkSize
           /\ UNCHANGED <<pos, step, op, target, data, err, closeRes, histVars>>
  <2>1. ASSUME NEW i \in 0 .. BlkSize - 1 PROVE Zeros[0 + i] = Expected(cur + i)
    <3>1. ~(cur + i < pos) /\ 0 + i = i  BY <1>2
    <3> QED  BY <1>5, <3>1 DEF Expected, Zeros
  <2> QED  BY <1>1, <1>3, <1>5, <2>1, StreamBlock
<1>6. CASE /\ op = "write" /\ DevWrite(cur, BlkSize, data, cur - pos)
           /\ cur' = cur + BlkSize
           /\ UNCHANGED <<pos, step, op, target, data, err, closeRes, histVars>>
  <2>1. ASSUME NEW i \in 0 .. BlkSize - 1 PROVE data[(cur - pos) + i] = Expected(cur + i)
    <3>1. ~(cur + i < pos) /\ (cur - pos) + i = (cur + i) - pos  BY <1>2
    <3> QED  BY <1>6, <3>1 DEF Expected
  <2>2. cur - pos \in Nat  BY <1>2
  <2> QED  BY <1>1, <1>3, <1>6, <2>1, <2>2, StreamBlock
<1> QED  BY <1>4, <1>5, <1>6 DEF FillBlock, WriteBlock

LEMMA StreamDone ==
  ASSUME Shape, StreamStored, FillDone \/ WriteDone
  PROVE  StreamStored'
<1>1. step = "body" /\ UNCHANGED devVars /\ target - cur \in 0 .. BlkSize - 1
  BY RestFits DEF FillDone, WriteDone
<1>2. /\ pos \in Nat /\ cur \in Nat /\ target \in Nat /\ BlkSize \in Nat \ {0} /\ pos <= cur
      /\ cur <= target
  BY <1>1, Sizes_ DEF Shape, TypeOK, Control
<1>3. CASE FillDone
  <2> DEFINE src == [i \in 0 .. target - pos - 1 |-> Zero]
  <2>1. ASSUME NEW a \in cur .. target - 1 PROVE Zeros[0 + (a - cur)] = Expected(a)
    <3>1. ~(a < pos) /\ 0 + (a - cur) \in 0 .. BlkSize - 1  BY <1>1, <1>2
    <3> QED  BY <1>3, <3>1 DEF FillDone, Expected, Zeros
  <2>2. ASSUME NEW a \in pos .. target - 1 PROVE src[a - pos] = Expected(a)
    <3>1. ~(a < pos) /\ a - pos \in 0 .. target - pos - 1  BY <1>2
    <3> QED  BY <1>3, <3>1 DEF FillDone, Expected
  <2>3. buf' = Patch(buf, 0, target - cur, Zeros, 0) /\ ReturnOk(src)  BY <1>3 DEF FillDone
  <2> HIDE DEF src
  <2> QED  BY <1>1, <2>1, <2>2, <2>3, StreamReturnOk
<1>4. CASE WriteDone
  <2>1. ASSUME NEW a \in cur .. target - 1 PROVE data[(cur - pos) + (a - cur)] = Expected(a)
    <3>1. ~(a < pos) /\ (cur - pos) + (a - cur) = a - pos  BY <1>2
    <3> QED  BY <1>4, <3>1 DEF WriteDone, Expected
  <2>2. ASSUME NEW a \in pos .. target - 1 PROVE data[a - pos] = Expected(a)
    <3>1. ~(a < pos)  BY <1>2
    <3> QED  BY <1>4, <3>1 DEF WriteDone, Expected
  <2>3. buf' = Patch(buf, 0, target - cur, data, cur - pos) /\ ReturnOk(data)
    BY <1>4 DEF WriteDone
  <2>4. cur - pos \in Nat  BY <1>2
  <2> QED  BY <1>1, <2>1, <2>2, <2>3, <2>4, StreamReturnOk
<1> QED  BY <1>3, <1>4

\* Every step but the flush keeps the bytes where they belong.
LEMMA StreamStep == Shape /\ StreamStored /\ [Next]_vars => StreamStored'
<1> SUFFICES ASSUME Shape, StreamStored, [Next]_vars PROVE StreamStored'  OBVIOUS
<1>1. CASE Open  BY <1>1, StreamOpen
<1>2. CASE EraseAll  BY <1>2, StreamErase
<1>3. ASSUME NEW offset \in Offsets, FillCall(offset) PROVE StreamStored'
  BY <1>3, WriterAssumption, StreamFillCall
<1>4. ASSUME NEW size \in Sizes, WriteCall(size, Given(size)) PROVE StreamStored'
  BY <1>4, WriterAssumption, StreamWriteCall
<1>5. CASE CloseFlush \/ CloseDev
  BY <1>5 DEF CloseFlush, CloseDev, StreamStored
<1>6. CASE CallStep
  BY <1>5, <1>6, StreamFlushHead, StreamFullBlock, StreamDone DEF CallStep
<1>7. CASE UNCHANGED vars  BY <1>7, StreamKept DEF vars, devVars
<1> QED
  BY <1>1, <1>2, <1>3, <1>4, <1>5, <1>6, <1>7 DEF Next, Given

\* The bytes of the stream are on the card or in the buffer, at every step of
\* every call, for every size of block and every sequence of calls.
THEOREM StreamIsStored == Spec => []StreamStored
<1>1. Init => Shape /\ StreamStored
  BY ShapeInit DEF Init, StreamStored
<1>2. Shape /\ StreamStored /\ [Next]_vars => (Shape /\ StreamStored)'
  BY ShapeStep, StreamStep
<1> QED  BY <1>1, <1>2, PTL DEF Spec

-----------------------------------------------------------------------------
(* Sectors, and what the flush writes.                                     *)

LEMMA SectorEndFacts ==
  ASSUME NEW n \in Nat
  PROVE  /\ SectorEnd(n) \in Nat /\ n <= SectorEnd(n) /\ SectorEnd(n) < n + SecSize
         /\ SectorEnd(n) % SecSize = 0
         /\ n % SecSize = 0 => SectorEnd(n) = n
<1>1. SecSize \in Nat \ {0}  BY Sizes_
<1>2. /\ Misalignment(n, SecSize) \in 0 .. SecSize - 1
      /\ (n + Misalignment(n, SecSize)) % SecSize = 0
      /\ n % SecSize = 0 => Misalignment(n, SecSize) = 0
  BY <1>1, MisalignmentFacts
<1> QED  BY <1>1, <1>2 DEF SectorEnd

\* SectorEnd(n) is the first sector boundary at or above n.
LEMMA SectorEndLeast ==
  ASSUME NEW n \in Nat, NEW c \in Nat, c % SecSize = 0, n <= c
  PROVE  SectorEnd(n) <= c
<1>1. SUFFICES ASSUME c < SectorEnd(n) PROVE FALSE  BY SectorEndFacts
<1>2. c + SecSize <= SectorEnd(n)  BY <1>1, SectorEndFacts, BlocksApart, Sizes_
<1> QED  BY <1>2, SectorEndFacts, Sizes_

LEMMA SectorEndMonotone ==
  ASSUME NEW m \in Nat, NEW n \in Nat, m <= n
  PROVE  SectorEnd(m) <= SectorEnd(n)
BY SectorEndFacts, SectorEndLeast

\* A block boundary is a sector boundary.
LEMMA BlockIsSectors ==
  ASSUME NEW c \in Nat, c % BlkSize = 0
  PROVE  c % SecSize = 0
<1>1. PICK k \in 2 .. BlkSize : BlkSize = SecSize * k  BY Sizes_
<1> DEFINE q == c \div BlkSize
<1>2. q \in Nat /\ c = BlkSize * q
  <2>1. BlkSize \in Nat \ {0}  BY Sizes_
  <2>2. q \in Nat /\ c = BlkSize * q + (c % BlkSize)  BY <2>1, Division
  <2> HIDE DEF q
  <2>3. BlkSize * q \in Nat  BY <2>1, <2>2
  <2> QED  BY <2>2, <2>3
<1> HIDE DEF q
<1>3. BlkSize * q = SecSize * (k * q)  BY <1>1, <1>2, Sizes_
<1>4. k * q \in Nat  BY <1>2
<1>5. (SecSize * (k * q) + 0) % SecSize = 0
  <2> DEFINE p == k * q
  <2>1. p \in Nat /\ 0 \in 0 .. SecSize - 1 /\ SecSize \in Nat \ {0}  BY <1>4, Sizes_
  <2> HIDE DEF p
  <2>2. (SecSize * p + 0) % SecSize = 0  BY <2>1, Remainder
  <2> QED  BY <2>2 DEF p
<1>6. SecSize * (k * q) + 0 = c
  <2>1. SecSize * (k * q) = c /\ c \in Int  BY <1>2, <1>3
  <2> QED  BY <2>1
<1> QED  BY <1>5, <1>6

\* The flush writes from the block of pos to the end of its sector, or, when
\* that is the end of the block, nothing.
LEMMA FlushGeometry ==
  ASSUME pos \in Nat
  PROVE  LET B == BlockStart(pos)
             E == SectorEnd(pos)
         IN  /\ B \in Nat /\ E \in Nat /\ B <= pos /\ pos <= E /\ E <= B + BlkSize
             /\ E = B + BlkSize => FlushSize = 0
             /\ E # B + BlkSize => FlushSize = E - B
             /\ FlushSize = 0 /\ ~PartialLastSector(pos) => E = B /\ pos = B
<1> DEFINE B == BlockStart(pos)
           E == SectorEnd(pos)
<1>1. /\ B \in Nat /\ B <= pos /\ pos < B + BlkSize /\ B % BlkSize = 0 /\ BlkSize \in Nat \ {0}
      /\ pos % BlkSize = pos - B
  BY BlockStartFacts, Sizes_
<1>2. E \in Nat /\ pos <= E /\ (pos % SecSize = 0 => E = pos)  BY SectorEndFacts
<1>3. (B + BlkSize) % BlkSize = 0  BY <1>1, NextBlock
<1>4. (B + BlkSize) % SecSize = 0 /\ B + BlkSize \in Nat  BY <1>1, <1>3, BlockIsSectors
<1>5. E <= B + BlkSize  BY <1>1, <1>4, SectorEndLeast
<1>6. FlushSize = E % BlkSize  BY DEF FlushSize
<1>7. ~PartialLastSector(pos) => pos % SecSize = 0 \/ E % BlkSize # 0
  BY DEF PartialLastSector
<1> HIDE DEF B, E
<1>8. CASE E = B + BlkSize
  <2>1. FlushSize = 0  BY <1>3, <1>6, <1>8
  <2>2. ASSUME ~PartialLastSector(pos) PROVE FALSE
    BY <1>1, <1>2, <1>3, <1>7, <1>8, <2>2
  <2> QED  BY <1>1, <1>2, <1>5, <1>8, <2>1, <2>2, Sizes_ DEF B, E
<1>9. CASE E # B + BlkSize
  <2>1. E - B \in 0 .. BlkSize - 1 /\ B + (E - B) = E  BY <1>1, <1>2, <1>5, <1>9
  <2>2. (B + (E - B)) % BlkSize = E - B  BY <1>1, <2>1, InBlock
  <2>3. FlushSize = E - B  BY <1>6, <2>1, <2>2
  <2>4. FlushSize = 0 => E = B /\ pos = B  BY <1>1, <1>2, <2>3
  <2> QED  BY <1>1, <1>2, <1>5, <1>9, <2>3, <2>4 DEF B, E
<1> QED  BY <1>8, <1>9

-----------------------------------------------------------------------------
(* Nothing behind the stream, and the flush.                               *)

\* A failed write leaves every byte outside of its range alone.
LEMMA DevWriteBounds ==
  ASSUME DevTypeOK, NEW at \in Nat, NEW n \in Nat, NEW src, NEW skip,
         DevWrite(at, n, src, skip) \/ DevWriteFails(at, n, src, skip),
         NEW a \in Addr, a < at \/ a >= at + n
  PROVE  disk'[a] = disk[a]
<1>1. DOMAIN disk = Addr /\ a \in Int  BY Sizes_ DEF DevTypeOK, Addr
<1>2. PICK k \in 0 .. n : disk' = Patch(disk, at, k, src, skip)
  BY DEF DevWrite, DevWriteFails
<1>3. ~(at <= a /\ a < at + k)  BY <1>1
<1> QED  BY <1>1, <1>2, <1>3 DEF Patch

LEMMA BeyondStep == Shape /\ NothingBeyond /\ [Next]_vars => NothingBeyond'
<1> SUFFICES ASSUME Shape, NothingBeyond, [Next]_vars PROVE NothingBeyond'  OBVIOUS
<1> USE DEF NothingBeyond
<1>0. /\ pos \in Nat /\ cur \in Nat /\ target \in Nat /\ closedAt \in Nat /\ DevTypeOK
      /\ BlkSize \in Nat \ {0}
      /\ \A a \in Addr : a \in Nat
  BY Sizes_ DEF Shape, TypeOK, Addr
<1>1. CASE Open
  BY <1>1 DEF Open, DevOpen, DevOpenFails, devVars, histVars, Addr
<1>2. CASE EraseAll
  BY <1>2 DEF EraseAll, Addr
<1>3. ASSUME NEW call, NEW end \in Nat, pos < end, NEW bytes, NEW src,
             Ready, AlignToBuffer(call, end, bytes, src)
      PROVE  NothingBeyond'
  <2>1. target = pos /\ err = "none"  BY <1>3 DEF Ready, Shape, Control
  <2>2. target' = end /\ UNCHANGED <<disk, pos, base, closedAt>>
    BY <1>3 DEF AlignToBuffer, devVars, histVars
  <2>3. \A a \in Addr : a >= end => a >= target  BY <1>0, <1>3, <2>1
  <2> QED  BY <2>1, <2>2, <2>3 DEF Addr
<1>4. ASSUME NEW res, Ready, ReturnEarly(res) PROVE NothingBeyond'
  BY <1>4 DEF Ready, ReturnEarly, devVars, callVars, histVars, Addr
<1>5. ASSUME NEW offset \in Offsets, FillCall(offset) PROVE NothingBeyond'
  <2>1. offset \in Nat /\ Ready  BY <1>5, WriterAssumption DEF FillCall
  <2> QED  BY <1>0, <1>3, <1>4, <1>5, <2>1 DEF FillCall
<1>6. ASSUME NEW size \in Sizes, WriteCall(size, Given(size)) PROVE NothingBeyond'
  <2>1. size \in Nat /\ Ready /\ pos + size \in Nat /\ (size > 0 => pos < pos + size)
    BY <1>0, <1>6, WriterAssumption DEF WriteCall
  <2> QED  BY <1>3, <1>4, <1>6, <2>1 DEF WriteCall
<1>7. CASE ReturnError  BY <1>7 DEF ReturnError
<1>8. ASSUME step \in {"head", "body"}, BlockStart(cur) + BlkSize <= target, NEW src, NEW skip,
             DevWrite(BlockStart(cur), BlkSize, src, skip),
             UNCHANGED <<pos, target, closedAt, base, err>>
      PROVE  NothingBeyond'
  <2>1. BlockStart(cur) \in Nat  BY <1>0, BlockStartFacts
  <2>2. ASSUME NEW a \in Addr, a >= target PROVE disk'[a] = disk[a]
    <3>1. a >= BlockStart(cur) + BlkSize  BY <1>0, <1>8, <2>1, <2>2
    <3> QED  BY <1>0, <1>8, <2>1, <3>1, DevWriteBounds
  <2> QED  BY <1>8, <2>2 DEF Addr
<1>9. CASE FlushHead
  BY <1>7, <1>8, <1>9 DEF FlushHead, Shape, Control, histVars
<1>10. CASE FillBlock \/ WriteBlock
  <2>1. step = "body" /\ cur % BlkSize = 0 /\ cur + BlkSize <= target
    BY <1>10, BlockFits DEF FillBlock, WriteBlock
  <2>2. BlockStart(cur) = cur  BY <1>0, <2>1 DEF BlockStart
  <2> QED  BY <1>7, <1>8, <1>10, <2>1, <2>2 DEF FillBlock, WriteBlock, histVars
<1>11. CASE FillDone \/ WriteDone
  <2>1. step = "body" /\ UNCHANGED devVars  BY <1>11 DEF FillDone, WriteDone
  <2>2. pos' = target /\ UNCHANGED <<target, closedAt, base>>
    BY <1>11 DEF FillDone, WriteDone, ReturnOk
  <2>3. pos < target /\ err = "none"  BY <2>1 DEF Shape, Control
  <2>4. SectorEnd(pos) <= SectorEnd(target) /\ SectorEnd(pos) \in Nat /\ SectorEnd(target) \in Nat
    BY <1>0, <2>3, SectorEndMonotone, SectorEndFacts
  <2>5. \A a \in Addr : a >= SectorEnd(pos') => a >= SectorEnd(pos)  BY <1>0, <2>2, <2>4
  <2> QED  BY <2>1, <2>2, <2>3, <2>5 DEF devVars, Addr
<1>12. CASE CloseFlush
  <2>1. UNCHANGED <<pos, target, err, closedAt, base>>  BY <1>12 DEF CloseFlush, histVars
  <2>2. ASSUME NEW a \in Addr, a >= SectorEnd(pos) PROVE disk'[a] = disk[a]
    <3>1. CASE UNCHANGED devVars  BY <3>1 DEF devVars
    <3>2. ASSUME NEW src, DevWrite(BlockStart(pos), FlushSize, src, 0)
                          \/ DevWriteFails(BlockStart(pos), FlushSize, src, 0)
          PROVE  disk'[a] = disk[a]
      <4>1. /\ BlockStart(pos) \in Nat /\ FlushSize \in Nat
            /\ BlockStart(pos) + FlushSize <= SectorEnd(pos) /\ SectorEnd(pos) \in Nat
        BY <1>0, FlushGeometry
      <4>2. a >= BlockStart(pos) + FlushSize  BY <1>0, <2>2, <4>1
      <4> QED  BY <1>0, <3>2, <4>1, <4>2, DevWriteBounds
    <3> QED  BY <1>12, <3>1, <3>2 DEF CloseFlush
  <2> QED  BY <2>1, <2>2 DEF Addr
<1>13. CASE CloseDev
  <2>1. /\ step = "closing" /\ target = pos /\ closedAt = 0 /\ closedAt' = pos /\ err' = err
        /\ disk' = disk /\ base' = base
    BY <1>13 DEF CloseDev, DevClose, Shape, Control
  <2>2. SectorEnd(0) = 0
    <3>1. 0 % SecSize = 0  BY Sizes_
    <3> QED  BY <3>1, SectorEndFacts
  <2>3. pos <= SectorEnd(pos) /\ SectorEnd(pos) \in Nat  BY <1>0, SectorEndFacts
  <2>4. \A a \in Addr : a >= SectorEnd(closedAt') => a >= SectorEnd(pos) /\ a >= target /\ a >= SectorEnd(closedAt)
    BY <1>0, <2>1, <2>2, <2>3
  <2> QED  BY <2>1, <2>4 DEF Addr
<1>14. CASE UNCHANGED vars
  BY <1>14 DEF vars, writerVars, callVars, histVars, devVars, Addr
<1> QED
  BY <1>1, <1>2, <1>5, <1>6, <1>9, <1>10, <1>11, <1>12, <1>13, <1>14 DEF Next, CallStep, Given

\* Between the flush and the end of close() the card holds what it will be left with.
ClosingFlushed ==
  step = "closing" /\ closeRes = "ok" /\ err = "none" /\ ~PartialLastSector(pos)
    => Flushed(pos)

\* Every card cell after the flush: the stream, the padding, what was there before.
LEMMA FlushCells ==
  ASSUME Shape, StreamStored, CloseFlush, closeRes' = "ok", err = "none",
         ~PartialLastSector(pos), NEW a \in Addr
  PROVE  disk'[a] = IF a < pos THEN stream[a] ELSE IF a < SectorEnd(pos) THEN Zero ELSE disk[a]
<1> DEFINE B == BlockStart(pos)
           E == SectorEnd(pos)
           padded == Patch(buf, pos % BlkSize, Misalignment(pos, SecSize), Zeros, 0)
<1>1. /\ step = "idle" /\ cur = pos
      /\ pos \in Nat /\ buf \in [0 .. BlkSize - 1 -> Cell] /\ BlkSize \in Nat \ {0} /\ DevTypeOK
      /\ a \in Nat
  BY Sizes_ DEF CloseFlush, Shape, TypeOK, Control, Addr
<1>2. /\ B \in Nat /\ E \in Nat /\ B <= pos /\ pos <= E /\ E <= B + BlkSize
      /\ E = B + BlkSize => FlushSize = 0
      /\ E # B + BlkSize => FlushSize = E - B
      /\ FlushSize = 0 => E = B /\ pos = B
  BY <1>1, FlushGeometry
<1>3. \/ FlushSize = 0 /\ disk' = disk
      \/ FlushSize > 0 /\ DevWrite(B, FlushSize, padded, 0)
  BY DEF CloseFlush, devVars
<1>4. ASSUME a < B  PROVE disk[a] = stream[a]
  <2>1. a \in 0 .. BlockStart(cur) - 1 /\ a < pos  BY <1>1, <1>2, <1>4
  <2> QED  BY <1>1, <2>1 DEF StreamStored, OnCard, Expected
<1>5. ASSUME a \in B .. E - 1, FlushSize > 0
      PROVE  padded[a - B] = IF a < pos THEN stream[a] ELSE Zero
  <2> DEFINE at == pos % BlkSize
             n == Misalignment(pos, SecSize)
  <2>1. at = pos - B /\ n = E - pos
    <3>1. n \in Int  BY <1>1, MisalignmentFacts, Sizes_
    <3> QED  BY <1>1, <3>1, BlockStartFacts DEF SectorEnd
  <2>2. padded = Patch(buf, at, n, Zeros, 0)  OBVIOUS
  <2> HIDE DEF B, E, padded, at, n
  <2>3. a - B \in 0 .. BlkSize - 1 /\ at \in Nat /\ n \in Nat /\ a \in Nat
    BY <1>1, <1>2, <1>5, <2>1
  <2>4. CASE a < pos
    <3>1. padded[a - B] = buf[a - B]
      <4>1. a - B < at  BY <1>1, <1>2, <2>1, <2>3, <2>4
      <4> QED  BY <1>1, <2>2, <2>3, <4>1, BufferEffect
    <3>2. a \in B .. B + BlkSize - 1  BY <1>1, <1>2, <2>3
    <3>3. a % BlkSize = a - B  BY <1>1, <3>2, Slot DEF B
    <3>4. a \in BlockStart(cur) .. Gathered - 1  BY <1>1, <1>2, <1>5, <2>3, <2>4 DEF B, Gathered
    <3>5. buf[a % BlkSize] = stream[a]
      BY <1>1, <2>4, <3>4 DEF StreamStored, InBuffer, Expected
    <3> QED  BY <2>4, <3>1, <3>3, <3>5
  <2>5. CASE a >= pos
    <3> DEFINE i == a - B
    <3>1. i \in 0 .. BlkSize - 1 /\ i >= at /\ i < at + n /\ 0 + (i - at) \in 0 .. BlkSize - 1
      BY <1>1, <1>2, <1>5, <2>1, <2>3, <2>5
    <3>2. \A k \in 0 .. BlkSize - 1 : k >= at /\ k < at + n => padded[k] = Zeros[0 + (k - at)]
      BY <1>1, <2>2, <2>3, BufferEffect
    <3> HIDE DEF i
    <3>3. Zeros[0 + (i - at)] = Zero  BY <3>1 DEF Zeros
    <3>4. ~(a < pos)  BY <1>1, <2>3, <2>5
    <3> QED  BY <3>1, <3>2, <3>3, <3>4 DEF i
  <2> QED  BY <1>1, <2>3, <2>4, <2>5
<1> HIDE DEF B, padded
<1>6. SUFFICES disk'[a] = IF a < pos THEN stream[a] ELSE IF a < E THEN Zero ELSE disk[a]
  OBVIOUS
<1> HIDE DEF E
<1>7. CASE FlushSize = 0 /\ disk' = disk
  <2>1. E = B /\ pos = B  BY <1>2, <1>7
  <2> QED  BY <1>1, <1>2, <1>4, <1>7, <2>1
<1>8. CASE FlushSize > 0 /\ DevWrite(B, FlushSize, padded, 0)
  <2>1. FlushSize = E - B /\ FlushSize \in Nat  BY <1>1, <1>2, <1>8
  <2>2. ASSUME a < B \/ a >= E PROVE disk'[a] = disk[a]
    <3>1. a < B \/ a >= B + FlushSize  BY <1>1, <1>2, <2>1, <2>2
    <3> QED  BY <1>1, <1>2, <1>8, <2>1, <3>1, DevWriteEffect
  <2>3. ASSUME a >= B, a < E PROVE disk'[a] = IF a < pos THEN stream[a] ELSE Zero
    <3>1. a \in B .. B + FlushSize - 1 /\ a \in B .. E - 1 /\ 0 + (a - B) = a - B
      BY <1>1, <1>2, <2>1, <2>3
    <3>2. disk'[a] = padded[0 + (a - B)]
      BY <1>1, <1>2, <1>8, <2>1, <3>1, DevWriteEffect
    <3> QED  BY <1>1, <1>5, <1>8, <3>1, <3>2
  <2> QED  BY <1>1, <1>2, <1>4, <2>2, <2>3
<1> QED  BY <1>3, <1>7, <1>8 DEF B, padded

\* The same from what the card held before the writer's first byte.
LEMMA FlushWrites ==
  ASSUME Shape, StreamStored, NothingBeyond, CloseFlush, closeRes' = "ok", err = "none",
         ~PartialLastSector(pos)
  PROVE  Flushed(pos)'
<1>1. /\ target = pos /\ closedAt = 0 /\ pos \in Nat /\ \A a \in Addr : a \in Nat
      /\ SectorEnd(pos) \in Nat /\ SectorEnd(pos) >= pos
  <2>1. step = "idle" /\ pos \in Nat /\ target = pos /\ closedAt = 0
    BY DEF CloseFlush, Shape, TypeOK, Control
  <2> QED  BY <2>1, FlushGeometry, Sizes_ DEF Addr
<1>2. UNCHANGED <<pos, stream, base>>  BY DEF CloseFlush, histVars
<1>3. \A a \in Addr : a >= SectorEnd(pos) => disk[a] = base[a]
  <2>1. SectorEnd(0) = 0
    <3>1. 0 % SecSize = 0  BY Sizes_
    <3> QED  BY <3>1, SectorEndFacts
  <2> QED  BY <1>1, <2>1 DEF NothingBeyond
<1>4. SUFFICES ASSUME NEW a \in Addr
               PROVE  disk'[a] = IF a < pos THEN stream[a]
                                 ELSE IF a < SectorEnd(pos) THEN Zero ELSE base[a]
  BY <1>2 DEF Flushed, Addr, SectorEnd, Misalignment
<1> QED  BY <1>1, <1>3, FlushCells

WriterInv ==
  /\ Shape
  /\ StreamStored
  /\ NothingBeyond
  /\ ClosingFlushed
  /\ FlushedOnClose

LEMMA WriterInvStep == WriterInv /\ [Next]_vars => WriterInv'
<1> SUFFICES ASSUME WriterInv, [Next]_vars PROVE WriterInv'  OBVIOUS
<1>1. (Shape /\ StreamStored /\ NothingBeyond)'
  BY ShapeStep, StreamStep, BeyondStep DEF WriterInv
<1>2. CASE CloseFlush
  <2>1. step' = "closing" /\ UNCHANGED <<pos, err>>  BY <1>2 DEF CloseFlush
  <2>2. PartialLastSector(pos)' = PartialLastSector(pos)
    BY <2>1 DEF PartialLastSector, SectorEnd, Misalignment
  <2>3. ClosingFlushed'
    BY <1>2, <2>1, <2>2, FlushWrites DEF WriterInv, ClosingFlushed
  <2> QED  BY <1>1, <2>1, <2>3 DEF WriterInv, FlushedOnClose
<1>3. CASE CloseDev
  <2>1. /\ step = "closing" /\ step' = "closed" /\ closedAt' = pos
        /\ UNCHANGED <<err, closeRes, stream, base, disk>>
    BY <1>3 DEF CloseDev, DevClose
  <2>2. /\ PartialLastSector(closedAt)' = PartialLastSector(pos)
        /\ Flushed(closedAt)' = Flushed(pos)
    BY <2>1 DEF PartialLastSector, SectorEnd, Misalignment, Flushed, Addr
  <2> QED  BY <1>1, <2>1, <2>2 DEF WriterInv, ClosingFlushed, FlushedOnClose
<1>4. CASE Open
  BY <1>1, <1>4 DEF Open, Shape, Control, WriterInv, ClosingFlushed, FlushedOnClose
<1>5. CASE EraseAll
  BY <1>1, <1>5 DEF EraseAll, Ready, WriterInv, ClosingFlushed, FlushedOnClose
<1>6. CASE \/ \E offset \in Offsets : FillCall(offset)
           \/ \E size \in Sizes : WriteCall(size, Given(size))
  <2>1. step' \in {"idle", "head", "body"}
    BY <1>6 DEF FillCall, WriteCall, Ready, ReturnEarly, AlignToBuffer, callVars
  <2> QED  BY <1>1, <2>1 DEF WriterInv, ClosingFlushed, FlushedOnClose
<1>7. CASE FlushHead \/ FillBlock \/ FillDone \/ WriteBlock \/ WriteDone
  <2>1. step' \in {"idle", "body"}
    BY <1>7 DEF FlushHead, FillBlock, FillDone, WriteBlock, WriteDone, ReturnError, ReturnOk
  <2> QED  BY <1>1, <2>1 DEF WriterInv, ClosingFlushed, FlushedOnClose
<1>8. CASE UNCHANGED vars
  BY <1>1, <1>8 DEF vars, writerVars, callVars, histVars, devVars, WriterInv, ClosingFlushed,
     FlushedOnClose, Flushed, PartialLastSector, SectorEnd, Misalignment, Addr
<1> QED
  BY <1>2, <1>3, <1>4, <1>5, <1>6, <1>7, <1>8 DEF Next, CallStep, Given

\* The inductive invariant of the writer.
THEOREM WriterInvariant == Spec => []WriterInv
<1>1. Init => WriterInv
  BY ShapeInit DEF Init, DevInit, WriterInv, StreamStored, NothingBeyond, ClosingFlushed,
     FlushedOnClose, Addr
<1> QED  BY <1>1, WriterInvStep, PTL DEF Spec

\* While no device write has failed, fill, write and close touch nothing behind
\* the sector the stream ends in.
THEOREM NothingIsBeyond == Spec => []NothingBeyond
<1>1. WriterInv => NothingBeyond  BY DEF WriterInv
<1> QED  BY <1>1, WriterInvariant, PTL

\* A close() that returns 0 leaves exactly the stream, its padding and the old
\* rest on the card, unless the stream ends inside the last sector of a block.
THEOREM CloseFlushes == Spec => []FlushedOnClose
<1>1. WriterInv => FlushedOnClose  BY DEF WriterInv
<1> QED  BY <1>1, WriterInvariant, PTL

-----------------------------------------------------------------------------
(* The page cache, and memory nobody has written.                          *)

\* A card that was not opened has no write in the page cache.
SyncedBefore == step = "new" => durable

LEMMA DirtyStep ==
  SyncedBefore /\ UnsyncedIsDirty /\ [Next]_vars => (SyncedBefore /\ UnsyncedIsDirty)'
<1> SUFFICES ASSUME SyncedBefore, UnsyncedIsDirty, [Next]_vars
             PROVE  (SyncedBefore /\ UnsyncedIsDirty)'
  OBVIOUS
<1> USE DEF SyncedBefore, UnsyncedIsDirty
<1>1. CASE Open
  BY <1>1 DEF Open, DevOpen, DevOpenFails, devVars
<1>2. CASE EraseAll
  BY <1>2 DEF EraseAll, Ready, DevErase
<1>3. CASE \/ \E offset \in Offsets : FillCall(offset)
           \/ \E size \in Sizes : WriteCall(size, Given(size))
  BY <1>3 DEF FillCall, WriteCall, Ready, ReturnEarly, AlignToBuffer, devVars, callVars
<1>4. CASE CloseFlush
  BY <1>4 DEF CloseFlush, DevWrite, DevWriteFails, devVars
<1>5. CASE CloseDev
  BY <1>5 DEF CloseDev, DevClose
<1>6. CASE FlushHead \/ FillBlock \/ WriteBlock
  BY <1>6 DEF FlushHead, FillBlock, WriteBlock, ReturnError, DevWrite, DevWriteFails
<1>7. CASE FillDone \/ WriteDone
  BY <1>7 DEF FillDone, WriteDone, ReturnOk, devVars
<1>8. CASE UNCHANGED vars
  BY <1>8 DEF vars, writerVars, callVars, devVars
<1> QED
  BY <1>1, <1>2, <1>3, <1>4, <1>5, <1>6, <1>7, <1>8 DEF Next, CallStep, Given

\* While the device is open, a write that waits in the page cache has marked it
\* dirty: BlockDev::close() never skips the fsync of a card that was written.
THEOREM DirtyIsKnown == Spec => []UnsyncedIsDirty
<1>1. Init => SyncedBefore /\ UnsyncedIsDirty
  BY DEF Init, DevInit, SyncedBefore, UnsyncedIsDirty
<1> QED  BY <1>1, DirtyStep, PTL DEF Spec

\* How much of the buffer somebody has written since it was allocated.
Written == IF step = "head" THEN BlkSize ELSE cur % BlkSize

\* Up to there, and up to where an error leaves the position, there is no junk.
CleanBuffer ==
  \A i \in 0 .. BlkSize - 1 : i < pos % BlkSize \/ i < Written => buf[i] # Junk

\* Nor in the bytes of the caller.
CleanData ==
  step \in {"head", "body"} /\ op = "write" =>
    \A i \in 0 .. target - pos - 1 : data[i] # Junk

Clean == CleanBuffer /\ CleanData /\ NoJunkOnCard

LEMMA NoJunkGiven == /\ Zero # Junk /\ Old # Junk /\ Trimmed # Junk
                     /\ \A a \in 0 .. Word - 1 : Payload[a] # Junk
BY WriterAssumption

LEMMA PatchClean ==
  ASSUME NEW f, NEW at \in Nat, NEW n \in Nat, NEW src, NEW skip, NEW i \in DOMAIN f,
         at <= i /\ i < at + n => src[skip + (i - at)] # Junk,
         ~(at <= i /\ i < at + n) => f[i] # Junk
  PROVE  Patch(f, at, n, src, skip)[i] # Junk
BY DEF Patch

\* What is written, or the part of it that is, has no junk in it.
LEMMA CardClean ==
  ASSUME DevTypeOK, NoJunkOnCard, NEW at \in Nat, NEW n \in Nat, NEW src, NEW skip \in Nat,
         \A j \in 0 .. n - 1 : src[skip + j] # Junk,
         DevWrite(at, n, src, skip) \/ DevWriteFails(at, n, src, skip)
  PROVE  NoJunkOnCard'
<1>1. DOMAIN disk = Addr /\ Addr \in SUBSET Nat  BY Sizes_ DEF DevTypeOK, Addr
<1>2. PICK k \in 0 .. n : disk' = Patch(disk, at, k, src, skip)
  BY DEF DevWrite, DevWriteFails
<1>3. ASSUME NEW a \in Addr PROVE disk'[a] # Junk
  <2>1. at <= a /\ a < at + k => src[skip + (a - at)] # Junk
    <3>1. at <= a /\ a < at + k => a - at \in 0 .. n - 1  BY <1>1
    <3> QED  BY <3>1
  <2> QED  BY <1>1, <1>2, <2>1, PatchClean DEF NoJunkOnCard
<1> QED  BY <1>3 DEF NoJunkOnCard, Addr

LEMMA CleanAlignToBuffer ==
  ASSUME Shape, Clean, Ready, NEW call \in {"fill", "write"}, NEW end \in Nat, pos < end,
         NEW bytes, NEW src,
         call = "write" => \A i \in 0 .. end - pos - 1 : bytes[i] # Junk,
         \A i \in 0 .. Lesser(end - pos, Misalignment(pos, BlkSize)) - 1 : src[i] # Junk,
         AlignToBuffer(call, end, bytes, src)
  PROVE  Clean'
<1> DEFINE m == Misalignment(pos, BlkSize)
           n == Lesser(end - pos, m)
           at == pos % BlkSize
           full == m > 0 /\ n = m
<1>1. /\ m \in 0 .. BlkSize - 1 /\ n \in 0 .. BlkSize - 1 /\ n <= m
      /\ n = m \/ n = end - pos
      /\ at \in 0 .. BlkSize - 1
      /\ m > 0 => pos + m = BlockStart(pos) + BlkSize
      /\ m = 0 => at = 0
  BY AlignFacts
<1>2. /\ step = "idle" /\ cur = pos /\ pos \in Nat /\ BlkSize \in Nat \ {0}
      /\ buf \in [0 .. BlkSize - 1 -> Cell]
  BY Sizes_ DEF Ready, Shape, TypeOK, Control
<1>3. /\ buf' = Patch(buf, at, n, src, 0)
      /\ op' = call /\ target' = end /\ data' = bytes
      /\ step' = (IF full THEN "head" ELSE "body")
      /\ cur' = (IF full THEN pos ELSE pos + n)
      /\ UNCHANGED <<disk, pos>>
  BY DEF AlignToBuffer, devVars
<1>4. at = pos - BlockStart(pos) /\ BlockStart(pos) \in Nat /\ BlockStart(pos) % BlkSize = 0
  BY <1>2, BlockStartFacts
<1>5. \A i \in 0 .. n - 1 : src[i] # Junk  OBVIOUS
<1> HIDE DEF m, n, at
<1>6. Written' <= at + n
  <2>1. CASE full  BY <1>1, <1>2, <1>3, <1>4, <2>1 DEF Written
  <2>2. CASE ~full
    <3>1. CASE n = 0 /\ m = 0
      BY <1>1, <1>2, <1>3, <2>2, <3>1 DEF Written, at
    <3>2. CASE n < m
      <4>1. at + n \in 0 .. BlkSize - 1  BY <1>1, <1>2, <1>4, <3>2
      <4>2. (BlockStart(pos) + (at + n)) % BlkSize = at + n
        BY <1>2, <1>4, <4>1, InBlock
      <4>3. BlockStart(pos) + (at + n) = pos + n  BY <1>1, <1>2, <1>4
      <4> QED  BY <1>3, <2>2, <4>2, <4>3, <4>1 DEF Written
    <3> QED  BY <1>1, <2>2, <3>1, <3>2
  <2> QED  BY <2>1, <2>2
<1>7. CleanBuffer'
  <2> SUFFICES ASSUME NEW i \in 0 .. BlkSize - 1, i < at \/ i < Written'
               PROVE  buf'[i] # Junk
    BY <1>3 DEF CleanBuffer, at
  <2>1. at \in Nat /\ n \in Nat /\ Written' \in Nat
    <3>1. cur' \in Nat  BY <1>1, <1>2, <1>3
    <3>2. \A c \in Nat : c % BlkSize \in Nat  BY <1>2, Division
    <3>3. cur' % BlkSize \in Nat  BY <3>1, <3>2
    <3>4. Written' = IF step' = "head" THEN BlkSize ELSE cur' % BlkSize  BY DEF Written
    <3>5. Written' \in Nat  BY <1>2, <3>3, <3>4
    <3> QED  BY <1>1, <3>5
  <2>2. i < at + n  BY <1>6, <2>1
  <2>3. at <= i /\ i < at + n => src[0 + (i - at)] # Junk
    <3>1. at <= i /\ i < at + n => 0 + (i - at) \in 0 .. n - 1  BY <2>1
    <3> QED  BY <1>5, <3>1
  <2>4. i < at => buf[i] # Junk  BY DEF Clean, CleanBuffer, at
  <2>5. ~(at <= i /\ i < at + n) => buf[i] # Junk  BY <2>1, <2>2, <2>4
  <2> QED  BY <1>2, <1>3, <2>1, <2>3, <2>5, PatchClean
<1>8. CleanData'  BY <1>3 DEF CleanData
<1>9. NoJunkOnCard'  BY <1>3 DEF Clean, NoJunkOnCard, Addr
<1> QED  BY <1>7, <1>8, <1>9 DEF Clean

\* The end of a call: the rest of it is at the start of the buffer.
LEMMA CleanReturnOk ==
  ASSUME Shape, Clean, step = "body", UNCHANGED devVars, target - cur \in 0 .. BlkSize - 1,
         NEW src, NEW skip \in Nat,
         \A j \in 0 .. target - cur - 1 : src[skip + j] # Junk,
         buf' = Patch(buf, 0, target - cur, src, skip), NEW taken, ReturnOk(taken)
  PROVE  Clean'
<1>1. /\ cur \in Nat /\ target \in Nat /\ BlkSize \in Nat \ {0} /\ cur <= target
      /\ cur % BlkSize = 0 \/ cur = target
      /\ buf \in [0 .. BlkSize - 1 -> Cell]
  BY Sizes_ DEF Shape, TypeOK, Control
<1>2. step' = "idle" /\ pos' = target /\ cur' = target  BY DEF ReturnOk
<1>3. CleanBuffer'
  <2> SUFFICES ASSUME NEW i \in 0 .. BlkSize - 1, i < target % BlkSize
               PROVE  buf'[i] # Junk
    BY <1>2 DEF CleanBuffer, Written
  <2> DEFINE n == target - cur
  <2>1. n \in Nat  BY <1>1
  <2>2. 0 <= i /\ i < 0 + n => src[skip + (i - 0)] # Junk  BY <2>1
  <2>3. ~(0 <= i /\ i < 0 + n) => buf[i] # Junk
    <3>1. CASE cur = target  BY <3>1 DEF Clean, CleanBuffer, Written
    <3>2. CASE cur % BlkSize = 0
      <4>1. (cur + n) % BlkSize = n  BY <1>1, <3>2, InBlock
      <4> QED  BY <1>1, <2>1, <4>1
    <3> QED  BY <1>1, <3>1, <3>2
  <2> QED  BY <1>1, <2>1, <2>2, <2>3, PatchClean
<1>4. CleanData'  BY <1>2 DEF CleanData
<1> QED  BY <1>3, <1>4 DEF Clean, NoJunkOnCard, devVars, Addr

LEMMA CleanReturnError ==
  ASSUME Shape, Clean, ReturnError, NoJunkOnCard', buf' = buf \/ buf' = Zeros
  PROVE  Clean'
<1>1. step' = "idle" /\ cur' = pos /\ pos' = pos  BY DEF ReturnError
<1>2. \A i \in 0 .. BlkSize - 1 : Zeros[i] # Junk  BY NoJunkGiven DEF Zeros
<1>3. CleanBuffer'  BY <1>1, <1>2 DEF Clean, CleanBuffer, Written
<1> QED  BY <1>1, <1>3 DEF Clean, CleanData

LEMMA CleanFlush ==
  ASSUME Shape, Clean, CloseFlush
  PROVE  Clean'
<1> DEFINE at == pos % BlkSize
           n == Misalignment(pos, SecSize)
           padded == Patch(buf, at, n, Zeros, 0)
<1>1. /\ step = "idle" /\ cur = pos /\ pos \in Nat /\ BlkSize \in Nat \ {0} /\ DevTypeOK
      /\ buf \in [0 .. BlkSize - 1 -> Cell]
  BY Sizes_ DEF CloseFlush, Shape, TypeOK, Control
<1>2. /\ step' = "closing" /\ buf' = padded /\ UNCHANGED <<pos, cur>>
      /\ \/ UNCHANGED devVars
         \/ /\ FlushSize > 0
            /\ DevWrite(BlockStart(pos), FlushSize, padded, 0)
               \/ DevWriteFails(BlockStart(pos), FlushSize, padded, 0)
  BY DEF CloseFlush
<1>3. at = pos - BlockStart(pos) /\ at \in Nat /\ n \in Nat /\ n = SectorEnd(pos) - pos
  <2>1. n \in Nat  BY <1>1, MisalignmentFacts, Sizes_
  <2>2. at = pos - BlockStart(pos)  BY <1>1, BlockStartFacts
  <2>3. at \in Nat
    <3>1. pos % BlkSize \in 0 .. BlkSize - 1  BY <1>1, Division
    <3> QED  BY <1>1, <3>1
  <2>4. SectorEnd(pos) = pos + n  BY DEF SectorEnd
  <2> QED  BY <1>1, <2>1, <2>2, <2>3, <2>4
<1>4. FlushSize \in Nat /\ FlushSize <= at + n /\ FlushSize < BlkSize /\ BlockStart(pos) \in Nat
  <2> DEFINE F == FlushSize
             B == BlockStart(pos)
             E == SectorEnd(pos)
  <2>1. /\ B \in Nat /\ E \in Nat /\ B <= pos /\ pos <= E /\ E <= B + BlkSize
        /\ E = B + BlkSize => F = 0
        /\ E # B + BlkSize => F = E - B
    BY <1>1, FlushGeometry
  <2>2. at = pos - B /\ n = E - pos  BY <1>3
  <2> HIDE DEF F, B, E, at, n
  <2>3. F \in Nat /\ F <= at + n /\ F < BlkSize  BY <1>1, <2>1, <2>2
  <2> QED  BY <2>1, <2>3 DEF F, B
<1>5. \A i \in 0 .. BlkSize - 1 : i < at => buf[i] # Junk
  BY DEF Clean, CleanBuffer
<1>6. \A i \in 0 .. BlkSize - 1 : Zeros[i] # Junk  BY NoJunkGiven DEF Zeros
<1> HIDE DEF at, n
<1>7. \A i \in 0 .. BlkSize - 1 : i < at + n => padded[i] # Junk
  <2> TAKE i \in 0 .. BlkSize - 1
  <2> HAVE i < at + n
  <2>1. at <= i /\ i < at + n => Zeros[0 + (i - at)] # Junk
    <3>1. at <= i /\ i < at + n => 0 + (i - at) \in 0 .. BlkSize - 1  BY <1>3, <1>1
    <3> QED  BY <1>6, <3>1
  <2>2. ~(at <= i /\ i < at + n) => buf[i] # Junk  BY <1>3, <1>5
  <2> QED  BY <1>1, <1>3, <2>1, <2>2, PatchClean
<1> HIDE DEF padded
<1>8. CleanBuffer'
  <2>1. \A i \in 0 .. BlkSize - 1 : i < at => i < at + n  BY <1>3
  <2> QED  BY <1>1, <1>2, <1>7, <2>1 DEF CleanBuffer, Written, at
<1>9. NoJunkOnCard'
  <2>1. CASE UNCHANGED devVars  BY <2>1 DEF devVars, Clean, NoJunkOnCard, Addr
  <2>2. CASE ~(UNCHANGED devVars)
    <3>1. \A j \in 0 .. FlushSize - 1 : padded[0 + j] # Junk
      <4> TAKE j \in 0 .. FlushSize - 1
      <4>1. 0 + j = j /\ j \in 0 .. BlkSize - 1 /\ j < at + n
        <5> DEFINE F == FlushSize
        <5>1. F \in Nat /\ F <= at + n /\ F < BlkSize /\ j \in 0 .. F - 1  BY <1>4
        <5> HIDE DEF F
        <5> QED  BY <5>1, <1>3, <1>1
      <4> QED  BY <4>1, <1>7
    <3> QED  BY <1>1, <1>2, <1>4, <2>2, <3>1, CardClean DEF Clean
  <2> QED  BY <2>1, <2>2
<1> QED  BY <1>2, <1>8, <1>9 DEF Clean, CleanData

LEMMA CleanStep == Shape /\ Clean /\ [Next]_vars => Clean'
<1> SUFFICES ASSUME Shape, Clean, [Next]_vars PROVE Clean'  OBVIOUS
<1>0. /\ pos \in Nat /\ cur \in Nat /\ target \in Nat /\ BlkSize \in Nat \ {0} /\ DevTypeOK
      /\ \A i \in 0 .. BlkSize - 1 : Zeros[i] # Junk
  BY Sizes_, NoJunkGiven DEF Shape, TypeOK, Zeros
<1>1. CASE Open
  BY <1>1 DEF Open, DevOpen, DevOpenFails, devVars, Clean, CleanBuffer, CleanData, NoJunkOnCard,
     Written, Addr
<1>2. CASE EraseAll
  <2>1. step = "idle" /\ step' = "idle" /\ pos' = 0 /\ cur' = 0 /\ buf' = buf
    BY <1>2 DEF EraseAll, Ready
  <2>2. NoJunkOnCard'  BY <1>2, NoJunkGiven DEF EraseAll, DevErase, Clean, NoJunkOnCard, Addr
  <2>3. 0 % BlkSize = 0  BY <1>0
  <2> QED  BY <1>0, <2>1, <2>2, <2>3 DEF Clean, CleanBuffer, CleanData, Written
<1>3. ASSUME NEW res, Ready, ReturnEarly(res) PROVE Clean'
  BY <1>3 DEF Ready, ReturnEarly, devVars, callVars, Clean, CleanBuffer, CleanData, NoJunkOnCard,
     Written, Addr
<1>4. ASSUME NEW offset \in Offsets, FillCall(offset) PROVE Clean'
  <2>1. offset \in Nat /\ Ready  BY <1>4, WriterAssumption DEF FillCall
  <2>2. CASE offset > pos /\ AlignToBuffer("fill", offset, NoBytes, Zeros)
    <3>1. pos < offset  BY <1>0, <2>1, <2>2
    <3>2. \A i \in 0 .. Lesser(offset - pos, Misalignment(pos, BlkSize)) - 1 : Zeros[i] # Junk
      BY <1>0, <2>1, <3>1, AlignFacts
    <3> QED  BY <2>1, <2>2, <3>1, <3>2, CleanAlignToBuffer
  <2> QED  BY <1>3, <1>4, <2>1, <2>2 DEF FillCall
<1>5. ASSUME NEW size \in Sizes, WriteCall(size, Given(size)) PROVE Clean'
  <2> DEFINE src == Given(size)
  <2>1. size \in Nat /\ Ready  BY <1>5, WriterAssumption DEF WriteCall
  <2>2. CASE size > 0 /\ pos + size < Word /\ AlignToBuffer("write", pos + size, src, src)
    <3>1. \A i \in 0 .. size - 1 : src[i] # Junk
      BY <1>0, <2>1, <2>2, Sizes_, NoJunkGiven DEF Given
    <3> HIDE DEF src
    <3>2. pos + size \in Nat /\ pos < pos + size /\ (pos + size) - pos = size  BY <1>0, <2>1, <2>2
    <3>3. \A i \in 0 .. Lesser((pos + size) - pos, Misalignment(pos, BlkSize)) - 1 : src[i] # Junk
      BY <2>1, <3>1, <3>2, AlignFacts
    <3>4. \A i \in 0 .. (pos + size) - pos - 1 : src[i] # Junk  BY <3>1, <3>2
    <3> QED  BY <2>1, <2>2, <3>2, <3>3, <3>4, CleanAlignToBuffer
  <2> QED  BY <1>3, <1>5, <2>1, <2>2 DEF WriteCall
<1>6. CASE CloseFlush  BY <1>6, CleanFlush
<1>7. CASE CloseDev
  <2>1. /\ step = "closing" /\ step' = "closed" /\ pos' = 0 /\ cur' = 0
        /\ UNCHANGED <<buf, disk>>
    BY <1>7 DEF CloseDev, DevClose
  <2>2. 0 % BlkSize = 0  BY <1>0
  <2> QED  BY <1>0, <2>1, <2>2 DEF Clean, CleanBuffer, CleanData, NoJunkOnCard, Written, Addr
<1>8. CASE FlushHead
  <2>1. /\ step = "head" /\ UNCHANGED buf /\ BlockStart(cur) \in Nat
        /\ DevWrite(BlockStart(cur), BlkSize, buf, 0) \/ DevWriteFails(BlockStart(cur), BlkSize, buf, 0)
    BY <1>0, <1>8, BlockStartFacts DEF FlushHead
  <2>2. \A j \in 0 .. BlkSize - 1 : buf[j] # Junk  BY <1>0, <2>1 DEF Clean, CleanBuffer, Written
  <2>3. NoJunkOnCard'
    <3>1. \A j \in 0 .. BlkSize - 1 : buf[0 + j] # Junk  BY <2>2
    <3> QED  BY <1>0, <2>1, <3>1, CardClean DEF Clean
  <2>4. CASE ReturnError  BY <2>1, <2>3, <2>4, CleanReturnError
  <2>5. CASE step' = "body" /\ UNCHANGED <<pos, op, target, data>>
    BY <2>1, <2>2, <2>3, <2>5 DEF Clean, CleanBuffer, CleanData
  <2> QED  BY <1>8, <2>4, <2>5 DEF FlushHead
<1>9. CASE FillBlock
  <2>1. /\ buf' = Zeros /\ op = "fill"
        /\ DevWrite(cur, BlkSize, Zeros, 0) \/ DevWriteFails(cur, BlkSize, Zeros, 0)
    BY <1>9 DEF FillBlock
  <2>2. NoJunkOnCard'
    <3>1. \A j \in 0 .. BlkSize - 1 : Zeros[0 + j] # Junk  BY <1>0
    <3> QED  BY <1>0, <2>1, <3>1, CardClean DEF Clean
  <2>3. CleanBuffer'  BY <1>0, <2>1 DEF CleanBuffer
  <2>4. step' = "idle" \/ op' = "fill"  BY <1>9 DEF FillBlock, ReturnError
  <2> QED  BY <2>2, <2>3, <2>4 DEF Clean, CleanData
<1>10. CASE WriteBlock
  <2>1. step = "body" /\ cur % BlkSize = 0 /\ cur + BlkSize <= target /\ pos <= cur
    BY <1>10, BlockFits DEF WriteBlock, Shape, Control
  <2>2. /\ UNCHANGED buf /\ op = "write"
        /\ DevWrite(cur, BlkSize, data, cur - pos) \/ DevWriteFails(cur, BlkSize, data, cur - pos)
    BY <1>10 DEF WriteBlock
  <2>3. NoJunkOnCard'
    <3>1. \A j \in 0 .. BlkSize - 1 : data[(cur - pos) + j] # Junk
      <4> TAKE j \in 0 .. BlkSize - 1
      <4>1. (cur - pos) + j \in 0 .. target - pos - 1  BY <1>0, <2>1
      <4> QED  BY <2>1, <2>2, <4>1 DEF Clean, CleanData
    <3>2. cur - pos \in Nat  BY <1>0, <2>1
    <3> QED  BY <1>0, <2>2, <3>1, <3>2, CardClean DEF Clean
  <2>4. CASE ReturnError  BY <2>2, <2>3, <2>4, CleanReturnError
  <2>5. CASE cur' = cur + BlkSize /\ UNCHANGED <<pos, step, op, target, data>>
    <3>1. cur' % BlkSize = 0
      <4>1. (cur + BlkSize) % BlkSize = 0  BY <1>0, <2>1, NextBlock
      <4> QED  BY <2>5, <4>1
    <3> QED  BY <2>1, <2>2, <2>3, <2>5, <3>1 DEF Clean, CleanBuffer, CleanData, Written
  <2> QED  BY <1>10, <2>4, <2>5 DEF WriteBlock
<1>11. CASE FillDone
  <2>1. /\ step = "body" /\ UNCHANGED devVars /\ target - cur \in 0 .. BlkSize - 1
    BY <1>11, RestFits DEF FillDone
  <2>2. \A j \in 0 .. target - cur - 1 : Zeros[0 + j] # Junk  BY <1>0, <2>1
  <2>3. PICK taken : buf' = Patch(buf, 0, target - cur, Zeros, 0) /\ ReturnOk(taken)
    BY <1>11 DEF FillDone
  <2> QED  BY <2>1, <2>2, <2>3, CleanReturnOk
<1>12. CASE WriteDone
  <2>1. /\ step = "body" /\ op = "write" /\ UNCHANGED devVars
        /\ target - cur \in 0 .. BlkSize - 1 /\ pos <= cur
    BY <1>12, RestFits DEF WriteDone, Shape, Control
  <2>2. \A j \in 0 .. target - cur - 1 : data[(cur - pos) + j] # Junk
    <3> TAKE j \in 0 .. target - cur - 1
    <3>1. (cur - pos) + j \in 0 .. target - pos - 1  BY <1>0, <2>1
    <3> QED  BY <2>1, <3>1 DEF Clean, CleanData
  <2>3. cur - pos \in Nat  BY <1>0, <2>1
  <2>4. buf' = Patch(buf, 0, target - cur, data, cur - pos) /\ ReturnOk(data)
    BY <1>12 DEF WriteDone
  <2> QED  BY <2>1, <2>2, <2>3, <2>4, CleanReturnOk
<1>13. CASE UNCHANGED vars
  BY <1>13 DEF vars, writerVars, callVars, devVars, Clean, CleanBuffer, CleanData, NoJunkOnCard,
     Written, Addr
<1> QED
  BY <1>1, <1>2, <1>4, <1>5, <1>6, <1>7, <1>8, <1>9, <1>10, <1>11, <1>12, <1>13
  DEF Next, CallStep, Given

\* Memory of the buffer that nobody has written never reaches the card, for
\* every sequence of calls and whichever of them fails.
THEOREM NoJunkIsWritten == Spec => []NoJunkOnCard
<1>1. Init => Shape /\ Clean
  <2> SUFFICES ASSUME Init PROVE Shape /\ Clean  OBVIOUS
  <2>1. 0 % BlkSize = 0  BY Sizes_
  <2>2. \A i \in 0 .. BlkSize - 1 : ~(i < 0)  BY Sizes_
  <2> QED
    BY <2>1, <2>2, ShapeInit, NoJunkGiven DEF Init, DevInit, Clean, CleanBuffer, CleanData,
       NoJunkOnCard, Written, Addr
<1>2. Shape /\ Clean /\ [Next]_vars => (Shape /\ Clean)'  BY ShapeStep, CleanStep
<1>3. Shape /\ Clean => NoJunkOnCard  BY DEF Clean
<1> QED  BY <1>1, <1>2, <1>3, PTL DEF Spec

-----------------------------------------------------------------------------
(* What is behind the writer stays as it is.                               *)

LEMMA FinalStep ==
  Shape /\ [Next]_vars => \A a \in 0 .. BlockStart(cur) - 1 : a \in Addr => disk'[a] = disk[a]
<1> SUFFICES ASSUME Shape, [Next]_vars, NEW a \in 0 .. BlockStart(cur) - 1, a \in Addr
             PROVE  disk'[a] = disk[a]
  OBVIOUS
<1>0. /\ DevTypeOK /\ pos \in Nat /\ cur \in Nat /\ BlkSize \in Nat \ {0}
      /\ BlockStart(cur) \in Nat /\ BlockStart(cur) <= cur
  BY Sizes_, BlockStartFacts DEF Shape, TypeOK
<1>1. CASE pos = 0 /\ EraseAll
  <2>1. cur = 0  BY <1>1 DEF EraseAll, Ready, Shape, Control
  <2> QED  BY <1>0, <2>1
<1>2. CASE CloseFlush
  <2>1. step = "idle" /\ cur = pos  BY <1>2 DEF CloseFlush, Shape, Control
  <2>2. FlushSize \in Nat /\ BlockStart(pos) \in Nat  BY <2>1, FlushFacts
  <2>3. CASE UNCHANGED disk  BY <2>3
  <2>4. ASSUME NEW src,
               \/ DevWrite(BlockStart(pos), FlushSize, src, 0)
               \/ DevWriteFails(BlockStart(pos), FlushSize, src, 0)
        PROVE  disk'[a] = disk[a]
    BY <1>0, <2>1, <2>2, <2>4, DevWriteBounds
  <2> QED  BY <1>2, <2>3, <2>4 DEF CloseFlush, devVars
<1>3. ASSUME NEW at \in Nat, at >= BlockStart(cur), NEW src, NEW skip,
             DevWrite(at, BlkSize, src, skip) \/ DevWriteFails(at, BlkSize, src, skip)
      PROVE  disk'[a] = disk[a]
  BY <1>0, <1>3, DevWriteBounds
<1>4. CASE FlushHead \/ FillBlock \/ WriteBlock
  BY <1>0, <1>3, <1>4 DEF FlushHead, FillBlock, WriteBlock
<1>5. CASE Open  BY <1>5 DEF Open, DevOpen, DevOpenFails, devVars
<1>6. CASE \/ \E offset \in Offsets : FillCall(offset)
           \/ \E size \in Sizes : WriteCall(size, Given(size))
  BY <1>6 DEF FillCall, WriteCall, ReturnEarly, AlignToBuffer, devVars
<1>7. CASE FillDone \/ WriteDone \/ CloseDev \/ UNCHANGED vars
  BY <1>7 DEF FillDone, WriteDone, CloseDev, DevClose, vars, devVars
<1> QED
  BY <1>1, <1>2, <1>4, <1>5, <1>6, <1>7 DEF Next, CallStep, Given

\* The block of a position is not above the block of a later one.
LEMMA BlockStartMonotone ==
  ASSUME BlkSize \in Nat \ {0}, NEW m \in Nat, NEW n \in Nat, m <= n
  PROVE  BlockStart(m) <= BlockStart(n)
<1>1. SUFFICES ASSUME BlockStart(n) < BlockStart(m) PROVE FALSE  BY BlockStartFacts
<1>2. BlockStart(n) + BlkSize <= BlockStart(m)  BY <1>1, BlockStartFacts, BlocksApart
<1> QED  BY <1>2, BlockStartFacts

\* Only close() takes the position back.
LEMMA ForwardStep == Shape /\ [Next]_vars => (pos' < pos => step' = "closed")
<1> SUFFICES ASSUME Shape, [Next]_vars, step' # "closed" PROVE ~(pos' < pos)  OBVIOUS
<1>1. pos \in Nat /\ target \in Nat  BY DEF Shape, TypeOK
<1>2. CASE pos = 0 /\ EraseAll  BY <1>2 DEF EraseAll
<1>3. CASE Open \/ CloseFlush  BY <1>1, <1>3 DEF Open, CloseFlush
<1>4. CASE \/ \E offset \in Offsets : FillCall(offset)
           \/ \E size \in Sizes : WriteCall(size, Given(size))
  BY <1>1, <1>4 DEF FillCall, WriteCall, ReturnEarly, AlignToBuffer
<1>5. CASE FlushHead \/ FillBlock \/ WriteBlock
  BY <1>1, <1>5 DEF FlushHead, FillBlock, WriteBlock, ReturnError
<1>6. CASE FillDone \/ WriteDone
  <2>1. pos' = target /\ pos < target
    BY <1>6 DEF FillDone, WriteDone, ReturnOk, Shape, Control
  <2> QED  BY <1>1, <2>1
<1>7. CASE CloseDev  BY <1>7 DEF CloseDev
<1>8. CASE UNCHANGED vars  BY <1>1, <1>8 DEF vars, writerVars
<1> QED
  BY <1>2, <1>3, <1>4, <1>5, <1>6, <1>7, <1>8 DEF Next, CallStep, Given

LEMMA SequentialStep ==
  Shape /\ [Next]_vars =>
    /\ \A a \in Addr :
         \/ a < BlockStart(pos)
         \/ a < BlockStart(cur) /\ err = "none"
         => disk'[a] = disk[a]
    /\ pos' < pos => step' = "closed"
<1> SUFFICES ASSUME Shape, [Next]_vars,
                    NEW a \in Addr, a < BlockStart(pos) \/ (a < BlockStart(cur) /\ err = "none")
             PROVE  disk'[a] = disk[a]
  BY ForwardStep
<1>1. pos \in Nat /\ cur \in Nat /\ pos <= cur  BY DEF Shape, TypeOK, Control, Steps
<1>2. /\ BlockStart(pos) \in Nat /\ BlockStart(cur) \in Nat
      /\ BlockStart(pos) <= BlockStart(cur)
  BY <1>1, Sizes_, BlockStartFacts, BlockStartMonotone
<1>3. a \in 0 .. BlockStart(cur) - 1  BY <1>2, Sizes_ DEF Addr
<1> QED  BY <1>3, FinalStep

\* What lies below the block of the position is final for every call, failing or
\* not, and for close(), and the position goes back with the object only; within
\* a call the blocks it has left are final as long as no write has failed.
THEOREM BlocksAreFinal == Spec => FlushedIsFinal
<1>1. Shape /\ [Next]_vars =>
        [/\ \A a \in Addr :
              \/ a < BlockStart(pos)
              \/ a < BlockStart(cur) /\ err = "none"
              => disk'[a] = disk[a]
         /\ pos' < pos => step' = "closed"]_vars
  BY SequentialStep
<1> QED  BY <1>1, ShapeInvariant, PTL DEF Spec, FlushedIsFinal

-----------------------------------------------------------------------------
(* The writer implements ByteStream, from the inductive invariant.         *)

\* The bytes of a write are the caller's bytes for its position.
DataIsPayload ==
  step \in {"head", "body"} /\ op = "write" =>
    \A i \in 0 .. target - pos - 1 : data[i] = Payload[pos + i]

LEMMA PayloadStep == Shape /\ DataIsPayload /\ [Next]_vars => DataIsPayload'
<1> SUFFICES ASSUME Shape, DataIsPayload, [Next]_vars PROVE DataIsPayload'  OBVIOUS
<1>1. CASE Open \/ EraseAll \/ CloseFlush \/ CloseDev
  BY <1>1 DEF Open, EraseAll, Ready, CloseFlush, CloseDev, DataIsPayload
<1>2. ASSUME NEW offset \in Offsets, FillCall(offset) PROVE DataIsPayload'
  BY <1>2 DEF FillCall, Ready, ReturnEarly, AlignToBuffer, callVars, DataIsPayload
<1>3. ASSUME NEW size \in Sizes, WriteCall(size, Given(size)) PROVE DataIsPayload'
  <2>1. size \in Nat /\ pos \in Nat /\ step = "idle"
    BY <1>3, WriterAssumption DEF WriteCall, Ready, Shape, TypeOK
  <2>2. CASE step' = "idle"  BY <2>2 DEF DataIsPayload
  <2>3. CASE AlignToBuffer("write", pos + size, Given(size), Given(size))
    <3>1. /\ data' = Given(size) /\ target' = pos + size /\ pos' = pos
      BY <2>3 DEF AlignToBuffer
    <3>2. (pos + size) - pos - 1 = size - 1  BY <2>1
    <3> QED  BY <3>1, <3>2 DEF DataIsPayload, Given
  <2> QED  BY <1>3, <2>1, <2>2, <2>3 DEF WriteCall, ReturnEarly, callVars
<1>4. CASE FlushHead \/ FillBlock \/ WriteBlock
  <2>1. step \in {"head", "body"}  BY <1>4 DEF FlushHead, FillBlock, WriteBlock
  <2>2. step' = "idle" \/ UNCHANGED <<pos, op, target, data>>
    BY <1>4 DEF FlushHead, FillBlock, WriteBlock, ReturnError
  <2> QED  BY <2>1, <2>2 DEF DataIsPayload
<1>5. CASE FillDone \/ WriteDone
  BY <1>5 DEF FillDone, WriteDone, ReturnOk, DataIsPayload
<1>6. CASE UNCHANGED vars
  BY <1>6 DEF vars, writerVars, callVars, DataIsPayload
<1> QED  BY <1>1, <1>2, <1>3, <1>4, <1>5, <1>6 DEF Next, CallStep, Given

\* A flush that succeeded ends on the card.
LEMMA FlushOnCard ==
  ASSUME Shape, StreamStored, CloseFlush, closeRes' = "ok", err = "none",
         ~PartialLastSector(pos)
  PROVE  pos <= DevSize
<1>1. step = "idle" /\ cur = pos /\ pos \in Nat /\ DevSize \in Nat
  BY Sizes_ DEF CloseFlush, Shape, TypeOK, Control
<1> DEFINE B == BlockStart(pos)
           E == SectorEnd(pos)
<1>2. /\ B \in Nat /\ E \in Nat /\ B <= pos /\ pos <= E /\ E <= B + BlkSize
      /\ E = B + BlkSize => FlushSize = 0
      /\ E # B + BlkSize => FlushSize = E - B
      /\ FlushSize = 0 => E = B /\ pos = B
  BY <1>1, FlushGeometry
<1>3. CASE FlushSize = 0
  <2>1. \A a \in 0 .. pos - 1 : a \in Addr  BY <1>1, <1>2, <1>3 DEF StreamStored, OnCard
  <2>2. CASE pos > 0
    <3>1. pos - 1 \in 0 .. pos - 1  BY <1>1, <2>2
    <3>2. pos - 1 \in Addr  BY <2>1, <3>1
    <3> QED  BY <1>1, <3>2 DEF Addr
  <2> QED  BY <1>1, <2>2
<1>4. CASE FlushSize # 0
  <2>1. B + FlushSize <= DevSize  BY <1>4 DEF CloseFlush, DevWrite
  <2> QED  BY <1>1, <1>2, <1>4, <2>1, Sizes_
<1> QED  BY <1>3, <1>4

\* Every step of the writer is a step of the byte stream, or none.
LEMMA StepRefines ==
  WriterInv /\ DataIsPayload /\ [Next]_vars => [Abstract!Next]_(Abstract!vars)
<1> SUFFICES ASSUME WriterInv, DataIsPayload, [Next]_vars
             PROVE  Abstract!Next \/ UNCHANGED Abstract!vars
  OBVIOUS
<1>0. /\ Shape /\ Shape' /\ pos \in Nat /\ stream \in [0 .. Acked - 1 -> Cell]
      /\ disk' \in [Addr -> Cell]
  BY ShapeStep DEF WriterInv, Shape, TypeOK, DevTypeOK, Addr
<1>1. CASE Open
  <2>1. /\ step = "new" /\ step' \in {"idle", "closed"} /\ closeRes' = "none"
        /\ UNCHANGED <<stream, base, disk>>
    BY <1>0, <1>1 DEF Open, DevOpen, DevOpenFails, devVars, histVars, Shape, Control
  <2>2. Abstract!Open  BY <2>1 DEF Abstract!Open, StreamState, Unsaved
  <2> QED  BY <2>2 DEF Abstract!Next
<1>2. CASE pos = 0 /\ EraseAll
  <2>1. /\ step = "idle" /\ step' = "idle" /\ err = "none" /\ closeRes = "none" /\ closeRes' = "none"
        /\ stream' = NoBytes /\ base' = disk'
    BY <1>0, <1>2 DEF EraseAll, Ready, Shape, Control
  <2>2. stream = [a \in {} |-> Zero]
    <3>1. 0 .. 0 - 1 = {}  OBVIOUS
    <3> QED  BY <1>0, <1>2, <2>1, <3>1 DEF Acked
  <2>3. Abstract!Erase  BY <1>0, <2>1, <2>2 DEF Abstract!Erase, StreamState, Unsaved, NoBytes
  <2> QED  BY <2>3 DEF Abstract!Next
<1>3. ASSUME Ready, NEW res \in {"none", "EINVAL"}, ReturnEarly(res)
      PROVE  Abstract!Next \/ UNCHANGED Abstract!vars
  <2>1. /\ step = "idle" /\ step' = "idle" /\ err = "none" /\ err' = res
        /\ UNCHANGED <<closeRes, stream, base, disk>> /\ closeRes = "none"
    BY <1>0, <1>3 DEF Ready, ReturnEarly, devVars, callVars, histVars, Shape, Control
  <2>2. CASE res = "none"  BY <2>1, <2>2 DEF Abstract!vars, StreamState, Unsaved
  <2>3. CASE res = "EINVAL"
    BY <1>0, <2>1, <2>3 DEF Abstract!Next, Abstract!Spill, StreamState, Unsaved
  <2> QED  BY <2>2, <2>3
<1>4. ASSUME Ready, NEW call, NEW end, NEW bytes, NEW src, AlignToBuffer(call, end, bytes, src)
      PROVE  UNCHANGED Abstract!vars
  <2>1. /\ step = "idle" /\ step' \in {"head", "body"}
        /\ closeRes = "none" /\ UNCHANGED <<err, closeRes, stream, base, disk>>
    BY <1>0, <1>4 DEF Ready, AlignToBuffer, devVars, histVars, Shape, Control
  <2> QED  BY <2>1 DEF Abstract!vars, StreamState, Unsaved
<1>5. ASSUME NEW offset \in Offsets, FillCall(offset)
      PROVE  Abstract!Next \/ UNCHANGED Abstract!vars
  BY <1>3, <1>4, <1>5 DEF FillCall
<1>6. ASSUME NEW size \in Sizes, WriteCall(size, Given(size))
      PROVE  Abstract!Next \/ UNCHANGED Abstract!vars
  BY <1>3, <1>4, <1>6 DEF WriteCall
<1>7. CASE CloseFlush
  <2>1. /\ step = "idle" /\ step' = "closing" /\ closeRes = "none" /\ closeRes' \in {"ok", "EIO"}
        /\ UNCHANGED <<pos, err, stream, base, closedAt>>
    BY <1>0, <1>7 DEF CloseFlush, histVars, Shape, Control
  <2>2. CASE err # "none" \/ closeRes' = "EIO" \/ pos % SecSize # 0
    <3>1. StreamState' = "failed" /\ StreamState \in {"open", "failed"}
      BY <2>1, <2>2 DEF StreamState, Unsaved, Acked
    <3> QED  BY <1>0, <2>1, <3>1 DEF Abstract!Next, Abstract!Spill
  <2>3. CASE err = "none" /\ closeRes' = "ok" /\ pos % SecSize = 0
    <3>1. pos % SecSize = 0  BY <2>3
    <3>2. SectorEnd(pos) = pos /\ ~PartialLastSector(pos)
      BY <1>0, <3>1, SectorEndFacts DEF PartialLastSector
    <3>3. Flushed(pos)' /\ pos <= DevSize
      BY <1>7, <2>3, <3>2, FlushWrites, FlushOnCard DEF WriterInv
    <3>4. SectorEnd(pos)' = pos
      BY <2>1, <3>2 DEF SectorEnd, Misalignment
    <3>5. \A a \in Addr : disk'[a] = IF a < pos THEN stream[a] ELSE base[a]
      BY <2>1, <3>3, <3>4 DEF Flushed, Addr
    <3>6. DOMAIN stream = 0 .. pos - 1 /\ DOMAIN stream \subseteq Addr
      BY <1>0, <2>1, <3>3, Sizes_ DEF Acked, Addr
    <3>7. \A a \in Addr : a < pos <=> a \in DOMAIN stream
      BY <1>0, <3>6, Sizes_ DEF Addr
    <3>8. disk' = [a \in Addr |-> IF a \in DOMAIN stream THEN stream[a] ELSE base[a]]
      BY <1>0, <3>5, <3>7
    <3>9. Abstract!Save
      BY <2>1, <2>3, <3>6, <3>8 DEF Abstract!Save, StreamState, Unsaved, Acked
    <3> QED  BY <3>9 DEF Abstract!Next
  <2> QED  BY <2>1, <2>2, <2>3
<1>8. CASE CloseDev
  BY <1>0, <1>8 DEF CloseDev, DevClose, Shape, Control, Abstract!vars, StreamState, Unsaved, Acked
<1>9. CASE FlushHead \/ FillBlock \/ WriteBlock
  <2>1. /\ step \in {"head", "body"} /\ err = "none" /\ closeRes = "none"
        /\ step' \in {"idle", "body"} /\ err' \in {"none", "EIO"} /\ closeRes' = "none"
        /\ UNCHANGED <<stream, base>>
    BY <1>0, <1>9 DEF FlushHead, FillBlock, WriteBlock, ReturnError, histVars, Shape, Control
  <2> QED  BY <1>0, <2>1 DEF Abstract!Next, Abstract!Spill, StreamState, Unsaved
<1>10. CASE FillDone \/ WriteDone
  <2>1. /\ step = "body" /\ err = "none" /\ closeRes = "none" /\ step' = "idle" /\ err' = "none"
        /\ UNCHANGED <<closeRes, base, disk>>
        /\ target \in Nat /\ pos < target
    BY <1>0, <1>10 DEF FillDone, WriteDone, ReturnOk, devVars, Shape, TypeOK, Control
  <2>2. DOMAIN stream = 0 .. pos - 1  BY <1>0, <2>1 DEF Acked
  <2>3. ASSUME NEW src, ReturnOk(src),
               \/ \A i \in 0 .. target - pos - 1 : src[i] = Zero
               \/ \A i \in 0 .. target - pos - 1 : src[i] = Payload[pos + i]
        PROVE  Abstract!Append
    <3>1. stream' = [a \in 0 .. target - 1 |-> IF a < pos THEN stream[a] ELSE src[a - pos]]
      BY <2>3 DEF ReturnOk
    <3>2. DOMAIN stream' = 0 .. target - 1  BY <3>1
    <3>3. DOMAIN stream \subseteq DOMAIN stream' /\ \A a \in DOMAIN stream : stream'[a] = stream[a]
      BY <1>0, <2>1, <2>2, <3>1
    <3>4. ASSUME NEW a \in DOMAIN stream' \ DOMAIN stream
          PROVE  /\ stream'[a] = src[a - pos] /\ a - pos \in 0 .. target - pos - 1
                 /\ pos + (a - pos) = a
      BY <1>0, <2>1, <2>2, <3>1, <3>2
    <3>5. \/ \A a \in DOMAIN stream' \ DOMAIN stream : stream'[a] = Zero
          \/ \A a \in DOMAIN stream' \ DOMAIN stream : stream'[a] = Payload[a]
      <4>1. CASE \A i \in 0 .. target - pos - 1 : src[i] = Zero
        <5>1. \A a \in DOMAIN stream' \ DOMAIN stream : stream'[a] = Zero
          BY <3>4, <4>1
        <5> QED  BY <5>1
      <4>2. CASE \A i \in 0 .. target - pos - 1 : src[i] = Payload[pos + i]
        <5>1. ASSUME NEW a \in DOMAIN stream' \ DOMAIN stream PROVE stream'[a] = Payload[a]
          <6>1. src[a - pos] = Payload[pos + (a - pos)]  BY <3>4, <4>2
          <6> QED  BY <3>4, <6>1
        <5> QED  BY <5>1
      <4> QED  BY <2>3, <4>1, <4>2
    <3> QED  BY <2>1, <3>3, <3>5 DEF Abstract!Append, StreamState, Unsaved
  <2>4. CASE FillDone
    <3> DEFINE src == [i \in 0 .. target - pos - 1 |-> Zero]
    <3>1. ReturnOk(src) /\ \A i \in 0 .. target - pos - 1 : src[i] = Zero
      BY <2>4 DEF FillDone
    <3> HIDE DEF src
    <3> QED  BY <2>3, <3>1 DEF Abstract!Next
  <2>5. CASE WriteDone
    <3>1. ReturnOk(data) /\ \A i \in 0 .. target - pos - 1 : data[i] = Payload[pos + i]
      BY <2>5 DEF WriteDone, DataIsPayload
    <3> QED  BY <2>3, <3>1 DEF Abstract!Next
  <2> QED  BY <1>10, <2>4, <2>5
<1>11. CASE UNCHANGED vars
  BY <1>11 DEF vars, writerVars, callVars, histVars, devVars, Abstract!vars, StreamState, Unsaved, Acked
<1> QED
  BY <1>1, <1>2, <1>5, <1>6, <1>7, <1>8, <1>9, <1>10, <1>11 DEF Next, CallStep, Given

\* What a BufferedFsWriter promises is ByteStream, for every sequence of calls: no
\* failure is taken for success, and success, when the stream is one of whole
\* sectors, is the stream on the card with everything else as it was.
THEOREM WriterImplementsStream == Spec => ImplementsByteStream
<1>1. Init => Abstract!Init
  <2> SUFFICES ASSUME Init PROVE Abstract!Init  OBVIOUS
  <2>1. disk \in [Addr -> Cell]  BY Sizes_ DEF Init, DevInit
  <2> QED  BY <2>1 DEF Init, Abstract!Init, StreamState, Unsaved, NoBytes
<1>2. Init => DataIsPayload  BY DEF Init, DataIsPayload
<1>3. Spec => [](WriterInv /\ DataIsPayload)
  <2>1. WriterInv => Shape  BY DEF WriterInv
  <2>2. WriterInv /\ DataIsPayload /\ [Next]_vars => DataIsPayload'  BY <2>1, PayloadStep
  <2> QED  BY <1>2, <2>2, WriterInvariant, PTL DEF Spec
<1> QED  BY <1>1, <1>3, StepRefines, PTL DEF Spec, ImplementsByteStream, Abstract!Spec
=============================================================================
