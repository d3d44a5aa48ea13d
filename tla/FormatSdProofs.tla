--------------------------- MODULE FormatSdProofs ---------------------------
(***************************************************************************)
(* Theorems about the offsets makeFsFat and makeFsExFat write at, for      *)
(* every layout that FormatParams accepts, every size of sectors, blocks   *)
(* and card, and every failure: the calls of a function lead from the      *)
(* position it is called at to the one it ends at, each from where the     *)
(* last one ended.                                                         *)
(***************************************************************************)
EXTENDS MainProofs, BufferedFsWriterProofs, SequenceTheorems

-----------------------------------------------------------------------------
(* Sequences of calls.                                                     *)

Calls ==
  {FillTo(n) : n \in Nat} \cup {Allocate}
    \cup UNION {{Write(src, n) : src \in [0 .. n - 1 -> Cell]} : n \in Nat}

\* The call takes a writer that is at a to b.
Legal(c, a, b) ==
  \/ c = FillTo(b) /\ a <= b
  \/ c = Allocate /\ b = a
  \/ \E n \in Nat : \E src \in [0 .. n - 1 -> Cell] : c = Write(src, n) /\ b = a + n

Trace(s, p, b) ==
  /\ p \in [1 .. Len(s) + 1 -> 0 .. b]
  /\ \A i \in 1 .. Len(s) : Legal(s[i], p[i], p[i + 1])

\* The calls take it from a to b, and no further on the way.
Runs(s, a, b) ==
  /\ a \in Nat /\ b \in Nat /\ s \in Seq(Calls)
  /\ \E p : Trace(s, p, b) /\ p[1] = a /\ p[Len(s) + 1] = b

LEMMA RunsNothing == ASSUME NEW a \in Nat PROVE Runs(<<>>, a, a)
<1>1. <<>> \in Seq(Calls) /\ Len(<<>>) = 0  BY EmptySeq
<1> DEFINE p == [i \in 1 .. 1 |-> a]
<1>2. Trace(<<>>, p, a) /\ p[1] = a  BY <1>1 DEF Trace
<1> QED  BY <1>1, <1>2 DEF Runs

LEMMA NothingRuns == ASSUME NEW a, NEW b, Runs(<<>>, a, b) PROVE b = a
<1>1. Len(<<>>) = 0  BY EmptySeq
<1> QED  BY <1>1 DEF Runs

LEMMA RunsForward ==
  ASSUME NEW s, NEW a, NEW b, Runs(s, a, b)
  PROVE  a \in Nat /\ b \in Nat /\ a <= b /\ s \in Seq(Calls)
<1>1. PICK p : Trace(s, p, b) /\ p[1] = a  BY DEF Runs
<1>2. Len(s) \in Nat /\ a \in Nat /\ b \in Nat  BY LenProperties DEF Runs
<1>3. 1 \in 1 .. Len(s) + 1  BY <1>2
<1>4. p[1] \in 0 .. b  BY <1>1, <1>3 DEF Trace
<1> QED  BY <1>1, <1>2, <1>4 DEF Runs

LEMMA LegalIsCall ==
  ASSUME NEW c, NEW a \in Nat, NEW b \in Nat, Legal(c, a, b)
  PROVE  c \in Calls /\ a <= b
BY DEF Legal, Calls

LEMMA RunsCall ==
  ASSUME NEW c, NEW a \in Nat, NEW b \in Nat, Legal(c, a, b)
  PROVE  Runs(<<c>>, a, b)
<1> DEFINE s == <<c>>
<1>1. a <= b /\ c \in Calls  BY LegalIsCall
<1>2. s \in Seq(Calls) /\ Len(s) = 1 /\ s[1] = c  BY <1>1
<1> HIDE DEF s
<1> DEFINE p == [i \in 1 .. 2 |-> IF i = 1 THEN a ELSE b]
<1>3. p \in [1 .. Len(s) + 1 -> 0 .. b]  BY <1>1, <1>2
<1>4. p[1] = a /\ p[2] = b  OBVIOUS
<1>5. Trace(s, p, b)  BY <1>2, <1>3, <1>4 DEF Trace
<1>6. Runs(s, a, b)  BY <1>2, <1>4, <1>5 DEF Runs
<1> QED  BY <1>6 DEF s

\* The same for a sequence that is written as a function.
LEMMA RunsSingle ==
  ASSUME NEW s \in [1 .. 1 -> Calls], NEW a \in Nat, NEW b \in Nat, Legal(s[1], a, b)
  PROVE  Runs(s, a, b)
<1>1. s[1] \in Calls  OBVIOUS
<1>2. <<s[1]>> \in Seq(Calls) /\ Len(<<s[1]>>) = 1 /\ <<s[1]>>[1] = s[1]  BY <1>1
<1>3. <<s[1]>> \in [1 .. 1 -> Calls]  BY <1>2, LenProperties
<1>4. s = <<s[1]>>  BY <1>2, <1>3
<1> QED  BY <1>4, RunsCall

LEMMA RunsThen ==
  ASSUME NEW s, NEW t, NEW a, NEW b, NEW c, Runs(s, a, b), Runs(t, b, c)
  PROVE  Runs(s \o t, a, c)
<1>1. /\ a \in Nat /\ b \in Nat /\ c \in Nat /\ b <= c
      /\ s \in Seq(Calls) /\ t \in Seq(Calls)
  BY RunsForward
<1>2. PICK p : Trace(s, p, b) /\ p[1] = a /\ p[Len(s) + 1] = b  BY DEF Runs
<1>3. PICK q : Trace(t, q, c) /\ q[1] = b /\ q[Len(t) + 1] = c  BY DEF Runs
<1> DEFINE m == Len(s)
           n == Len(t)
           u == s \o t
           r == [i \in 1 .. m + n + 1 |-> IF i <= m THEN p[i] ELSE q[i - m]]
<1>4. m \in Nat /\ n \in Nat  BY <1>1, LenProperties
<1>5. /\ u \in Seq(Calls) /\ Len(u) = m + n
      /\ \A i \in 1 .. m + n : u[i] = IF i <= m THEN s[i] ELSE t[i - m]
  BY <1>1, ConcatProperties
<1>6. /\ \A i \in 1 .. m + 1 : p[i] \in 0 .. b
      /\ \A i \in 1 .. n + 1 : q[i] \in 0 .. c
      /\ \A i \in 1 .. m : Legal(s[i], p[i], p[i + 1])
      /\ \A i \in 1 .. n : Legal(t[i], q[i], q[i + 1])
  BY <1>2, <1>3 DEF Trace
<1>7. p[m + 1] = b /\ q[1] = b /\ p[1] = a /\ q[n + 1] = c  BY <1>2, <1>3
<1> HIDE DEF m, n, u
<1>8. r[1] = a  BY <1>4, <1>7
<1>9. r[m + n + 1] = c  BY <1>4, <1>7
<1>10. r \in [1 .. m + n + 1 -> 0 .. c]
  <2>1. ASSUME NEW i \in 1 .. m + n + 1  PROVE (IF i <= m THEN p[i] ELSE q[i - m]) \in 0 .. c
    BY <1>1, <1>4, <1>6, <2>1
  <2> QED  BY <2>1
<1>11. ASSUME NEW i \in 1 .. m + n  PROVE Legal(u[i], r[i], r[i + 1])
  <2>1. CASE i < m
    <3>1. u[i] = s[i] /\ r[i] = p[i] /\ r[i + 1] = p[i + 1] /\ i \in 1 .. m
      BY <1>4, <1>5, <2>1
    <3> QED  BY <1>6, <3>1
  <2>2. CASE i = m
    <3>1. u[i] = s[i] /\ r[i] = p[i] /\ r[i + 1] = q[1] /\ i \in 1 .. m /\ q[1] = p[i + 1]
      BY <1>4, <1>5, <1>7, <2>2
    <3> QED  BY <1>6, <3>1
  <2>3. CASE i > m
    <3>1. /\ u[i] = t[i - m] /\ r[i] = q[i - m] /\ r[i + 1] = q[(i - m) + 1]
          /\ i - m \in 1 .. n
      BY <1>4, <1>5, <2>3
    <3> QED  BY <1>6, <3>1
  <2> QED  BY <1>4, <2>1, <2>2, <2>3
<1>12. Trace(u, r, c)  BY <1>4, <1>5, <1>10, <1>11 DEF Trace
<1>13. Runs(u, a, c)  BY <1>1, <1>4, <1>5, <1>8, <1>9, <1>12 DEF Runs
<1> QED  BY <1>13 DEF u

\* The first call, and what is left.
LEMMA RunsStep ==
  ASSUME NEW s, s # <<>>, NEW a, NEW b, Runs(s, a, b)
  PROVE  \E m \in a .. b : Legal(Head(s), a, m) /\ Runs(Tail(s), m, b)
<1>1. a \in Nat /\ b \in Nat /\ s \in Seq(Calls)  BY RunsForward
<1>2. PICK p : Trace(s, p, b) /\ p[1] = a /\ p[Len(s) + 1] = b  BY DEF Runs
<1> DEFINE n == Len(s) - 1
           t == Tail(s)
           q == [i \in 1 .. n + 1 |-> p[i + 1]]
<1>3. n \in Nat /\ Len(s) = n + 1  BY <1>1, EmptySeq
<1>4. /\ t \in Seq(Calls) /\ Len(t) = n /\ Head(s) = s[1]
      /\ \A i \in 1 .. n : t[i] = s[i + 1]
  BY <1>1, HeadTailProperties
<1>5. /\ \A i \in 1 .. n + 2 : p[i] \in 0 .. b
      /\ \A i \in 1 .. n + 1 : Legal(s[i], p[i], p[i + 1])
  BY <1>2, <1>3 DEF Trace
<1>6. p[n + 2] = b /\ p[1] = a  BY <1>2, <1>3
<1> HIDE DEF n, t
<1>7. p[2] \in Nat /\ Legal(Head(s), a, p[2])
  BY <1>3, <1>4, <1>5, <1>6
<1>8. p[2] \in a .. b
  <2>1. p[2] \in 0 .. b  BY <1>3, <1>5
  <2>2. a <= p[2]  BY <1>1, <1>7, LegalIsCall
  <2> QED  BY <1>1, <2>1, <2>2
<1>9. q \in [1 .. n + 1 -> 0 .. b]  BY <1>3, <1>5
<1>10. \A i \in 1 .. n : Legal(t[i], q[i], q[i + 1])
  <2> TAKE i \in 1 .. n
  <2>1. t[i] = s[i + 1] /\ q[i] = p[i + 1] /\ q[i + 1] = p[(i + 1) + 1] /\ i + 1 \in 1 .. n + 1
    BY <1>3, <1>4
  <2> QED  BY <1>5, <2>1
<1>11. Trace(t, q, b)  BY <1>3, <1>4, <1>9, <1>10 DEF Trace
<1>12. q[1] = p[2] /\ q[n + 1] = b  BY <1>3, <1>6
<1>13. Runs(t, p[2], b)  BY <1>1, <1>4, <1>7, <1>11, <1>12 DEF Runs
<1> QED  BY <1>7, <1>8, <1>13 DEF t

-----------------------------------------------------------------------------
(* The pieces the functions are put together from.                         *)

LEMMA RunsPair ==
  ASSUME NEW x, NEW y, NEW a, NEW b, NEW c, Runs(<<x>>, a, b), Runs(<<y>>, b, c)
  PROVE  Runs(<<x, y>>, a, c)
<1>1. <<x>> \in Seq(Calls) /\ <<y>> \in Seq(Calls)  BY RunsForward
<1>2. x \in Calls /\ y \in Calls
  <2>1. Len(<<x>>) = 1 /\ <<x>>[1] = x /\ Len(<<y>>) = 1 /\ <<y>>[1] = y  OBVIOUS
  <2> QED  BY <1>1, <2>1, ElementOfSeq
<1>3. <<x, y>> \in Seq(Calls) /\ Len(<<x, y>>) = 2 /\ <<x, y>>[1] = x /\ <<x, y>>[2] = y
  BY <1>2
<1>4. /\ <<x>> \o <<y>> \in Seq(Calls) /\ Len(<<x>> \o <<y>>) = 2
      /\ (<<x>> \o <<y>>)[1] = x /\ (<<x>> \o <<y>>)[2] = y
  <2>1. Len(<<x>>) = 1 /\ <<x>>[1] = x /\ Len(<<y>>) = 1 /\ <<y>>[1] = y  OBVIOUS
  <2>2. \A i \in 1 .. 2 : (<<x>> \o <<y>>)[i] = IF i <= 1 THEN <<x>>[i] ELSE <<y>>[i - 1]
    BY <1>1, <2>1, ConcatProperties
  <2> QED  BY <1>1, <2>1, <2>2, ConcatProperties
<1>5. \A i \in 1 .. 2 : (<<x>> \o <<y>>)[i] = <<x, y>>[i]  BY <1>3, <1>4
<1>6. <<x>> \o <<y>> = <<x, y>>  BY <1>3, <1>4, <1>5, SeqEqual
<1> QED  BY <1>6, RunsThen

LEMMA RunsFill ==
  ASSUME NEW a \in Nat, NEW at \in Nat, a <= at
  PROVE  Runs(<<FillTo(at)>>, a, at)
BY RunsCall DEF Legal

LEMMA RunsWrite ==
  ASSUME NEW a \in Nat, NEW n \in Nat, NEW src \in [0 .. n - 1 -> Cell]
  PROVE  Runs(<<Write(src, n)>>, a, a + n)
<1>1. Legal(Write(src, n), a, a + n) /\ a + n \in Nat  BY DEF Legal
<1> QED  BY <1>1, RunsCall

LEMMA RunsFillAndWrite ==
  ASSUME NEW a \in Nat, NEW at \in Nat, a <= at, NEW n \in Nat, NEW src \in [0 .. n - 1 -> Cell]
  PROVE  Runs(FillAndWrite(src, n, at), a, at + n)
<1>1. Runs(<<FillTo(at)>>, a, at)  BY RunsFill
<1>2. Runs(<<Write(src, n)>>, at, at + n)  BY RunsWrite
<1> QED  BY <1>1, <1>2, RunsPair DEF FillAndWrite

LEMMA StructType ==
  ASSUME NEW kind, NEW fields, NEW n \in Nat,
         \A i \in DOMAIN Struct(kind, fields, n) : Struct(kind, fields, n)[i] \in Cell
  PROVE  Struct(kind, fields, n) \in [0 .. n - 1 -> Cell]
BY DEF Struct

\* The structures of FAT12, FAT16 and FAT32 are made of bytes, as CellAssumption says.
LEMMA FatSources ==
  ASSUME NEW p \in Layouts, p.fatBits <= 32
  PROVE  /\ Mbr(p) \in [0 .. SecSize - 1 -> Cell]
         /\ FatBoot(p) \in [0 .. SecSize - 1 -> Cell]
         /\ FsInfo(<<p.maxClus - 1>>) \in [0 .. SecSize - 1 -> Cell]
         /\ FsInfo(<<>>) \in [0 .. SecSize - 1 -> Cell]
         /\ Token("sig") \in [0 .. 1 - 1 -> Cell]
         /\ Token("volumeId") \in [0 .. 1 - 1 -> Cell]
         /\ ReservedEntries(p) \in [0 .. (IF p.fatBits < 32 THEN 1 ELSE 3) - 1 -> Cell]
<1>1. \A src \in Sources(p, TRUE) : \A i \in DOMAIN src : src[i] \in Cell  BY CellAssumption
<1>2. {Mbr(p), FatBoot(p), FsInfo(<<p.maxClus - 1>>), FsInfo(<<>>), Token("sig"),
       Token("volumeId"), ReservedEntries(p)} \subseteq Sources(p, TRUE)
  BY DEF Sources
<1>3. SecSize \in Nat  BY Sizes_
<1>4. Mbr(p) \in [0 .. SecSize - 1 -> Cell]  BY <1>1, <1>2, <1>3, StructType DEF Mbr
<1>5. FatBoot(p) \in [0 .. SecSize - 1 -> Cell]  BY <1>1, <1>2, <1>3, StructType DEF FatBoot
<1>6. FsInfo(<<p.maxClus - 1>>) \in [0 .. SecSize - 1 -> Cell]
  BY <1>1, <1>2, <1>3, StructType DEF FsInfo
<1>7. FsInfo(<<>>) \in [0 .. SecSize - 1 -> Cell]  BY <1>1, <1>2, <1>3, StructType DEF FsInfo
<1>8. /\ Token("sig") \in [0 .. 1 - 1 -> Cell]
      /\ Token("volumeId") \in [0 .. 1 - 1 -> Cell]
  BY <1>1, <1>2, StructType DEF Token
<1>9. ReservedEntries(p) \in [0 .. (IF p.fatBits < 32 THEN 1 ELSE 3) - 1 -> Cell]
  <2>1. (IF p.fatBits < 32 THEN 1 ELSE 3) \in Nat  OBVIOUS
  <2> QED  BY <1>1, <1>2, <2>1, StructType DEF ReservedEntries
<1> QED  BY <1>4, <1>5, <1>6, <1>7, <1>8, <1>9

\* Those of exFAT.
LEMMA ExfatSources ==
  ASSUME NEW p \in Layouts, p.fatBits > 32, p.bytesPerSec \in Nat, NEW hasLabel \in BOOLEAN
  PROVE  /\ Mbr(p) \in [0 .. SecSize - 1 -> Cell]
         /\ BootRegion(p) \in [0 .. (12 * p.bytesPerSec) - 1 -> Cell]
         /\ Struct("exfatRsvd", <<>>, 2) \in [0 .. 2 - 1 -> Cell]
         /\ Token("eof") \in [0 .. 1 - 1 -> Cell]
         /\ Struct("bits", <<3>>, 1) \in [0 .. 1 - 1 -> Cell]
         /\ UpCaseTable \in [0 .. UpCaseSize - 1 -> Cell]
         /\ RootEntries(p, hasLabel) \in [0 .. 3 - 1 -> Cell]
<1>1. \A src \in Sources(p, hasLabel) : \A i \in DOMAIN src : src[i] \in Cell  BY CellAssumption
<1>2. {Mbr(p), BootRegion(p), Struct("exfatRsvd", <<>>, 2), Token("eof"),
       Struct("bits", <<3>>, 1), UpCaseTable, RootEntries(p, hasLabel)} \subseteq Sources(p, hasLabel)
  BY LayoutAssumption DEF Sources
<1>3. SecSize \in Nat /\ UpCaseSize \in Nat  BY Sizes_, CardAssumption
<1>4. Mbr(p) \in [0 .. SecSize - 1 -> Cell]  BY <1>1, <1>2, <1>3, StructType DEF Mbr
<1>5. BootRegion(p) \in [0 .. (12 * p.bytesPerSec) - 1 -> Cell]
  <2>1. \A i \in DOMAIN BootRegion(p) : BootRegion(p)[i] \in Cell  BY <1>1, <1>2
  <2> QED  BY <2>1 DEF BootRegion
<1>6. /\ Struct("exfatRsvd", <<>>, 2) \in [0 .. 2 - 1 -> Cell]
      /\ Struct("bits", <<3>>, 1) \in [0 .. 1 - 1 -> Cell]
  BY <1>1, <1>2, StructType
<1>7. Token("eof") \in [0 .. 1 - 1 -> Cell]  BY <1>1, <1>2, StructType DEF Token
<1>8. UpCaseTable \in [0 .. UpCaseSize - 1 -> Cell]  BY <1>1, <1>2, <1>3, StructType DEF UpCaseTable
<1>9. RootEntries(p, hasLabel) \in [0 .. 3 - 1 -> Cell]
  <2>1. \A i \in DOMAIN RootEntries(p, hasLabel) : RootEntries(p, hasLabel)[i] \in Cell  BY <1>1, <1>2
  <2> DEFINE e == [i \in 0 .. 2 |-> RootEntries(p, hasLabel)[i]]
  <2>2. RootEntries(p, hasLabel) = e /\ DOMAIN RootEntries(p, hasLabel) = 0 .. 2  BY DEF RootEntries
  <2>3. e \in [0 .. 2 -> Cell]  BY <2>1, <2>2
  <2> QED  BY <2>2, <2>3
<1> QED  BY <1>4, <1>5, <1>6, <1>7, <1>8, <1>9

-----------------------------------------------------------------------------
(* Offsets of FAT12, FAT16 and FAT32.                                      *)

LEMMA Multiples ==
  ASSUME NEW m \in Nat, NEW n \in Nat, m <= n, NEW size \in Nat
  PROVE  m * size \in Nat /\ m * size <= n * size
<1>1. (n - m) * size \in Nat  OBVIOUS
<1> QED  BY <1>1

LEMMA SectorSizes ==
  ASSUME NEW p \in Layouts
  PROVE  /\ SecSize \in Nat \ {0} /\ p.bytesPerSec \in Nat \ {0} /\ p.secPerClus \in Nat \ {0}
         /\ p.bytesPerSec >= SecSize
         /\ p.bytesPerSec > SecSize => p.bytesPerSec >= SecSize + SecSize
<1>1. PICK k \in 1 .. p.bytesPerSec : p.bytesPerSec = k * SecSize  BY LayoutAssumption
<1>2. SecSize \in Nat \ {0} /\ p.secPerClus \in Nat \ {0}  BY Sizes_, LayoutAssumption
<1>3. k = 1 \/ 2 <= k  BY <1>1
<1>4. k >= 2 => 2 * SecSize <= k * SecSize  BY <1>1, <1>2, Multiples
<1> QED  BY <1>1, <1>2, <1>3, <1>4

\* The areas of the file system, in cells and in their order.
LEMMA FatAreas ==
  ASSUME NEW p \in Layouts, p.fatBits <= 32
  PROVE  LET bps == p.bytesPerSec
             at  == p.partStart * bps
             r   == p.rsvdSecCnt * bps
             f   == p.secPerFat * bps
         IN  /\ at \in Nat /\ r \in Nat /\ f \in Nat /\ FatEnd(p) \in Nat
             /\ at >= SecSize
             /\ r >= bps
             /\ p.fatBits = 32 => r >= 9 * bps
             /\ f >= 3
             /\ at + r + f + f + bps <= FatEnd(p)
             /\ FatEnd(p) <= DevSize
<1> DEFINE bps  == p.bytesPerSec
           rsvd == p.rsvdSecCnt
           spf  == p.secPerFat
           fs   == p.fsAreaSize
           spc  == p.secPerClus
           one  == IF p.fatBits < 32 THEN 0 ELSE spc
<1>1. /\ bps \in Nat \ {0} /\ SecSize \in Nat \ {0} /\ bps >= SecSize /\ spc \in Nat \ {0}
      /\ p.partStart \in Nat \ {0} /\ spf \in Nat \ {0} /\ rsvd \in Nat /\ fs \in Nat
      /\ rsvd >= (IF p.fatBits = 32 THEN 9 ELSE 1)
      /\ fs >= rsvd + (2 * spf) + (IF p.fatBits = 32 THEN 0 ELSE 1)
      /\ spf * bps >= 3
      /\ (p.partStart + fs + spc) * bps <= DevSize
      /\ p.fatBits \in {12, 16, 32}
  BY SectorSizes, LayoutAssumption
<1> HIDE DEF bps, rsvd, spf, fs, spc
<1>2. 1 * bps <= p.partStart * bps /\ 1 * bps <= spf * bps /\ 1 * bps <= rsvd * bps
  BY <1>1, Multiples
<1>3. p.fatBits = 32 => 9 * bps <= rsvd * bps  BY <1>1, Multiples
<1>4. FatEnd(p) = (p.partStart + fs + one) * bps  BY DEF FatEnd, bps, fs, spc
<1>5. one \in 0 .. spc /\ (p.fatBits = 32 => one >= 1)  BY <1>1
<1>6. (p.partStart + rsvd + spf + spf + 1) * bps <= (p.partStart + fs + one) * bps
  <2>1. p.partStart + rsvd + spf + spf + 1 <= p.partStart + fs + one  BY <1>1, <1>5
  <2> QED  BY <1>1, <1>5, <2>1, Multiples
<1>7. (p.partStart + fs + one) * bps <= (p.partStart + fs + spc) * bps  BY <1>1, <1>5, Multiples
<1>8. (p.partStart + rsvd + spf + spf + 1) * bps
        = (p.partStart * bps) + (rsvd * bps) + (spf * bps) + (spf * bps) + bps
  BY <1>1
<1>9. /\ p.partStart * bps \in Nat /\ rsvd * bps \in Nat /\ spf * bps \in Nat
      /\ (p.partStart + fs + one) * bps \in Nat /\ DevSize \in Nat
  BY <1>1, <1>5, Sizes_
<1>10. (p.partStart + fs + one) * bps <= DevSize  BY <1>1, <1>5, <1>7, <1>9
<1> HIDE DEF one
<1> QED  BY <1>1, <1>2, <1>3, <1>4, <1>6, <1>8, <1>9, <1>10 DEF bps, rsvd, spf

\* The signature word ends its sector.
LEMMA RunsSignature ==
  ASSUME NEW p \in Layouts, p.fatBits <= 32, NEW sector \in Nat
  PROVE  Runs(Signature(p, sector), sector + SecSize, sector + p.bytesPerSec)
<1>1. /\ SecSize \in Nat \ {0} /\ p.bytesPerSec \in Nat \ {0} /\ p.bytesPerSec >= SecSize
      /\ p.bytesPerSec > SecSize => p.bytesPerSec >= SecSize + SecSize
  BY SectorSizes
<1>2. CASE p.bytesPerSec > SecSize
  <2> DEFINE at == sector + p.bytesPerSec - 1
  <2>1. at \in Nat /\ sector + SecSize \in Nat /\ sector + SecSize <= at
        /\ at + 1 = sector + p.bytesPerSec
    BY <1>1, <1>2
  <2>2. Token("sig") \in [0 .. 1 - 1 -> Cell]  BY FatSources
  <2> HIDE DEF at
  <2>3. Runs(FillAndWrite(Token("sig"), 1, at), sector + SecSize, at + 1)
    BY <2>1, <2>2, RunsFillAndWrite
  <2> QED  BY <1>2, <2>1, <2>3 DEF Signature, at
<1>3. CASE ~(p.bytesPerSec > SecSize)
  BY <1>1, <1>3, RunsNothing DEF Signature
<1> QED  BY <1>2, <1>3

\* From the sector at "at" to the end of the ninth.
LEMMA RunsFat32BootSectors ==
  ASSUME NEW p \in Layouts, p.fatBits <= 32, NEW at \in Nat
  PROVE  Runs(Fat32BootSectors(p, at), at, at + (9 * p.bytesPerSec))
<1> DEFINE bps == p.bytesPerSec
           s3  == at + (2 * bps) + bps - 1
           s6  == at + (6 * bps)
           s9  == at + (8 * bps) + bps - 1
<1>1. SecSize \in Nat \ {0} /\ bps \in Nat \ {0} /\ bps >= SecSize  BY SectorSizes
<1>2. /\ FatBoot(p) \in [0 .. SecSize - 1 -> Cell]
      /\ FsInfo(<<p.maxClus - 1>>) \in [0 .. SecSize - 1 -> Cell]
      /\ FsInfo(<<>>) \in [0 .. SecSize - 1 -> Cell]
      /\ Token("sig") \in [0 .. 1 - 1 -> Cell]
  BY FatSources
<1>3. /\ s3 \in Nat /\ s6 \in Nat /\ s9 \in Nat /\ at + bps \in Nat /\ s6 + bps \in Nat
      /\ at + bps + SecSize \in Nat /\ at + bps + SecSize <= s3
      /\ s3 + 1 \in Nat /\ s3 + 1 <= s6
      /\ s6 + bps + SecSize \in Nat /\ s6 + bps + SecSize <= s9
      /\ s9 + 1 = at + (9 * bps)
  BY <1>1
<1> HIDE DEF s3, s6, s9
<1>4. Runs(<<Write(FatBoot(p), SecSize)>>, at, at + SecSize)  BY <1>1, <1>2, RunsWrite
<1>5. Runs(Signature(p, at), at + SecSize, at + bps)  BY RunsSignature
<1>6. Runs(<<Write(FsInfo(<<p.maxClus - 1>>), SecSize)>>, at + bps, at + bps + SecSize)
  BY <1>1, <1>2, <1>3, RunsWrite
<1>7. Runs(FillAndWrite(Token("sig"), 1, s3), at + bps + SecSize, s3 + 1)
  BY <1>2, <1>3, RunsFillAndWrite
<1>8. Runs(FillAndWrite(FatBoot(p), SecSize, s6), s3 + 1, s6 + SecSize)
  BY <1>1, <1>2, <1>3, RunsFillAndWrite
<1>9. Runs(Signature(p, s6), s6 + SecSize, s6 + bps)  BY <1>3, RunsSignature
<1>10. Runs(<<Write(FsInfo(<<>>), SecSize)>>, s6 + bps, s6 + bps + SecSize)
  BY <1>1, <1>2, <1>3, RunsWrite
<1>11. Runs(FillAndWrite(Token("sig"), 1, s9), s6 + bps + SecSize, s9 + 1)
  BY <1>2, <1>3, RunsFillAndWrite
<1> HIDE DEF bps
<1>12. Runs(<<Write(FatBoot(p), SecSize)>>
            \o Signature(p, at)
            \o <<Write(FsInfo(<<p.maxClus - 1>>), SecSize)>>
            \o FillAndWrite(Token("sig"), 1, s3), at, s3 + 1)
  BY <1>4, <1>5, <1>6, <1>7, RunsThen
<1>13. Runs(<<Write(FatBoot(p), SecSize)>>
            \o Signature(p, at)
            \o <<Write(FsInfo(<<p.maxClus - 1>>), SecSize)>>
            \o FillAndWrite(Token("sig"), 1, s3)
            \o FillAndWrite(FatBoot(p), SecSize, s6)
            \o Signature(p, s6), at, s6 + bps)
  BY <1>8, <1>9, <1>12, RunsThen
<1>14. Runs(<<Write(FatBoot(p), SecSize)>>
            \o Signature(p, at)
            \o <<Write(FsInfo(<<p.maxClus - 1>>), SecSize)>>
            \o FillAndWrite(Token("sig"), 1, s3)
            \o FillAndWrite(FatBoot(p), SecSize, s6)
            \o Signature(p, s6)
            \o <<Write(FsInfo(<<>>), SecSize)>>
            \o FillAndWrite(Token("sig"), 1, s9), at, s9 + 1)
  BY <1>10, <1>11, <1>13, RunsThen
<1> QED  BY <1>3, <1>14 DEF Fat32BootSectors, bps, s3, s6, s9

LEMMA RunsFatTables ==
  ASSUME NEW p \in Layouts, p.fatBits <= 32, NEW hasLabel \in BOOLEAN, NEW a \in Nat,
         a <= (p.partStart * p.bytesPerSec) + (p.rsvdSecCnt * p.bytesPerSec)
  PROVE  \E b \in Nat : /\ b <= FatEnd(p)
                        /\ Runs(FatTables(p, p.partStart * p.bytesPerSec, hasLabel), a, b)
<1> DEFINE at   == p.partStart * p.bytesPerSec
           fat1 == at + (p.rsvdSecCnt * p.bytesPerSec)
           fat2 == fat1 + (p.secPerFat * p.bytesPerSec)
           root == fat2 + (p.secPerFat * p.bytesPerSec)
           size == IF p.fatBits < 32 THEN 1 ELSE 3
           tail == IF hasLabel THEN FillAndWrite(Token("volumeId"), 1, root) ELSE <<>>
<1>1. /\ fat1 \in Nat /\ fat2 \in Nat /\ root \in Nat /\ size \in Nat
      /\ fat1 + size <= fat2 /\ fat2 + size <= root /\ root + 1 <= FatEnd(p)
      /\ FatEnd(p) \in Nat /\ a <= fat1 /\ fat1 + size \in Nat /\ fat2 + size \in Nat
  BY FatAreas, SectorSizes
<1>2. /\ ReservedEntries(p) \in [0 .. size - 1 -> Cell]
      /\ Token("volumeId") \in [0 .. 1 - 1 -> Cell]
  BY FatSources
<1> HIDE DEF fat1, fat2, root, size
<1>3. Runs(FillAndWrite(ReservedEntries(p), size, fat1), a, fat1 + size)
  BY <1>1, <1>2, RunsFillAndWrite
<1>4. Runs(FillAndWrite(ReservedEntries(p), size, fat2), fat1 + size, fat2 + size)
  BY <1>1, <1>2, RunsFillAndWrite
<1>5. \E b \in Nat : b <= FatEnd(p) /\ Runs(tail, fat2 + size, b)
  <2>1. CASE hasLabel
    <3>1. Runs(FillAndWrite(Token("volumeId"), 1, root), fat2 + size, root + 1)
      BY <1>1, <1>2, RunsFillAndWrite
    <3> QED  BY <1>1, <2>1, <3>1
  <2>2. CASE ~hasLabel
    <3>1. Runs(<<>>, fat2 + size, fat2 + size)  BY <1>1, RunsNothing
    <3> QED  BY <1>1, <2>2, <3>1
  <2> QED  BY <2>1, <2>2
<1>6. PICK b \in Nat : b <= FatEnd(p) /\ Runs(tail, fat2 + size, b)  BY <1>5
<1> HIDE DEF tail
<1>7. Runs(FillAndWrite(ReservedEntries(p), size, fat1)
           \o FillAndWrite(ReservedEntries(p), size, fat2) \o tail, a, b)
  BY <1>3, <1>4, <1>6, RunsThen
<1>8. FatTables(p, at, hasLabel) =
        FillAndWrite(ReservedEntries(p), size, fat1)
        \o FillAndWrite(ReservedEntries(p), size, fat2) \o tail
  BY DEF FatTables, tail, root, fat2, fat1, size
<1> QED  BY <1>6, <1>7, <1>8

\* makeFsFat leads from the MBR to the end of the areas.
LEMMA RunsMakeFsFat ==
  ASSUME NEW p \in Layouts, p.fatBits <= 32, NEW hasLabel \in BOOLEAN
  PROVE  Runs(MakeFsFat(p, hasLabel), SecSize, FatEnd(p))
<1> DEFINE at   == p.partStart * p.bytesPerSec
           boot == IF p.fatBits < 32 THEN <<Write(FatBoot(p), SecSize)>> ELSE Fat32BootSectors(p, at)
           tables == FatTables(p, at, hasLabel)
<1>1. /\ at \in Nat /\ SecSize \in Nat /\ SecSize <= at /\ FatEnd(p) \in Nat
      /\ p.rsvdSecCnt * p.bytesPerSec \in Nat
  BY FatAreas, SectorSizes
<1>2. Runs(<<FillTo(at)>>, SecSize, at)  BY <1>1, RunsFill
<1>3. \E a \in Nat : a <= at + (p.rsvdSecCnt * p.bytesPerSec) /\ Runs(boot, at, a)
  <2>1. CASE p.fatBits < 32
    <3>1. FatBoot(p) \in [0 .. SecSize - 1 -> Cell]  BY FatSources
    <3>2. Runs(<<Write(FatBoot(p), SecSize)>>, at, at + SecSize)  BY <1>1, <3>1, RunsWrite
    <3>3. at + SecSize \in Nat /\ at + SecSize <= at + (p.rsvdSecCnt * p.bytesPerSec)
      BY <1>1, FatAreas, SectorSizes
    <3> QED  BY <2>1, <3>2, <3>3
  <2>2. CASE ~(p.fatBits < 32)
    <3>1. p.fatBits = 32  BY <2>2, LayoutAssumption
    <3>2. Runs(Fat32BootSectors(p, at), at, at + (9 * p.bytesPerSec))
      BY <1>1, RunsFat32BootSectors
    <3>3. /\ at + (9 * p.bytesPerSec) \in Nat
          /\ at + (9 * p.bytesPerSec) <= at + (p.rsvdSecCnt * p.bytesPerSec)
      BY <1>1, <3>1, FatAreas, SectorSizes
    <3> QED  BY <2>2, <3>2, <3>3
  <2> QED  BY <2>1, <2>2
<1>4. PICK a \in Nat : a <= at + (p.rsvdSecCnt * p.bytesPerSec) /\ Runs(boot, at, a)  BY <1>3
<1>5. PICK b \in Nat : b <= FatEnd(p) /\ Runs(tables, a, b)  BY <1>4, RunsFatTables
<1>6. Runs(<<FillTo(FatEnd(p))>>, b, FatEnd(p))  BY <1>1, <1>5, RunsFill
<1>7. MakeFsFat(p, hasLabel) = <<FillTo(at)>> \o boot \o tables \o <<FillTo(FatEnd(p))>>
  BY DEF MakeFsFat
<1> HIDE DEF at, boot, tables
<1>8. Runs(<<FillTo(at)>> \o boot \o tables \o <<FillTo(FatEnd(p))>>, SecSize, FatEnd(p))
  BY <1>2, <1>4, <1>5, <1>6, RunsThen
<1> QED  BY <1>7, <1>8

-----------------------------------------------------------------------------
(* Offsets of exFAT.                                                       *)

\* The end of the root directory's cluster.
ExfatEnd(p) ==
  (p.partitionOffset * p.bytesPerSec) + (p.clusterHeapOffset * p.bytesPerSec) + (3 * ClusterCells(p))

LEMMA ExfatAreas ==
  ASSUME NEW p \in Layouts, p.fatBits > 32
  PROVE  LET bps   == p.bytesPerSec
             start == p.partitionOffset * bps
             fat   == start + (p.fatOffset * bps)
             heap  == start + (p.clusterHeapOffset * bps)
         IN  /\ start \in Nat /\ fat \in Nat /\ heap \in Nat /\ ClusterCells(p) \in Nat
             /\ start >= SecSize
             /\ start + (24 * bps) <= fat
             /\ fat + 5 <= heap
             /\ ClusterCells(p) >= 3 /\ ClusterCells(p) >= UpCaseSize
             /\ ExfatEnd(p) \in Nat /\ ExfatEnd(p) <= DevSize
<1> DEFINE bps  == p.bytesPerSec
           part == p.partitionOffset
           fo   == p.fatOffset
           fl   == p.fatLength
           ho   == p.clusterHeapOffset
           cc   == p.clusterCount
           spc  == p.secPerClus
<1>1. /\ bps \in Nat \ {0} /\ SecSize \in Nat \ {0} /\ bps >= SecSize /\ spc \in Nat \ {0}
      /\ part \in Nat \ {0} /\ fo \in Nat /\ fl \in Nat /\ ho \in Nat /\ cc \in Nat
      /\ cc >= 3 /\ spc * bps >= 3 /\ fo >= 24 /\ fo + fl <= ho /\ cc + 2 <= fl * bps
      /\ UpCaseSize <= spc * bps
      /\ (part + ho + (cc * spc)) * bps <= DevSize
  BY SectorSizes, LayoutAssumption
<1>2. ClusterCells(p) = spc * bps  BY DEF ClusterCells
<1> HIDE DEF bps, part, fo, fl, ho, cc, spc
<1>3. 1 * bps <= part * bps /\ 24 * bps <= fo * bps /\ (fo + fl) * bps <= ho * bps
  BY <1>1, Multiples
<1>4. part * bps \in Nat /\ fo * bps \in Nat /\ fl * bps \in Nat /\ ho * bps \in Nat
      /\ spc * bps \in Nat /\ DevSize \in Nat
  BY <1>1, Sizes_
<1>5. (fo + fl) * bps = (fo * bps) + (fl * bps)  BY <1>1
<1>6. 3 * (spc * bps) <= cc * (spc * bps)  BY <1>1, <1>4, Multiples
<1>7. (part + ho + (cc * spc)) * bps = (part * bps) + (ho * bps) + (cc * (spc * bps))  BY <1>1
<1>8. cc * (spc * bps) \in Nat  BY <1>1, <1>4
<1>9. ExfatEnd(p) = (part * bps) + (ho * bps) + (3 * (spc * bps))
  BY <1>2 DEF ExfatEnd, bps, part, ho
<1>10. ExfatEnd(p) \in Nat /\ ExfatEnd(p) <= DevSize  BY <1>1, <1>4, <1>6, <1>7, <1>8, <1>9
<1> QED  BY <1>1, <1>2, <1>3, <1>4, <1>5, <1>10 DEF bps, part, fo, ho

\* The bitmap and the up-case table take a cluster each.
LEMMA OneCluster ==
  ASSUME NEW p \in Layouts, p.fatBits > 32
  PROVE  BitmapClus(p) = 1 /\ UpCaseClus(p) = 1
<1> DEFINE c == ClusterCells(p)
           n == p.clusterCount - 1
<1>1. /\ c \in Nat \ {0} /\ n \in Nat /\ n < 32 * c
      /\ UpCaseSize - 1 \in Nat /\ UpCaseSize - 1 < c
  <2>1. p.bytesPerSec \in Nat \ {0} /\ p.secPerClus \in Nat \ {0} /\ p.fatBits = 64
    BY SectorSizes, LayoutAssumption
  <2>2. p.clusterCount \in Nat /\ p.clusterCount >= 3
        /\ p.clusterCount <= 32 * p.secPerClus * p.bytesPerSec
        /\ UpCaseSize <= p.secPerClus * p.bytesPerSec
        /\ UpCaseSize \in Nat \ {0}
    BY <2>1, LayoutAssumption, CardAssumption
  <2>3. 32 * p.secPerClus * p.bytesPerSec = 32 * (p.secPerClus * p.bytesPerSec)  BY <2>1
  <2>4. p.secPerClus * p.bytesPerSec \in Nat \ {0}  BY <2>1
  <2> QED  BY <2>2, <2>3, <2>4 DEF ClusterCells
<1>2. \A m \in Nat, d \in Nat \ {0} : m < d => m \div d = 0
  <2> TAKE m \in Nat, d \in Nat \ {0}
  <2> HAVE m < d
  <2> QED  OBVIOUS
<1>3. 32 * c \in Nat \ {0}  BY <1>1
<1> HIDE DEF c, n
<1>4. n \div (32 * c) = 0 /\ (UpCaseSize - 1) \div c = 0  BY <1>1, <1>2, <1>3
<1> QED  BY <1>4 DEF BitmapClus, UpCaseClus, c, n

\* So each chain is its end mark, and the bitmap one word of three bits.
LEMMA RunsChain ==
  ASSUME NEW p \in Layouts, p.fatBits > 32, NEW start, NEW a \in Nat
  PROVE  Runs(Chain(start, 1), a, a + 1)
<1> DEFINE s == Chain(start, 1)
<1>1. Token("eof") \in [0 .. 1 - 1 -> Cell]  BY SectorSizes, ExfatSources
<1>2. s = [i \in 1 .. 1 |-> Write(Token("eof"), 1)]  BY DEF Chain
<1>3. Legal(Write(Token("eof"), 1), a, a + 1)  BY <1>1 DEF Legal
<1>4. Write(Token("eof"), 1) \in Calls  BY <1>3, LegalIsCall
<1>5. s \in [1 .. 1 -> Calls] /\ s[1] = Write(Token("eof"), 1)  BY <1>2, <1>4
<1> QED  BY <1>3, <1>5, RunsSingle

LEMMA RunsBitmap ==
  ASSUME NEW p \in Layouts, p.fatBits > 32, NEW a \in Nat
  PROVE  Runs(BitmapWords(3), a, a + 1)
<1> DEFINE s == BitmapWords(3)
           w == Write(Struct("bits", <<3>>, 1), 1)
<1>1. Struct("bits", <<3>>, 1) \in [0 .. 1 - 1 -> Cell]  BY SectorSizes, ExfatSources
<1>2. ((3 - 1) \div 32) + 1 = 1  OBVIOUS
<1>3. \A i \in 1 .. 1 : Lesser(32, 3 - (32 * (i - 1))) = 3  BY DEF Lesser
<1>4. s = [i \in 1 .. 1 |-> w]  BY <1>2, <1>3 DEF BitmapWords
<1>5. Legal(w, a, a + 1)  BY <1>1 DEF Legal
<1>6. w \in Calls  BY <1>5, LegalIsCall
<1> HIDE DEF w
<1>7. s \in [1 .. 1 -> Calls] /\ s[1] = w  BY <1>4, <1>6
<1> QED  BY <1>5, <1>7, RunsSingle

\* makeFsExFat leads from the MBR to the end of the root directory.
LEMMA RunsMakeFsExFat ==
  ASSUME NEW p \in Layouts, p.fatBits > 32, NEW hasLabel \in BOOLEAN
  PROVE  Runs(MakeFsExFat(p, hasLabel), SecSize, ExfatEnd(p))
<1> DEFINE bps    == p.bytesPerSec
           start  == p.partitionOffset * bps
           fat    == start + (p.fatOffset * bps)
           heap   == start + (p.clusterHeapOffset * bps)
           upCase == heap + ClusterCells(p)
           root   == upCase + ClusterCells(p)
           region == Write(BootRegion(p), 12 * bps)
           rsvd   == FillAndWrite(Struct("exfatRsvd", <<>>, 2), 2, fat)
           table  == FillAndWrite(UpCaseTable, UpCaseSize, upCase)
           dir    == FillAndWrite(RootEntries(p, hasLabel), 3, root)
<1>1. /\ bps \in Nat /\ SecSize \in Nat /\ start \in Nat /\ fat \in Nat /\ heap \in Nat
      /\ ClusterCells(p) \in Nat /\ UpCaseSize \in Nat
      /\ SecSize <= start /\ start + (24 * bps) <= fat /\ fat + 5 <= heap
      /\ ClusterCells(p) >= 3 /\ ClusterCells(p) >= UpCaseSize
  BY ExfatAreas, SectorSizes, CardAssumption
<1>2. /\ BootRegion(p) \in [0 .. (12 * bps) - 1 -> Cell]
      /\ Struct("exfatRsvd", <<>>, 2) \in [0 .. 2 - 1 -> Cell]
      /\ UpCaseTable \in [0 .. UpCaseSize - 1 -> Cell]
      /\ RootEntries(p, hasLabel) \in [0 .. 3 - 1 -> Cell]
  BY <1>1, ExfatSources
<1>3. BitmapClus(p) = 1 /\ UpCaseClus(p) = 1  BY OneCluster
<1>4. ExfatEnd(p) = root + ClusterCells(p)  BY <1>1 DEF ExfatEnd
<1>5. MakeFsExFat(p, hasLabel) =
        <<FillTo(start), Allocate>> \o <<region, region>> \o rsvd
        \o Chain(0, 1) \o Chain(1, 1) \o Chain(2, 1)
        \o <<FillTo(heap)>> \o BitmapWords(3) \o table \o dir
        \o <<FillTo(root + ClusterCells(p))>>
  <2>1. /\ ClusterCells(p) * BitmapClus(p) = ClusterCells(p)
        /\ ClusterCells(p) * UpCaseClus(p) = ClusterCells(p)
        /\ BitmapClus(p) + UpCaseClus(p) = 2 /\ BitmapClus(p) + UpCaseClus(p) + 1 = 3
    BY <1>1, <1>3
  <2> QED  BY <1>3, <2>1 DEF MakeFsExFat
<1> HIDE DEF bps
<1>6. /\ upCase \in Nat /\ root \in Nat /\ 12 * bps \in Nat
      /\ start + (12 * bps) \in Nat
      /\ (start + (12 * bps)) + (12 * bps) = start + (24 * bps)
      /\ start + (24 * bps) \in Nat
  BY <1>1
<1>7. Runs(<<FillTo(start), Allocate>>, SecSize, start)
  <2>1. Runs(<<FillTo(start)>>, SecSize, start)  BY <1>1, RunsFill
  <2>2. Runs(<<Allocate>>, start, start)  BY <1>1, RunsCall DEF Legal
  <2> QED  BY <2>1, <2>2, RunsPair
<1>8. Runs(<<region, region>>, start, start + (24 * bps))
  <2>1. Runs(<<region>>, start, start + (12 * bps))  BY <1>1, <1>2, <1>6, RunsWrite
  <2>2. Runs(<<region>>, start + (12 * bps), (start + (12 * bps)) + (12 * bps))
    BY <1>1, <1>2, <1>6, RunsWrite
  <2> QED  BY <1>6, <2>1, <2>2, RunsPair
<1>9. Runs(rsvd, start + (24 * bps), fat + 2)  BY <1>1, <1>2, <1>6, RunsFillAndWrite
<1>10. /\ Runs(Chain(0, 1), fat + 2, fat + 3)
       /\ Runs(Chain(1, 1), fat + 3, fat + 4)
       /\ Runs(Chain(2, 1), fat + 4, fat + 5)
  <2>1. /\ fat + 2 \in Nat /\ fat + 3 \in Nat /\ fat + 4 \in Nat
        /\ (fat + 2) + 1 = fat + 3 /\ (fat + 3) + 1 = fat + 4 /\ (fat + 4) + 1 = fat + 5
    BY <1>1
  <2> HIDE DEF fat
  <2>2. Runs(Chain(0, 1), fat + 2, (fat + 2) + 1)  BY <2>1, RunsChain
  <2>3. Runs(Chain(1, 1), fat + 3, (fat + 3) + 1)  BY <2>1, RunsChain
  <2>4. Runs(Chain(2, 1), fat + 4, (fat + 4) + 1)  BY <2>1, RunsChain
  <2> QED  BY <2>1, <2>2, <2>3, <2>4
<1>11. Runs(<<FillTo(heap)>>, fat + 5, heap)
  <2>1. fat + 5 \in Nat  BY <1>1
  <2> QED  BY <1>1, <2>1, RunsFill
<1>12. Runs(BitmapWords(3), heap, heap + 1)  BY <1>1, RunsBitmap
<1>13. Runs(table, heap + 1, upCase + UpCaseSize)
  <2>1. heap + 1 \in Nat /\ heap + 1 <= upCase  BY <1>1
  <2> QED  BY <1>1, <1>2, <1>6, <2>1, RunsFillAndWrite
<1>14. Runs(dir, upCase + UpCaseSize, root + 3)
  <2>1. upCase + UpCaseSize \in Nat /\ upCase + UpCaseSize <= root  BY <1>1
  <2> QED  BY <1>1, <1>2, <1>6, <2>1, RunsFillAndWrite
<1>15. Runs(<<FillTo(root + ClusterCells(p))>>, root + 3, root + ClusterCells(p))
  <2>1. /\ root + 3 \in Nat /\ root + ClusterCells(p) \in Nat
        /\ root + 3 <= root + ClusterCells(p)
    BY <1>1
  <2> QED  BY <2>1, RunsFill
<1> HIDE DEF start, fat, heap, upCase, root, region, rsvd, table, dir
<1>16. Runs(<<FillTo(start), Allocate>> \o <<region, region>> \o rsvd, SecSize, fat + 2)
  BY <1>7, <1>8, <1>9, RunsThen
<1>17. Runs(<<FillTo(start), Allocate>> \o <<region, region>> \o rsvd
            \o Chain(0, 1) \o Chain(1, 1) \o Chain(2, 1), SecSize, fat + 5)
  BY <1>10, <1>16, RunsThen
<1>18. Runs(<<FillTo(start), Allocate>> \o <<region, region>> \o rsvd
            \o Chain(0, 1) \o Chain(1, 1) \o Chain(2, 1)
            \o <<FillTo(heap)>> \o BitmapWords(3) \o table, SecSize, upCase + UpCaseSize)
  BY <1>11, <1>12, <1>13, <1>17, RunsThen
<1>19. Runs(<<FillTo(start), Allocate>> \o <<region, region>> \o rsvd
            \o Chain(0, 1) \o Chain(1, 1) \o Chain(2, 1)
            \o <<FillTo(heap)>> \o BitmapWords(3) \o table \o dir
            \o <<FillTo(root + ClusterCells(p))>>, SecSize, root + ClusterCells(p))
  BY <1>14, <1>15, <1>18, RunsThen
<1> QED  BY <1>4, <1>5, <1>19

-----------------------------------------------------------------------------
(* Where the functions end.                                                *)

FunctionEnd(p) == IF p.fatBits <= 32 THEN FatEnd(p) ELSE ExfatEnd(p)

LEMMA Ends ==
  ASSUME NEW p \in Layouts
  PROVE  /\ FunctionEnd(p) \in Nat
         /\ SecSize <= FunctionEnd(p) /\ FunctionEnd(p) <= DevSize
         /\ FunctionEnd(p) % SecSize = 0
<1>1. /\ SecSize \in Nat \ {0} /\ p.bytesPerSec \in Nat \ {0} /\ p.fatBits \in {12, 16, 32, 64}
  BY SectorSizes, LayoutAssumption
<1>2. PICK k \in 1 .. p.bytesPerSec : p.bytesPerSec = k * SecSize  BY LayoutAssumption
<1>3. ASSUME NEW n \in Nat  PROVE (n * p.bytesPerSec) % SecSize = 0
  <2>1. n * p.bytesPerSec = SecSize * (n * k) + 0  BY <1>1, <1>2
  <2>2. n * k \in Nat  BY <1>2
  <2>3. (SecSize * (n * k) + 0) % SecSize = 0  BY <1>1, <2>2, Remainder
  <2> QED  BY <2>1, <2>3
<1>4. CASE p.fatBits <= 32
  <2> DEFINE n == p.partStart + p.fsAreaSize + (IF p.fatBits < 32 THEN 0 ELSE p.secPerClus)
  <2>1. n \in Nat  BY <1>4, LayoutAssumption
  <2>2. FatEnd(p) = n * p.bytesPerSec  BY DEF FatEnd
  <2> HIDE DEF n
  <2>3. FatEnd(p) % SecSize = 0  BY <1>3, <2>1, <2>2
  <2>4. FatEnd(p) \in Nat /\ FatEnd(p) <= DevSize /\ SecSize <= FatEnd(p)
    BY <1>1, <1>4, FatAreas
  <2> QED  BY <1>4, <2>3, <2>4 DEF FunctionEnd
<1>5. CASE ~(p.fatBits <= 32)
  <2> DEFINE n == p.partitionOffset + p.clusterHeapOffset + (3 * p.secPerClus)
  <2>1. /\ p.partitionOffset \in Nat /\ p.clusterHeapOffset \in Nat /\ p.secPerClus \in Nat
    BY <1>1, <1>5, LayoutAssumption
  <2>2. n \in Nat /\ ExfatEnd(p) = n * p.bytesPerSec
    BY <1>1, <2>1 DEF ExfatEnd, ClusterCells
  <2> HIDE DEF n
  <2>3. ExfatEnd(p) % SecSize = 0  BY <1>3, <2>2
  <2>4. ExfatEnd(p) \in Nat /\ ExfatEnd(p) <= DevSize /\ SecSize <= ExfatEnd(p)
    BY <1>1, <1>5, ExfatAreas DEF ExfatEnd
  <2> QED  BY <1>5, <2>3, <2>4 DEF FunctionEnd
<1> QED  BY <1>4, <1>5

LEMMA RunsPartition ==
  ASSUME NEW p \in Layouts
  PROVE  Runs(CreateMbrAndPartition(p), 0, SecSize)
<1>1. SecSize \in Nat /\ p.bytesPerSec \in Nat  BY SectorSizes
<1>2. Mbr(p) \in [0 .. SecSize - 1 -> Cell]
  <2>1. CASE p.fatBits <= 32  BY <2>1, FatSources
  <2>2. CASE ~(p.fatBits <= 32)
    <3>1. p.fatBits > 32  BY <2>2, LayoutAssumption
    <3> QED  BY <1>1, <3>1, ExfatSources
  <2> QED  BY <2>1, <2>2
<1>3. 0 + SecSize = SecSize  BY <1>1
<1>4. Runs(<<Write(Mbr(p), SecSize)>>, 0, 0 + SecSize)  BY <1>1, <1>2, RunsWrite
<1> QED  BY <1>3, <1>4 DEF CreateMbrAndPartition

MakeFs(p, hasLabel) == IF p.fatBits <= 32 THEN MakeFsFat(p, hasLabel) ELSE MakeFsExFat(p, hasLabel)

LEMMA RunsMakeFs ==
  ASSUME NEW p \in Layouts, NEW hasLabel \in BOOLEAN
  PROVE  Runs(MakeFs(p, hasLabel), SecSize, FunctionEnd(p))
<1>1. CASE p.fatBits <= 32  BY <1>1, RunsMakeFsFat DEF MakeFs, FunctionEnd
<1>2. CASE ~(p.fatBits <= 32)
  <2>1. p.fatBits > 32  BY <1>2, LayoutAssumption
  <2> QED  BY <1>2, <2>1, RunsMakeFsExFat DEF MakeFs, FunctionEnd
<1> QED  BY <1>1, <1>2

-----------------------------------------------------------------------------
(* The process never seeks back.                                           *)

InCall == step \in {"head", "body"}

\* What the writer has been asked for: the end of the call that runs.
Reached == IF InCall THEN target ELSE pos

Chosen == {"label", "erase", "mbr", "partition", "format", "close", "closing"}

\* Where the running function has to get.
Goal == IF phase = "partition" THEN SecSize ELSE FunctionEnd(layout)

\* The calls that are left lead from where the writer is to the function's end.
SeekInv ==
  /\ labelled \in BOOLEAN
  /\ phase \in Chosen => layout \in Layouts
  /\ phase \in Before \cup {"mbr"} => pos = 0 /\ ~InCall
  /\ phase \in {"partition", "format"} /\ err = "none" => Runs(todo, Reached, Goal)
  /\ phase = "close" => pos = FunctionEnd(layout)
  /\ InCall => err = "none"
  /\ err # "EINVAL"

LEMMA GoalFits ==
  ASSUME layout \in Layouts
  PROVE  Goal \in Nat /\ Goal <= FunctionEnd(layout) /\ Goal <= DevSize /\ Goal < Word
BY Ends, Sizes_, CardAssumption DEF Goal

\* A call of the function is taken: it is legal where the writer is.
LEMMA CallTaken ==
  ASSUME Ready, Call, Runs(todo, pos, Goal), Goal \in Nat, Goal < Word
  PROVE  /\ \/ \E m \in Nat : pos <= m /\ m <= Goal /\ FillCall(m)
            \/ \E n \in Nat : \E src \in [0 .. n - 1 -> Cell] :
                 pos + n <= Goal /\ WriteCall(n, src)
            \/ UNCHANGED vars
         /\ err' = "none"
         /\ Runs(todo', Reached', Goal)
<1> DEFINE c == Head(todo)
<1>1. pos \in Nat  BY RunsForward
<1>2. todo # <<>> /\ todo' = Tail(todo)  BY DEF Call
<1>3. PICK m \in pos .. Goal : Legal(c, pos, m) /\ Runs(Tail(todo), m, Goal)
  BY <1>2, RunsStep
<1>4. Word \in Nat /\ m \in Nat /\ pos <= m /\ m <= Goal /\ m < Word  BY <1>1, <1>3, Sizes_
<1>5. step = "idle" /\ err = "none"  BY DEF Ready
<1>6. \/ c.call = "fill" /\ FillCall(c.offset)
      \/ c.call = "write" /\ WriteCall(c.size, c.src)
      \/ c.call = "new" /\ UNCHANGED vars
  BY DEF Call
<1> HIDE DEF c
<1>7. CASE c = FillTo(m)
  <2>1. FillCall(m)  BY <1>6, <1>7 DEF FillTo
  <2>2. CASE m = pos
    <3>1. ReturnEarly("none")  BY <1>1, <2>1, <2>2 DEF FillCall, AlignToBuffer
    <3>2. err' = "none" /\ Reached' = m  BY <1>5, <2>2, <3>1 DEF ReturnEarly, callVars, Reached, InCall
    <3> QED  BY <1>2, <1>3, <1>4, <2>1, <3>2
  <2>3. CASE m # pos
    <3>1. AlignToBuffer("fill", m, NoBytes, Zeros)  BY <1>1, <1>4, <2>1, <2>3 DEF FillCall
    <3>2. err' = "none" /\ Reached' = m  BY <1>5, <3>1 DEF AlignToBuffer, Reached, InCall
    <3> QED  BY <1>2, <1>3, <1>4, <2>1, <3>2
  <2> QED  BY <2>2, <2>3
<1>8. CASE c = Allocate /\ m = pos
  <2>1. UNCHANGED vars  BY <1>6, <1>8 DEF Allocate
  <2>2. err' = "none" /\ Reached' = m
    BY <1>5, <1>8, <2>1 DEF vars, writerVars, callVars, Reached, InCall
  <2> QED  BY <1>2, <1>3, <2>1, <2>2
<1>9. ASSUME NEW n \in Nat, NEW src \in [0 .. n - 1 -> Cell], c = Write(src, n), m = pos + n
      PROVE  /\ pos + n <= Goal /\ WriteCall(n, src)
             /\ err' = "none" /\ Reached' = m
  <2>1. WriteCall(n, src)  BY <1>6, <1>9 DEF Write
  <2>2. CASE n = 0
    <3>1. ReturnEarly("none")  BY <2>1, <2>2 DEF WriteCall
    <3> QED  BY <1>1, <1>4, <1>5, <1>9, <2>1, <2>2, <3>1 DEF ReturnEarly, callVars, Reached, InCall
  <2>3. CASE n # 0
    <3>1. n > 0 /\ pos + n < Word /\ ~(pos + n >= Word)  BY <1>1, <1>4, <1>9, <2>3
    <3>2. AlignToBuffer("write", pos + n, src, src)  BY <2>1, <2>3, <3>1 DEF WriteCall
    <3> QED  BY <1>4, <1>5, <1>9, <2>1, <3>2 DEF AlignToBuffer, Reached, InCall
  <2> QED  BY <2>2, <2>3
<1> QED  BY <1>2, <1>3, <1>7, <1>8, <1>9 DEF Legal

\* A call that goes on aims where it did, until it has got there, or failed.
LEMMA CallContinues ==
  ASSUME Continue
  PROVE  /\ InCall
         /\ \/ err' = "EIO" /\ ~InCall'
            \/ err' = err /\ Reached' = Reached
            \/ err' = "none" /\ Reached' = Reached
BY DEF Continue, FlushHead, FillBlock, FillDone, WriteBlock, WriteDone, ReturnError, ReturnOk,
   Reached, InCall

LEMMA SeekStep == SeekInv /\ [MainNext]_mainVars => SeekInv'
<1> SUFFICES ASSUME SeekInv, [MainNext]_mainVars PROVE SeekInv'  OBVIOUS
<1>1. ASSUME phase \in Before, UNCHANGED <<pos, step, err>>,
             labelled' \in BOOLEAN,
             phase' \notin {"partition", "format", "close", "closing"},
             phase' \in Chosen => layout' \in Layouts
      PROVE  SeekInv'
  BY <1>1 DEF SeekInv, InCall, Before, Undecided
<1>2. CASE ParseOption \/ CheckOperands \/ CallFormatSd
  <2>1. /\ phase \in Before /\ UNCHANGED <<pos, step, err, layout>> /\ labelled' \in BOOLEAN
        /\ phase' \in {"options", "call", "start", "end"}
    BY <1>2 DEF ParseOption, CheckOperands, CallFormatSd, Take, Exit, vars, writerVars, callVars,
       Before, Undecided, SeekInv
  <2> QED  BY <1>1, <2>1 DEF Chosen
<1>3. CASE DropPrivileges \/ DropIds \/ DropFails \/ ParanoidCheck
  <2>1. /\ phase \in Before /\ UNCHANGED <<pos, step, err, layout, labelled>>
        /\ phase' \in {"params", "first", "second", "paranoid", "end"}
    BY <1>3 DEF DropPrivileges, DropIds, DropFails, ParanoidCheck, Goto, Die, vars, writerVars,
       callVars, Before, Undecided
  <2> QED  BY <1>1, <2>1 DEF Chosen, SeekInv
<1>4. CASE OpenCard
  BY <1>4 DEF OpenCard, Open, Goto, Return, SeekInv, InCall, Before, Undecided, Chosen
<1>5. CASE ChooseParams \/ CheckLabel
  <2>1. /\ phase \in Before /\ UNCHANGED <<pos, step, err, labelled>>
        /\ phase' \in {"return", "label", "erase"}
        /\ phase' \in Chosen => layout' \in Layouts
    BY <1>5 DEF ChooseParams, CheckLabel, Goto, Return, vars, writerVars, callVars, Before,
       Undecided, Chosen, SeekInv
  <2> QED  BY <1>1, <2>1 DEF SeekInv
<1>6. CASE EraseCard
  BY <1>6 DEF EraseCard, EraseAll, Goto, Return, vars, writerVars, callVars, SeekInv, InCall,
     Before, Undecided, Chosen
<1>7. CASE Partition
  <2>1. /\ UNCHANGED <<pos, step, err, layout, labelled>> /\ phase' = "partition"
        /\ todo' = CreateMbrAndPartition(layout) /\ phase = "mbr"
    BY <1>7 DEF Partition, vars, writerVars, callVars
  <2>2. layout \in Layouts /\ Reached' = 0 /\ Goal' = SecSize
    BY <2>1 DEF SeekInv, Chosen, Reached, InCall, Goal
  <2>3. Runs(todo', Reached', Goal')  BY <2>1, <2>2, RunsPartition
  <2> QED  BY <2>1, <2>2, <2>3 DEF SeekInv, InCall, Before, Undecided, Chosen
<1>8. CASE Format
  <2>1. /\ UNCHANGED <<pos, step, err, layout, labelled>> /\ todo = <<>> /\ phase = "partition"
        /\ err = "none" /\ step = "idle"
    BY <1>8 DEF Format, Return, Ready, vars, writerVars, callVars
  <2>2. CASE phase' = "format"
    <3>1. todo' = MakeFs(layout, labelled)  BY <1>8, <2>2 DEF Format, Return, MakeFs
    <3>2. layout \in Layouts /\ labelled \in BOOLEAN /\ Runs(<<>>, Reached, SecSize)
      BY <2>1 DEF SeekInv, Chosen, Goal
    <3>3. Reached' = SecSize /\ Goal' = FunctionEnd(layout)
      BY <2>1, <2>2, <3>2, NothingRuns DEF Reached, InCall, Goal
    <3>4. Runs(todo', Reached', Goal')  BY <3>1, <3>2, <3>3, RunsMakeFs
    <3> QED  BY <2>1, <2>2, <3>2, <3>4 DEF SeekInv, Before, Undecided
  <2>3. CASE phase' = "return"
    BY <2>1, <2>3 DEF SeekInv, Before, Undecided, Chosen
  <2> QED  BY <1>8, <2>2, <2>3 DEF Format, Return
<1>9. CASE Call
  <2>1. /\ UNCHANGED <<phase, layout, labelled>> /\ phase \in {"partition", "format"} /\ Ready
    BY <1>9 DEF Call
  <2>2. layout \in Layouts /\ Runs(todo, pos, Goal) /\ Goal' = Goal
    BY <2>1 DEF SeekInv, Chosen, Ready, Reached, InCall, Goal
  <2>3. err' = "none" /\ Runs(todo', Reached', Goal)
    BY <1>9, <2>1, <2>2, GoalFits, CallTaken
  <2> QED  BY <2>1, <2>2, <2>3 DEF SeekInv, Before, Undecided
<1>10. CASE Continue
  <2>1. UNCHANGED <<phase, layout, labelled, todo>> /\ phase \in {"partition", "format"}
    BY <1>10 DEF Continue, sdVars
  <2>2. Goal' = Goal  BY <2>1 DEF Goal
  <2>3. InCall /\ err = "none"  BY <1>10, CallContinues DEF SeekInv
  <2>4. CASE err' = "EIO" /\ ~InCall'
    BY <2>1, <2>4 DEF SeekInv, Before, Undecided
  <2>5. CASE err' = "none" /\ Reached' = Reached
    BY <2>1, <2>2, <2>3, <2>5 DEF SeekInv, Before, Undecided
  <2> QED  BY <1>10, <2>3, <2>4, <2>5, CallContinues
<1>11. CASE GiveUp
  BY <1>11 DEF GiveUp, Return, vars, writerVars, callVars, SeekInv, InCall, Before, Undecided, Chosen
<1>12. CASE FormatDone
  <2>1. /\ UNCHANGED <<pos, step, err, layout, labelled, todo>> /\ todo = <<>> /\ Ready
        /\ phase = "format" /\ phase' = "close"
    BY <1>12 DEF FormatDone, Goto, vars, writerVars, callVars
  <2>2. layout \in Layouts /\ Runs(<<>>, pos, FunctionEnd(layout))
    BY <2>1 DEF SeekInv, Chosen, Ready, Reached, InCall, Goal
  <2>3. pos' = FunctionEnd(layout')  BY <2>1, <2>2, NothingRuns
  <2> QED  BY <2>1, <2>2, <2>3 DEF SeekInv, InCall, Before, Undecided
<1>13. CASE CloseCard \/ Closed \/ Destroy \/ Destroyed
  <2>1. /\ UNCHANGED <<err, layout, labelled>> /\ ~InCall'
        /\ phase' \in {"closing", "return", "returning", "end"}
        /\ phase' = "closing" => phase \in Chosen
    BY <1>13 DEF CloseCard, Closed, Destroy, Destroyed, CloseFlush, CloseDev, Goto, Return, Chosen,
       InCall
  <2> QED  BY <2>1 DEF SeekInv, Before, Undecided, Chosen
<1>14. CASE Finished \/ UNCHANGED mainVars
  <2>1. UNCHANGED <<phase, layout, labelled, todo, pos, step, target, err>>
    BY <1>14 DEF Finished, mainVars, allVars, sdVars, vars, writerVars, callVars
  <2> QED  BY <2>1 DEF SeekInv, Reached, InCall, Goal
<1> QED
  BY <1>2, <1>3, <1>4, <1>5, <1>6, <1>7, <1>8, <1>9, <1>10, <1>11, <1>12, <1>13, <1>14
  DEF MainNext, SdNext

THEOREM SeekInvariant == MainSpec => []SeekInv
<1>1. MainInit => SeekInv
  BY DEF MainInit, SdInit, Init, SeekInv, InCall, Before, Undecided, Chosen
<1> QED  BY <1>1, SeekStep, PTL DEF MainSpec

\* No fill of makeFsFat or makeFsExFat is asked to go back, and no write to go
\* around the end of a u64, for every layout that getFormatParams accepts.
THEOREM OffsetsGoForward == MainSpec => []NeverSeeksBack
<1>1. SeekInv => NeverSeeksBack  BY DEF SeekInv, NeverSeeksBack
<1> QED  BY <1>1, SeekInvariant, PTL

\* The file system ends with a sector, so that close() drops nothing.
THEOREM EndsWithSector == MainSpec => []ClosesAtSectorEnd
<1>1. SeekInv => ClosesAtSectorEnd  BY Ends DEF SeekInv, ClosesAtSectorEnd, Chosen
<1> QED  BY <1>1, SeekInvariant, PTL

-----------------------------------------------------------------------------
(* The writer inside of the process: types and control.                    *)

\* Where the writer is when formatSd is where it is.
StepOfPhase ==
  /\ phase \in {"options", "call", "start"} => step = "new"
  /\ phase \in {"privileges", "first", "second", "paranoid", "params", "label", "erase", "mbr",
                "close"} => step = "idle"
  /\ phase \in {"partition", "format"} => step \in {"idle", "head", "body"}
  /\ phase \in {"closing", "returning"} => step = "closing"
  /\ phase = "return" => step \in {"idle", "closed"}

LEMMA StepOfPhaseStep == StepOfPhase /\ [MainNext]_mainVars => StepOfPhase'
<1> SUFFICES ASSUME StepOfPhase, [MainNext]_mainVars PROVE StepOfPhase'  OBVIOUS
<1> USE DEF StepOfPhase
<1>1. CASE ParseOption \/ CheckOperands \/ CallFormatSd
  BY <1>1 DEF ParseOption, CheckOperands, CallFormatSd, Take, Exit, vars, writerVars, callVars
<1>2. CASE DropPrivileges \/ DropIds \/ DropFails \/ ParanoidCheck
  BY <1>2 DEF DropPrivileges, DropIds, DropFails, ParanoidCheck, Goto, Die, vars, writerVars, callVars
<1>3. CASE OpenCard \/ ChooseParams \/ CheckLabel \/ EraseCard
  BY <1>3 DEF OpenCard, ChooseParams, CheckLabel, EraseCard, Goto, Return, Open, EraseAll, vars,
     writerVars, callVars
<1>4. CASE Partition \/ Format \/ GiveUp \/ FormatDone
  BY <1>4 DEF Partition, Format, GiveUp, FormatDone, Goto, Return, Ready, vars, writerVars, callVars
<1>5. CASE Call
  BY <1>5 DEF Call, FillCall, WriteCall, ReturnEarly, AlignToBuffer, Ready, vars, writerVars, callVars
<1>6. CASE Continue
  BY <1>6 DEF Continue, FlushHead, FillBlock, FillDone, WriteBlock, WriteDone, ReturnError,
     ReturnOk, sdVars
<1>7. CASE CloseCard \/ Closed \/ Destroy \/ Destroyed
  BY <1>7 DEF CloseCard, Closed, Destroy, Destroyed, CloseFlush, CloseDev, Goto, Return
<1>8. CASE Finished \/ UNCHANGED mainVars
  BY <1>8 DEF Finished, mainVars, allVars, sdVars, vars, writerVars, callVars
<1> QED
  BY <1>1, <1>2, <1>3, <1>4, <1>5, <1>6, <1>7, <1>8 DEF MainNext, SdNext

LEMMA ShapeKept == ASSUME Shape, UNCHANGED vars PROVE Shape'
BY DEF vars, writerVars, callVars, histVars, devVars, Shape, TypeOK, Control, DevTypeOK, Steps,
   Acked, Addr, BlockStart

\* What a call of the running function is to the writer.
LEMMA CallIsLegal ==
  ASSUME SeekInv, Call
  PROVE  \/ \E m \in Nat : FillCall(m)
         \/ \E n \in Nat : \E src \in [0 .. n - 1 -> Cell] : WriteCall(n, src)
         \/ UNCHANGED vars
<1>1. phase \in {"partition", "format"} /\ Ready  BY DEF Call
<1>2. layout \in Layouts /\ Runs(todo, pos, Goal)
  BY <1>1 DEF SeekInv, Chosen, Ready, Reached, InCall
<1> QED  BY <1>1, <1>2, GoalFits, CallTaken

LEMMA ShapeSdStep ==
  SeekInv /\ StepOfPhase /\ Shape /\ [MainNext]_mainVars => Shape'
<1> SUFFICES ASSUME SeekInv, StepOfPhase, Shape, [MainNext]_mainVars PROVE Shape'  OBVIOUS
<1>1. CASE ParseOption \/ CheckOperands \/ CallFormatSd
  <2>1. UNCHANGED vars  BY <1>1 DEF ParseOption, CheckOperands, CallFormatSd, Take, Exit
  <2> QED  BY <2>1, ShapeKept
<1>2. ASSUME Die PROVE Shape'
  BY <1>2 DEF Die, writerVars, callVars, histVars, Shape, TypeOK, Control, DevTypeOK, Steps,
     Acked, Addr, BlockStart
<1>3. CASE DropPrivileges \/ DropIds \/ DropFails \/ ParanoidCheck
  BY <1>2, <1>3, ShapeKept DEF DropPrivileges, DropIds, DropFails, ParanoidCheck
<1>4. CASE OpenCard  BY <1>4, ShapeOpen DEF OpenCard
<1>5. CASE EraseCard  BY <1>5, ShapeErase, ShapeKept DEF EraseCard
<1>6. CASE ChooseParams \/ CheckLabel \/ Partition \/ Format \/ GiveUp \/ FormatDone
  <2>1. UNCHANGED vars
    BY <1>6 DEF ChooseParams, CheckLabel, Partition, Format, GiveUp, FormatDone
  <2> QED  BY <2>1, ShapeKept
<1>7. CASE Call
  <2>1. ASSUME NEW n \in Nat, NEW src \in [0 .. n - 1 -> Cell], WriteCall(n, src)  PROVE Shape'
    BY <2>1, ShapeWriteBytes
  <2>2. ASSUME NEW m \in Nat, FillCall(m)  PROVE Shape'  BY <2>2, ShapeFillCall
  <2> QED  BY <1>7, <2>1, <2>2, CallIsLegal, ShapeKept
<1>8. CASE Continue
  BY <1>8, ShapeFlushHead, ShapeFillBlock, ShapeFillDone, ShapeWriteBlock, ShapeWriteDone DEF Continue
<1>9. CASE CloseCard  BY <1>9, ShapeCloseFlush DEF CloseCard
<1>10. CASE Closed \/ Destroyed  BY <1>10, ShapeCloseDev DEF Closed, Destroyed
<1>11. CASE Destroy
  <2>1. CASE CloseFlush  BY <2>1, ShapeCloseFlush
  <2>2. CASE ~CloseFlush
    <3>1. /\ pos = 0 /\ step \in {"idle", "closed"} /\ step' = "closed"
          /\ fd' \in {fd, FALSE} /\ dirty' \in {dirty, FALSE} /\ sectors' \in {sectors, 0}
          /\ durable' \in {durable, TRUE} /\ disk' = disk
          /\ UNCHANGED <<buf, pos, op, cur, target, data, err, closeRes, stream, closedAt, base>>
      BY <1>11, <2>2 DEF Destroy, StepOfPhase, DevClose, devVars, histVars
    <3>2. DevTypeOK'  BY <3>1 DEF DevTypeOK, Shape, TypeOK, Addr
    <3>3. Acked' = Acked  BY <3>1 DEF Acked, Shape, Control
    <3>4. TypeOK'  BY <3>1, <3>2, <3>3 DEF Shape, TypeOK, Steps, Addr
    <3>5. Control'  BY <3>1 DEF Shape, Control, BlockStart
    <3> QED  BY <3>4, <3>5 DEF Shape
  <2> QED  BY <2>1, <2>2
<1>12. CASE Finished \/ UNCHANGED mainVars
  <2>1. UNCHANGED vars  BY <1>12 DEF Finished, mainVars, allVars
  <2> QED  BY <2>1, ShapeKept
<1> QED
  BY <1>1, <1>3, <1>4, <1>5, <1>6, <1>7, <1>8, <1>9, <1>10, <1>11, <1>12 DEF MainNext, SdNext

-----------------------------------------------------------------------------
(* The clusters that hold the user's data.                                 *)

\* A step of the writer writes below any end of a sector that its call ends below.
LEMMA WritesBelow ==
  ASSUME Shape, NEW end \in Nat, end % SecSize = 0, pos <= end, InCall => target <= end,
         FlushHead \/ FillBlock \/ WriteBlock \/ CloseFlush,
         NEW a \in Addr, a >= end
  PROVE  disk'[a] = disk[a]
<1>0. /\ pos \in Nat /\ cur \in Nat /\ target \in Nat /\ DevTypeOK /\ BlkSize \in Nat \ {0}
      /\ a \in Nat
  BY Sizes_ DEF Shape, TypeOK, Addr
<1>1. ASSUME NEW at \in Nat, NEW n \in Nat, at + n <= end, NEW src, NEW skip,
             DevWrite(at, n, src, skip) \/ DevWriteFails(at, n, src, skip)
      PROVE  disk'[a] = disk[a]
  <2>1. a >= at + n  BY <1>0, <1>1
  <2> QED  BY <1>0, <1>1, <2>1, DevWriteBounds
<1>2. CASE FlushHead
  <2>1. BlockStart(cur) \in Nat /\ BlockStart(cur) + BlkSize <= target /\ target <= end
    BY <1>0, <1>2, BlockStartFacts DEF FlushHead, Shape, Control, InCall
  <2>2. BlockStart(cur) + BlkSize <= end  BY <1>0, <2>1
  <2> QED  BY <1>0, <1>1, <1>2, <2>1, <2>2 DEF FlushHead
<1>3. CASE FillBlock \/ WriteBlock
  <2>1. cur + BlkSize <= target /\ target <= end
    BY <1>3, BlockFits DEF FillBlock, WriteBlock, InCall
  <2>2. cur + BlkSize <= end  BY <1>0, <2>1
  <2> QED  BY <1>0, <1>1, <1>3, <2>2 DEF FillBlock, WriteBlock
<1>4. CASE CloseFlush
  <2>1. /\ BlockStart(pos) \in Nat /\ FlushSize \in Nat
        /\ BlockStart(pos) + FlushSize <= SectorEnd(pos) /\ SectorEnd(pos) \in Nat
    BY <1>0, FlushGeometry
  <2>2. SectorEnd(pos) <= end  BY <1>0, SectorEndLeast
  <2>3. BlockStart(pos) + FlushSize <= end  BY <2>1, <2>2
  <2>4. CASE UNCHANGED devVars  BY <2>4 DEF devVars
  <2> QED  BY <1>1, <1>4, <2>1, <2>3, <2>4 DEF CloseFlush
<1> QED  BY <1>2, <1>3, <1>4

\* FsEnd is where makeFsFat and makeFsExFat end.
LEMMA EndIs ==
  ASSUME NEW p \in Layouts \cup {NoLayout}
  PROVE  /\ EndOf(p) \in Nat /\ EndOf(p) % SecSize = 0
         /\ p = NoLayout => EndOf(p) = 0
         /\ p \in Layouts => EndOf(p) = FunctionEnd(p)
<1>1. CASE p = NoLayout
  <2>1. EndOf(p) = 0 /\ 0 % SecSize = 0  BY <1>1, Sizes_ DEF EndOf
  <2>2. p \notin Layouts  BY <1>1, LayoutAssumption DEF NoLayout
  <2> QED  BY <2>1, <2>2
<1>2. CASE p \in Layouts
  <2>1. /\ p.bytesPerSec \in Nat /\ p.secPerClus \in Nat /\ p.fatBits \in {12, 16, 32, 64}
        /\ p # NoLayout
    BY <1>2, SectorSizes, LayoutAssumption DEF NoLayout
  <2>2. CASE p.fatBits <= 32
    <3>1. p.partStart \in Nat /\ p.fsAreaSize \in Nat  BY <1>2, <2>2, LayoutAssumption
    <3>2. EndOf(p) = FunctionEnd(p)  BY <2>1, <2>2, <3>1 DEF EndOf, FunctionEnd, FatEnd
    <3> QED  BY <1>2, <2>1, <3>2, Ends
  <2>3. CASE ~(p.fatBits <= 32)
    <3>1. p.partitionOffset \in Nat /\ p.clusterHeapOffset \in Nat
      BY <1>2, <2>1, <2>3, LayoutAssumption
    <3>2. EndOf(p) = FunctionEnd(p)
      BY <2>1, <2>3, <3>1 DEF EndOf, FunctionEnd, ExfatEnd, ClusterCells
    <3> QED  BY <1>2, <2>1, <3>2, Ends
  <2> QED  BY <2>2, <2>3
<1> QED  BY <1>1, <1>2

\* Whatever was asked of the writer ends at or below the end of the structures,
\* also when the call that asked it failed.
DataInv ==
  /\ layout \in Layouts \cup {NoLayout}
  /\ Reached <= FsEnd
  /\ DataAreaUntouched

SdInv == IdInv /\ SeekInv /\ StepOfPhase /\ Shape /\ DataInv

\* Steps that change neither the card nor where the writer is.
LEMMA DataKept ==
  ASSUME DataInv, UNCHANGED <<disk, base, layout, pos, step, target>>
  PROVE  DataInv'
BY DEF DataInv, DataAreaUntouched, FsEnd, Addr, Reached, InCall

LEMMA DataStep == SdInv /\ [MainNext]_mainVars => DataInv'
<1> SUFFICES ASSUME SdInv, [MainNext]_mainVars PROVE DataInv'  OBVIOUS
<1>0. /\ pos \in Nat /\ target \in Nat /\ cur \in Nat /\ Reached \in Nat
      /\ layout \in Layouts \cup {NoLayout} /\ FsEnd \in Nat /\ FsEnd % SecSize = 0
      /\ Reached <= FsEnd /\ pos <= FsEnd /\ (InCall => target <= FsEnd)
      /\ \A a \in Addr : a >= FsEnd => disk[a] = base[a]
  BY EndIs DEF SdInv, DataInv, DataAreaUntouched, Shape, TypeOK, Control, Reached, InCall, FsEnd
<1>1. ASSUME UNCHANGED <<vars, layout>>  PROVE DataInv'
  BY <1>1, DataKept DEF SdInv, vars, devVars, writerVars, callVars, histVars
<1>2. CASE \/ ParseOption \/ CheckOperands \/ CallFormatSd
           \/ CheckLabel \/ Partition \/ Format \/ GiveUp \/ FormatDone
  <2>1. UNCHANGED <<vars, layout>>
    BY <1>2 DEF ParseOption, CheckOperands, CallFormatSd, Take, Exit, CheckLabel, Partition, Format,
       GiveUp, FormatDone, Goto, Return
  <2> QED  BY <1>1, <2>1
<1>3. CASE DropPrivileges \/ DropIds \/ DropFails \/ ParanoidCheck
  <2>1. UNCHANGED <<disk, base, layout, pos, step, target>>
    BY <1>3 DEF DropPrivileges, DropIds, DropFails, ParanoidCheck, Goto, Die, vars, devVars,
       writerVars, callVars, histVars
  <2> QED  BY <2>1, DataKept DEF SdInv
<1>4. CASE OpenCard
  <2>1. UNCHANGED <<disk, base, layout, pos, target>> /\ ~InCall /\ ~InCall'
    BY <1>4 DEF OpenCard, Open, DevOpen, DevOpenFails, devVars, histVars, Goto, Return, InCall
  <2>2. Reached' = Reached /\ FsEnd' = FsEnd  BY <2>1 DEF Reached, FsEnd
  <2> QED  BY <1>0, <2>1, <2>2 DEF DataInv, DataAreaUntouched, Addr
<1>5. CASE ChooseParams
  <2>1. UNCHANGED vars /\ phase = "params" /\ layout' \in Layouts \cup {layout}
    BY <1>5 DEF ChooseParams, Return
  <2>2. layout = NoLayout /\ Reached = 0
    BY <2>1 DEF SdInv, IdInv, SeekInv, Before, Undecided, Reached
  <2>3. /\ UNCHANGED <<disk, base>> /\ Reached' = 0
    BY <2>1, <2>2 DEF vars, devVars, writerVars, callVars, histVars, Reached, InCall
  <2>4. FsEnd' \in Nat  BY <2>1, <2>2, EndIs DEF FsEnd
  <2>5. \A a \in Addr : disk'[a] = base'[a]
    <3>1. FsEnd = 0  BY <2>2, EndIs DEF FsEnd
    <3> QED  BY <1>0, <2>3, <3>1 DEF Addr
  <2> QED  BY <2>1, <2>2, <2>3, <2>4, <2>5 DEF DataInv, DataAreaUntouched, Addr
<1>6. CASE EraseCard
  <2>1. layout' = layout /\ (UNCHANGED vars \/ EraseAll)  BY <1>6 DEF EraseCard, Goto, Return
  <2>2. CASE EraseAll
    <3>1. base' = disk' /\ pos' = 0 /\ step' = "idle"  BY <2>2 DEF EraseAll, Ready
    <3>2. FsEnd' = FsEnd /\ Reached' = 0  BY <2>1, <3>1 DEF FsEnd, Reached, InCall
    <3> QED  BY <1>0, <2>1, <3>1, <3>2 DEF DataInv, DataAreaUntouched
  <2> QED  BY <1>1, <2>1, <2>2
<1>7. CASE Call
  <2>1. layout' = layout /\ phase' = phase /\ phase \in {"partition", "format"}  BY <1>7 DEF Call
  <2>2. UNCHANGED <<disk, base>>
    BY <1>7 DEF Call, FillCall, WriteCall, ReturnEarly, AlignToBuffer, vars, writerVars, devVars, histVars
  <2>3. FsEnd' = FsEnd  BY <2>1 DEF FsEnd
  <2>4. Ready /\ layout \in Layouts /\ Runs(todo, pos, Goal)
    BY <1>7, <2>1 DEF Call, SdInv, SeekInv, Chosen, Ready, Reached, InCall
  <2>5. Runs(todo', Reached', Goal) /\ Goal \in Nat /\ Goal <= FsEnd
    BY <1>7, <2>4, GoalFits, CallTaken, EndIs DEF FsEnd
  <2>6. Reached' <= FsEnd  BY <1>0, <2>5, RunsForward
  <2> QED  BY <1>0, <2>1, <2>2, <2>3, <2>6 DEF DataInv, DataAreaUntouched, Addr
<1>8. CASE Continue
  <2>1. layout' = layout /\ FsEnd' = FsEnd  BY <1>8 DEF Continue, sdVars, FsEnd
  <2>2. base' = base
    BY <1>8 DEF Continue, FlushHead, FillBlock, FillDone, WriteBlock, WriteDone, ReturnError,
       ReturnOk, histVars
  <2>3. ASSUME NEW a \in Addr, a >= FsEnd  PROVE disk'[a] = disk[a]
    <3>1. CASE FillDone \/ WriteDone  BY <3>1 DEF FillDone, WriteDone, devVars
    <3>2. CASE FlushHead \/ FillBlock \/ WriteBlock
      BY <1>0, <2>3, <3>2, WritesBelow DEF SdInv
    <3> QED  BY <1>8, <3>1, <3>2 DEF Continue
  <2>4. Reached' = Reached \/ (~InCall' /\ pos' = pos)
    BY <1>8 DEF Continue, FlushHead, FillBlock, FillDone, WriteBlock, WriteDone, ReturnError,
       ReturnOk, Reached, InCall
  <2>5. Reached' <= FsEnd  BY <1>0, <2>4 DEF Reached
  <2> QED  BY <1>0, <2>1, <2>2, <2>3, <2>5 DEF DataInv, DataAreaUntouched, Addr
<1>9. ASSUME CloseFlush, layout' = layout  PROVE DataInv'
  <2>1. base' = base /\ FsEnd' = FsEnd /\ pos' = pos /\ ~InCall'
    BY <1>9 DEF CloseFlush, histVars, FsEnd, InCall
  <2>2. ASSUME NEW a \in Addr, a >= FsEnd  PROVE disk'[a] = disk[a]
    BY <1>0, <1>9, <2>2, WritesBelow DEF SdInv
  <2>3. Reached' = pos  BY <2>1 DEF Reached
  <2> QED  BY <1>0, <1>9, <2>1, <2>2, <2>3 DEF DataInv, DataAreaUntouched, Addr
<1>10. CASE CloseCard  BY <1>9, <1>10 DEF CloseCard, Goto
<1>11. CASE Closed \/ Destroyed
  <2>1. layout' = layout /\ FsEnd' = FsEnd /\ base' = base /\ disk' = disk /\ Reached' = 0
    BY <1>11 DEF Closed, Destroyed, CloseDev, DevClose, Return, FsEnd, Reached, InCall
  <2> QED  BY <1>0, <2>1 DEF DataInv, DataAreaUntouched, Addr
<1>12. CASE Destroy
  <2>1. layout' = layout  BY <1>12 DEF Destroy, Goto
  <2>2. CASE ~CloseFlush
    <3>1. base' = base /\ disk' = disk /\ pos' = pos /\ step' = "closed"
      BY <1>12, <2>2 DEF Destroy, DevClose, devVars, histVars
    <3>2. FsEnd' = FsEnd /\ Reached' = pos  BY <2>1, <3>1 DEF FsEnd, Reached, InCall
    <3> QED  BY <1>0, <2>1, <3>1, <3>2 DEF DataInv, DataAreaUntouched, Addr
  <2> QED  BY <1>9, <2>1, <2>2
<1>13. CASE Finished \/ UNCHANGED mainVars
  <2>1. UNCHANGED <<vars, layout>>  BY <1>13 DEF Finished, mainVars, allVars, sdVars
  <2> QED  BY <1>1, <2>1
<1> QED
  BY <1>2, <1>3, <1>4, <1>5, <1>6, <1>7, <1>8, <1>10, <1>11, <1>12, <1>13 DEF MainNext, SdNext

THEOREM SdInvariant == MainSpec => []SdInv
<1>1. MainInit => SdInv
  <2> SUFFICES ASSUME MainInit PROVE SdInv  OBVIOUS
  <2>1. Shape  BY ShapeInit DEF MainInit, SdInit
  <2>2. SeekInv /\ StepOfPhase /\ IdInv
    BY DEF MainInit, SdInit, Init, SeekInv, StepOfPhase, InCall, Before, Undecided, Chosen, IdInv,
       NoWayBack
  <2>3. layout = NoLayout /\ Reached = 0 /\ \A a \in Addr : disk[a] = base[a]
    BY DEF MainInit, SdInit, Init, Reached, InCall
  <2>4. DataInv  BY <2>3, EndIs DEF DataInv, DataAreaUntouched, FsEnd
  <2> QED  BY <2>1, <2>2, <2>4 DEF SdInv
<1>2. SdInv /\ [MainNext]_mainVars => SdInv'
  BY IdStep, SeekStep, StepOfPhaseStep, ShapeSdStep, DataStep DEF SdInv
<1> QED  BY <1>1, <1>2, PTL DEF MainSpec

\* Formatting never writes behind the structures of the file system, however
\* many of its writes fail, and however the process ends.
THEOREM UserDataStays == MainSpec => []DataAreaUntouched
<1>1. SdInv => DataAreaUntouched  BY DEF SdInv, DataInv
<1> QED  BY <1>1, SdInvariant, PTL
=============================================================================
