----------------------------- MODULE MountProofs -----------------------------
(***************************************************************************)
(* The theorem about the whole of formatSd, for every layout, every size   *)
(* of sectors, blocks and card, every command line and every failure: when *)
(* the process exits with 0, a driver mounts what it finds on the card.    *)
(*                                                                         *)
(* The argument has four parts.  What a sequence of calls leaves behind on *)
(* a card m is Stored(s, a, b, m), and so are the structures of each       *)
(* function.  What createMbrAndPartition and makeFs* leave is what Mounts  *)
(* asks for.  The calls taken so far are always stored in what the writer  *)
(* has taken (TakenInv), and that is on the card or in the buffer          *)
(* (StreamStored).  A close() without an error puts the rest on the card.  *)
(***************************************************************************)
EXTENDS FormatSdProofs

-----------------------------------------------------------------------------
(* What calls leave behind.                                                *)

Clear(m, a, b) == \A x \in a .. b - 1 : m[x] = Zero

Copied(m, a, src, n) == \A i \in 0 .. n - 1 : m[a + i] = src[i]

\* The call takes a writer that is at a to b, and m holds what it has written.
Puts(c, a, b, m) ==
  \/ c = FillTo(b) /\ a <= b /\ Clear(m, a, b)
  \/ c = Allocate /\ b = a
  \/ \E n \in Nat : \E src \in [0 .. n - 1 -> Cell] :
       c = Write(src, n) /\ b = a + n /\ Copied(m, a, src, n)

\* The positions between the calls do not go back.
PutsTrace(s, p, m) ==
  /\ p \in [1 .. Len(s) + 1 -> Nat]
  /\ \A i, j \in 1 .. Len(s) + 1 : i <= j => p[i] <= p[j]
  /\ \A i \in 1 .. Len(s) : Puts(s[i], p[i], p[i + 1], m)

Stored(s, a, b, m) ==
  /\ a \in Nat /\ b \in Nat /\ s \in Seq(Calls)
  /\ \E p : PutsTrace(s, p, m) /\ p[1] = a /\ p[Len(s) + 1] = b

LEMMA PutsLegal ==
  ASSUME NEW c, NEW a \in Nat, NEW b \in Nat, NEW m, Puts(c, a, b, m)
  PROVE  c \in Calls /\ a <= b
<1>1. Legal(c, a, b)  BY DEF Puts, Legal
<1> QED  BY <1>1, LegalIsCall

\* A call looks at nothing but the cells it writes.
LEMMA PutsSame ==
  ASSUME NEW c, NEW a \in Nat, NEW b \in Nat, NEW m, NEW k, Puts(c, a, b, m),
         \A x \in a .. b - 1 : k[x] = m[x]
  PROVE  Puts(c, a, b, k)
<1>1. CASE c = FillTo(b) /\ a <= b /\ Clear(m, a, b)  BY <1>1 DEF Puts, Clear
<1>2. CASE c = Allocate /\ b = a  BY <1>2 DEF Puts
<1>3. ASSUME NEW n \in Nat, NEW src \in [0 .. n - 1 -> Cell],
             c = Write(src, n), b = a + n, Copied(m, a, src, n)
      PROVE  Puts(c, a, b, k)
  <2>1. ASSUME NEW i \in 0 .. n - 1  PROVE k[a + i] = src[i]
    <3>1. a + i \in a .. b - 1  BY <1>3
    <3> QED  BY <1>3, <3>1 DEF Copied
  <2> QED  BY <1>3, <2>1 DEF Puts, Copied
<1> QED  BY <1>1, <1>2, <1>3 DEF Puts

LEMMA StoredSame ==
  ASSUME NEW s, NEW a, NEW b, NEW m, NEW k, Stored(s, a, b, m),
         \A x \in 0 .. b - 1 : k[x] = m[x]
  PROVE  Stored(s, a, b, k)
<1>1. a \in Nat /\ b \in Nat /\ s \in Seq(Calls) /\ Len(s) \in Nat  BY LenProperties DEF Stored
<1>2. PICK p : PutsTrace(s, p, m) /\ p[1] = a /\ p[Len(s) + 1] = b  BY DEF Stored
<1>3. ASSUME NEW i \in 1 .. Len(s)  PROVE Puts(s[i], p[i], p[i + 1], k)
  <2>1. p[i] \in Nat /\ p[i + 1] \in Nat /\ p[i + 1] <= b /\ Puts(s[i], p[i], p[i + 1], m)
    BY <1>1, <1>2 DEF PutsTrace
  <2>2. \A x \in p[i] .. p[i + 1] - 1 : k[x] = m[x]  BY <1>1, <2>1
  <2> QED  BY <1>1, <2>1, <2>2, PutsSame
<1>4. PutsTrace(s, p, k)  BY <1>2, <1>3 DEF PutsTrace
<1> QED  BY <1>1, <1>2, <1>4 DEF Stored

LEMMA NothingStored ==
  ASSUME NEW a \in Nat, NEW m
  PROVE  Stored(<<>>, a, a, m)
<1>1. <<>> \in Seq(Calls) /\ Len(<<>>) = 0  BY EmptySeq
<1> DEFINE p == [i \in 1 .. 1 |-> a]
<1>2. PutsTrace(<<>>, p, m) /\ p[1] = a  BY <1>1 DEF PutsTrace
<1> QED  BY <1>1, <1>2 DEF Stored

LEMMA StoredNothing ==
  ASSUME NEW a, NEW b, NEW m, Stored(<<>>, a, b, m)
  PROVE  b = a
<1>1. Len(<<>>) = 0  BY EmptySeq
<1> QED  BY <1>1 DEF Stored

\* One more call.
LEMMA StoredMore ==
  ASSUME NEW s, NEW a, NEW b, NEW m, Stored(s, a, b, m),
         NEW c, NEW d \in Nat, NEW k, Puts(c, b, d, k), \A x \in 0 .. b - 1 : k[x] = m[x]
  PROVE  Stored(Append(s, c), a, d, k)
<1>1. /\ a \in Nat /\ b \in Nat /\ s \in Seq(Calls) /\ Len(s) \in Nat
      /\ c \in Calls /\ b <= d
  BY LenProperties, PutsLegal DEF Stored
<1>2. Stored(s, a, b, k)  BY StoredSame
<1>3. PICK p : PutsTrace(s, p, k) /\ p[1] = a /\ p[Len(s) + 1] = b  BY <1>2 DEF Stored
<1> DEFINE n == Len(s)
           t == Append(s, c)
           q == [i \in 1 .. n + 2 |-> IF i <= n + 1 THEN p[i] ELSE d]
<1>4. /\ t \in Seq(Calls) /\ Len(t) = n + 1 /\ t[n + 1] = c
      /\ \A i \in 1 .. n : t[i] = s[i]
  BY <1>1, AppendProperties
<1>5. /\ \A i \in 1 .. n + 1 : p[i] \in Nat
      /\ \A i, j \in 1 .. n + 1 : i <= j => p[i] <= p[j]
      /\ \A i \in 1 .. n : Puts(s[i], p[i], p[i + 1], k)
      /\ p[1] = a /\ p[n + 1] = b /\ n \in Nat
  BY <1>1, <1>3 DEF PutsTrace
<1> HIDE DEF n, t
<1>6. q \in [1 .. n + 2 -> Nat]  BY <1>1, <1>5
<1>7. ASSUME NEW i \in 1 .. n + 2, NEW j \in 1 .. n + 2, i <= j  PROVE q[i] <= q[j]
  <2>1. CASE j <= n + 1  BY <1>5, <1>7, <2>1
  <2>2. CASE j = n + 2 /\ i <= n + 1
    <3>1. p[i] <= b /\ q[i] = p[i] /\ q[j] = d /\ p[i] \in Nat  BY <1>5, <2>2
    <3> QED  BY <1>1, <3>1
  <2>3. CASE i = n + 2  BY <1>1, <1>5, <1>7, <2>3
  <2> QED  BY <1>5, <2>1, <2>2, <2>3
<1>8. ASSUME NEW i \in 1 .. n + 1  PROVE Puts(t[i], q[i], q[i + 1], k)
  <2>1. CASE i <= n
    <3>1. i \in 1 .. n /\ q[i] = p[i] /\ q[i + 1] = p[i + 1]  BY <1>5, <2>1
    <3> QED  BY <1>4, <1>5, <3>1
  <2>2. CASE ~(i <= n)
    <3>1. i = n + 1 /\ q[i] = b /\ q[i + 1] = d  BY <1>5, <2>2
    <3> QED  BY <1>4, <3>1
  <2> QED  BY <2>1, <2>2
<1>9. q[1] = a /\ q[n + 2] = d /\ (n + 1) + 1 = n + 2  BY <1>5
<1>10. PutsTrace(t, q, k)  BY <1>4, <1>6, <1>7, <1>8, <1>9 DEF PutsTrace
<1>11. Stored(t, a, d, k)  BY <1>1, <1>4, <1>9, <1>10 DEF Stored
<1> QED  BY <1>11 DEF t

\* The calls of a sequence, and then those of another one.
LEMMA StoredParts ==
  ASSUME NEW s \in Seq(Calls), NEW t \in Seq(Calls), NEW a, NEW c, NEW m, Stored(s \o t, a, c, m)
  PROVE  \E b \in a .. c : Stored(s, a, b, m) /\ Stored(t, b, c, m)
<1> DEFINE u == s \o t
           j == Len(s)
           n == Len(t)
<1>1. /\ j \in Nat /\ n \in Nat /\ Len(u) = j + n
      /\ \A i \in 1 .. j + n : u[i] = IF i <= j THEN s[i] ELSE t[i - j]
  BY LenProperties, ConcatProperties
<1>2. a \in Nat /\ c \in Nat  BY DEF Stored
<1>3. PICK p : PutsTrace(u, p, m) /\ p[1] = a /\ p[Len(u) + 1] = c  BY DEF Stored
<1> HIDE DEF u
<1>4. /\ \A i \in 1 .. j + n + 1 : p[i] \in Nat
      /\ \A x, y \in 1 .. j + n + 1 : x <= y => p[x] <= p[y]
      /\ \A i \in 1 .. j + n : Puts(u[i], p[i], p[i + 1], m)
      /\ p[1] = a /\ p[j + n + 1] = c
  BY <1>1, <1>3 DEF PutsTrace
<1> HIDE DEF j, n
<1> DEFINE b == p[j + 1]
           q == [i \in 1 .. j + 1 |-> p[i]]
           r == [i \in 1 .. n + 1 |-> p[j + i]]
<1>5. b \in a .. c /\ b \in Nat
  <2>1. /\ 1 \in 1 .. j + n + 1 /\ j + 1 \in 1 .. j + n + 1 /\ j + n + 1 \in 1 .. j + n + 1
        /\ 1 <= j + 1 /\ j + 1 <= j + n + 1
    BY <1>1
  <2>2. p[1] <= p[j + 1] /\ p[j + 1] <= p[j + n + 1] /\ p[j + 1] \in Nat  BY <1>4, <2>1
  <2> QED  BY <1>2, <1>4, <2>2
<1>6. Stored(s, a, b, m)
  <2>1. q \in [1 .. j + 1 -> Nat] /\ \A x, y \in 1 .. j + 1 : x <= y => q[x] <= q[y]
    BY <1>1, <1>4
  <2>2. ASSUME NEW i \in 1 .. j  PROVE Puts(s[i], q[i], q[i + 1], m)
    <3>1. u[i] = s[i] /\ q[i] = p[i] /\ q[i + 1] = p[i + 1] /\ i \in 1 .. j + n  BY <1>1
    <3> QED  BY <1>4, <3>1
  <2>3. q[1] = a /\ q[j + 1] = b  BY <1>1, <1>4
  <2> HIDE DEF b, q
  <2>4. PutsTrace(s, q, m)  BY <2>1, <2>2 DEF PutsTrace, j
  <2> QED  BY <1>2, <1>5, <2>3, <2>4 DEF Stored, j
<1>7. Stored(t, b, c, m)
  <2>1. r \in [1 .. n + 1 -> Nat]  BY <1>1, <1>4
  <2>2. \A x, y \in 1 .. n + 1 : x <= y => r[x] <= r[y]
    <3> TAKE x, y \in 1 .. n + 1
    <3>1. r[x] = p[j + x] /\ r[y] = p[j + y]  OBVIOUS
    <3>2. j + x \in 1 .. j + n + 1 /\ j + y \in 1 .. j + n + 1 /\ (x <= y => j + x <= j + y)
      BY <1>1
    <3> QED  BY <1>4, <3>1, <3>2
  <2>3. ASSUME NEW i \in 1 .. n  PROVE Puts(t[i], r[i], r[i + 1], m)
    <3>1. /\ j + i \in 1 .. j + n /\ ~(j + i <= j) /\ (j + i) - j = i
          /\ j + (i + 1) = (j + i) + 1 /\ i \in 1 .. n + 1 /\ i + 1 \in 1 .. n + 1
      BY <1>1
    <3>2. u[j + i] = t[i] /\ r[i] = p[j + i] /\ r[i + 1] = p[(j + i) + 1]  BY <1>1, <3>1
    <3> QED  BY <1>4, <3>1, <3>2
  <2>4. r[1] = b /\ r[n + 1] = c
    <3>1. j + (n + 1) = j + n + 1 /\ 1 \in 1 .. n + 1 /\ n + 1 \in 1 .. n + 1  BY <1>1
    <3> QED  BY <1>4, <3>1
  <2> HIDE DEF b, r
  <2>5. PutsTrace(t, r, m)  BY <2>1, <2>2, <2>3 DEF PutsTrace, n
  <2> QED  BY <1>2, <1>5, <2>4, <2>5 DEF Stored, n
<1> QED  BY <1>5, <1>6, <1>7

-----------------------------------------------------------------------------
(* What the pieces of the functions leave behind.                          *)

LEMMA StoredCall ==
  ASSUME NEW s, Len(s) = 1, NEW a, NEW b, NEW m, Stored(s, a, b, m)
  PROVE  a \in Nat /\ b \in Nat /\ Puts(s[1], a, b, m)
BY DEF Stored, PutsTrace

\* The call says how far it goes.
LEMMA PutsFill ==
  ASSUME NEW at \in Nat, NEW a \in Nat, NEW b \in Nat, NEW m, Puts(FillTo(at), a, b, m)
  PROVE  b = at /\ a <= at /\ Clear(m, a, at)
<1>1. FillTo(at).call = "fill" /\ FillTo(at).offset = at  BY DEF FillTo
<1>2. Allocate.call = "new"  BY DEF Allocate
<1>3. \A n, src : Write(src, n).call = "write"  BY DEF Write
<1>4. FillTo(b).offset = b  BY DEF FillTo
<1> QED  BY <1>1, <1>2, <1>3, <1>4 DEF Puts

LEMMA PutsWrite ==
  ASSUME NEW n \in Nat, NEW src, NEW a \in Nat, NEW b \in Nat, NEW m,
         Puts(Write(src, n), a, b, m)
  PROVE  b = a + n /\ Copied(m, a, src, n)
<1>1. Write(src, n).call = "write"  BY DEF Write
<1>2. Allocate.call = "new" /\ FillTo(b).call = "fill"  BY DEF Allocate, FillTo
<1>3. \E k \in Nat : \E bytes \in [0 .. k - 1 -> Cell] :
        /\ Write(src, n) = Write(bytes, k) /\ b = a + k
        /\ Copied(m, a, bytes, k)
  BY <1>1, <1>2 DEF Puts
<1>4. Write(src, n).src = src /\ Write(src, n).size = n  BY DEF Write
<1>5. \A k, bytes : Write(bytes, k).src = bytes /\ Write(bytes, k).size = k  BY DEF Write
<1> QED  BY <1>3, <1>4, <1>5

LEMMA PutsNew ==
  ASSUME NEW a \in Nat, NEW b \in Nat, NEW m, Puts(Allocate, a, b, m)
  PROVE  b = a
<1>1. Allocate.call = "new" /\ FillTo(b).call = "fill"  BY DEF Allocate, FillTo
<1>2. \A n, src : Write(src, n).call = "write"  BY DEF Write
<1> QED  BY <1>1, <1>2 DEF Puts

LEMMA StoredFill ==
  ASSUME NEW at \in Nat, NEW a, NEW b, NEW m, Stored(<<FillTo(at)>>, a, b, m)
  PROVE  b = at /\ a <= at /\ Clear(m, a, at)
<1>1. Len(<<FillTo(at)>>) = 1 /\ <<FillTo(at)>>[1] = FillTo(at)  OBVIOUS
<1> QED  BY <1>1, StoredCall, PutsFill

LEMMA StoredWrite ==
  ASSUME NEW n \in Nat, NEW src, NEW a, NEW b, NEW m, Stored(<<Write(src, n)>>, a, b, m)
  PROVE  b = a + n /\ Copied(m, a, src, n)
<1>1. Len(<<Write(src, n)>>) = 1 /\ <<Write(src, n)>>[1] = Write(src, n)  OBVIOUS
<1>2. a \in Nat /\ b \in Nat /\ Puts(Write(src, n), a, b, m)  BY <1>1, StoredCall
<1> QED  BY <1>2, PutsWrite

LEMMA Pair == ASSUME NEW x \in Calls, NEW y \in Calls PROVE <<x, y>> = <<x>> \o <<y>>
<1>1. /\ <<x>> \in Seq(Calls) /\ <<y>> \in Seq(Calls) /\ <<x, y>> \in Seq(Calls)
      /\ Len(<<x>>) = 1 /\ <<x>>[1] = x /\ Len(<<y>>) = 1 /\ <<y>>[1] = y
      /\ Len(<<x, y>>) = 2 /\ <<x, y>>[1] = x /\ <<x, y>>[2] = y
  OBVIOUS
<1>2. \A i \in 1 .. 2 : (<<x>> \o <<y>>)[i] = IF i <= 1 THEN <<x>>[i] ELSE <<y>>[i - 1]
  BY <1>1, ConcatProperties
<1>3. <<x>> \o <<y>> \in Seq(Calls) /\ Len(<<x>> \o <<y>>) = 2  BY <1>1, ConcatProperties
<1>4. \A i \in 1 .. 2 : (<<x>> \o <<y>>)[i] = <<x, y>>[i]  BY <1>1, <1>2
<1> QED  BY <1>1, <1>3, <1>4, SeqEqual

LEMMA StoredPair ==
  ASSUME NEW x \in Calls, NEW y \in Calls, NEW a, NEW c, NEW m, Stored(<<x, y>>, a, c, m)
  PROVE  \E b \in Nat : a <= b /\ b <= c /\ Puts(x, a, b, m) /\ Puts(y, b, c, m)
<1>1. <<x>> \in Seq(Calls) /\ <<y>> \in Seq(Calls)  OBVIOUS
<1>2. a \in Nat /\ c \in Nat  BY DEF Stored
<1>3. PICK b \in a .. c : Stored(<<x>>, a, b, m) /\ Stored(<<y>>, b, c, m)
  BY <1>1, Pair, StoredParts
<1>4. Len(<<x>>) = 1 /\ <<x>>[1] = x /\ Len(<<y>>) = 1 /\ <<y>>[1] = y  OBVIOUS
<1> QED  BY <1>2, <1>3, <1>4, StoredCall

LEMMA StoredFillAndWrite ==
  ASSUME NEW at \in Nat, NEW n \in Nat, NEW src \in [0 .. n - 1 -> Cell], NEW a, NEW b, NEW m,
         Stored(FillAndWrite(src, n, at), a, b, m)
  PROVE  /\ a \in Nat /\ a <= at /\ b = at + n
         /\ Clear(m, a, at)
         /\ Copied(m, at, src, n)
<1>1. FillTo(at) \in Calls /\ Write(src, n) \in Calls  BY DEF Calls
<1>2. a \in Nat /\ b \in Nat  BY DEF Stored
<1>3. PICK c \in Nat : Puts(FillTo(at), a, c, m) /\ Puts(Write(src, n), c, b, m)
  BY <1>1, StoredPair DEF FillAndWrite
<1>4. c = at /\ a <= at /\ Clear(m, a, at)  BY <1>2, <1>3, PutsFill
<1>5. b = c + n /\ Copied(m, c, src, n)  BY <1>2, <1>3, PutsWrite
<1> QED  BY <1>2, <1>4, <1>5

LEMMA CallsOfPieces ==
  /\ \A at \in Nat : <<FillTo(at)>> \in Seq(Calls)
  /\ \A n \in Nat : \A src \in [0 .. n - 1 -> Cell] : <<Write(src, n)>> \in Seq(Calls)
  /\ \A n \in Nat, at \in Nat : \A src \in [0 .. n - 1 -> Cell] :
       FillAndWrite(src, n, at) \in Seq(Calls)
<1>1. \A at \in Nat : FillTo(at) \in Calls  BY DEF Calls
<1>2. \A n \in Nat : \A src \in [0 .. n - 1 -> Cell] : Write(src, n) \in Calls  BY DEF Calls
<1> QED  BY <1>1, <1>2 DEF FillAndWrite

-----------------------------------------------------------------------------
(* What makeFsFat leaves behind.                                           *)

Sig == <<"sig", <<>>>>

\* The signature word is the last of its sector, behind zeros.
SignedEnd(m, p, from, to) ==
  p.bytesPerSec > SecSize => Clear(m, from, to - 1) /\ m[to - 1] = Sig

LEMMA FirstCells ==
  /\ \A kind : Token(kind)[0] = <<kind, <<>>>>
  /\ \A p : /\ Mbr(p)[0][1] = "mbr"
            /\ FatBoot(p)[0] =
                 <<"boot", <<p.bytesPerSec, p.secPerClus, p.rsvdSecCnt, p.secPerFat>>>>
  /\ \A free : FsInfo(free)[0] = <<"fsInfo", free>>
<1>1. \A kind, fields, n : n \in Nat /\ n > 0 => Struct(kind, fields, n)[0] = <<kind, fields>>
  BY DEF Struct
<1>2. SecSize \in Nat /\ SecSize > 0  BY Sizes_
<1>3. \A p : Mbr(p)[0][1] = "mbr"  BY <1>1, <1>2 DEF Mbr
<1> QED  BY <1>1, <1>2, <1>3 DEF Token, FatBoot, FsInfo

LEMMA SignaturePiece ==
  ASSUME NEW p \in Layouts, p.fatBits <= 32, NEW sector \in Nat
  PROVE  Signature(p, sector) \in Seq(Calls)
<1>1. Runs(Signature(p, sector), sector + SecSize, sector + p.bytesPerSec)  BY RunsSignature
<1> QED  BY <1>1, RunsForward

LEMMA StoredSignature ==
  ASSUME NEW p \in Layouts, p.fatBits <= 32, NEW sector \in Nat, NEW b, NEW m,
         Stored(Signature(p, sector), sector + SecSize, b, m)
  PROVE  b = sector + p.bytesPerSec /\ SignedEnd(m, p, sector + SecSize, b)
<1>1. /\ SecSize \in Nat \ {0} /\ p.bytesPerSec \in Nat \ {0} /\ p.bytesPerSec >= SecSize
  BY SectorSizes
<1>2. CASE p.bytesPerSec > SecSize
  <2> DEFINE at == sector + p.bytesPerSec - 1
             from == sector + SecSize
  <2>1. at \in Nat /\ at + 1 = sector + p.bytesPerSec /\ at + 0 = at /\ 1 \in Nat  BY <1>1
  <2>2. Token("sig") \in [0 .. 1 - 1 -> Cell]  BY FatSources
  <2>3. Signature(p, sector) = FillAndWrite(Token("sig"), 1, at)  BY <1>2 DEF Signature
  <2>4. Stored(FillAndWrite(Token("sig"), 1, at), from, b, m)  BY <2>3
  <2> HIDE DEF at, from
  <2>5. /\ b = at + 1 /\ Clear(m, from, at)
        /\ Copied(m, at, Token("sig"), 1)
    <3>1. PICK n \in Nat : n = 1  OBVIOUS
    <3>2. Token("sig") \in [0 .. n - 1 -> Cell]  BY <2>2, <3>1
    <3>3. Stored(FillAndWrite(Token("sig"), n, at), from, b, m)  BY <2>4, <3>1
    <3>4. /\ b = at + n /\ Clear(m, from, at)
          /\ Copied(m, at, Token("sig"), n)
      BY <2>1, <3>2, <3>3, StoredFillAndWrite
    <3> QED  BY <3>1, <3>4
  <2>6. m[at] = Sig
    <3>1. 0 \in 0 .. 1 - 1  OBVIOUS
    <3> QED  BY <2>1, <2>5, <3>1, FirstCells DEF Copied, Sig
  <2>7. b = sector + p.bytesPerSec /\ b - 1 = at  BY <2>1, <2>5
  <2> QED  BY <2>5, <2>6, <2>7 DEF SignedEnd, from
<1>3. CASE ~(p.bytesPerSec > SecSize)
  <2>1. b = sector + SecSize  BY <1>3, StoredNothing DEF Signature
  <2> QED  BY <1>1, <1>3, <2>1 DEF SignedEnd
<1> QED  BY <1>2, <1>3

\* A boot sector with its signature.
BootAt(m, p, at) ==
  Copied(m, at, FatBoot(p), SecSize) /\ SignedEnd(m, p, at + SecSize, at + p.bytesPerSec)

Fat32BootAt(m, p, at) ==
  LET bps == p.bytesPerSec
  IN  /\ BootAt(m, p, at) /\ BootAt(m, p, at + (6 * bps))
      /\ m[at + bps] = <<"fsInfo", <<p.maxClus - 1>>>>
      /\ m[at + (7 * bps)] = <<"fsInfo", <<>>>>
      /\ m[at + (3 * bps) - 1] = Sig /\ m[at + (9 * bps) - 1] = Sig
      /\ Clear(m, at + (3 * bps), at + (6 * bps))

LEMMA StoredFat32BootSectors ==
  ASSUME NEW p \in Layouts, p.fatBits <= 32, NEW at \in Nat, NEW b, NEW m,
         Stored(Fat32BootSectors(p, at), at, b, m)
  PROVE  b = at + (9 * p.bytesPerSec) /\ Fat32BootAt(m, p, at)
<1> DEFINE bps == p.bytesPerSec
           s3  == at + (2 * bps) + bps - 1
           s6  == at + (6 * bps)
           s9  == at + (8 * bps) + bps - 1
           c1  == <<Write(FatBoot(p), SecSize)>>
           c2  == c1 \o Signature(p, at)
           i3  == <<Write(FsInfo(<<p.maxClus - 1>>), SecSize)>>
           c3  == c2 \o i3
           i4  == FillAndWrite(Token("sig"), 1, s3)
           c4  == c3 \o i4
           i5  == FillAndWrite(FatBoot(p), SecSize, s6)
           c5  == c4 \o i5
           c6  == c5 \o Signature(p, s6)
           i7  == <<Write(FsInfo(<<>>), SecSize)>>
           c7  == c6 \o i7
           i8  == FillAndWrite(Token("sig"), 1, s9)
<1>1. SecSize \in Nat \ {0} /\ bps \in Nat \ {0} /\ bps >= SecSize  BY SectorSizes
<1>2. /\ FatBoot(p) \in [0 .. SecSize - 1 -> Cell]
      /\ FsInfo(<<p.maxClus - 1>>) \in [0 .. SecSize - 1 -> Cell]
      /\ FsInfo(<<>>) \in [0 .. SecSize - 1 -> Cell]
      /\ Token("sig") \in [0 .. 1 - 1 -> Cell]
  BY FatSources
<1>3. s3 \in Nat /\ s6 \in Nat /\ s9 \in Nat  BY <1>1
<1>4. Stored(c7 \o i8, at, b, m)  BY DEF Fat32BootSectors
<1> HIDE DEF s3, s6, s9
<1>5. /\ c1 \in Seq(Calls) /\ i3 \in Seq(Calls) /\ i4 \in Seq(Calls) /\ i5 \in Seq(Calls)
      /\ i7 \in Seq(Calls) /\ i8 \in Seq(Calls)
      /\ Signature(p, at) \in Seq(Calls) /\ Signature(p, s6) \in Seq(Calls)
  <2>1. c1 \in Seq(Calls) /\ i3 \in Seq(Calls) /\ i7 \in Seq(Calls)  BY <1>1, <1>2, CallsOfPieces
  <2>2. i4 \in Seq(Calls) /\ i8 \in Seq(Calls)  BY <1>2, <1>3, CallsOfPieces
  <2>3. i5 \in Seq(Calls)  BY <1>1, <1>2, <1>3, CallsOfPieces
  <2> QED  BY <1>3, <2>1, <2>2, <2>3, SignaturePiece
<1> HIDE DEF c1, i3, i4, i5, i7, i8
<1>6. c2 \in Seq(Calls) /\ c3 \in Seq(Calls) /\ c4 \in Seq(Calls)  BY <1>5, ConcatProperties
<1> HIDE DEF c4
<1>7. c5 \in Seq(Calls) /\ c6 \in Seq(Calls) /\ c7 \in Seq(Calls)
  BY <1>5, <1>6, ConcatProperties
<1>8. PICK b7 : Stored(c7, at, b7, m) /\ Stored(i8, b7, b, m)
  <2> HIDE DEF c7
  <2> QED  BY <1>4, <1>5, <1>7, StoredParts
<1>9. PICK b6 : Stored(c6, at, b6, m) /\ Stored(i7, b6, b7, m)
  <2> HIDE DEF c6
  <2> QED  BY <1>5, <1>7, <1>8, StoredParts
<1>10. PICK b5 : Stored(c5, at, b5, m) /\ Stored(Signature(p, s6), b5, b6, m)
  <2> HIDE DEF c5
  <2> QED  BY <1>5, <1>7, <1>9, StoredParts
<1>11. PICK b4 : Stored(c4, at, b4, m) /\ Stored(i5, b4, b5, m)
  BY <1>5, <1>6, <1>10, StoredParts
<1>12. PICK b3 : Stored(c3, at, b3, m) /\ Stored(i4, b3, b4, m)
  <2> HIDE DEF c3
  <2> QED  BY <1>5, <1>6, <1>11, StoredParts DEF c4
<1>13. PICK b2 : Stored(c2, at, b2, m) /\ Stored(i3, b2, b3, m)
  <2> HIDE DEF c2
  <2> QED  BY <1>5, <1>6, <1>12, StoredParts
<1>14. PICK b1 : Stored(c1, at, b1, m) /\ Stored(Signature(p, at), b1, b2, m)
  BY <1>5, <1>13, StoredParts
<1> HIDE DEF c2, c3, c5, c6, c7
<1>15. b1 = at + SecSize /\ Copied(m, at, FatBoot(p), SecSize)
  BY <1>1, <1>14, StoredWrite DEF c1
<1>16. b2 = at + bps /\ BootAt(m, p, at)
  BY <1>14, <1>15, StoredSignature DEF BootAt
<1>17. b3 = at + bps + SecSize /\ m[at + bps] = <<"fsInfo", <<p.maxClus - 1>>>>
  <2>1. b3 = b2 + SecSize /\ Copied(m, b2, FsInfo(<<p.maxClus - 1>>), SecSize)
    BY <1>1, <1>13, StoredWrite DEF i3
  <2>2. 0 \in 0 .. SecSize - 1 /\ b2 + 0 = at + bps  BY <1>1, <1>16
  <2> QED  BY <1>16, <2>1, <2>2, FirstCells DEF Copied
<1>18. b4 = s3 + 1 /\ m[s3] = Sig
  <2>1. b4 = s3 + 1 /\ Copied(m, s3, Token("sig"), 1)
    BY <1>2, <1>3, <1>12, StoredFillAndWrite DEF i4
  <2>2. 0 \in 0 .. 1 - 1 /\ s3 + 0 = s3  BY <1>3
  <2> QED  BY <2>1, <2>2, FirstCells DEF Copied, Sig
<1>19. b5 = s6 + SecSize /\ Clear(m, s3 + 1, s6) /\ Copied(m, s6, FatBoot(p), SecSize)
  BY <1>1, <1>2, <1>3, <1>11, <1>18, StoredFillAndWrite DEF i5
<1>20. b6 = s6 + bps /\ BootAt(m, p, s6)
  BY <1>3, <1>10, <1>19, StoredSignature DEF BootAt
<1>21. m[s6 + bps] = <<"fsInfo", <<>>>>
  <2>1. Copied(m, b6, FsInfo(<<>>), SecSize)  BY <1>1, <1>9, StoredWrite DEF i7
  <2>2. 0 \in 0 .. SecSize - 1 /\ b6 + 0 = s6 + bps  BY <1>1, <1>3, <1>20
  <2> QED  BY <1>20, <2>1, <2>2, FirstCells DEF Copied
<1>22. b = s9 + 1 /\ m[s9] = Sig
  <2>1. b = s9 + 1 /\ Copied(m, s9, Token("sig"), 1)
    BY <1>2, <1>3, <1>8, StoredFillAndWrite DEF i8
  <2>2. 0 \in 0 .. 1 - 1 /\ s9 + 0 = s9  BY <1>3
  <2> QED  BY <2>1, <2>2, FirstCells DEF Copied, Sig
<1>23. /\ s3 = at + (3 * bps) - 1 /\ s3 + 1 = at + (3 * bps) /\ s6 = at + (6 * bps)
       /\ s6 + bps = at + (7 * bps)
       /\ s9 = at + (9 * bps) - 1 /\ s9 + 1 = at + (9 * bps)
  BY <1>1 DEF s3, s6, s9
<1> QED  BY <1>16, <1>17, <1>18, <1>19, <1>20, <1>21, <1>22, <1>23 DEF Fat32BootAt

\* The areas, in cells.
PartAt(p) == p.partStart * p.bytesPerSec
Fat1At(p) == PartAt(p) + (p.rsvdSecCnt * p.bytesPerSec)
Fat2At(p) == Fat1At(p) + (p.secPerFat * p.bytesPerSec)
RootAt(p) == Fat2At(p) + (p.secPerFat * p.bytesPerSec)
Reserved(p) == IF p.fatBits < 32 THEN 1 ELSE 3

VolumeId == <<"volumeId", <<>>>>

LEMMA AreasInOrder ==
  ASSUME NEW p \in Layouts, p.fatBits <= 32
  PROVE  /\ PartAt(p) \in Nat /\ Fat1At(p) \in Nat /\ Fat2At(p) \in Nat /\ RootAt(p) \in Nat
         /\ Reserved(p) \in Nat /\ FatEnd(p) \in Nat /\ p.bytesPerSec \in Nat \ {0}
         /\ SecSize <= PartAt(p) /\ PartAt(p) + p.bytesPerSec <= Fat1At(p)
         /\ p.fatBits = 32 => PartAt(p) + (9 * p.bytesPerSec) <= Fat1At(p)
         /\ Fat1At(p) + 3 <= Fat2At(p) /\ Fat2At(p) + 3 <= RootAt(p)
         /\ Fat2At(p) - Fat1At(p) = RootAt(p) - Fat2At(p)
         /\ RootAt(p) + 1 <= FatEnd(p)
<1> DEFINE bps == p.bytesPerSec
           at  == p.partStart * bps
           r   == p.rsvdSecCnt * bps
           f   == p.secPerFat * bps
<1>1. /\ PartAt(p) = at /\ Fat1At(p) = at + r /\ Fat2At(p) = at + r + f
      /\ RootAt(p) = at + r + f + f
  BY DEF PartAt, Fat1At, Fat2At, RootAt
<1>2. /\ at \in Nat /\ r \in Nat /\ f \in Nat /\ FatEnd(p) \in Nat /\ at >= SecSize
      /\ r >= bps /\ (p.fatBits = 32 => r >= 9 * bps) /\ f >= 3
      /\ at + r + f + f + bps <= FatEnd(p)
  BY FatAreas
<1>3. bps \in Nat \ {0}  BY SectorSizes
<1> HIDE DEF at, r, f, bps
<1>4. Reserved(p) \in Nat  BY DEF Reserved
<1> QED  BY <1>1, <1>2, <1>3, <1>4, SectorSizes DEF bps

\* Both FATs, and the root directory up to its first entry.
TablesAt(m, p, hasLabel, b) ==
  /\ Copied(m, Fat1At(p), ReservedEntries(p), Reserved(p))
  /\ Clear(m, Fat1At(p) + Reserved(p), Fat2At(p))
  /\ Copied(m, Fat2At(p), ReservedEntries(p), Reserved(p))
  /\ IF hasLabel
     THEN /\ Clear(m, Fat2At(p) + Reserved(p), RootAt(p))
          /\ m[RootAt(p)] = VolumeId /\ b = RootAt(p) + 1
     ELSE b = Fat2At(p) + Reserved(p)

LEMMA StoredFatTables ==
  ASSUME NEW p \in Layouts, p.fatBits <= 32, NEW hasLabel \in BOOLEAN, NEW a, NEW b, NEW m,
         Stored(FatTables(p, PartAt(p), hasLabel), a, b, m)
  PROVE  a <= Fat1At(p) /\ Clear(m, a, Fat1At(p)) /\ TablesAt(m, p, hasLabel, b)
<1> DEFINE fat1 == Fat1At(p)
           fat2 == Fat2At(p)
           root == RootAt(p)
           size == Reserved(p)
           f1   == FillAndWrite(ReservedEntries(p), size, fat1)
           f2   == FillAndWrite(ReservedEntries(p), size, fat2)
           tail == IF hasLabel THEN FillAndWrite(Token("volumeId"), 1, root) ELSE <<>>
<1>1. fat1 \in Nat /\ fat2 \in Nat /\ root \in Nat /\ size \in Nat  BY AreasInOrder
<1>2. /\ ReservedEntries(p) \in [0 .. size - 1 -> Cell]
      /\ Token("volumeId") \in [0 .. 1 - 1 -> Cell]
  BY FatSources DEF Reserved
<1>3. Stored((f1 \o f2) \o tail, a, b, m)
  BY DEF FatTables, Fat1At, Fat2At, RootAt, Reserved
<1> HIDE DEF fat1, fat2, root, size
<1>4. f1 \in Seq(Calls) /\ f2 \in Seq(Calls)  BY <1>1, <1>2, CallsOfPieces
<1>5. tail \in Seq(Calls)
  <2>1. CASE hasLabel
    <3>1. FillAndWrite(Token("volumeId"), 1, root) \in Seq(Calls)
      BY <1>1, <1>2, CallsOfPieces
    <3> QED  BY <2>1, <3>1
  <2>2. CASE ~hasLabel  BY <2>2, EmptySeq
  <2> QED  BY <2>1, <2>2
<1> DEFINE both == f1 \o f2
<1> HIDE DEF f1, f2, tail
<1>6. both \in Seq(Calls)  BY <1>4, ConcatProperties
<1>7. PICK c : Stored(both, a, c, m) /\ Stored(tail, c, b, m)
  <2> HIDE DEF both
  <2> QED  BY <1>3, <1>5, <1>6, StoredParts DEF both
<1>8. PICK d : Stored(f1, a, d, m) /\ Stored(f2, d, c, m)  BY <1>4, <1>7, StoredParts
<1> HIDE DEF both
<1>9. /\ a \in Nat /\ a <= fat1 /\ d = fat1 + size
      /\ Clear(m, a, fat1) /\ Copied(m, fat1, ReservedEntries(p), size)
  BY <1>1, <1>2, <1>8, StoredFillAndWrite DEF f1
<1>10. /\ c = fat2 + size
       /\ Clear(m, fat1 + size, fat2) /\ Copied(m, fat2, ReservedEntries(p), size)
  BY <1>1, <1>2, <1>8, <1>9, StoredFillAndWrite DEF f2
<1>11. IF hasLabel
       THEN Clear(m, fat2 + size, root) /\ m[root] = VolumeId /\ b = root + 1
       ELSE b = fat2 + size
  <2>1. CASE hasLabel
    <3>1. PICK n \in Nat : n = 1  OBVIOUS
    <3>2. Token("volumeId") \in [0 .. n - 1 -> Cell]  BY <1>2, <3>1
    <3>3. Stored(FillAndWrite(Token("volumeId"), n, root), c, b, m)
      BY <1>7, <2>1, <3>1 DEF tail
    <3>4. b = root + n /\ Clear(m, c, root) /\ Copied(m, root, Token("volumeId"), n)
      BY <1>1, <3>2, <3>3, StoredFillAndWrite
    <3>5. 0 \in 0 .. n - 1 /\ root + 0 = root  BY <1>1, <3>1
    <3>6. m[root] = VolumeId  BY <3>4, <3>5, FirstCells DEF Copied, VolumeId
    <3> QED  BY <1>10, <2>1, <3>1, <3>4, <3>6
  <2>2. CASE ~hasLabel
    <3>1. Stored(<<>>, c, b, m)  BY <1>7, <2>2 DEF tail
    <3> QED  BY <1>10, <2>2, <3>1, StoredNothing
  <2> QED  BY <2>1, <2>2
<1> QED  BY <1>9, <1>10, <1>11 DEF TablesAt, fat1, fat2, root, size

\* The whole file system area.
FatLeft(m, p, hasLabel) ==
  /\ Clear(m, SecSize, PartAt(p))
  /\ IF p.fatBits < 32
     THEN Copied(m, PartAt(p), FatBoot(p), SecSize) /\ Clear(m, PartAt(p) + SecSize, Fat1At(p))
     ELSE /\ Fat32BootAt(m, p, PartAt(p))
          /\ Clear(m, PartAt(p) + (9 * p.bytesPerSec), Fat1At(p))
  /\ Copied(m, Fat1At(p), ReservedEntries(p), Reserved(p))
  /\ Clear(m, Fat1At(p) + Reserved(p), Fat2At(p))
  /\ Copied(m, Fat2At(p), ReservedEntries(p), Reserved(p))
  /\ Clear(m, Fat2At(p) + Reserved(p), RootAt(p))
  /\ m[RootAt(p)] = IF hasLabel THEN VolumeId ELSE Zero
  /\ Clear(m, RootAt(p) + 1, FatEnd(p))

LEMMA StoredMakeFsFat ==
  ASSUME NEW p \in Layouts, p.fatBits <= 32, NEW hasLabel \in BOOLEAN, NEW b, NEW m,
         Stored(MakeFsFat(p, hasLabel), SecSize, b, m)
  PROVE  FatLeft(m, p, hasLabel)
<1> DEFINE at     == PartAt(p)
           end    == FatEnd(p)
           c1     == <<FillTo(at)>>
           boot   == IF p.fatBits < 32 THEN <<Write(FatBoot(p), SecSize)>>
                     ELSE Fat32BootSectors(p, at)
           c2     == c1 \o boot
           tables == FatTables(p, at, hasLabel)
           c3     == c2 \o tables
           c4     == <<FillTo(end)>>
<1>1. /\ at \in Nat /\ end \in Nat /\ SecSize \in Nat \ {0} /\ SecSize <= at
      /\ Fat1At(p) \in Nat /\ at <= Fat1At(p)
  BY AreasInOrder, SectorSizes
<1>2. Stored(c3 \o c4, SecSize, b, m)  BY DEF MakeFsFat, PartAt
<1>3. c1 \in Seq(Calls) /\ c4 \in Seq(Calls)  BY <1>1, CallsOfPieces
<1>4. boot \in Seq(Calls)
  <2>1. CASE p.fatBits < 32
    <3>1. FatBoot(p) \in [0 .. SecSize - 1 -> Cell]  BY FatSources
    <3> QED  BY <1>1, <2>1, <3>1, CallsOfPieces
  <2>2. CASE ~(p.fatBits < 32)
    <3>1. Runs(Fat32BootSectors(p, at), at, at + (9 * p.bytesPerSec))
      BY <1>1, RunsFat32BootSectors
    <3> QED  BY <2>2, <3>1, RunsForward
  <2> QED  BY <2>1, <2>2
<1>5. tables \in Seq(Calls)
  <2>1. at = p.partStart * p.bytesPerSec /\ at <= at + (p.rsvdSecCnt * p.bytesPerSec)
    BY <1>1 DEF PartAt, Fat1At
  <2>2. PICK e \in Nat : Runs(tables, at, e)
    BY <1>1, <2>1, RunsFatTables
  <2> QED  BY <2>2, RunsForward
<1> HIDE DEF at, end, c1, boot, tables, c4
<1>6. c2 \in Seq(Calls) /\ c3 \in Seq(Calls)  BY <1>3, <1>4, <1>5, ConcatProperties
<1>7. PICK b3 : Stored(c3, SecSize, b3, m) /\ Stored(c4, b3, b, m)
  <2> HIDE DEF c3
  <2> QED  BY <1>2, <1>3, <1>6, StoredParts
<1>8. PICK b2 : Stored(c2, SecSize, b2, m) /\ Stored(tables, b2, b3, m)
  <2> HIDE DEF c2
  <2> QED  BY <1>5, <1>6, <1>7, StoredParts
<1>9. PICK b1 : Stored(c1, SecSize, b1, m) /\ Stored(boot, b1, b2, m)
  BY <1>3, <1>4, <1>8, StoredParts
<1> HIDE DEF c2, c3
<1>10. b1 = at /\ Clear(m, SecSize, at)  BY <1>1, <1>9, StoredFill DEF c1
<1>11. /\ b2 <= Fat1At(p) /\ Clear(m, b2, Fat1At(p)) /\ TablesAt(m, p, hasLabel, b3)
  BY <1>8, StoredFatTables DEF tables, at
<1>12. b = end /\ b3 <= end /\ Clear(m, b3, end)  BY <1>1, <1>7, StoredFill DEF c4
<1>13. IF p.fatBits < 32
       THEN Copied(m, at, FatBoot(p), SecSize) /\ Clear(m, at + SecSize, Fat1At(p))
       ELSE Fat32BootAt(m, p, at) /\ Clear(m, at + (9 * p.bytesPerSec), Fat1At(p))
  <2>1. CASE p.fatBits < 32
    <3>1. Stored(<<Write(FatBoot(p), SecSize)>>, b1, b2, m)  BY <1>9, <2>1 DEF boot
    <3>2. b2 = b1 + SecSize /\ Copied(m, b1, FatBoot(p), SecSize)  BY <1>1, <3>1, StoredWrite
    <3> QED  BY <1>10, <1>11, <2>1, <3>2
  <2>2. CASE ~(p.fatBits < 32)
    <3>1. Stored(Fat32BootSectors(p, at), at, b2, m)  BY <1>9, <1>10, <2>2 DEF boot
    <3>2. b2 = at + (9 * p.bytesPerSec) /\ Fat32BootAt(m, p, at)
      BY <1>1, <3>1, StoredFat32BootSectors
    <3> QED  BY <1>11, <2>2, <3>2
  <2> QED  BY <2>1, <2>2
<1>14. m[RootAt(p)] = IF hasLabel THEN VolumeId ELSE Zero
  <2>1. CASE hasLabel  BY <1>11, <2>1 DEF TablesAt
  <2>2. CASE ~hasLabel
    <3>1. b3 = Fat2At(p) + Reserved(p)  BY <1>11, <2>2 DEF TablesAt
    <3>2. RootAt(p) \in b3 .. end - 1
      BY <1>1, <2>2, <3>1, AreasInOrder DEF end, Reserved
    <3> QED  BY <1>12, <2>2, <3>2 DEF Clear
  <2> QED  BY <2>1, <2>2
<1>15. Clear(m, RootAt(p) + 1, end)
  <2>1. CASE hasLabel  BY <1>11, <1>12, <2>1 DEF TablesAt
  <2>2. CASE ~hasLabel
    <3>1. b3 = Fat2At(p) + Reserved(p)  BY <1>11, <2>2 DEF TablesAt
    <3>2. b3 \in Nat /\ RootAt(p) \in Nat /\ b3 <= RootAt(p) + 1
      BY <2>2, <3>1, AreasInOrder DEF Reserved
    <3> QED  BY <1>1, <1>12, <3>2 DEF Clear
  <2> QED  BY <2>1, <2>2
<1>16. Clear(m, Fat2At(p) + Reserved(p), RootAt(p))
  <2>1. CASE hasLabel  BY <1>11, <2>1 DEF TablesAt
  <2>2. CASE ~hasLabel
    <3>1. b3 = Fat2At(p) + Reserved(p)  BY <1>11, <2>2 DEF TablesAt
    <3>2. b3 \in Nat /\ RootAt(p) \in Nat /\ RootAt(p) <= end
      BY <2>2, <3>1, AreasInOrder DEF end
    <3> QED  BY <1>1, <1>12, <3>1, <3>2 DEF Clear
  <2> QED  BY <2>1, <2>2
<1> QED  BY <1>10, <1>11, <1>13, <1>14, <1>15, <1>16 DEF FatLeft, TablesAt, at, end

-----------------------------------------------------------------------------
(* What makeFsExFat leaves behind.                                         *)

Eof == <<"eof", <<>>>>

LEMMA OneLong == \A n \in Nat : 1 .. n = 1 .. 1 => n = 1
<1> TAKE n \in Nat
<1> HAVE 1 .. n = 1 .. 1
<1>1. 1 \in 1 .. n  OBVIOUS
<1>2. n \in 1 .. n  BY <1>1
<1>3. n \in 1 .. 1  BY <1>2
<1> QED  BY <1>3

LEMMA StoredChain ==
  ASSUME NEW p \in Layouts, p.fatBits > 32, NEW start, NEW a, NEW b, NEW m,
         Stored(Chain(start, 1), a, b, m)
  PROVE  a \in Nat /\ b = a + 1 /\ m[a] = Eof
<1> DEFINE s == Chain(start, 1)
<1>1. s = [i \in 1 .. 1 |-> Write(Token("eof"), 1)]  BY DEF Chain
<1>2. s[1] = Write(Token("eof"), 1) /\ s \in Seq(Calls) /\ Len(s) \in Nat /\ DOMAIN s = 1 .. Len(s)
  BY <1>1, LenProperties DEF Stored
<1>3. Len(s) = 1
  <2>1. DOMAIN s = 1 .. 1  BY <1>1
  <2> HIDE DEF s
  <2> QED  BY <1>2, <2>1, OneLong
<1>4. a \in Nat /\ b \in Nat /\ Puts(Write(Token("eof"), 1), a, b, m)
  <2> HIDE DEF s
  <2>1. Stored(s, a, b, m)  BY DEF s
  <2> QED  BY <1>2, <1>3, <2>1, StoredCall
<1>5. b = a + 1 /\ Copied(m, a, Token("eof"), 1)  BY <1>4, PutsWrite
<1>6. 0 \in 0 .. 1 - 1 /\ a + 0 = a  BY <1>4
<1> QED  BY <1>4, <1>5, <1>6, FirstCells DEF Copied, Eof

LEMMA StoredBitmap ==
  ASSUME NEW a, NEW b, NEW m, Stored(BitmapWords(3), a, b, m)
  PROVE  a \in Nat /\ b = a + 1 /\ m[a] = <<"bits", <<3>>>>
<1> DEFINE s == BitmapWords(3)
           w == Struct("bits", <<3>>, 1)
<1>1. s = [i \in 1 .. 1 |-> Write(w, 1)]
  <2>1. ((3 - 1) \div 32) + 1 = 1  OBVIOUS
  <2>2. \A i \in 1 .. 1 : Lesser(32, 3 - (32 * (i - 1))) = 3  BY DEF Lesser
  <2> QED  BY <2>1, <2>2 DEF BitmapWords
<1>2. s[1] = Write(w, 1) /\ s \in Seq(Calls) /\ Len(s) \in Nat /\ DOMAIN s = 1 .. Len(s)
  <2> HIDE DEF w
  <2> QED  BY <1>1, LenProperties DEF Stored
<1>3. Len(s) = 1
  <2>1. DOMAIN s = 1 .. 1  BY <1>1
  <2> HIDE DEF s
  <2> QED  BY <1>2, <2>1, OneLong
<1>4. a \in Nat /\ b \in Nat /\ Puts(Write(w, 1), a, b, m)
  <2> HIDE DEF s, w
  <2>1. Stored(s, a, b, m)  BY DEF s
  <2> QED  BY <1>2, <1>3, <2>1, StoredCall
<1>5. b = a + 1 /\ Copied(m, a, w, 1)  BY <1>4, PutsWrite
<1>6. 0 \in 0 .. 1 - 1 /\ a + 0 = a /\ w[0] = <<"bits", <<3>>>>  BY <1>4 DEF Struct
<1> HIDE DEF w
<1> QED  BY <1>4, <1>5, <1>6 DEF Copied

\* The areas, in cells.
StartAt(p) == p.partitionOffset * p.bytesPerSec
FatAt(p) == StartAt(p) + (p.fatOffset * p.bytesPerSec)
HeapAt(p) == StartAt(p) + (p.clusterHeapOffset * p.bytesPerSec)
TableAt(p) == HeapAt(p) + ClusterCells(p)
DirAt(p) == TableAt(p) + ClusterCells(p)

LEMMA ExfatInOrder ==
  ASSUME NEW p \in Layouts, p.fatBits > 32
  PROVE  /\ StartAt(p) \in Nat /\ FatAt(p) \in Nat /\ HeapAt(p) \in Nat /\ TableAt(p) \in Nat
         /\ DirAt(p) \in Nat /\ ClusterCells(p) \in Nat /\ p.bytesPerSec \in Nat \ {0}
         /\ SecSize \in Nat \ {0} /\ UpCaseSize \in Nat \ {0} /\ 12 * p.bytesPerSec \in Nat
         /\ SecSize <= StartAt(p) /\ StartAt(p) + (24 * p.bytesPerSec) <= FatAt(p)
         /\ FatAt(p) + 5 <= HeapAt(p)
         /\ ClusterCells(p) >= 3 /\ ClusterCells(p) >= UpCaseSize
<1> DEFINE bps   == p.bytesPerSec
           start == p.partitionOffset * bps
           fat   == start + (p.fatOffset * bps)
           heap  == start + (p.clusterHeapOffset * bps)
<1>1. /\ StartAt(p) = start /\ FatAt(p) = fat /\ HeapAt(p) = heap
      /\ TableAt(p) = heap + ClusterCells(p)
      /\ DirAt(p) = (heap + ClusterCells(p)) + ClusterCells(p)
  BY DEF StartAt, FatAt, HeapAt, TableAt, DirAt
<1>2. /\ start \in Nat /\ fat \in Nat /\ heap \in Nat /\ ClusterCells(p) \in Nat
      /\ start >= SecSize /\ start + (24 * bps) <= fat /\ fat + 5 <= heap
      /\ ClusterCells(p) >= 3 /\ ClusterCells(p) >= UpCaseSize
  BY ExfatAreas
<1>3. bps \in Nat \ {0} /\ SecSize \in Nat \ {0} /\ UpCaseSize \in Nat \ {0}
  BY SectorSizes, CardAssumption
<1> HIDE DEF bps, start, fat, heap
<1> QED  BY <1>1, <1>2, <1>3 DEF bps

ExfatLeft(m, p, hasLabel) ==
  LET bps == p.bytesPerSec
  IN  /\ Clear(m, SecSize, StartAt(p))
      /\ Copied(m, StartAt(p), BootRegion(p), 12 * bps)
      /\ Copied(m, StartAt(p) + (12 * bps), BootRegion(p), 12 * bps)
      /\ Clear(m, StartAt(p) + (24 * bps), FatAt(p))
      /\ Copied(m, FatAt(p), Struct("exfatRsvd", <<>>, 2), 2)
      /\ m[FatAt(p) + 2] = Eof /\ m[FatAt(p) + 3] = Eof /\ m[FatAt(p) + 4] = Eof
      /\ Clear(m, FatAt(p) + 5, HeapAt(p))
      /\ m[HeapAt(p)] = <<"bits", <<3>>>>
      /\ Clear(m, HeapAt(p) + 1, TableAt(p))
      /\ Copied(m, TableAt(p), UpCaseTable, UpCaseSize)
      /\ Clear(m, TableAt(p) + UpCaseSize, DirAt(p))
      /\ Copied(m, DirAt(p), RootEntries(p, hasLabel), 3)
      /\ Clear(m, DirAt(p) + 3, DirAt(p) + ClusterCells(p))

LEMMA StoredMakeFsExFat ==
  ASSUME NEW p \in Layouts, p.fatBits > 32, NEW hasLabel \in BOOLEAN, NEW b, NEW m,
         Stored(MakeFsExFat(p, hasLabel), SecSize, b, m)
  PROVE  ExfatLeft(m, p, hasLabel)
<1> DEFINE bps    == p.bytesPerSec
           start  == StartAt(p)
           fat    == FatAt(p)
           heap   == HeapAt(p)
           upCase == TableAt(p)
           root   == DirAt(p)
           end    == root + ClusterCells(p)
           region == Write(BootRegion(p), 12 * bps)
           i1     == <<FillTo(start), Allocate>>
           i2     == <<region, region>>
           i3     == FillAndWrite(Struct("exfatRsvd", <<>>, 2), 2, fat)
           i4     == Chain(0, 1)
           i5     == Chain(1, 1)
           i6     == Chain(2, 1)
           i7     == <<FillTo(heap)>>
           i8     == BitmapWords(3)
           i9     == FillAndWrite(UpCaseTable, UpCaseSize, upCase)
           i10    == FillAndWrite(RootEntries(p, hasLabel), 3, root)
           i11    == <<FillTo(end)>>
           c2     == i1 \o i2
           c3     == c2 \o i3
           c4     == c3 \o i4
           c5     == c4 \o i5
           c6     == c5 \o i6
           c7     == c6 \o i7
           c8     == c7 \o i8
           c9     == c8 \o i9
           c10    == c9 \o i10
<1>1. /\ start \in Nat /\ fat \in Nat /\ heap \in Nat /\ upCase \in Nat /\ root \in Nat
      /\ end \in Nat /\ UpCaseSize \in Nat /\ bps \in Nat /\ 12 * bps \in Nat
  BY ExfatInOrder
<1>2. /\ BootRegion(p) \in [0 .. (12 * bps) - 1 -> Cell]
      /\ Struct("exfatRsvd", <<>>, 2) \in [0 .. 2 - 1 -> Cell]
      /\ UpCaseTable \in [0 .. UpCaseSize - 1 -> Cell]
      /\ RootEntries(p, hasLabel) \in [0 .. 3 - 1 -> Cell]
  BY <1>1, ExfatSources
<1>3. Stored(c10 \o i11, SecSize, b, m)
  <2>1. BitmapClus(p) = 1 /\ UpCaseClus(p) = 1  BY OneCluster
  <2>2. /\ ClusterCells(p) * BitmapClus(p) = ClusterCells(p)
        /\ ClusterCells(p) * UpCaseClus(p) = ClusterCells(p)
        /\ BitmapClus(p) + UpCaseClus(p) = 2 /\ BitmapClus(p) + UpCaseClus(p) + 1 = 3
    BY <2>1, ExfatInOrder
  <2>3. MakeFsExFat(p, hasLabel) = c10 \o i11
    BY <2>1, <2>2 DEF MakeFsExFat, StartAt, FatAt, HeapAt, TableAt, DirAt
  <2> QED  BY <2>3
<1> HIDE DEF bps, start, fat, heap, upCase, root, end
<1>4. region \in Calls
  <2>1. PICK n \in Nat : n = 12 * bps  BY <1>1
  <2>2. BootRegion(p) \in [0 .. n - 1 -> Cell] /\ region = Write(BootRegion(p), n)
    BY <1>2, <2>1
  <2> HIDE DEF region
  <2> QED  BY <2>2 DEF Calls
<1>5. FillTo(start) \in Calls /\ Allocate \in Calls  BY <1>1 DEF Calls
<1>6. /\ i1 \in Seq(Calls) /\ i2 \in Seq(Calls) /\ i7 \in Seq(Calls) /\ i11 \in Seq(Calls)
  BY <1>1, <1>4, <1>5, CallsOfPieces
<1>7. /\ i3 \in Seq(Calls) /\ i9 \in Seq(Calls) /\ i10 \in Seq(Calls)
  BY <1>1, <1>2, CallsOfPieces
<1>8. /\ i4 \in Seq(Calls) /\ i5 \in Seq(Calls) /\ i6 \in Seq(Calls) /\ i8 \in Seq(Calls)
  <2>1. Runs(i4, 0, 0 + 1) /\ Runs(i5, 0, 0 + 1) /\ Runs(i6, 0, 0 + 1)  BY RunsChain
  <2>2. Runs(i8, 0, 0 + 1)  BY RunsBitmap
  <2> QED  BY <2>1, <2>2, RunsForward
<1> HIDE DEF region, i1, i2, i3, i4, i5, i6, i7, i8, i9, i10, i11
<1>9. c2 \in Seq(Calls) /\ c3 \in Seq(Calls) /\ c4 \in Seq(Calls)
  BY <1>6, <1>7, <1>8, ConcatProperties
<1> HIDE DEF c4
<1>10. c5 \in Seq(Calls) /\ c6 \in Seq(Calls) /\ c7 \in Seq(Calls)
  BY <1>6, <1>8, <1>9, ConcatProperties
<1> HIDE DEF c7
<1>11. c8 \in Seq(Calls) /\ c9 \in Seq(Calls) /\ c10 \in Seq(Calls)
  BY <1>7, <1>8, <1>10, ConcatProperties
<1>12. PICK b10 : Stored(c10, SecSize, b10, m) /\ Stored(i11, b10, b, m)
  <2> HIDE DEF c10
  <2> QED  BY <1>3, <1>6, <1>11, StoredParts
<1>13. PICK b9 : Stored(c9, SecSize, b9, m) /\ Stored(i10, b9, b10, m)
  <2> HIDE DEF c9
  <2> QED  BY <1>7, <1>11, <1>12, StoredParts
<1>14. PICK b8 : Stored(c8, SecSize, b8, m) /\ Stored(i9, b8, b9, m)
  <2> HIDE DEF c8
  <2> QED  BY <1>7, <1>11, <1>13, StoredParts
<1>15. PICK b7 : Stored(c7, SecSize, b7, m) /\ Stored(i8, b7, b8, m)
  BY <1>8, <1>10, <1>14, StoredParts
<1>16. PICK b6 : Stored(c6, SecSize, b6, m) /\ Stored(i7, b6, b7, m)
  <2> HIDE DEF c6
  <2> QED  BY <1>6, <1>10, <1>15, StoredParts DEF c7
<1>17. PICK b5 : Stored(c5, SecSize, b5, m) /\ Stored(i6, b5, b6, m)
  <2> HIDE DEF c5
  <2> QED  BY <1>8, <1>10, <1>16, StoredParts
<1>18. PICK b4 : Stored(c4, SecSize, b4, m) /\ Stored(i5, b4, b5, m)
  BY <1>8, <1>9, <1>17, StoredParts
<1>19. PICK b3 : Stored(c3, SecSize, b3, m) /\ Stored(i4, b3, b4, m)
  <2> HIDE DEF c3
  <2> QED  BY <1>8, <1>9, <1>18, StoredParts DEF c4
<1>20. PICK b2 : Stored(c2, SecSize, b2, m) /\ Stored(i3, b2, b3, m)
  <2> HIDE DEF c2
  <2> QED  BY <1>7, <1>9, <1>19, StoredParts
<1>21. PICK b1 : Stored(i1, SecSize, b1, m) /\ Stored(i2, b1, b2, m)
  BY <1>6, <1>20, StoredParts
<1> HIDE DEF c2, c3, c5, c6, c8, c9, c10
<1>22. b1 = start /\ Clear(m, SecSize, start)
  <2>1. SecSize \in Nat /\ b1 \in Nat  BY <1>21 DEF Stored
  <2>2. PICK c \in Nat : Puts(FillTo(start), SecSize, c, m) /\ Puts(Allocate, c, b1, m)
    BY <1>5, <1>21, StoredPair DEF i1
  <2>3. c = start /\ Clear(m, SecSize, start)  BY <1>1, <2>1, <2>2, PutsFill
  <2>4. b1 = c  BY <2>1, <2>2, PutsNew
  <2> QED  BY <2>3, <2>4
<1>23. /\ b2 = start + (24 * bps)
       /\ Copied(m, start, BootRegion(p), 12 * bps)
       /\ Copied(m, start + (12 * bps), BootRegion(p), 12 * bps)
  <2>1. b1 \in Nat /\ b2 \in Nat  BY <1>21 DEF Stored
  <2>2. PICK c \in Nat : Puts(region, b1, c, m) /\ Puts(region, c, b2, m)
    BY <1>4, <1>21, StoredPair DEF i2
  <2>3. c = b1 + (12 * bps) /\ Copied(m, b1, BootRegion(p), 12 * bps)
    BY <1>1, <2>1, <2>2, PutsWrite DEF region
  <2>4. b2 = c + (12 * bps) /\ Copied(m, c, BootRegion(p), 12 * bps)
    BY <1>1, <2>1, <2>2, PutsWrite DEF region
  <2>5. (start + (12 * bps)) + (12 * bps) = start + (24 * bps)  BY <1>1
  <2> QED  BY <1>22, <2>3, <2>4, <2>5
<1>24. /\ b3 = fat + 2 /\ Clear(m, b2, fat)
       /\ Copied(m, fat, Struct("exfatRsvd", <<>>, 2), 2)
  <2>1. PICK n \in Nat : n = 2  OBVIOUS
  <2>2. Struct("exfatRsvd", <<>>, 2) \in [0 .. n - 1 -> Cell]  BY <1>2, <2>1
  <2>3. Stored(FillAndWrite(Struct("exfatRsvd", <<>>, 2), n, fat), b2, b3, m)
    BY <1>20, <2>1 DEF i3
  <2>4. /\ b3 = fat + n /\ Clear(m, b2, fat)
        /\ Copied(m, fat, Struct("exfatRsvd", <<>>, 2), n)
    BY <1>1, <2>2, <2>3, StoredFillAndWrite
  <2> QED  BY <2>1, <2>4
<1>25. /\ b6 = fat + 5
       /\ m[fat + 2] = Eof /\ m[fat + 3] = Eof /\ m[fat + 4] = Eof
  <2>1. b4 = b3 + 1 /\ m[b3] = Eof  BY <1>19, StoredChain DEF i4
  <2>2. b5 = b4 + 1 /\ m[b4] = Eof  BY <1>18, StoredChain DEF i5
  <2>3. b6 = b5 + 1 /\ m[b5] = Eof  BY <1>17, StoredChain DEF i6
  <2>4. b4 = fat + 3 /\ b5 = fat + 4 /\ b6 = fat + 5  BY <1>1, <1>24, <2>1, <2>2, <2>3
  <2> QED  BY <1>24, <2>1, <2>2, <2>3, <2>4
<1>26. b7 = heap /\ Clear(m, fat + 5, heap)  BY <1>1, <1>16, <1>25, StoredFill DEF i7
<1>27. b8 = heap + 1 /\ m[heap] = <<"bits", <<3>>>>  BY <1>15, <1>26, StoredBitmap DEF i8
<1>28. /\ b9 = upCase + UpCaseSize /\ Clear(m, heap + 1, upCase)
       /\ Copied(m, upCase, UpCaseTable, UpCaseSize)
  BY <1>1, <1>2, <1>14, <1>27, StoredFillAndWrite DEF i9
<1>29. /\ b10 = root + 3 /\ Clear(m, upCase + UpCaseSize, root)
       /\ Copied(m, root, RootEntries(p, hasLabel), 3)
  <2>1. PICK n \in Nat : n = 3  OBVIOUS
  <2>2. RootEntries(p, hasLabel) \in [0 .. n - 1 -> Cell]  BY <1>2, <2>1
  <2>3. Stored(FillAndWrite(RootEntries(p, hasLabel), n, root), b9, b10, m)
    BY <1>13, <2>1 DEF i10
  <2>4. /\ b10 = root + n /\ Clear(m, b9, root) /\ Copied(m, root, RootEntries(p, hasLabel), n)
    BY <1>1, <2>2, <2>3, StoredFillAndWrite
  <2> QED  BY <1>28, <2>1, <2>4
<1>30. Clear(m, root + 3, end)  BY <1>1, <1>12, <1>29, StoredFill DEF i11
<1> QED  BY <1>22, <1>23, <1>24, <1>25, <1>26, <1>27, <1>28, <1>29, <1>30
         DEF ExfatLeft, bps, start, fat, heap, upCase, root, end

-----------------------------------------------------------------------------
(* What a driver makes of it.                                              *)

\* The MBR leads to where the partition is.
PartitionAt(p) == IF p.fatBits < 64 THEN p.partStart ELSE p.partitionOffset

LEMMA MbrLeads ==
  ASSUME NEW p \in Layouts, NEW b, Stored(CreateMbrAndPartition(p), 0, b, disk)
  PROVE  Kind(0) = "mbr" /\ PartitionStart = PartitionAt(p) * p.bytesPerSec
<1> DEFINE n == PartitionAt(p)
           q == p.bytesPerSec \div SecSize
<1>1. SecSize \in Nat \ {0} /\ p.bytesPerSec \in Nat \ {0} /\ p.fatBits \in {12, 16, 32, 64}
  BY SectorSizes, LayoutAssumption
<1>2. PICK k \in 1 .. p.bytesPerSec : p.bytesPerSec = k * SecSize  BY LayoutAssumption
<1>3. n \in Nat  BY <1>1, LayoutAssumption DEF PartitionAt
<1>4. q = k
  <2>1. k \in Nat /\ p.bytesPerSec = (SecSize * k) + 0 /\ 0 \in 0 .. SecSize - 1  BY <1>1, <1>2
  <2> HIDE DEF q
  <2>2. ((SecSize * k) + 0) \div SecSize = k  BY <1>1, <2>1, Division
  <2> QED  BY <2>1, <2>2 DEF q
<1>5. disk[0] = Mbr(p)[0]
  <2>1. Copied(disk, 0, Mbr(p), SecSize)  BY <1>1, StoredWrite DEF CreateMbrAndPartition
  <2>2. 0 \in 0 .. SecSize - 1 /\ 0 + 0 = 0  BY <1>1
  <2> QED  BY <2>1, <2>2 DEF Copied
<1>6. Mbr(p)[0] = <<"mbr", <<n * q>>>>
  <2>1. Mbr(p) = Struct("mbr", <<n * q>>, SecSize)  BY DEF Mbr, PartitionAt
  <2>2. 0 \in 0 .. SecSize - 1  BY <1>1
  <2> HIDE DEF n, q
  <2> QED  BY <2>1, <2>2 DEF Struct
<1>7. Kind(0) = "mbr" /\ PartitionStart = (n * q) * SecSize
  <2> HIDE DEF n, q
  <2> QED  BY <1>5, <1>6 DEF Kind, Fields, PartitionStart
<1>8. (n * k) * SecSize = n * (k * SecSize)
  <2>1. k \in Nat  BY <1>2
  <2> HIDE DEF n
  <2> QED  BY <1>1, <1>3, <2>1
<1> HIDE DEF n, q
<1> QED  BY <1>2, <1>4, <1>7, <1>8 DEF n

\* Up to where the driver expects an empty root directory, there are zeros.
LEMMA RootDirectoryEnds ==
  ASSUME NEW p \in Layouts, p.fatBits <= 32
  PROVE  /\ (p.secPerClus * p.bytesPerSec) \in Nat /\ (p.fsAreaSize * p.bytesPerSec) \in Nat
         /\ p.fatBits = 32 => RootAt(p) + (p.secPerClus * p.bytesPerSec) <= FatEnd(p)
         /\ PartAt(p) + (p.fsAreaSize * p.bytesPerSec) <= FatEnd(p)
<1> DEFINE bps  == p.bytesPerSec
           part == p.partStart
           rsvd == p.rsvdSecCnt
           spf  == p.secPerFat
           fs   == p.fsAreaSize
           spc  == p.secPerClus
           one  == IF p.fatBits < 32 THEN 0 ELSE spc
<1>1. /\ bps \in Nat \ {0} /\ spc \in Nat /\ part \in Nat /\ spf \in Nat /\ rsvd \in Nat
      /\ fs \in Nat /\ fs >= rsvd + (2 * spf) /\ p.fatBits \in {12, 16, 32}
  BY SectorSizes, LayoutAssumption
<1>2. /\ FatEnd(p) = (part + fs + one) * bps
      /\ PartAt(p) = part * bps
      /\ RootAt(p) = (part * bps) + (rsvd * bps) + (spf * bps) + (spf * bps)
  BY DEF FatEnd, PartAt, Fat1At, Fat2At, RootAt
<1>3. one \in Nat /\ (p.fatBits = 32 => one = spc)  BY <1>1
<1> HIDE DEF bps, part, rsvd, spf, fs, spc, one
<1>4. (part + fs) * bps <= (part + fs + one) * bps  BY <1>1, <1>3, Multiples
<1>5. (rsvd + (2 * spf)) * bps <= fs * bps  BY <1>1, Multiples
<1>6. /\ (part + fs) * bps = (part * bps) + (fs * bps)
      /\ (part + fs + one) * bps = (part * bps) + (fs * bps) + (one * bps)
      /\ (rsvd + (2 * spf)) * bps = (rsvd * bps) + (spf * bps) + (spf * bps)
  BY <1>1, <1>3
<1>7. /\ part * bps \in Nat /\ fs * bps \in Nat /\ one * bps \in Nat /\ rsvd * bps \in Nat
      /\ spf * bps \in Nat /\ spc * bps \in Nat
  BY <1>1, <1>3
<1> QED  BY <1>2, <1>3, <1>4, <1>5, <1>6, <1>7 DEF bps, fs, spc

LEMMA FatLeadsOn ==
  ASSUME layout \in Layouts, layout.fatBits <= 32, labelled \in BOOLEAN,
         PartitionStart = PartAt(layout), FatLeft(disk, layout, labelled)
  PROVE  FatMounts
<1> DEFINE p    == layout
           at   == PartAt(p)
           bps  == p.bytesPerSec
           fat1 == Fat1At(p)
           fat2 == Fat2At(p)
           root == RootAt(p)
           len  == p.secPerFat * bps
           size == Reserved(p)
<1>1. /\ at \in Nat /\ fat1 \in Nat /\ fat2 \in Nat /\ root \in Nat /\ FatEnd(p) \in Nat
      /\ bps \in Nat \ {0} /\ SecSize \in Nat \ {0} /\ SecSize <= bps
      /\ at + bps <= fat1 /\ (p.fatBits = 32 => at + (9 * bps) <= fat1)
      /\ fat1 + 3 <= fat2 /\ fat2 + 3 <= root /\ root + 1 <= FatEnd(p)
      /\ size = (IF p.fatBits < 32 THEN 1 ELSE 3)
  BY AreasInOrder, SectorSizes DEF Reserved
<1>2. p.fatBits \in {12, 16, 32}  BY LayoutAssumption
<1>3. len \in Nat /\ fat2 = fat1 + len /\ root = fat2 + len
  <2>1. p.secPerFat \in Nat  BY LayoutAssumption
  <2> QED  BY <1>1, <2>1 DEF Fat2At, RootAt
<1>4. disk[at] = <<"boot", <<bps, p.secPerClus, p.rsvdSecCnt, p.secPerFat>>>>
  <2>1. Copied(disk, at, FatBoot(p), SecSize)
    BY <1>2 DEF FatLeft, Fat32BootAt, BootAt
  <2>2. 0 \in 0 .. SecSize - 1 /\ at + 0 = at  BY <1>1
  <2> HIDE DEF at
  <2> QED  BY <2>1, <2>2, FirstCells DEF Copied
<1>5. /\ Kind(at) = "boot" /\ Fields(at)[1] = bps /\ Fields(at)[2] = p.secPerClus
      /\ Fields(at)[3] = p.rsvdSecCnt /\ Fields(at)[4] = p.secPerFat
  <2> HIDE DEF at
  <2> QED  BY <1>4 DEF Kind, Fields
<1>6. at + (p.rsvdSecCnt * bps) = fat1  BY DEF Fat1At
<1>7. /\ Copied(disk, fat1, ReservedEntries(p), size) /\ Clear(disk, fat1 + size, fat2)
      /\ Copied(disk, fat2, ReservedEntries(p), size) /\ Clear(disk, fat2 + size, root)
      /\ disk[root] = (IF labelled THEN VolumeId ELSE Zero)
      /\ Clear(disk, root + 1, FatEnd(p))
  BY DEF FatLeft
<1>8. /\ ReservedEntries(p)[0] = <<"rsvdEntries", <<>>>>
      /\ p.fatBits = 32 => ReservedEntries(p)[1] = <<"rsvdEntries", <<1>>>>
  BY <1>1 DEF ReservedEntries, Struct
<1>9. Kind(fat1) = "rsvdEntries"
  <2>1. 0 \in 0 .. size - 1 /\ fat1 + 0 = fat1  BY <1>1
  <2> HIDE DEF fat1, size
  <2>2. disk[fat1] = ReservedEntries(p)[0]  BY <1>7, <2>1 DEF Copied
  <2>3. ReservedEntries(p)[0] = <<"rsvdEntries", <<>>>>  BY <1>8
  <2> QED  BY <2>2, <2>3 DEF Kind
<1>10. (Kind(fat1 + 1) = "rsvdEntries") <=> p.fatBits = 32
  <2>1. CASE p.fatBits = 32
    <3>1. 1 \in 0 .. size - 1  BY <1>1, <2>1
    <3> HIDE DEF fat1, size
    <3>2. disk[fat1 + 1] = ReservedEntries(p)[1]  BY <1>7, <3>1 DEF Copied
    <3>3. ReservedEntries(p)[1] = <<"rsvdEntries", <<1>>>>  BY <1>8, <2>1
    <3>4. Kind(fat1 + 1) = "rsvdEntries"  BY <3>2, <3>3 DEF Kind
    <3> QED  BY <2>1, <3>4
  <2>2. CASE p.fatBits < 32
    <3>1. fat1 + 1 \in fat1 + size .. fat2 - 1  BY <1>1, <2>2
    <3> HIDE DEF fat1, fat2, size
    <3> QED  BY <1>7, <2>2, <3>1, ZeroAssumption DEF Clear, Kind
  <2> QED  BY <1>2, <2>1, <2>2
<1>11. \A i \in 0 .. len - 1 : disk[fat1 + i] = disk[fat2 + i]
  <2> HIDE DEF fat1, fat2, root, size, len
  <2> TAKE i \in 0 .. len - 1
  <2>1. CASE i < size
    <3>1. i \in 0 .. size - 1  BY <1>1, <2>1
    <3> QED  BY <1>7, <3>1 DEF Copied
  <2>2. CASE ~(i < size)
    <3>1. /\ fat1 + i \in fat1 + size .. fat2 - 1
          /\ fat2 + i \in fat2 + size .. root - 1
      BY <1>1, <1>3, <2>2
    <3> QED  BY <1>7, <3>1 DEF Clear
  <2> QED  BY <2>1, <2>2
<1>12. Blank(fat1 + size, fat2)  BY <1>7 DEF Clear, Blank
<1>13. Blank(root + 1, IF p.fatBits = 32 THEN root + (p.secPerClus * bps)
                       ELSE at + (p.fsAreaSize * bps))
  <2>1. /\ (p.secPerClus * bps) \in Nat /\ (p.fsAreaSize * bps) \in Nat
        /\ p.fatBits = 32 => root + (p.secPerClus * bps) <= FatEnd(p)
        /\ at + (p.fsAreaSize * bps) <= FatEnd(p)
    BY RootDirectoryEnds
  <2> DEFINE one == p.secPerClus * bps
             area == p.fsAreaSize * bps
  <2> HIDE DEF root, at, one, area
  <2> QED  BY <1>1, <1>7, <2>1 DEF Clear, Blank, one, area
<1>14. p.fatBits < 32 => Blank(at + SecSize, fat1)  BY DEF FatLeft, Clear, Blank
<1>15. p.fatBits = 32 => Fat32BootAt(disk, p, at) /\ Blank(at + (9 * bps), fat1)
  BY DEF FatLeft, Clear, Blank
<1>16. ASSUME p.fatBits = 32
       PROVE  /\ Fields(at + bps) = <<p.maxClus - 1>>
              /\ \A s \in {0, 6} :
                   /\ \A i \in 0 .. bps - 1 : disk[at + (s * bps) + i] = disk[at + i]
                   /\ Kind(at + ((s + 1) * bps)) = "fsInfo"
                   /\ Kind(at + ((s + 3) * bps) - 1) = "sig"
                   /\ bps > SecSize => Kind(at + ((s + 1) * bps) - 1) = "sig"
              /\ Blank(at + (3 * bps), at + (6 * bps))
  <2>1. /\ BootAt(disk, p, at) /\ BootAt(disk, p, at + (6 * bps))
        /\ disk[at + bps] = <<"fsInfo", <<p.maxClus - 1>>>>
        /\ disk[at + (7 * bps)] = <<"fsInfo", <<>>>>
        /\ disk[at + (3 * bps) - 1] = Sig /\ disk[at + (9 * bps) - 1] = Sig
        /\ Clear(disk, at + (3 * bps), at + (6 * bps))
    BY <1>15, <1>16 DEF Fat32BootAt
  <2> DEFINE s6 == at + (6 * bps)
  <2>2. s6 \in Nat /\ s6 + bps = at + (7 * bps)  BY <1>1
  <2> HIDE DEF at, s6
  <2>3. /\ Copied(disk, at, FatBoot(p), SecSize) /\ Copied(disk, s6, FatBoot(p), SecSize)
        /\ SignedEnd(disk, p, at + SecSize, at + bps)
        /\ SignedEnd(disk, p, s6 + SecSize, s6 + bps)
    BY <2>1 DEF BootAt, s6
  <2>4. ASSUME bps > SecSize
        PROVE  /\ Clear(disk, at + SecSize, at + bps - 1) /\ disk[at + bps - 1] = Sig
               /\ Clear(disk, s6 + SecSize, s6 + bps - 1) /\ disk[s6 + bps - 1] = Sig
    <3>1. /\ Clear(disk, at + SecSize, at + bps - 1) /\ disk[at + bps - 1] = Sig
      <4>1. SignedEnd(disk, p, at + SecSize, at + bps)  BY <2>3
      <4>2. (at + bps) - 1 = at + bps - 1  BY <1>1, <2>2
      <4> QED  BY <2>4, <4>1, <4>2 DEF SignedEnd
    <3>2. /\ Clear(disk, s6 + SecSize, s6 + bps - 1) /\ disk[s6 + bps - 1] = Sig
      <4>1. SignedEnd(disk, p, s6 + SecSize, s6 + bps)  BY <2>3
      <4>2. (s6 + bps) - 1 = s6 + bps - 1  BY <1>1, <2>2
      <4> QED  BY <2>4, <4>1, <4>2 DEF SignedEnd
    <3> QED  BY <3>1, <3>2
  <2>5. \A i \in 0 .. bps - 1 : disk[s6 + i] = disk[at + i]
    <3> TAKE i \in 0 .. bps - 1
    <3>1. CASE i < SecSize
      <4>1. i \in 0 .. SecSize - 1  BY <1>1, <3>1
      <4> QED  BY <2>3, <4>1 DEF Copied
    <3>2. CASE ~(i < SecSize) /\ i # bps - 1
      <4>1. /\ bps > SecSize
            /\ at + i \in at + SecSize .. (at + bps - 1) - 1
            /\ s6 + i \in s6 + SecSize .. (s6 + bps - 1) - 1
        BY <1>1, <2>2, <3>2
      <4> QED  BY <2>4, <4>1 DEF Clear
    <3>3. CASE ~(i < SecSize) /\ i = bps - 1
      <4>1. bps > SecSize /\ at + i = at + bps - 1 /\ s6 + i = s6 + bps - 1
        BY <1>1, <2>2, <3>3
      <4> QED  BY <2>4, <4>1
    <3> QED  BY <3>1, <3>2, <3>3
  <2>6. /\ at + (0 * bps) = at /\ at + ((0 + 1) * bps) = at + bps
        /\ at + ((0 + 3) * bps) - 1 = at + (3 * bps) - 1
        /\ at + ((0 + 1) * bps) - 1 = at + bps - 1
        /\ at + ((6 + 1) * bps) = at + (7 * bps)
        /\ at + ((6 + 3) * bps) - 1 = at + (9 * bps) - 1
        /\ at + ((6 + 1) * bps) - 1 = s6 + bps - 1
    BY <1>1, <2>2
  <2>7. ASSUME NEW s \in {0, 6}
        PROVE  /\ \A i \in 0 .. bps - 1 : disk[at + (s * bps) + i] = disk[at + i]
               /\ Kind(at + ((s + 1) * bps)) = "fsInfo"
               /\ Kind(at + ((s + 3) * bps) - 1) = "sig"
               /\ bps > SecSize => Kind(at + ((s + 1) * bps) - 1) = "sig"
    <3>1. CASE s = 0
      <4>1. \A i \in 0 .. bps - 1 : disk[at + (0 * bps) + i] = disk[at + i]  BY <2>6
      <4>2. Kind(at + ((0 + 1) * bps)) = "fsInfo" /\ Kind(at + ((0 + 3) * bps) - 1) = "sig"
        BY <2>1, <2>6 DEF Kind, Sig
      <4>3. bps > SecSize => Kind(at + ((0 + 1) * bps) - 1) = "sig"
        BY <2>4, <2>6 DEF Kind, Sig
      <4> QED  BY <3>1, <4>1, <4>2, <4>3
    <3>2. CASE s = 6
      <4>1. \A i \in 0 .. bps - 1 : disk[at + (6 * bps) + i] = disk[at + i]
        BY <2>5 DEF s6
      <4>2. Kind(at + ((6 + 1) * bps)) = "fsInfo" /\ Kind(at + ((6 + 3) * bps) - 1) = "sig"
        BY <2>1, <2>6 DEF Kind, Sig
      <4>3. bps > SecSize => Kind(at + ((6 + 1) * bps) - 1) = "sig"
        BY <2>4, <2>6 DEF Kind, Sig
      <4> QED  BY <3>2, <4>1, <4>2, <4>3
    <3> QED  BY <3>1, <3>2
  <2>8. Fields(at + bps) = <<p.maxClus - 1>>  BY <2>1 DEF Fields
  <2>9. Blank(at + (3 * bps), at + (6 * bps))  BY <2>1 DEF Clear, Blank
  <2> QED  BY <2>7, <2>8, <2>9
<1> DEFINE fat32 == Kind(fat1 + 1) = "rsvdEntries"
<1>17. /\ Kind(at) = "boot" /\ Kind(fat1) = "rsvdEntries"
       /\ fat32 <=> layout.fatBits = 32
       /\ \A i \in 0 .. len - 1 : disk[fat1 + i] = disk[fat2 + i]
       /\ Blank(fat1 + (IF fat32 THEN 3 ELSE 1), fat2)
       /\ disk[root] = IF labelled THEN <<"volumeId", <<>>>> ELSE Zero
       /\ Blank(root + 1, IF fat32 THEN root + (p.secPerClus * bps)
                          ELSE at + (layout.fsAreaSize * bps))
  <2>1. fat32 <=> ~(p.fatBits < 32)  BY <1>2, <1>10
  <2>2. (IF fat32 THEN 3 ELSE 1) = size  BY <1>1, <2>1
  <2> HIDE DEF at, fat1, fat2, root, size, len, fat32
  <2>3. fat32 <=> layout.fatBits = 32  BY <1>10 DEF fat32
  <2> QED  BY <1>5, <1>7, <1>9, <1>11, <1>12, <1>13, <2>2, <2>3 DEF VolumeId
<1>18. IF ~fat32 THEN Blank(at + SecSize, fat1)
       ELSE /\ Fields(at + bps) = <<layout.maxClus - 1>>
            /\ \A s \in {0, 6} :
                 /\ \A i \in 0 .. bps - 1 : disk[at + (s * bps) + i] = disk[at + i]
                 /\ Kind(at + ((s + 1) * bps)) = "fsInfo"
                 /\ Kind(at + ((s + 3) * bps) - 1) = "sig"
                 /\ bps > SecSize => Kind(at + ((s + 1) * bps) - 1) = "sig"
            /\ Blank(at + (3 * bps), at + (6 * bps)) /\ Blank(at + (9 * bps), fat1)
  <2>1. fat32 <=> p.fatBits = 32  BY <1>10
  <2> HIDE DEF at, fat1, fat32
  <2>2. CASE fat32
    <3>1. p.fatBits = 32  BY <2>1, <2>2
    <3> QED  BY <1>15, <1>16, <2>2, <3>1
  <2>3. CASE ~fat32
    <3>1. p.fatBits < 32  BY <1>2, <2>1, <2>3
    <3> QED  BY <1>14, <2>3, <3>1
  <2> QED  BY <2>2, <2>3
<1>19. /\ PartitionStart = at
       /\ at + (Fields(at)[3] * bps) = fat1 /\ Fields(at)[4] * bps = len
       /\ fat1 + len = fat2 /\ fat2 + len = root
  BY <1>3, <1>5, <1>6
<1> HIDE DEF at, fat1, fat2, root, len, fat32
<1> QED  BY <1>5, <1>17, <1>18, <1>19 DEF FatMounts, fat32

LEMMA ExfatLeadsOn ==
  ASSUME layout \in Layouts, layout.fatBits > 32, labelled \in BOOLEAN,
         PartitionStart = StartAt(layout), ExfatLeft(disk, layout, labelled)
  PROVE  ExfatMounts
<1> DEFINE p      == layout
           bps    == p.bytesPerSec
           start  == StartAt(p)
           fat    == FatAt(p)
           heap   == HeapAt(p)
           upCase == TableAt(p)
           dir    == DirAt(p)
           clus   == ClusterCells(p)
           Data(c) == heap + ((c - 2) * clus)
<1>1. /\ start \in Nat /\ fat \in Nat /\ heap \in Nat /\ upCase \in Nat /\ dir \in Nat
      /\ clus \in Nat /\ bps \in Nat \ {0} /\ UpCaseSize \in Nat \ {0} /\ 12 * bps \in Nat
  BY ExfatInOrder
<1>2. /\ Copied(disk, start, BootRegion(p), 12 * bps)
      /\ Copied(disk, start + (12 * bps), BootRegion(p), 12 * bps)
      /\ Clear(disk, start + (24 * bps), fat)
      /\ Copied(disk, fat, Struct("exfatRsvd", <<>>, 2), 2)
      /\ disk[fat + 2] = Eof /\ disk[fat + 3] = Eof /\ disk[fat + 4] = Eof
      /\ Clear(disk, fat + 5, heap)
      /\ disk[heap] = <<"bits", <<3>>>>
      /\ Clear(disk, heap + 1, upCase)
      /\ Copied(disk, upCase, UpCaseTable, UpCaseSize)
      /\ Clear(disk, upCase + UpCaseSize, dir)
      /\ Copied(disk, dir, RootEntries(p, labelled), 3)
      /\ Clear(disk, dir + 3, dir + clus)
  BY DEF ExfatLeft
<1>3. RootCluster(p) = 4 /\ UpCaseCluster(p) = 3
  <2>1. BitmapClus(p) = 1 /\ UpCaseClus(p) = 1  BY OneCluster
  <2> QED  BY <2>1 DEF RootCluster, UpCaseCluster
<1> DEFINE fields == <<bps, p.secPerClus, p.fatOffset, p.clusterHeapOffset, p.clusterCount, 4>>
<1>4. disk[start] = <<"exfatBoot", fields>>
  <2>1. 0 \in 0 .. (12 * bps) - 1 /\ start + 0 = start  BY <1>1
  <2>2. BootRegion(p)[0] = <<"exfatBoot", fields>>  BY <1>3, <2>1 DEF BootRegion
  <2> HIDE DEF start, fields
  <2>3. disk[start] = BootRegion(p)[0]  BY <1>2, <2>1 DEF Copied
  <2> QED  BY <2>2, <2>3
<1>5. /\ Kind(start) = "exfatBoot" /\ Fields(start)[1] = bps /\ Fields(start)[2] = p.secPerClus
      /\ Fields(start)[3] = p.fatOffset /\ Fields(start)[4] = p.clusterHeapOffset
      /\ Fields(start)[6] = 4
  <2> HIDE DEF start
  <2> QED  BY <1>4 DEF Kind, Fields
<1>6. /\ p.secPerClus * bps = clus
      /\ start + (p.fatOffset * bps) = fat /\ start + (p.clusterHeapOffset * bps) = heap
  BY DEF FatAt, HeapAt, ClusterCells
<1>7. Data(2) = heap /\ Data(3) = upCase /\ Data(4) = dir
  <2>1. upCase = heap + clus /\ dir = upCase + clus  BY DEF TableAt, DirAt
  <2> HIDE DEF heap, upCase, dir, clus
  <2>2. /\ heap + ((2 - 2) * clus) = heap
        /\ heap + ((3 - 2) * clus) = heap + clus
        /\ heap + ((4 - 2) * clus) = (heap + clus) + clus
    BY <1>1
  <2> QED  BY <2>1, <2>2
<1>8. /\ disk[dir] = <<"volLabel", <<IF labelled THEN 1 ELSE 0>>>>
      /\ disk[dir + 1] = <<"bitmapEnt", <<2>>>> /\ disk[dir + 2] = <<"upCaseEnt", <<3>>>>
  <2>1. /\ RootEntries(p, labelled)[0] = <<"volLabel", <<IF labelled THEN 1 ELSE 0>>>>
        /\ RootEntries(p, labelled)[1] = <<"bitmapEnt", <<2>>>>
        /\ RootEntries(p, labelled)[2] = <<"upCaseEnt", <<3>>>>
    BY <1>3 DEF RootEntries, BitmapCluster
  <2>2. 0 \in 0 .. 3 - 1 /\ 1 \in 0 .. 3 - 1 /\ 2 \in 0 .. 3 - 1 /\ dir + 0 = dir  BY <1>1
  <2> HIDE DEF dir
  <2>3. /\ disk[dir] = RootEntries(p, labelled)[0] /\ disk[dir + 1] = RootEntries(p, labelled)[1]
        /\ disk[dir + 2] = RootEntries(p, labelled)[2]
    BY <1>2, <2>2 DEF Copied
  <2> QED  BY <2>1, <2>3
<1>9. /\ Fields(dir + 1)[1] = 2 /\ Fields(dir + 2)[1] = 3
      /\ Kind(dir + 1) = "bitmapEnt" /\ Kind(dir + 2) = "upCaseEnt"
  <2> HIDE DEF dir
  <2> QED  BY <1>8 DEF Kind, Fields
<1>10. \A i \in 0 .. (12 * bps) - 1 : disk[start + i] = disk[start + (12 * bps) + i]
  <2> DEFINE n == 12 * bps
  <2> HIDE DEF start, n
  <2> QED  BY <1>2 DEF Copied, n
<1>11. Kind(fat) = "exfatRsvd"
  <2>1. Struct("exfatRsvd", <<>>, 2)[0] = <<"exfatRsvd", <<>>>>  BY DEF Struct
  <2>2. 0 \in 0 .. 2 - 1 /\ fat + 0 = fat  BY <1>1
  <2> HIDE DEF fat
  <2>3. disk[fat] = Struct("exfatRsvd", <<>>, 2)[0]  BY <1>2, <2>2 DEF Copied
  <2> QED  BY <2>1, <2>3 DEF Kind
<1> DEFINE Chained(first, after) ==
             \A c \in first .. after - 1 :
               disk[fat + c] = IF c = after - 1 THEN <<"eof", <<>>>> ELSE <<"next", <<c + 1>>>>
<1>12. Chained(2, 3) /\ Chained(3, 4) /\ Chained(4, 4 + 1)
  <2> HIDE DEF fat
  <2>1. 2 .. 3 - 1 = {2} /\ 3 .. 4 - 1 = {3} /\ 4 .. (4 + 1) - 1 = {4}  OBVIOUS
  <2>2. Chained(2, 3)  BY <1>2, <2>1 DEF Eof
  <2>3. Chained(3, 4)  BY <1>2, <2>1 DEF Eof
  <2>4. Chained(4, 4 + 1)  BY <1>2, <2>1 DEF Eof
  <2> QED  BY <2>2, <2>3, <2>4
<1>13. /\ Blank(start + (24 * bps), fat) /\ Blank(fat + 4 + 1, heap)
       /\ Blank(heap + 1, upCase) /\ Blank(upCase + UpCaseSize, dir)
       /\ Blank(dir + 3, dir + clus)
  <2>1. fat + 4 + 1 = fat + 5  BY <1>1
  <2> HIDE DEF start, fat, heap, upCase, dir
  <2> QED  BY <1>2, <2>1 DEF Clear, Blank
<1>14. \A i \in 0 .. UpCaseSize - 1 : disk[upCase + i] = UpCaseTable[i]
  <2> HIDE DEF upCase
  <2> QED  BY <1>2 DEF Copied
<1>15. disk[heap] = <<"bits", <<4 - 1>>>>
  <2>1. 4 - 1 = 3  OBVIOUS
  <2> QED  BY <1>2, <2>1
<1> HIDE DEF start, fat, heap, upCase, dir, clus, fields, bps, p
\* ExfatMounts, of the numbers the driver reads.
<1> DEFINE Reads(at, b, c, f, h, root, bitmap, upper) ==
             LET Place(k) == h + ((k - 2) * c)
                 Linked(first, after) ==
                   \A k \in first .. after - 1 :
                     disk[f + k] = IF k = after - 1 THEN <<"eof", <<>>>> ELSE <<"next", <<k + 1>>>>
             IN  /\ Kind(at) = "exfatBoot"
                 /\ \A i \in 0 .. (12 * b) - 1 : disk[at + i] = disk[at + (12 * b) + i]
                 /\ Blank(at + (24 * b), f)
                 /\ Kind(f) = "exfatRsvd"
                 /\ Linked(bitmap, upper) /\ Linked(upper, root) /\ Linked(root, root + 1)
                 /\ Blank(f + root + 1, h)
                 /\ disk[Place(bitmap)] = <<"bits", <<root - 1>>>>
                 /\ Blank(Place(bitmap) + 1, Place(upper))
                 /\ \A i \in 0 .. UpCaseSize - 1 : disk[Place(upper) + i] = UpCaseTable[i]
                 /\ Blank(Place(upper) + UpCaseSize, Place(root))
                 /\ disk[Place(root)] = <<"volLabel", <<IF labelled THEN 1 ELSE 0>>>>
                 /\ Kind(Place(root) + 1) = "bitmapEnt" /\ Kind(Place(root) + 2) = "upCaseEnt"
                 /\ Blank(Place(root) + 3, Place(root) + c)
<1>16. Reads(start, bps, clus, fat, heap, 4, 2, 3)
  BY <1>5, <1>7, <1>8, <1>9, <1>10, <1>11, <1>12, <1>13, <1>14, <1>15
<1>17. ExfatMounts <=>
         Reads(PartitionStart, Fields(PartitionStart)[1],
               Fields(PartitionStart)[2] * Fields(PartitionStart)[1],
               PartitionStart + (Fields(PartitionStart)[3] * Fields(PartitionStart)[1]),
               PartitionStart + (Fields(PartitionStart)[4] * Fields(PartitionStart)[1]),
               Fields(PartitionStart)[6],
               Fields(PartitionStart + (Fields(PartitionStart)[4] * Fields(PartitionStart)[1])
                 + ((Fields(PartitionStart)[6] - 2)
                      * (Fields(PartitionStart)[2] * Fields(PartitionStart)[1])) + 1)[1],
               Fields(PartitionStart + (Fields(PartitionStart)[4] * Fields(PartitionStart)[1])
                 + ((Fields(PartitionStart)[6] - 2)
                      * (Fields(PartitionStart)[2] * Fields(PartitionStart)[1])) + 2)[1])
  BY DEF ExfatMounts
<1>18. PartitionStart = start  BY DEF start, p
<1> HIDE DEF Reads
<1> QED  BY <1>5, <1>6, <1>7, <1>9, <1>16, <1>17, <1>18

\* What createMbrAndPartition and makeFs* have left is a file system.
LEMMA FunctionsMount ==
  ASSUME layout \in Layouts, labelled \in BOOLEAN, NEW b,
         Stored(CreateMbrAndPartition(layout), 0, SecSize, disk),
         Stored(MakeFs(layout, labelled), SecSize, b, disk)
  PROVE  Mounts
<1>1. layout.fatBits \in {12, 16, 32, 64}  BY LayoutAssumption
<1>2. layout # NoLayout
  <2>1. NoLayout.fatBits = 0  BY DEF NoLayout
  <2> QED  BY <1>1, <2>1
<1>3. Kind(0) = "mbr" /\ PartitionStart = PartitionAt(layout) * layout.bytesPerSec  BY MbrLeads
<1>4. CASE layout.fatBits <= 32
  <2>1. PartitionStart = PartAt(layout)
    <3>1. layout.fatBits < 64  BY <1>1, <1>4
    <3> QED  BY <1>3, <3>1 DEF PartitionAt, PartAt
  <2>2. Stored(MakeFsFat(layout, labelled), SecSize, b, disk)  BY <1>4 DEF MakeFs
  <2>3. FatLeft(disk, layout, labelled)  BY <1>4, <2>2, StoredMakeFsFat
  <2>4. FatMounts  BY <1>4, <2>1, <2>3, FatLeadsOn
  <2>5. Blank(SecSize, PartitionStart)  BY <2>1, <2>3 DEF FatLeft, Clear, Blank
  <2> QED  BY <1>2, <1>3, <1>4, <2>4, <2>5 DEF Mounts
<1>5. CASE ~(layout.fatBits <= 32)
  <2>1. layout.fatBits > 32 /\ layout.fatBits = 64  BY <1>1, <1>5
  <2>2. PartitionStart = StartAt(layout)  BY <1>3, <2>1 DEF PartitionAt, StartAt
  <2>3. Stored(MakeFsExFat(layout, labelled), SecSize, b, disk)  BY <1>5 DEF MakeFs
  <2>4. ExfatLeft(disk, layout, labelled)  BY <2>1, <2>3, StoredMakeFsExFat
  <2>5. ExfatMounts  BY <2>1, <2>2, <2>4, ExfatLeadsOn
  <2>6. Blank(SecSize, PartitionStart)  BY <2>2, <2>4 DEF ExfatLeft, Clear, Blank
  <2> QED  BY <1>2, <1>3, <1>5, <2>5, <2>6 DEF Mounts
<1> QED  BY <1>4, <1>5

-----------------------------------------------------------------------------
(* The stream inside of the process.                                       *)

LEMMA StreamSd ==
  SeekInv /\ StepOfPhase /\ Shape /\ StreamStored /\ [MainNext]_mainVars => StreamStored'
<1> SUFFICES ASSUME SeekInv, StepOfPhase, Shape, StreamStored, [MainNext]_mainVars
             PROVE  StreamStored'
  OBVIOUS
<1>1. ASSUME UNCHANGED vars PROVE StreamStored'  BY <1>1, StreamKept DEF vars, devVars
<1>2. ASSUME step' \notin {"idle", "head", "body"} PROVE StreamStored'  BY <1>2 DEF StreamStored
<1>3. CASE \/ ParseOption \/ CheckOperands \/ CallFormatSd
           \/ ChooseParams \/ CheckLabel \/ Partition \/ Format \/ GiveUp \/ FormatDone
  <2>1. UNCHANGED vars
    BY <1>3 DEF ParseOption, CheckOperands, CallFormatSd, Take, Exit, ChooseParams, CheckLabel,
       Partition, Format, GiveUp, FormatDone
  <2> QED  BY <1>1, <2>1
<1>4. CASE DropPrivileges \/ DropIds \/ DropFails \/ ParanoidCheck
  <2>1. UNCHANGED <<disk, writerVars>>
    BY <1>4 DEF DropPrivileges, DropIds, DropFails, ParanoidCheck, Die, vars, devVars
  <2> QED  BY <2>1, StreamKept
<1>5. CASE OpenCard  BY <1>5, StreamOpen DEF OpenCard
<1>6. CASE EraseCard  BY <1>1, <1>6, StreamErase DEF EraseCard
<1>7. CASE Call
  <2>1. ASSUME NEW n \in Nat, NEW src \in [0 .. n - 1 -> Cell], WriteCall(n, src)
        PROVE  StreamStored'
    BY <2>1, StreamWriteCall
  <2>2. ASSUME NEW m \in Nat, FillCall(m)  PROVE StreamStored'  BY <2>2, StreamFillCall
  <2> QED  BY <1>1, <1>7, <2>1, <2>2, CallIsLegal
<1>8. CASE Continue
  BY <1>8, StreamFlushHead, StreamFullBlock, StreamDone DEF Continue
<1>9. CASE CloseCard \/ Closed \/ Destroy \/ Destroyed
  BY <1>2, <1>9 DEF CloseCard, Closed, Destroy, Destroyed, CloseFlush, CloseDev
<1>10. CASE Finished \/ UNCHANGED mainVars
  BY <1>1, <1>10 DEF Finished, mainVars, allVars
<1> QED
  BY <1>3, <1>4, <1>5, <1>6, <1>7, <1>8, <1>9, <1>10 DEF MainNext, SdNext

-----------------------------------------------------------------------------
(* What the writer has been asked for.                                     *)

\* The bytes that were taken, with those of the call that runs.
Image == [a \in 0 .. Reached - 1 |-> Expected(a)]

LEMMA StoredForward ==
  ASSUME NEW s, NEW a, NEW b, NEW m, Stored(s, a, b, m)
  PROVE  a \in Nat /\ b \in Nat /\ a <= b /\ s \in Seq(Calls)
<1>1. PICK p : PutsTrace(s, p, m) /\ p[1] = a /\ p[Len(s) + 1] = b  BY DEF Stored
<1>2. Len(s) \in Nat /\ a \in Nat /\ b \in Nat /\ s \in Seq(Calls)  BY LenProperties DEF Stored
<1>3. 1 \in 1 .. Len(s) + 1 /\ Len(s) + 1 \in 1 .. Len(s) + 1 /\ 1 <= Len(s) + 1  BY <1>2
<1> QED  BY <1>1, <1>2, <1>3 DEF PutsTrace

LEMMA MovedCall ==
  ASSUME NEW S, NEW done \in Seq(S), NEW t \in Seq(S), t # <<>>
  PROVE  Append(done, Head(t)) \o Tail(t) = done \o t
<1>1. /\ Head(t) \in S /\ Tail(t) \in Seq(S) /\ Len(Tail(t)) = Len(t) - 1
      /\ \A i \in 1 .. Len(Tail(t)) : Tail(t)[i] = t[i + 1]
      /\ Head(t) = t[1] /\ Len(t) \in Nat \ {0}
  BY EmptySeq, LenProperties, HeadTailProperties
<1>2. /\ Append(done, Head(t)) \in Seq(S) /\ Len(done) \in Nat
      /\ Len(Append(done, Head(t))) = Len(done) + 1
      /\ \A i \in 1 .. Len(done) : Append(done, Head(t))[i] = done[i]
      /\ Append(done, Head(t))[Len(done) + 1] = t[1]
  BY <1>1, LenProperties, AppendProperties
<1> DEFINE d == Append(done, Head(t))
           r == Tail(t)
           x == d \o r
           y == done \o t
<1>3. /\ y \in Seq(S) /\ Len(y) = Len(done) + Len(t)
      /\ \A i \in 1 .. Len(y) : y[i] = IF i <= Len(done) THEN done[i] ELSE t[i - Len(done)]
  BY ConcatProperties
<1> HIDE DEF d, r
<1>4. /\ x \in Seq(S) /\ Len(x) = Len(d) + Len(r)
      /\ \A i \in 1 .. Len(x) : x[i] = IF i <= Len(d) THEN d[i] ELSE r[i - Len(d)]
  BY <1>1, <1>2, ConcatProperties DEF d, r
<1> HIDE DEF x, y
<1>5. Len(x) = Len(y)  BY <1>1, <1>2, <1>3, <1>4 DEF d, r
<1>6. ASSUME NEW i \in 1 .. Len(y)  PROVE x[i] = y[i]
  <2>1. i \in 1 .. Len(x) /\ Len(d) = Len(done) + 1 /\ Len(r) = Len(t) - 1
    BY <1>1, <1>2, <1>5 DEF d, r
  <2>2. CASE i <= Len(done)
    <3>1. x[i] = d[i] /\ y[i] = done[i] /\ i \in 1 .. Len(done)  BY <1>2, <1>3, <1>4, <2>1, <2>2
    <3> QED  BY <1>2, <3>1 DEF d
  <2>3. CASE i = Len(done) + 1
    <3>1. x[i] = d[i] /\ y[i] = t[1]  BY <1>2, <1>3, <1>4, <2>1, <2>3
    <3> QED  BY <1>2, <2>3, <3>1 DEF d
  <2>4. CASE i > Len(done) + 1
    <3>1. x[i] = r[i - (Len(done) + 1)] /\ y[i] = t[i - Len(done)]
      BY <1>2, <1>3, <1>4, <2>1, <2>4
    <3>2. i - (Len(done) + 1) \in 1 .. Len(r)  BY <1>1, <1>2, <1>3, <2>1, <2>4
    <3>3. (i - (Len(done) + 1)) + 1 = i - Len(done)  BY <1>2
    <3> QED  BY <1>1, <3>1, <3>2, <3>3 DEF r
  <2> QED  BY <1>2, <2>2, <2>3, <2>4
<1>7. x = y  BY <1>3, <1>4, <1>5, <1>6, SeqEqual
<1> QED  BY <1>7 DEF x, y, d, r

LEMMA NothingLeft ==
  ASSUME NEW S, NEW s \in Seq(S)
  PROVE  s \o <<>> = s /\ <<>> \o s = s
OBVIOUS

\* A call that is taken is one more that is stored.
LEMMA CallStored ==
  ASSUME Ready, Call, Runs(todo, pos, Goal), Goal \in Nat, Goal < Word,
         NEW done, NEW a, Stored(done, a, Reached, Image)
  PROVE  Stored(Append(done, Head(todo)), a, Reached', Image')
<1> DEFINE c == Head(todo)
<1>1. todo # <<>>  BY DEF Call
<1>2. step = "idle" /\ err = "none" /\ Reached = pos  BY DEF Ready, Reached, InCall
<1>3. PICK m \in pos .. Goal : Legal(c, pos, m) /\ Runs(Tail(todo), m, Goal)
  BY <1>1, RunsStep
<1>4. pos \in Nat /\ Word \in Nat /\ m \in Nat /\ pos <= m /\ m < Word
  BY <1>3, Sizes_, RunsForward
<1>5. \/ c.call = "fill" /\ FillCall(c.offset)
      \/ c.call = "write" /\ WriteCall(c.size, c.src)
      \/ c.call = "new" /\ UNCHANGED vars
  BY DEF Call
<1> HIDE DEF c
<1>6. ASSUME UNCHANGED <<pos, stream>>, Reached' = m, Puts(c, pos, m, Image')
      PROVE  Stored(Append(done, c), a, Reached', Image')
  <2>1. \A x \in 0 .. pos - 1 : Image'[x] = Image[x]
    <3> TAKE x \in 0 .. pos - 1
    <3>1. x \in 0 .. Reached - 1 /\ x \in 0 .. Reached' - 1 /\ x < pos
      BY <1>2, <1>4, <1>6
    <3>2. Image[x] = stream[x] /\ Image'[x] = stream'[x]  BY <1>6, <3>1 DEF Image, Expected
    <3> QED  BY <1>6, <3>2
  <2>2. Stored(done, a, pos, Image)  BY <1>2
  <2> QED  BY <1>4, <1>6, <2>1, <2>2, StoredMore
<1>7. ASSUME m = pos, UNCHANGED <<pos, step, op, target, data, stream>>
      PROVE  UNCHANGED <<pos, stream>> /\ Reached' = m
  BY <1>2, <1>7 DEF Reached, InCall
<1>8. CASE c = FillTo(m)
  <2>1. FillCall(m)  BY <1>5, <1>8 DEF FillTo
  <2>2. CASE m = pos
    <3>1. ReturnEarly("none")  BY <1>4, <2>1, <2>2 DEF FillCall, AlignToBuffer
    <3>2. UNCHANGED <<pos, step, op, target, data, stream>>
      BY <3>1 DEF ReturnEarly, callVars, histVars
    <3>3. Puts(c, pos, m, Image')  BY <1>4, <1>8, <2>2 DEF Puts, Clear
    <3> QED  BY <1>6, <1>7, <2>2, <3>2, <3>3 DEF c
  <2>3. CASE m # pos
    <3>1. AlignToBuffer("fill", m, NoBytes, Zeros)  BY <1>4, <2>1, <2>3 DEF FillCall
    <3>2. UNCHANGED <<pos, stream>> /\ Reached' = m /\ op' = "fill"
      BY <3>1 DEF AlignToBuffer, histVars, Reached, InCall
    <3>3. ASSUME NEW x \in pos .. m - 1  PROVE Image'[x] = Zero
      <4>1. x \in 0 .. Reached' - 1 /\ ~(x < pos)  BY <1>4, <3>2
      <4> QED  BY <3>2, <4>1 DEF Image, Expected
    <3>4. Puts(c, pos, m, Image')  BY <1>4, <1>8, <3>3 DEF Puts, Clear
    <3> QED  BY <1>6, <3>2, <3>4 DEF c
  <2> QED  BY <2>2, <2>3
<1>9. CASE c = Allocate /\ m = pos
  <2>1. UNCHANGED <<pos, step, op, target, data, stream>>
    BY <1>5, <1>9 DEF Allocate, vars, writerVars, callVars, histVars
  <2>2. Puts(c, pos, m, Image')  BY <1>9 DEF Puts
  <2> QED  BY <1>6, <1>7, <1>9, <2>1, <2>2 DEF c
<1>10. ASSUME NEW n \in Nat, NEW src \in [0 .. n - 1 -> Cell], c = Write(src, n), m = pos + n
       PROVE  Stored(Append(done, c), a, Reached', Image')
  <2>1. WriteCall(n, src)  BY <1>5, <1>10 DEF Write
  <2>2. CASE n = 0
    <3>1. ReturnEarly("none")  BY <2>1, <2>2 DEF WriteCall
    <3>2. UNCHANGED <<pos, step, op, target, data, stream>>
      BY <3>1 DEF ReturnEarly, callVars, histVars
    <3>3. Copied(Image', pos, src, n)  BY <2>2 DEF Copied
    <3>4. Puts(c, pos, m, Image')  BY <1>10, <3>3 DEF Puts
    <3>5. m = pos  BY <1>4, <1>10, <2>2
    <3> QED  BY <1>6, <1>7, <3>2, <3>4, <3>5
  <2>3. CASE n # 0
    <3>1. n > 0 /\ pos + n < Word /\ ~(pos + n >= Word)  BY <1>4, <1>10, <2>3
    <3>2. AlignToBuffer("write", pos + n, src, src)  BY <2>1, <2>3, <3>1 DEF WriteCall
    <3>3. UNCHANGED <<pos, stream>> /\ Reached' = m /\ op' = "write" /\ data' = src
      BY <1>10, <3>2 DEF AlignToBuffer, histVars, Reached, InCall
    <3>4. ASSUME NEW i \in 0 .. n - 1  PROVE Image'[pos + i] = src[i]
      <4>1. pos + i \in 0 .. Reached' - 1 /\ ~(pos + i < pos) /\ (pos + i) - pos = i
        BY <1>4, <1>10, <3>3
      <4>2. Image'[pos + i] = data'[(pos + i) - pos]  BY <3>3, <4>1 DEF Image, Expected
      <4> QED  BY <3>3, <4>1, <4>2
    <3>5. Puts(c, pos, m, Image')  BY <1>10, <3>4 DEF Puts, Copied
    <3> QED  BY <1>6, <3>3, <3>5
  <2> QED  BY <2>2, <2>3
<1>11. Stored(Append(done, c), a, Reached', Image')
  BY <1>3, <1>8, <1>9, <1>10 DEF Legal, c
<1> QED  BY <1>11 DEF c

\* The steps of a call change nothing of what it was asked for.
LEMMA ImageKept ==
  ASSUME Shape, Continue, err' = "none"
  PROVE  Reached' = Reached /\ Image' = Image
<1>1. pos \in Nat /\ target \in Nat /\ InCall /\ Reached = target
  BY CallContinues DEF Shape, TypeOK, Reached
<1>2. CASE UNCHANGED <<pos, op, target, data, stream>> /\ InCall'
  <2>1. Reached' = Reached  BY <1>1, <1>2 DEF Reached
  <2>2. \A a : Expected(a)' = Expected(a)  BY <1>2 DEF Expected
  <2> QED  BY <2>1, <2>2 DEF Image
<1>3. CASE FillDone \/ WriteDone
  <2> DEFINE src == IF op = "fill" THEN [i \in 0 .. target - pos - 1 |-> Zero] ELSE data
  <2>1. ReturnOk(src) /\ op \in {"fill", "write"}  BY <1>3 DEF FillDone, WriteDone
  <2>2. pos' = target /\ Reached' = target
    BY <2>1 DEF ReturnOk, Reached, InCall
  <2>3. ASSUME NEW a \in 0 .. target - 1  PROVE Expected(a)' = Expected(a)
    <3>1. a < target /\ a \in Nat  BY <1>1
    <3>2. Expected(a)' = IF a < pos THEN stream[a] ELSE src[a - pos]
      <4>1. Expected(a)' = stream'[a]  BY <2>2, <3>1 DEF Expected
      <4> QED  BY <2>1, <4>1 DEF ReturnOk
    <3>3. CASE op = "fill" /\ ~(a < pos)
      <4>1. a - pos \in 0 .. target - pos - 1  BY <1>1, <3>1, <3>3
      <4>2. src[a - pos] = Zero  BY <3>3, <4>1
      <4> QED  BY <3>2, <3>3, <4>2 DEF Expected
    <3> QED  BY <2>1, <3>2, <3>3 DEF Expected
  <2> HIDE DEF src
  <2> QED  BY <1>1, <2>2, <2>3 DEF Image
<1>4. CASE FlushHead \/ FillBlock \/ WriteBlock
  <2>1. ~ReturnError  BY DEF ReturnError
  <2> QED  BY <1>2, <1>4, <2>1 DEF FlushHead, FillBlock, WriteBlock, InCall, histVars
<1> QED  BY <1>3, <1>4 DEF Continue

-----------------------------------------------------------------------------
(* A successful process leaves a file system.                              *)

\* Both functions are on the card.
FsIsStored ==
  /\ layout \in Layouts /\ labelled \in BOOLEAN
  /\ Stored(CreateMbrAndPartition(layout), 0, SecSize, disk)
  /\ \E b : Stored(MakeFs(layout, labelled), SecSize, b, disk)

\* The calls that were taken and those that are left are the function.
Taken(function, a) ==
  \E done \in Seq(Calls) : done \o todo = function /\ Stored(done, a, Reached, Image)

TakenInv ==
  /\ phase = "partition" /\ err = "none" => Taken(CreateMbrAndPartition(layout), 0)
  /\ phase = "format" /\ err = "none" =>
       /\ Stored(CreateMbrAndPartition(layout), 0, SecSize, Image)
       /\ Taken(MakeFs(layout, labelled), SecSize)
  /\ phase = "close" =>
       /\ err = "none"
       /\ Stored(CreateMbrAndPartition(layout), 0, SecSize, stream)
       /\ Stored(MakeFs(layout, labelled), SecSize, pos, stream)
  /\ phase = "closing" /\ closeRes = "ok" => FsIsStored
  /\ phase = "return" /\ code = OK => FsIsStored /\ pos = 0
  /\ phase = "returning" => code # OK
  /\ exit = OK => Has("h") \/ FsIsStored

MountInv == SdInv /\ LineInv /\ RefusalInv /\ StreamStored /\ TakenInv

LEMMA FsKept == ASSUME FsIsStored, UNCHANGED <<disk, layout, labelled>> PROVE FsIsStored'
BY DEF FsIsStored

LEMMA NotOk ==
  \A c \in {Running, Aborted, ERR_INVALID_ARG, ERR_DEV_OPEN, ERR_DEV_TOO_SMALL, ERR_ERASE,
            ERR_FORMAT_PARAMS, ERR_PARTITION, ERR_FORMAT, ERR_CLOSE_DEV, ERR_EXCEPTION} : c # OK
BY DEF OK, Running, Aborted, ERR_INVALID_ARG, ERR_DEV_OPEN, ERR_DEV_TOO_SMALL, ERR_ERASE,
   ERR_FORMAT_PARAMS, ERR_PARTITION, ERR_FORMAT, ERR_CLOSE_DEV, ERR_EXCEPTION

\* A call that a function makes is one of its calls that are taken.
LEMMA TakenMore ==
  ASSUME SdInv, Call, NEW f, NEW a, Taken(f, a)
  PROVE  \E done \in Seq(Calls) : done \o todo' = f /\ Stored(done, a, Reached', Image')
<1>1. phase \in {"partition", "format"} /\ Ready /\ todo # <<>> /\ todo' = Tail(todo)
  BY DEF Call
<1>2. layout \in Layouts /\ Runs(todo, pos, Goal)
  BY <1>1 DEF SdInv, SeekInv, Chosen, Ready, Reached, InCall
<1>3. todo \in Seq(Calls)  BY <1>2, RunsForward
<1>4. Goal \in Nat /\ Goal < Word  BY <1>2, GoalFits
<1>5. PICK done \in Seq(Calls) : done \o todo = f /\ Stored(done, a, Reached, Image)
  BY DEF Taken
<1>6. Stored(Append(done, Head(todo)), a, Reached', Image')
  BY <1>1, <1>2, <1>4, <1>5, CallStored
<1>7. Append(done, Head(todo)) \o Tail(todo) = f  BY <1>1, <1>3, <1>5, MovedCall
<1>8. Append(done, Head(todo)) \in Seq(Calls)  BY <1>6, StoredForward
<1> QED  BY <1>1, <1>6, <1>7, <1>8

\* What was taken before the call stays.
LEMMA BeforeTaken ==
  ASSUME SdInv, Call, NEW s, NEW a, NEW b, Stored(s, a, b, Image), b <= pos
  PROVE  Stored(s, a, b, Image')
<1>1. Ready /\ Reached = pos /\ pos \in Nat /\ UNCHANGED <<pos, stream>>
  BY DEF Call, Ready, Reached, InCall, FillCall, WriteCall, ReturnEarly, AlignToBuffer, histVars,
     callVars, vars, writerVars, SdInv, Shape, TypeOK
<1>2. pos <= Reached' /\ Reached' \in Nat
  <2>1. phase \in {"partition", "format"}  BY DEF Call
  <2>2. layout \in Layouts /\ Runs(todo, pos, Goal)
    BY <1>1, <2>1 DEF SdInv, SeekInv, Chosen, Ready, Reached, InCall
  <2>3. Goal \in Nat /\ Goal < Word  BY <2>2, GoalFits
  <2>4. /\ \/ \E m \in Nat : pos <= m /\ m <= Goal /\ FillCall(m)
           \/ \E n \in Nat : \E src \in [0 .. n - 1 -> Cell] :
                pos + n <= Goal /\ WriteCall(n, src)
           \/ UNCHANGED vars
        /\ Runs(todo', Reached', Goal)
    BY <1>1, <2>2, <2>3, CallTaken
  <2>5. Reached' \in Nat  BY <2>4, RunsForward
  <2>6. pos <= Reached'
    <3>1. CASE UNCHANGED vars
      BY <1>1, <3>1 DEF vars, writerVars, callVars, Reached, InCall
    <3>2. ASSUME NEW m \in Nat, pos <= m, FillCall(m)  PROVE pos <= Reached'
      BY <1>1, <3>2 DEF FillCall, ReturnEarly, AlignToBuffer, callVars, Reached, InCall
    <3>3. ASSUME NEW n \in Nat, NEW src, WriteCall(n, src)  PROVE pos <= Reached'
      BY <1>1, <3>3 DEF WriteCall, ReturnEarly, AlignToBuffer, callVars, Reached, InCall
    <3> QED  BY <2>4, <3>1, <3>2, <3>3
  <2> QED  BY <2>5, <2>6
<1>3. b \in Nat  BY StoredForward
<1>4. ASSUME NEW x \in 0 .. b - 1  PROVE Image'[x] = Image[x]
  <2>1. Reached = pos /\ pos \in Nat /\ pos' = pos /\ stream' = stream  BY <1>1
  <2>2. x \in Nat /\ x < pos /\ x < Reached'  BY <1>2, <1>3, <2>1
  <2>3. x \in 0 .. Reached - 1 /\ x \in 0 .. Reached' - 1
    <3>1. \A r \in Nat : x < r => x \in 0 .. r - 1  BY <2>2
    <3> QED  BY <1>2, <2>1, <2>2, <3>1
  <2> QED  BY <2>1, <2>2, <2>3 DEF Image, Expected
<1> QED  BY <1>4, StoredSame

LEMMA TakenCall ==
  ASSUME SdInv, RefusalInv, TakenInv, Call
  PROVE  TakenInv'
<1>1. /\ UNCHANGED <<phase, layout, labelled, exit>> /\ phase \in {"partition", "format"}
      /\ err = "none" /\ Reached = pos
  BY DEF Call, Ready, Reached, InCall
<1>2. exit' # OK  BY <1>1, NotOk DEF RefusalInv
<1>3. CASE phase = "partition"
  <2>1. Taken(CreateMbrAndPartition(layout), 0)'  BY <1>1, <1>3, TakenMore DEF TakenInv, Taken
  <2> QED  BY <1>1, <1>2, <1>3, <2>1 DEF TakenInv
<1>4. CASE phase = "format"
  <2>1. /\ Stored(CreateMbrAndPartition(layout), 0, SecSize, Image)
        /\ Taken(MakeFs(layout, labelled), SecSize)
    BY <1>1, <1>4 DEF TakenInv
  <2>2. Taken(MakeFs(layout, labelled), SecSize)'  BY <1>1, <2>1, TakenMore DEF Taken
  <2>3. SecSize <= pos  BY <1>1, <2>1, StoredForward DEF Taken
  <2>4. Stored(CreateMbrAndPartition(layout), 0, SecSize, Image')  BY <2>1, <2>3, BeforeTaken
  <2> QED  BY <1>1, <1>2, <1>4, <2>2, <2>4 DEF TakenInv
<1> QED  BY <1>1, <1>3, <1>4

LEMMA TakenContinue ==
  ASSUME SdInv, RefusalInv, TakenInv, Continue
  PROVE  TakenInv'
<1>1. /\ UNCHANGED <<phase, layout, labelled, exit, todo>> /\ phase \in {"partition", "format"}
      /\ err = "none"
  BY CallContinues DEF Continue, sdVars, SdInv, SeekInv
<1>2. exit' # OK  BY <1>1, NotOk DEF RefusalInv
<1>3. CASE err' = "none"
  <2>1. Reached' = Reached /\ Image' = Image  BY <1>3, ImageKept DEF SdInv
  <2> QED  BY <1>1, <1>2, <2>1 DEF TakenInv, Taken
<1>4. CASE err' # "none"  BY <1>1, <1>2, <1>4 DEF TakenInv
<1> QED  BY <1>3, <1>4

\* createMbrAndPartition begins and ends, and makeFs* begins.
LEMMA TakenFunctions ==
  ASSUME SdInv, RefusalInv, TakenInv, Partition \/ Format
  PROVE  TakenInv'
<1>1. UNCHANGED <<vars, layout, labelled, exit>> /\ phase \in {"mbr", "partition"}
  BY DEF Partition, Format, Return
<1>2. exit' # OK  BY <1>1, NotOk DEF RefusalInv
<1>3. Reached' = Reached /\ Image' = Image /\ err' = err
  <2>1. UNCHANGED <<pos, step, op, target, data, stream, err>>
    BY <1>1 DEF vars, writerVars, callVars, histVars
  <2>2. Reached' = Reached  BY <2>1 DEF Reached, InCall
  <2>3. \A a : Expected(a)' = Expected(a)  BY <2>1 DEF Expected
  <2> QED  BY <2>1, <2>2, <2>3 DEF Image
<1>4. <<>> \in Seq(Calls)  BY EmptySeq
<1>5. CASE Partition
  <2>1. phase = "mbr" /\ phase' = "partition" /\ todo' = CreateMbrAndPartition(layout)
    BY <1>5 DEF Partition
  <2>2. layout \in Layouts /\ Reached = 0
    BY <2>1 DEF SdInv, SeekInv, Chosen, Reached
  <2>3. todo' \in Seq(Calls)  BY <2>1, <2>2, RunsPartition, RunsForward
  <2>4. Stored(<<>>, 0, Reached', Image')  BY <1>3, <2>2, NothingStored
  <2>5. <<>> \o todo' = todo'  BY <2>3, NothingLeft
  <2>6. Taken(CreateMbrAndPartition(layout), 0)'
    BY <1>1, <1>4, <2>1, <2>4, <2>5 DEF Taken
  <2> QED  BY <1>2, <2>1, <2>6 DEF TakenInv
<1>6. CASE Format
  <2>1. phase = "partition" /\ todo = <<>> /\ err = "none"  BY <1>6 DEF Format, Ready
  <2>2. CASE phase' = "return"
    <3>1. code' = ERR_EXCEPTION  BY <1>6, <2>2 DEF Format, Return
    <3> QED  BY <1>2, <2>2, <3>1, NotOk DEF TakenInv
  <2>3. CASE phase' = "format"
    <3>1. todo' = MakeFs(layout, labelled)  BY <1>6, <2>3 DEF Format, Return, MakeFs
    <3>2. layout \in Layouts /\ labelled \in BOOLEAN /\ Runs(<<>>, Reached, SecSize)
      BY <2>1 DEF SdInv, SeekInv, Chosen, Goal
    <3>3. Reached = SecSize /\ SecSize \in Nat  BY <3>2, NothingRuns, SectorSizes
    <3>4. Stored(CreateMbrAndPartition(layout), 0, SecSize, Image)
      <4>1. PICK done \in Seq(Calls) : /\ done \o todo = CreateMbrAndPartition(layout)
                                       /\ Stored(done, 0, Reached, Image)
        BY <2>1 DEF TakenInv, Taken
      <4>2. done \o <<>> = done  BY NothingLeft
      <4> QED  BY <2>1, <3>3, <4>1, <4>2
    <3>5. todo' \in Seq(Calls)  BY <3>1, <3>2, RunsMakeFs, RunsForward
    <3>6. Stored(<<>>, SecSize, Reached', Image')  BY <1>3, <3>3, NothingStored
    <3>7. <<>> \o todo' = todo'  BY <3>5, NothingLeft
    <3>8. Taken(MakeFs(layout, labelled), SecSize)'
      BY <1>1, <1>4, <3>1, <3>6, <3>7 DEF Taken
    <3> QED  BY <1>1, <1>2, <1>3, <2>3, <3>4, <3>8 DEF TakenInv
  <2> QED  BY <1>6, <2>2, <2>3 DEF Format, Return
<1> QED  BY <1>5, <1>6

\* makeFs* ends, and the card is closed.
LEMMA TakenClose ==
  ASSUME SdInv, RefusalInv, StreamStored, TakenInv, FormatDone \/ CloseCard \/ Closed
  PROVE  TakenInv'
<1>1. UNCHANGED <<layout, labelled, exit>> /\ phase \in {"format", "close", "closing"}
  BY DEF FormatDone, CloseCard, Closed, Goto, Return
<1>2. exit' # OK  BY <1>1, NotOk DEF RefusalInv
<1>3. layout \in Layouts /\ labelled \in BOOLEAN  BY <1>1 DEF SdInv, SeekInv, Chosen
<1>4. pos \in Nat  BY DEF SdInv, Shape, TypeOK
<1>5. CASE FormatDone
  <2>1. /\ UNCHANGED <<pos, stream, err>> /\ todo = <<>> /\ phase = "format" /\ phase' = "close"
        /\ err = "none" /\ Reached = pos
    BY <1>5 DEF FormatDone, Ready, Goto, vars, writerVars, histVars, Reached, InCall
  <2>2. /\ Stored(CreateMbrAndPartition(layout), 0, SecSize, Image)
        /\ Stored(MakeFs(layout, labelled), SecSize, pos, Image)
    <3>1. PICK done \in Seq(Calls) : /\ done \o todo = MakeFs(layout, labelled)
                                     /\ Stored(done, SecSize, Reached, Image)
      BY <2>1 DEF TakenInv, Taken
    <3>2. done \o <<>> = done  BY NothingLeft
    <3> QED  BY <2>1, <3>1, <3>2 DEF TakenInv
  <2>3. \A x \in 0 .. pos - 1 : stream[x] = Image[x]
    <3> TAKE x \in 0 .. pos - 1
    <3>1. x < pos  BY <1>4
    <3> QED  BY <2>1, <3>1 DEF Image, Expected
  <2>4. SecSize <= pos /\ SecSize \in Nat  BY <2>2, StoredForward
  <2>5. \A x \in 0 .. SecSize - 1 : stream[x] = Image[x]
    <3> TAKE x \in 0 .. SecSize - 1
    <3>1. x \in 0 .. pos - 1  BY <1>4, <2>4
    <3> QED  BY <2>3, <3>1
  <2>6. Stored(CreateMbrAndPartition(layout), 0, SecSize, stream)  BY <2>2, <2>5, StoredSame
  <2>7. Stored(MakeFs(layout, labelled), SecSize, pos, stream)  BY <2>2, <2>3, StoredSame
  <2> QED  BY <1>1, <1>2, <2>1, <2>6, <2>7 DEF TakenInv
<1>6. CASE CloseCard
  <2>1. phase = "close" /\ phase' = "closing" /\ CloseFlush  BY <1>6 DEF CloseCard, Goto
  <2>2. /\ err = "none"
        /\ Stored(CreateMbrAndPartition(layout), 0, SecSize, stream)
        /\ Stored(MakeFs(layout, labelled), SecSize, pos, stream)
    BY <2>1 DEF TakenInv
  <2>3. pos = FunctionEnd(layout)  BY <2>1 DEF SdInv, SeekInv
  <2>4. pos <= DevSize /\ DevSize \in Nat /\ ~PartialLastSector(pos)
    BY <1>3, <2>3, Ends, Sizes_ DEF PartialLastSector
  <2>5. ASSUME closeRes' = "ok"  PROVE FsIsStored'
    <3>1. \A x \in 0 .. pos - 1 : disk'[x] = stream[x]
      <4> TAKE x \in 0 .. pos - 1
      <4>1. x \in Addr /\ x < pos  BY <1>4, <2>4 DEF Addr
      <4> QED  BY <2>1, <2>2, <2>4, <2>5, <4>1, FlushCells DEF SdInv
    <3>2. SecSize <= pos /\ SecSize \in Nat  BY <2>2, StoredForward
    <3>3. \A x \in 0 .. SecSize - 1 : disk'[x] = stream[x]
      <4> TAKE x \in 0 .. SecSize - 1
      <4>1. x \in 0 .. pos - 1  BY <1>4, <3>2
      <4> QED  BY <3>1, <4>1
    <3>4. Stored(CreateMbrAndPartition(layout), 0, SecSize, disk')  BY <2>2, <3>3, StoredSame
    <3>5. Stored(MakeFs(layout, labelled), SecSize, pos, disk')  BY <2>2, <3>1, StoredSame
    <3> QED  BY <1>1, <1>3, <3>4, <3>5 DEF FsIsStored
  <2> QED  BY <1>2, <2>1, <2>5 DEF TakenInv
<1>7. CASE Closed
  <2>1. /\ phase = "closing" /\ phase' = "return" /\ disk' = disk /\ pos' = 0
        /\ code' = IF closeRes = "ok" THEN OK ELSE ERR_CLOSE_DEV
    BY <1>7 DEF Closed, CloseDev, DevClose, Return
  <2>2. CASE closeRes = "ok"
    <3>1. FsIsStored'  BY <1>1, <2>1, <2>2, FsKept DEF TakenInv
    <3> QED  BY <1>2, <2>1, <3>1 DEF TakenInv
  <2>3. CASE closeRes # "ok"
    <3>1. code' # OK  BY <2>1, <2>3, NotOk
    <3> QED  BY <1>2, <2>1, <3>1 DEF TakenInv
  <2> QED  BY <2>2, <2>3
<1> QED  BY <1>5, <1>6, <1>7

\* The destructors.
LEMMA TakenDestroy ==
  ASSUME SdInv, RefusalInv, TakenInv, Destroy \/ Destroyed
  PROVE  TakenInv'
<1>1. UNCHANGED <<layout, labelled>>  BY DEF Destroy, Destroyed, Goto
<1>2. CASE Destroyed
  <2>1. phase = "returning" /\ phase' = "end" /\ exit' \in {code, Aborted, ERR_EXCEPTION}
    BY <1>2 DEF Destroyed
  <2>2. exit' # OK  BY <2>1, NotOk DEF TakenInv
  <2> QED  BY <2>1, <2>2 DEF TakenInv
<1>3. CASE Destroy
  <2>1. phase = "return"  BY <1>3 DEF Destroy
  <2>2. CASE pos > 0 /\ Goto("returning")
    <3>1. phase' = "returning" /\ code' = code /\ exit' = exit  BY <2>2 DEF Goto
    <3>2. code # OK  BY <2>1, <2>2 DEF TakenInv
    <3>3. exit' # OK  BY <2>1, <3>1, NotOk DEF RefusalInv
    <3> QED  BY <3>1, <3>2, <3>3 DEF TakenInv
  <2>3. CASE pos = 0 /\ exit' = code /\ phase' = "end" /\ disk' = disk
    <3>1. exit' = OK => FsIsStored'  BY <1>1, <2>1, <2>3, FsKept DEF TakenInv
    <3> QED  BY <2>3, <3>1 DEF TakenInv
  <2> QED  BY <1>3, <2>2, <2>3 DEF Destroy, DevClose, devVars
<1> QED  BY <1>2, <1>3

LEMMA TakenStep == MountInv /\ [MainNext]_mainVars => TakenInv'
<1> SUFFICES ASSUME MountInv, [MainNext]_mainVars PROVE TakenInv'  OBVIOUS
<1> USE DEF MountInv
<1>1. ASSUME phase' \notin {"partition", "format", "close", "closing", "returning"},
             phase' = "return" => code' # OK,
             exit' = OK => Has("h")'
      PROVE  TakenInv'
  BY <1>1 DEF TakenInv
<1>2. ASSUME phase # "end", exit' = exit  PROVE exit' # OK  BY <1>2, NotOk DEF RefusalInv
<1>3. CASE ParseOption
  <2>1. phase = "options" /\ next <= Len(argv) /\ argv \in Seq(Options) /\ next \in Nat \ {0}
    BY <1>3 DEF ParseOption, LineInv
  <2>2. next \in DOMAIN argv  BY <2>1
  <2>3. phase' \in {"options", "end"} /\ UNCHANGED argv
    BY <1>3, <2>1 DEF ParseOption, Take, Exit, lineVars
  <2>4. exit' = OK => Has("h")'
    <3>1. \/ exit' = exit
          \/ exit' = ERR_INVALID_ARG
          \/ argv[next].opt = "h"
      BY <1>3 DEF ParseOption, Take, Exit
    <3> QED  BY <1>2, <2>1, <2>2, <2>3, <3>1, NotOk DEF Has
  <2> QED  BY <1>1, <2>3, <2>4
<1>4. CASE CheckOperands \/ CallFormatSd
  <2>1. phase' \in {"call", "start", "end"} /\ phase # "end"
        /\ (exit' = exit \/ exit' \in {ERR_INVALID_ARG, ERR_EXCEPTION})
    BY <1>4 DEF CheckOperands, CallFormatSd, Exit
  <2> QED  BY <1>1, <1>2, <2>1, NotOk
<1>5. CASE DropPrivileges \/ DropIds \/ DropFails \/ ParanoidCheck
  <2>1. /\ phase' \in {"params", "first", "second", "paranoid", "end"} /\ phase # "end"
        /\ (exit' = exit \/ exit' = Aborted)
    BY <1>5 DEF DropPrivileges, DropIds, DropFails, ParanoidCheck, Goto, Die
  <2> QED  BY <1>1, <1>2, <2>1, NotOk
<1>6. CASE OpenCard \/ ChooseParams \/ CheckLabel \/ EraseCard \/ GiveUp
  <2>1. /\ phase' \in {"privileges", "label", "erase", "mbr", "return"} /\ phase # "end"
        /\ exit' = exit
        /\ phase' = "return" =>
             code' \in {ERR_DEV_OPEN, ERR_DEV_TOO_SMALL, ERR_FORMAT_PARAMS, ERR_INVALID_ARG,
                        ERR_ERASE, ERR_PARTITION, ERR_FORMAT}
    BY <1>6 DEF OpenCard, ChooseParams, CheckLabel, EraseCard, GiveUp, Goto, Return, ErrorCode
  <2> QED  BY <1>1, <1>2, <2>1, NotOk
<1>7. CASE Partition \/ Format  BY <1>7, TakenFunctions
<1>8. CASE Call  BY <1>8, TakenCall
<1>9. CASE Continue  BY <1>9, TakenContinue
<1>10. CASE FormatDone \/ CloseCard \/ Closed  BY <1>10, TakenClose
<1>11. CASE Destroy \/ Destroyed  BY <1>11, TakenDestroy
<1>12. CASE (Finished /\ UNCHANGED lineVars) \/ UNCHANGED mainVars
  <2>1. UNCHANGED <<disk, pos, err, closeRes, layout, labelled, phase, code, exit, argv,
                    step, op, target, data, stream, todo>>
    BY <1>12 DEF Finished, mainVars, allVars, sdVars, lineVars, vars, devVars, writerVars, callVars,
       histVars
  <2>2. Reached' = Reached /\ Image' = Image
    <3>1. Reached' = Reached  BY <2>1 DEF Reached, InCall
    <3>2. \A a : Expected(a)' = Expected(a)  BY <2>1 DEF Expected
    <3> QED  BY <3>1, <3>2 DEF Image
  <2>3. FsIsStored => FsIsStored'  BY <2>1, FsKept
  <2>4. \A f, a : (\E done \in Seq(Calls) : done \o todo = f /\ Stored(done, a, Reached, Image))
                <=> \E done \in Seq(Calls) : done \o todo' = f /\ Stored(done, a, Reached', Image')
    BY <2>1, <2>2
  <2> QED  BY <2>1, <2>2, <2>3, <2>4 DEF TakenInv, Taken, Has
<1> QED
  BY <1>3, <1>4, <1>5, <1>6, <1>7, <1>8, <1>9, <1>10, <1>11, <1>12 DEF MainNext, SdNext

(***************************************************************************)
(* A process that exits with 0, other than for help, leaves a file system  *)
(* that a driver mounts: for every layout, card, block size, command line, *)
(* and every failure on the way.                                           *)
(***************************************************************************)
THEOREM SuccessIsAFileSystem == MainSpec => []SuccessMounts
<1>1. MainInit => TakenInv
  BY NotOk DEF MainInit, SdInit, TakenInv
<1>2. MainInit => StreamStored
  BY DEF MainInit, SdInit, Init, StreamStored
<1>3. MountInv /\ [MainNext]_mainVars => RefusalInv' /\ LineInv' /\ StreamStored' /\ TakenInv'
  <2>1. SdInv => SeekInv /\ StepOfPhase /\ Shape  BY DEF SdInv
  <2> QED  BY <2>1, RefusalStep, LineStep, StreamSd, TakenStep DEF MountInv
<1>4. MountInv => SuccessMounts
  <2> SUFFICES ASSUME TakenInv, exit = OK, ~Has("h") PROVE Mounts
    BY DEF MountInv, SuccessMounts
  <2>1. FsIsStored  BY DEF TakenInv
  <2> QED  BY <2>1, FunctionsMount DEF FsIsStored
<1>5. MainInit => LineInv /\ RefusalInv  BY LineStart, RefusalStart
<1> QED  BY <1>1, <1>2, <1>3, <1>4, <1>5, SdInvariant, PTL DEF MainSpec, MountInv
=============================================================================
