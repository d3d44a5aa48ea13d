------------------------- MODULE FormatParamsProofs -------------------------
(***************************************************************************)
(* Proofs about FormatParams, for every capacity a card can have: 2^32     *)
(* sectors and more are out of reach of TLC.                               *)
(*                                                                         *)
(* The argument.  While a FAT of secPerFat sectors is tried, there is a    *)
(* place for the data area, at a multiple of the alignment and on the      *)
(* card, for which such a FAT is large enough (Witness): at first because  *)
(* the estimate counts the whole card as clusters, later because it is the *)
(* place of the turn before.  The inner loop moves the data area in steps  *)
(* of the alignment and cannot pass that place, so nothing wraps and it    *)
(* ends.                                                                   *)
(***************************************************************************)
EXTENDS FormatParams, TLAPS

ParamSet == [totSec : Nat, alignment : Nat, secPerClus : Nat, bytesPerSec : Nat,
             fatBits : {12, 16, 32, 64}, heads : Nat, secPerTrk : Nat]

(* The modes the tables and the flags allow. *)
Mode(p, bits, bps, spc, al, lo, hi) ==
  /\ p.fatBits = bits /\ p.bytesPerSec = bps
  /\ p.secPerClus = spc /\ p.alignment = al
  /\ lo <= p.totSec /\ p.totSec <= hi

SmallFat(p) ==
  \/ Mode(p, 12, 512, 16,  16,     128,   16384)
  \/ Mode(p, 12, 512, 32,  32,   16385,  131072)
  \/ Mode(p, 16, 512, 32,  64,  131073,  524288)
  \/ Mode(p, 16, 512, 32, 128,  524289, 2097152)
  \/ Mode(p, 16, 512, 64, 128, 2097153, 4194304)

BigFat(p) ==
  \/ Mode(p, 32,  512,  64,   8192,    4194305,   67108864)
  \/ Mode(p, 32,  512, 128,  32768,   67108865,  268435456)
  \/ Mode(p, 32,  512, 128,  65536,  268435457, 1073741824)
  \/ Mode(p, 32,  512, 128, 131072, 1073741825, 4294967295)
  \/ Mode(p, 32, 1024, 128,  16384,   33554432,  134217728)
  \/ Mode(p, 32, 2048, 128,  16384,   67108864,  268435456)
  \/ Mode(p, 32, 4096, 128,  16384,  134217728,  536870911)

Exfat(p) ==
  \/ Mode(p, 64, 512,  256,  32768,   67108865,  268435456)
  \/ Mode(p, 64, 512,  512,  65536,  268435457, 1073741824)
  \/ Mode(p, 64, 512, 1024, 131072, 1073741825, 4294967296)

\* What a FAT needs when the data area starts at s, and the first estimate.
Need(p, s) == UdivCeil((2 + ((p.totSec - s) \div p.secPerClus)) * p.fatBits, p.bytesPerSec * 8)

Estimate(p) == UdivCeil((p.totSec \div p.secPerClus) * p.fatBits, p.bytesPerSec * 8)

\* The least file system area with FATs of n sectors.
Area(p, n) == IF p.fatBits = 32 THEN (2 * n) + 9 ELSE (2 * n) + 33

\* The data area starts in the first 512 MiB of the card.
InFront(p, s) == s <= 1048576 /\ (p.bytesPerSec > 512 => s <= 65536)

\* A data area at s leaves clusters for which FATs of n sectors are enough.
Witness(p, n, s) ==
  /\ s % p.alignment = 0
  /\ s <= p.totSec
  /\ Need(p, s) <= n
  /\ InFront(p, s)

Alignments == {16, 32, 64, 128, 8192, 16384, 32768, 65536, 131072}
ClusterSizes == {16, 32, 64, 128}
SectorBits == {4096, 8192, 16384, 32768}
SectorSizes == {512, 1024, 2048, 4096}
FatVariants == {12, 16, 32}

\* Clusters are small against the areas in front of them.
SmallClusters(p) == 2 * p.secPerClus <= p.alignment + (IF p.fatBits = 32 THEN 9 ELSE 33)

PlainSectors(p) == p.fatBits # 32 => p.bytesPerSec = 512

-----------------------------------------------------------------------------
(* Arithmetic.                                                             *)

\* Two multiples of the alignment less than one unit apart in one direction.
LEMMA UnitsApart ==
  ASSUME NEW al \in Alignments, NEW a \in Nat, NEW b \in Nat,
         a % al = 0, b % al = 0, a < b + al
  PROVE  a <= b
<1>1. CASE al = 16 BY <1>1, SMT
<1>2. CASE al = 32 BY <1>2, SMT
<1>3. CASE al = 64 BY <1>3, SMT
<1>4. CASE al = 128 BY <1>4, SMT
<1>5. CASE al = 8192 BY <1>5, SMT
<1>6. CASE al = 16384 BY <1>6, SMT
<1>7. CASE al = 32768 BY <1>7, SMT
<1>8. CASE al = 65536 BY <1>8, SMT
<1>9. CASE al = 131072 BY <1>9, SMT
<1> QED BY <1>1, <1>2, <1>3, <1>4, <1>5, <1>6, <1>7, <1>8, <1>9 DEF Alignments

\* A remainder by the alignment.
LEMMA UnitsRest ==
  ASSUME NEW al \in Alignments, NEW a \in Nat
  PROVE  (a % al) \in Nat /\ (a % al) < al /\ (a % al) <= a
<1>1. CASE al = 16 BY <1>1, SMT
<1>2. CASE al = 32 BY <1>2, SMT
<1>3. CASE al = 64 BY <1>3, SMT
<1>4. CASE al = 128 BY <1>4, SMT
<1>5. CASE al = 8192 BY <1>5, SMT
<1>6. CASE al = 16384 BY <1>6, SMT
<1>7. CASE al = 32768 BY <1>7, SMT
<1>8. CASE al = 65536 BY <1>8, SMT
<1>9. CASE al = 131072 BY <1>9, SMT
<1> QED BY <1>1, <1>2, <1>3, <1>4, <1>5, <1>6, <1>7, <1>8, <1>9 DEF Alignments

\* One alignment unit more changes no remainder.
LEMMA UnitsAdd ==
  ASSUME NEW al \in Alignments, NEW a \in Nat
  PROVE  (a + al) % al = a % al
<1>1. CASE al = 16 BY <1>1, SMT
<1>2. CASE al = 32 BY <1>2, SMT
<1>3. CASE al = 64 BY <1>3, SMT
<1>4. CASE al = 128 BY <1>4, SMT
<1>5. CASE al = 8192 BY <1>5, SMT
<1>6. CASE al = 16384 BY <1>6, SMT
<1>7. CASE al = 32768 BY <1>7, SMT
<1>8. CASE al = 65536 BY <1>8, SMT
<1>9. CASE al = 131072 BY <1>9, SMT
<1> QED BY <1>1, <1>2, <1>3, <1>4, <1>5, <1>6, <1>7, <1>8, <1>9 DEF Alignments

\* Without its remainder a number is a multiple of the alignment.
LEMMA UnitsDown ==
  ASSUME NEW al \in Alignments, NEW a \in Nat
  PROVE  (a - (a % al)) % al = 0
<1>1. CASE al = 16 BY <1>1, SMT
<1>2. CASE al = 32 BY <1>2, SMT
<1>3. CASE al = 64 BY <1>3, SMT
<1>4. CASE al = 128 BY <1>4, SMT
<1>5. CASE al = 8192 BY <1>5, SMT
<1>6. CASE al = 16384 BY <1>6, SMT
<1>7. CASE al = 32768 BY <1>7, SMT
<1>8. CASE al = 65536 BY <1>8, SMT
<1>9. CASE al = 131072 BY <1>9, SMT
<1> QED BY <1>1, <1>2, <1>3, <1>4, <1>5, <1>6, <1>7, <1>8, <1>9 DEF Alignments

\* A quotient of a capacity and a cluster size.
LEMMA ClusterQuotient ==
  ASSUME NEW spc \in ClusterSizes, NEW n \in Nat
  PROVE  /\ n \div spc \in Nat
         /\ (n \div spc) * spc <= n
         /\ n < ((n \div spc) * spc) + spc
<1>1. CASE spc = 16 BY <1>1, SMT
<1>2. CASE spc = 32 BY <1>2, SMT
<1>3. CASE spc = 64 BY <1>3, SMT
<1>4. CASE spc = 128 BY <1>4, SMT
<1> QED BY <1>1, <1>2, <1>3, <1>4 DEF ClusterSizes

\* util::udivCeil rounds up.
LEMMA CeilBounds ==
  ASSUME NEW d \in SectorBits, NEW n \in Nat \ {0}
  PROVE  /\ UdivCeil(n, d) \in Nat \ {0}
         /\ (UdivCeil(n, d) - 1) * d < n
         /\ n <= UdivCeil(n, d) * d
<1>1. CASE d = 4096 BY <1>1, SMT DEF UdivCeil
<1>2. CASE d = 8192 BY <1>2, SMT DEF UdivCeil
<1>3. CASE d = 16384 BY <1>3, SMT DEF UdivCeil
<1>4. CASE d = 32768 BY <1>4, SMT DEF UdivCeil
<1> QED BY <1>1, <1>2, <1>3, <1>4 DEF SectorBits

\* ... and is the least such quotient.
LEMMA CeilLeast ==
  ASSUME NEW d \in SectorBits, NEW n \in Nat \ {0}, NEW c \in Nat, n <= c * d
  PROVE  UdivCeil(n, d) <= c
<1>1. CASE d = 4096 BY <1>1, SMT DEF UdivCeil
<1>2. CASE d = 8192 BY <1>2, SMT DEF UdivCeil
<1>3. CASE d = 16384 BY <1>3, SMT DEF UdivCeil
<1>4. CASE d = 32768 BY <1>4, SMT DEF UdivCeil
<1> QED BY <1>1, <1>2, <1>3, <1>4 DEF SectorBits

\* Masking with 0xFFFFFFFF changes nothing below 2^32.
LEMMA Low32Same ==
  ASSUME NEW n \in Nat, ~Exceeds32(n)
  PROVE  Low32(n) = n
BY SMT DEF Low32, Exceeds32, Width32

-----------------------------------------------------------------------------
(* The modes.                                                              *)

\* What the modes of the FAT variants have in common.
LEMMA ModeFacts ==
  ASSUME NEW p \in ParamSet, SmallFat(p) \/ BigFat(p)
  PROVE  /\ p.alignment \in Alignments /\ p.secPerClus \in ClusterSizes
         /\ p.bytesPerSec * 8 \in SectorBits /\ p.bytesPerSec \in SectorSizes
         /\ p.fatBits \in FatVariants
         /\ PlainSectors(p) /\ SmallClusters(p)
         /\ p.totSec \in Nat
<1>1. CASE SmallFat(p) BY <1>1, SMT DEF SmallFat, Mode, Alignments, ClusterSizes, SectorBits,
                            ParamSet, SectorSizes, FatVariants, SmallClusters, PlainSectors
<1>2. CASE BigFat(p) BY <1>2, SMT DEF BigFat, Mode, Alignments, ClusterSizes, SectorBits,
                            ParamSet, SectorSizes, FatVariants, SmallClusters, PlainSectors
<1> QED BY <1>1, <1>2

\* The need of a place for the data area, in bits.
LEMMA NeedBounds ==
  ASSUME NEW p \in ParamSet, SmallFat(p) \/ BigFat(p), NEW s \in Nat, s <= p.totSec
  PROVE  LET m == (p.totSec - s) \div p.secPerClus
         IN  /\ m \in Nat
             /\ m * p.secPerClus <= p.totSec - s
             /\ p.totSec - s < (m * p.secPerClus) + p.secPerClus
             /\ Need(p, s) \in Nat \ {0}
             /\ (Need(p, s) - 1) * (p.bytesPerSec * 8) < (2 + m) * p.fatBits
             /\ (2 + m) * p.fatBits <= Need(p, s) * (p.bytesPerSec * 8)
<1> DEFINE m == (p.totSec - s) \div p.secPerClus
<1>0. /\ p.alignment \in Alignments /\ p.secPerClus \in ClusterSizes
      /\ p.bytesPerSec * 8 \in SectorBits /\ p.bytesPerSec \in SectorSizes
      /\ p.fatBits \in FatVariants /\ PlainSectors(p)
      /\ SmallClusters(p) /\ p.totSec \in Nat
  BY ModeFacts, Zenon
<1>1. p.totSec - s \in Nat BY <1>0, SMT
<1>2. /\ m \in Nat /\ m * p.secPerClus <= p.totSec - s
      /\ p.totSec - s < (m * p.secPerClus) + p.secPerClus
  BY <1>1, <1>0, ClusterQuotient, Zenon
<1>3. Need(p, s) = UdivCeil((2 + m) * p.fatBits, p.bytesPerSec * 8) BY Zenon DEF Need
<1> HIDE DEF m
<1>4. (2 + m) * p.fatBits \in Nat \ {0} BY <1>2, <1>0, SMT DEF FatVariants
<1>5. QED BY <1>2, <1>3, <1>4, <1>0, CeilBounds, Zenon DEF m

\* The first estimate is enough for a data area behind the areas it makes.
LEMMA Estimated ==
  ASSUME NEW p \in ParamSet, SmallFat(p) \/ BigFat(p)
  PROVE  /\ Estimate(p) \in Nat \ {0}
         /\ \E s \in Nat : Witness(p, Estimate(p), s) /\ Area(p, Estimate(p)) + p.alignment <= s
<1> DEFINE t == p.totSec
          al == p.alignment
          spc == p.secPerClus
          q == t \div spc
          d == p.bytesPerSec * 8
          e == Estimate(p)
          a == Area(p, e) + (2 * al) - 1
          s == a - (a % al)
          m == (t - s) \div spc
<1>0. /\ p.alignment \in Alignments /\ p.secPerClus \in ClusterSizes
      /\ p.bytesPerSec * 8 \in SectorBits /\ p.bytesPerSec \in SectorSizes
      /\ p.fatBits \in FatVariants /\ PlainSectors(p)
      /\ SmallClusters(p) /\ p.totSec \in Nat
  BY ModeFacts, Zenon
<1>1. /\ q \in Nat /\ q * spc <= t /\ t < (q * spc) + spc
  BY <1>0, ClusterQuotient, Zenon
\* With the cluster and sector sizes as numbers, products are linear.
<1>q. /\ spc = 16 => q * 16 <= t /\ t < (q * 16) + 16
      /\ spc = 32 => q * 32 <= t /\ t < (q * 32) + 32
      /\ spc = 64 => q * 64 <= t /\ t < (q * 64) + 64
      /\ spc = 128 => q * 128 <= t /\ t < (q * 128) + 128
  <2> HIDE DEF q, t, spc
  <2> QED BY <1>1, SMT
<1>2. q >= 8
  <2> HIDE DEF q
  <2>1. CASE SmallFat(p) BY <2>1, <1>0, <1>1, <1>q, SMT DEF SmallFat, Mode
  <2>2. CASE BigFat(p) BY <2>2, <1>0, <1>1, <1>q, SMT DEF BigFat, Mode
  <2> QED BY <2>1, <2>2
<1>3. q * p.fatBits \in Nat \ {0}
  <2> HIDE DEF q
  <2> QED BY <1>1, <1>2, <1>0, SMT DEF FatVariants
<1>4. /\ e \in Nat \ {0} /\ (e - 1) * d < q * p.fatBits /\ q * p.fatBits <= e * d
  BY <1>3, <1>0, CeilBounds, Zenon DEF Estimate
<1>5. a \in Nat /\ al \in Alignments /\ al \in Nat /\ al >= 16
  <2> HIDE DEF e
  <2> QED BY <1>4, <1>0, SMT DEF Area, Alignments, FatVariants
<1>6. s % al = 0 /\ (a % al) \in Nat /\ (a % al) < al BY <1>5, UnitsDown, UnitsRest, Zenon
<1>7. s \in Nat /\ Area(p, e) + al <= s /\ s <= a
  <2> DEFINE w == a % al
  <2>1. w \in Nat /\ w < al BY <1>6
  <2>2. s = a - w OBVIOUS
  <2>3. Area(p, e) \in Nat
    <3> HIDE DEF e
    <3> QED BY <1>4, SMT DEF Area
  <2> HIDE DEF w, e, s
  <2> QED BY <2>1, <2>2, <2>3, <1>5, SMT
<1>8. s <= t /\ InFront(p, s)
  <2> HIDE DEF q, e, s
  <2> DEFINE bits == p.fatBits
  <2>q. \A b, k : bits = b /\ d = k => (e - 1) * k < q * b
    <3> HIDE DEF bits, d
    <3> QED BY <1>4, Zenon DEF bits
  <2>1. CASE SmallFat(p)
    <3>1. (bits = 12 => (e - 1) * 4096 < q * 12) /\ (bits = 16 => (e - 1) * 4096 < q * 16)
      BY <2>q, <2>1, SMT DEF SmallFat, Mode
    <3> QED BY <2>1, <3>1, <1>0, <1>1, <1>q, <1>4, <1>7, SMT DEF SmallFat, Mode, Area, InFront
  <2>2. CASE BigFat(p)
    <3>1. /\ d = 4096 => (e - 1) * 4096 < q * 32
          /\ d = 8192 => (e - 1) * 8192 < q * 32
          /\ d = 16384 => (e - 1) * 16384 < q * 32
          /\ d = 32768 => (e - 1) * 32768 < q * 32
      BY <2>q, <2>2, SMT DEF BigFat, Mode
    <3> QED BY <2>2, <3>1, <1>0, <1>1, <1>q, <1>4, <1>7, SMT DEF BigFat, Mode, Area, InFront
  <2> QED BY <2>1, <2>2
<1>9. m \in Nat /\ m * spc <= t - s /\ Need(p, s) \in Nat \ {0}
  BY <1>7, <1>8, NeedBounds, Zenon
<1>10. 2 + m <= q
  <2> HIDE DEF q, e, s, m
  <2>1. 2 * spc <= s BY <1>4, <1>5, <1>7, <1>0, SMT DEF Area, SmallClusters, ClusterSizes
  <2>2. (m + 2) * spc < (q + 1) * spc BY <2>1, <1>1, <1>7, <1>9, <1>0, SMT DEF ClusterSizes
  <2> QED BY <2>2, <1>1, <1>9, <1>0, SMT DEF ClusterSizes
<1>11. (2 + m) * p.fatBits <= e * d
  <2> HIDE DEF q, e, m, d
  <2>1. (2 + m) * p.fatBits <= q * p.fatBits BY <1>1, <1>9, <1>10, <1>0, SMT DEF FatVariants
  <2>2. d \in Nat BY <1>0, SMT DEF d, SectorBits
  <2> QED BY <2>1, <2>2, <1>1, <1>4, <1>9, <1>0, SMT DEF FatVariants
<1>12. Need(p, s) <= e
  <2>1. (2 + m) * p.fatBits \in Nat \ {0}
    <3> HIDE DEF m
    <3> QED BY <1>9, <1>0, SMT DEF FatVariants
  <2> QED BY <2>1, <1>4, <1>11, CeilLeast, <1>0, Zenon DEF Need
<1>13. Witness(p, e, s)
  <2> HIDE DEF e, s
  <2> QED BY <1>6, <1>8, <1>12, SMT DEF Witness
<1> HIDE DEF s, e
<1> QED BY <1>4, <1>7, <1>13, Zenon DEF e

-----------------------------------------------------------------------------
(* The tables.                                                             *)

\* The capacities a row of the table is found for, and what is in it.
Row(i, c, lo, hi, cap, bits, spc, al) ==
  /\ lo <= c /\ c <= hi
  /\ alignTable[i].capLog2 = cap /\ alignTable[i].fatBits = bits
  /\ alignTable[i].secPerClus = spc /\ alignTable[i].alignment = al

LEMMA RowFound ==
  ASSUME NEW c \in Nat, c >= 128, NEW i \in DOMAIN alignTable, IsAlignRow(c, i)
  PROVE  \/ Row(i, c, 128, 16384, 14, 12, 16, 16)
         \/ Row(i, c, 16385, 131072, 17, 12, 32, 32)
         \/ Row(i, c, 131073, 524288, 19, 16, 32, 64)
         \/ Row(i, c, 524289, 2097152, 21, 16, 32, 128)
         \/ Row(i, c, 2097153, 4194304, 22, 16, 64, 128)
         \/ Row(i, c, 4194305, 67108864, 26, 32, 64, 8192)
         \/ Row(i, c, 67108865, 268435456, 28, 64, 256, 32768)
         \/ Row(i, c, 268435457, 1073741824, 30, 64, 512, 65536)
         \/ Row(i, c, 1073741825, 4294967296, 32, 64, 1024, 131072)
<1>1. i \in 1 .. 9 BY SMT DEF alignTable
<1>2. InRow(c, alignTable[i]) /\ (i > 1 => ~InRow(c, alignTable[i - 1]))
  BY <1>1, SMT DEF IsAlignRow
<1>a. CASE i = 1 BY <1>a, <1>2, SMT DEF alignTable, InRow, Row
<1>b. CASE i = 2 BY <1>b, <1>2, SMT DEF alignTable, InRow, Row
<1>c. CASE i = 3 BY <1>c, <1>2, SMT DEF alignTable, InRow, Row
<1>d. CASE i = 4 BY <1>d, <1>2, SMT DEF alignTable, InRow, Row
<1>e. CASE i = 5 BY <1>e, <1>2, SMT DEF alignTable, InRow, Row
<1>f. CASE i = 6 BY <1>f, <1>2, SMT DEF alignTable, InRow, Row
<1>g. CASE i = 7 BY <1>g, <1>2, SMT DEF alignTable, InRow, Row
<1>h. CASE i = 8 BY <1>h, <1>2, SMT DEF alignTable, InRow, Row
<1>i. CASE i = 9 BY <1>i, <1>2, SMT DEF alignTable, InRow, Row
<1> QED BY <1>1, <1>a, <1>b, <1>c, <1>d, <1>e, <1>f, <1>g, <1>h, <1>i, SMT

\* Every row and every choice of flags gives one of the modes.
LEMMA RowModes ==
  ASSUME NEW c \in Nat, c >= 128, NEW i \in DOMAIN alignTable, IsAlignRow(c, i),
         NEW force \in BOOLEAN, NEW big \in BOOLEAN, force => ~Exceeds32(c),
         NEW p \in ParamSet,
         p.bytesPerSec = BytesPerSec(alignTable[i], force, big),
         p.fatBits = FatBits(alignTable[i], force),
         p.secPerClus = SecPerClus(alignTable[i], force),
         p.totSec = Phy2Log(c, p.bytesPerSec),
         p.alignment = Phy2Log(alignTable[i].alignment, p.bytesPerSec)
  PROVE  /\ SmallFat(p) \/ BigFat(p) \/ Exfat(p)
         /\ p.totSec * (p.bytesPerSec \div 512) <= c
         /\ p.fatBits = 64 <=> Exfat(p)
<1> USE DEF Row, BytesPerSec, FatBits, SecPerClus, Phy2Log, Mode
<1>r. /\ c \in Nat /\ p.totSec \in Nat /\ p.alignment \in Nat /\ p.secPerClus \in Nat
      /\ p.bytesPerSec \in Nat
  BY DEF ParamSet
<1>1. CASE Row(i, c, 128, 16384, 14, 12, 16, 16) BY <1>1, <1>r, SMT DEF SmallFat, Exfat
<1>2. CASE Row(i, c, 16385, 131072, 17, 12, 32, 32) BY <1>2, <1>r, SMT DEF SmallFat, Exfat
<1>3. CASE Row(i, c, 131073, 524288, 19, 16, 32, 64) BY <1>3, <1>r, SMT DEF SmallFat, Exfat
<1>4. CASE Row(i, c, 524289, 2097152, 21, 16, 32, 128) BY <1>4, <1>r, SMT DEF SmallFat, Exfat
<1>5. CASE Row(i, c, 2097153, 4194304, 22, 16, 64, 128) BY <1>5, <1>r, SMT DEF SmallFat, Exfat
<1>6. CASE Row(i, c, 4194305, 67108864, 26, 32, 64, 8192) BY <1>6, <1>r, SMT DEF BigFat, Exfat
<1>7. CASE Row(i, c, 67108865, 268435456, 28, 64, 256, 32768) BY <1>7, <1>r, SMT DEF BigFat, Exfat
<1>8. CASE Row(i, c, 268435457, 1073741824, 30, 64, 512, 65536) BY <1>8, <1>r, SMT DEF BigFat, Exfat
<1>9. CASE Row(i, c, 1073741825, 4294967296, 32, 64, 1024, 131072)
  <2>1. force => c <= 4294967295 BY SMT DEF Exceeds32, Width32
  <2> QED BY <1>9, <1>r, <2>1, SMT DEF BigFat, Exfat
<1> QED BY <1>1, <1>2, <1>3, <1>4, <1>5, <1>6, <1>7, <1>8, <1>9, RowFound, SMT


-----------------------------------------------------------------------------
(* The inductive invariant.                                                *)

Calculated == {"place", "fit", "exfat", "check", "accepted"}

CapacityInv ==
  /\ capacity <= card
  /\ phase \in Calculated \cup {"lookup"} => capacity >= 128
  /\ phase \in Calculated => params.totSec * (params.bytesPerSec \div 512) <= capacity

ModeInv ==
  /\ phase \in {"place", "fit"} => SmallFat(params) \/ BigFat(params)
  /\ phase = "exfat" => Exfat(params)
  /\ phase \in {"check", "accepted"} => SmallFat(params) \/ BigFat(params) \/ Exfat(params)

\* There is a place for the data area the search does not pass.
SearchInv ==
  /\ phase \in {"place", "fit"} => secPerFat >= 1
  /\ phase = "place" =>
       \E s \in Nat : Witness(params, secPerFat, s) /\ Area(params, secPerFat) + params.alignment <= s
  /\ phase = "fit" => \E s \in Nat : Witness(params, secPerFat, s) /\ DataStart <= s

\* Where the areas are while they are fitted and afterwards.
PlacedInv ==
  phase \in {"fit", "check", "accepted"} /\ UsesFat =>
    /\ DataStart % params.alignment = 0
    /\ Area(params, secPerFat) + params.alignment <= DataStart
    /\ partStart >= params.alignment
    /\ fsAreaSize = rsvdSecCnt + (2 * secPerFat) + RootSectors
    /\ rsvdSecCnt >= (IF params.fatBits = 32 THEN 9 ELSE 1)

FoundInv ==
  phase \in {"check", "accepted"} /\ UsesFat =>
    /\ DataStart <= params.totSec
    /\ InFront(params, DataStart)
    /\ maxClus = (params.totSec - DataStart) \div params.secPerClus
    /\ secPerFat = Need(params, DataStart)

ExfatFields == [partitionOffset   |-> params.alignment,
                volumeLength      |-> params.totSec - params.alignment,
                fatOffset         |-> params.alignment \div 2,
                fatLength         |-> params.alignment \div 2,
                clusterHeapOffset |-> params.alignment,
                clusterCount      |-> (params.totSec - (params.alignment * 2)) \div params.secPerClus]

ExfatInv == phase \in {"check", "accepted"} /\ ~UsesFat => exfat = ExfatFields

Inv == TypeOK /\ CapacityInv /\ ModeInv /\ SearchInv /\ PlacedInv /\ FoundInv /\ ExfatInv

LEMMA Types ==
  ASSUME TypeOK
  PROVE  /\ params \in ParamSet
         /\ secPerFat \in Nat /\ fsAreaSize \in Nat /\ partStart \in Nat /\ rsvdSecCnt \in Nat
         /\ maxClus \in Nat /\ tmpSecPerFat \in Nat /\ DataStart \in Nat
         /\ capacity \in Nat /\ card \in Nat
BY SMT DEF TypeOK, ParamSet, DataStart

LEMMA InitInv == Init => Inv
<1> SUFFICES ASSUME Init PROVE Inv OBVIOUS
<1>1. TypeOK
  <2>1. Cards \subseteq Nat /\ Overrides \subseteq Nat BY ParamsAssumption
  <2>2. card \in Cards /\ args \in [forceFat32 : BOOLEAN, bigClusters : BOOLEAN, overrTotSec : Overrides]
    BY DEF Init
  <2>3. card \in Nat /\ args \in [forceFat32 : BOOLEAN, bigClusters : BOOLEAN, overrTotSec : Nat]
    <3>1. PICK f \in BOOLEAN, b \in BOOLEAN, n \in Overrides :
            args = [forceFat32 |-> f, bigClusters |-> b, overrTotSec |-> n]
      BY <2>2, Zenon
    <3>2. n \in Nat /\ card \in Nat BY <2>1, <2>2, Zenon
    <3> QED BY <3>1, <3>2, Zenon
  <2>4. /\ params = NoParams /\ exfat = NoExfat /\ reason = "none" /\ capacity = 0 /\ phase = "start"
        /\ rsvdSecCnt = 0 /\ secPerFat = 0 /\ fsAreaSize = 0
        /\ partStart = 0 /\ maxClus = 0 /\ tmpSecPerFat = 0
    BY DEF Init
  <2> QED BY <2>3, <2>4, SMT DEF TypeOK, NoParams, NoExfat, Refusals
<1>2. phase = "start" /\ capacity = 0 /\ card \in Nat BY <1>1, SMT DEF Init, TypeOK
<1> QED BY <1>1, <1>2, SMT DEF Inv, CapacityInv, ModeInv, SearchInv, PlacedInv, FoundInv, ExfatInv, Calculated

\* formatSd decides on the capacity.
LEMMA ChooseKeepsInv ==
  ASSUME Inv, ChooseCapacity
  PROVE  Inv'
BY SMT DEF Inv, TypeOK, CapacityInv, ModeInv, SearchInv, PlacedInv, FoundInv, ExfatInv, Calculated,
   ChooseCapacity, Refuse, MinCapacity, Refusals, fatVars

\* The tables are looked up; the estimate provides the first witness.
LEMMA LookUpKeepsInv ==
  ASSUME Inv, LookUp
  PROVE  Inv'
<1>1. CASE ~Supported
  BY <1>1, SMT DEF Inv, TypeOK, CapacityInv, ModeInv, SearchInv, PlacedInv, FoundInv, ExfatInv, Calculated,
     LookUp, Refuse, Refusals
<1>2. CASE Supported
  <2>1. /\ phase = "lookup" /\ UseRows
        /\ UNCHANGED <<card, args, capacity, rsvdSecCnt, fsAreaSize, partStart, maxClus, tmpSecPerFat, exfat>>
    BY <1>2 DEF LookUp
  <2>2. /\ capacity \in Nat /\ capacity >= 128 /\ capacity <= card
        /\ args.forceFat32 \in BOOLEAN /\ args.bigClusters \in BOOLEAN
        /\ args.forceFat32 => ~Exceeds32(capacity)
    BY <1>2, <2>1, SMT DEF Inv, TypeOK, CapacityInv, Supported
  <2>3. PICK i \in DOMAIN alignTable, j \in DOMAIN geometryTable :
          LET force   == args.forceFat32
              row     == alignTable[i]
              geo     == geometryTable[j]
              fatBits == FatBits(row, force)
              bps     == BytesPerSec(row, force, args.bigClusters)
              spc     == SecPerClus(row, force)
              totSec  == Phy2Log(capacity, bps)
          IN  /\ IsAlignRow(capacity, i) /\ IsGeometryRow(capacity, j)
              /\ params' = [totSec      |-> totSec,
                            alignment   |-> Phy2Log(row.alignment, bps),
                            secPerClus  |-> spc,
                            bytesPerSec |-> bps,
                            fatBits     |-> fatBits,
                            heads       |-> geo.heads,
                            secPerTrk   |-> geo.secPerTrk]
              /\ phase' = IF fatBits = 64 THEN "exfat" ELSE "place"
              /\ secPerFat' = IF fatBits = 64 THEN secPerFat
                              ELSE UdivCeil((Low32(totSec) \div spc) * fatBits, bps * 8)
              /\ UNCHANGED reason
    BY <2>1, Zenon DEF UseRows
  <2>4. /\ params'.bytesPerSec = BytesPerSec(alignTable[i], args.forceFat32, args.bigClusters)
        /\ params'.fatBits = FatBits(alignTable[i], args.forceFat32)
        /\ params'.secPerClus = SecPerClus(alignTable[i], args.forceFat32)
        /\ params'.totSec = Phy2Log(capacity, params'.bytesPerSec)
        /\ params'.alignment = Phy2Log(alignTable[i].alignment, params'.bytesPerSec)
    BY <2>3, SMT
  <2>5. params' \in ParamSet
    <3>1. geometryTable[j].heads \in Nat /\ geometryTable[j].secPerTrk \in Nat
      BY SMT DEF geometryTable
    <3>2. /\ BytesPerSec(alignTable[i], args.forceFat32, args.bigClusters) \in {512, 1024, 2048, 4096}
          /\ FatBits(alignTable[i], args.forceFat32) \in {12, 16, 32, 64}
          /\ SecPerClus(alignTable[i], args.forceFat32) \in Nat
          /\ alignTable[i].alignment \in Nat
      BY SMT DEF alignTable, BytesPerSec, FatBits, SecPerClus
    <3>3. \A n \in Nat : \A b \in {512, 1024, 2048, 4096} : Phy2Log(n, b) \in Nat
      BY SMT DEF Phy2Log
    <3> QED BY <2>2, <2>3, <3>1, <3>2, <3>3, SMT DEF ParamSet
  <2>6. /\ SmallFat(params') \/ BigFat(params') \/ Exfat(params')
        /\ params'.totSec * (params'.bytesPerSec \div 512) <= capacity
        /\ params'.fatBits = 64 <=> Exfat(params')
    BY <2>2, <2>3, <2>4, <2>5, RowModes
  <2>7. CASE params'.fatBits = 64
    <3>1. phase' = "exfat" /\ secPerFat' = secPerFat /\ reason' = reason BY <2>3, <2>4, <2>7, SMT
    <3> QED BY <2>1, <2>2, <2>5, <2>6, <2>7, <3>1, SMT
        DEF Inv, TypeOK, CapacityInv, ModeInv, SearchInv, PlacedInv, FoundInv, ExfatInv, Calculated, ParamSet
  <2>8. CASE params'.fatBits # 64
    <3>1. SmallFat(params') \/ BigFat(params') BY <2>6, <2>8
    <3>2. ~Exceeds32(params'.totSec)
      BY <3>1, <2>5, SMT DEF SmallFat, BigFat, Mode, Exceeds32, Width32, ParamSet
    <3>3. Low32(params'.totSec) = params'.totSec BY <3>2, <2>5, Low32Same DEF ParamSet
    <3>4. phase' = "place" /\ reason' = reason /\ secPerFat' = Estimate(params')
      BY <2>3, <2>4, <2>8, <3>3, SMT DEF Estimate
    <3>5. /\ Estimate(params') \in Nat \ {0}
          /\ \E s \in Nat : Witness(params', Estimate(params'), s)
                            /\ Area(params', Estimate(params')) + params'.alignment <= s
      BY <2>5, <3>1, Estimated
    <3> QED BY <2>1, <2>2, <2>5, <2>6, <3>1, <3>4, <3>5, SMT
        DEF Inv, TypeOK, CapacityInv, ModeInv, SearchInv, PlacedInv, FoundInv, ExfatInv, Calculated, ParamSet
  <2> QED BY <2>7, <2>8
<1> QED BY <1>1, <1>2


\* FAT12 and FAT16: the areas are placed in front of the witness.
LEMMA Place16KeepsInv ==
  ASSUME Inv, Place16
  PROVE  Inv'
<1> DEFINE al == params.alignment
          area == 1 + (2 * secPerFat) + RootSectors
          w == area % al
<1>1. /\ phase = "place" /\ params.fatBits <= 16
      /\ rsvdSecCnt' = 1 /\ fsAreaSize' = area
      /\ partStart' = IF al - w = al THEN al - w ELSE al - w + al
      /\ phase' = "fit"
      /\ UNCHANGED <<card, args, capacity, params, secPerFat, maxClus, tmpSecPerFat, exfat, reason>>
  BY DEF Place16
<1>2. /\ params \in ParamSet /\ secPerFat \in Nat /\ secPerFat >= 1
      /\ SmallFat(params) \/ BigFat(params)
  BY <1>1, Types, SMT DEF Inv, SearchInv, ModeInv
<1>3. al \in Alignments /\ al \in Nat /\ al >= 16 /\ params.bytesPerSec = 512 /\ params.fatBits # 32
  <2>1. al \in Alignments /\ PlainSectors(params) /\ params.fatBits \in FatVariants
    BY <1>2, ModeFacts, Zenon
  <2>2. params.fatBits <= 16 BY <1>1
  <2> QED BY <2>1, <2>2, SMT DEF Alignments, PlainSectors, FatVariants
<1>4. RootSectors = 32 /\ RootSectors' = 32
  BY <1>1, <1>2, <1>3, SMT DEF RootSectors, UdivCeil, ParamSet
<1>5. area \in Nat /\ area = Area(params, secPerFat) BY <1>2, <1>3, <1>4, SMT DEF Area
<1>6. PICK s \in Nat : Witness(params, secPerFat, s) /\ area + al <= s
  BY <1>1, <1>5, SMT DEF Inv, SearchInv
<1>7. w \in Nat /\ w < al /\ w <= area /\ (area - w) % al = 0
  <2>1. al \in Alignments /\ area \in Nat BY <1>3, <1>5
  <2> HIDE DEF area, al
  <2> QED BY <2>1, UnitsRest, UnitsDown, Zenon
<1>8. /\ DataStart' \in Nat /\ partStart' \in Nat /\ partStart' >= al
      /\ area + al <= DataStart' /\ DataStart' < s + al
      /\ DataStart' = (area - w) + al \/ DataStart' = ((area - w) + al) + al
      /\ area - w \in Nat /\ (area - w) + al \in Nat
  <2> HIDE DEF w, area
  <2>1. DataStart' = partStart' + area BY <1>1 DEF DataStart
  <2>2. partStart' = IF w = 0 THEN al ELSE (al - w) + al BY <1>1, <1>3, <1>7, SMT
  <2>3. /\ s \in Nat /\ area \in Nat /\ w \in Nat /\ al \in Nat
        /\ w < al /\ w <= area /\ area + al <= s
    BY <1>3, <1>5, <1>6, <1>7
  <2> HIDE DEF al
  <2> QED BY <2>1, <2>2, <2>3, SMT
<1>9. DataStart' % al = 0
  <2> HIDE DEF w, area
  <2>1. ((area - w) + al) % al = 0 BY <1>3, <1>7, <1>8, UnitsAdd
  <2>2. (((area - w) + al) + al) % al = 0 BY <1>3, <1>8, <2>1, UnitsAdd
  <2> QED BY <1>8, <2>1, <2>2
<1>10. DataStart' <= s
  <2>1. s % al = 0 BY <1>6, Zenon DEF Witness
  <2>2. DataStart' \in Nat /\ DataStart' < s + al BY <1>8
  <2>3. al \in Alignments BY <1>3
  <2> HIDE DEF al
  <2> QED BY <1>9, <2>1, <2>2, <2>3, UnitsApart, Zenon
<1> HIDE DEF w, area
<1> QED BY <1>1, <1>2, <1>3, <1>4, <1>5, <1>6, <1>8, <1>9, <1>10, SMT
    DEF Inv, TypeOK, CapacityInv, ModeInv, SearchInv, PlacedInv, FoundInv, ExfatInv, Calculated, UsesFat, area

\* FAT32: the reserved sectors end in front of the witness.
LEMMA Place32KeepsInv ==
  ASSUME Inv, Place32
  PROVE  Inv'
<1> DEFINE al == params.alignment
          n == 2 * secPerFat
          w == n % al
<1>1. /\ phase = "place" /\ params.fatBits = 32
      /\ partStart' = al
      /\ rsvdSecCnt' = IF al - w < 9 THEN al - w + al ELSE al - w
      /\ fsAreaSize' = rsvdSecCnt' + n
      /\ phase' = "fit"
      /\ UNCHANGED <<card, args, capacity, params, secPerFat, maxClus, tmpSecPerFat, exfat, reason>>
  BY DEF Place32
<1>2. /\ params \in ParamSet /\ secPerFat \in Nat /\ secPerFat >= 1
      /\ SmallFat(params) \/ BigFat(params)
  BY <1>1, Types, SMT DEF Inv, SearchInv, ModeInv
<1>3. al \in Alignments /\ al \in Nat /\ al >= 16
  <2>1. al \in Alignments BY <1>2, ModeFacts, Zenon
  <2> QED BY <2>1, SMT DEF Alignments
<1>4. RootSectors' = 0 BY <1>1, SMT DEF RootSectors
<1>5. n \in Nat /\ Area(params, secPerFat) = n + 9 BY <1>1, <1>2, SMT DEF Area
<1>6. PICK s \in Nat : Witness(params, secPerFat, s) /\ n + 9 + al <= s
  BY <1>1, <1>5, SMT DEF Inv, SearchInv
<1>7. w \in Nat /\ w < al /\ w <= n /\ (n - w) % al = 0
  <2>1. al \in Alignments /\ n \in Nat BY <1>3, <1>5
  <2> HIDE DEF n, al
  <2> QED BY <2>1, UnitsRest, UnitsDown, Zenon
<1>8. /\ DataStart' \in Nat /\ rsvdSecCnt' \in Nat /\ rsvdSecCnt' >= 9
      /\ fsAreaSize' \in Nat /\ n + 9 + al <= DataStart' /\ DataStart' < s + al
      /\ \/ DataStart' = ((n - w) + al) + al
         \/ DataStart' = (((n - w) + al) + al) + al
      /\ n - w \in Nat /\ (n - w) + al \in Nat /\ ((n - w) + al) + al \in Nat
  <2> HIDE DEF w, n
  <2>1. DataStart' = al + fsAreaSize' BY <1>1 DEF DataStart
  <2>2. /\ s \in Nat /\ n \in Nat /\ w \in Nat /\ al \in Nat /\ al >= 16
        /\ w < al /\ w <= n /\ n + 9 + al <= s
    BY <1>3, <1>5, <1>6, <1>7
  <2>3. /\ rsvdSecCnt' = IF al - w < 9 THEN (al - w) + al ELSE al - w
        /\ fsAreaSize' = rsvdSecCnt' + n
    BY <1>1
  <2> HIDE DEF al
  <2> QED BY <2>1, <2>2, <2>3, SMT
<1>9. DataStart' % al = 0
  <2> HIDE DEF w, n
  <2>1. ((n - w) + al) % al = 0 BY <1>3, <1>7, <1>8, UnitsAdd
  <2>2. (((n - w) + al) + al) % al = 0 BY <1>3, <1>8, <2>1, UnitsAdd
  <2>3. ((((n - w) + al) + al) + al) % al = 0 BY <1>3, <1>8, <2>2, UnitsAdd
  <2> QED BY <1>8, <2>2, <2>3
<1>10. DataStart' <= s
  <2>1. s % al = 0 BY <1>6, Zenon DEF Witness
  <2>2. DataStart' \in Nat /\ DataStart' < s + al BY <1>8
  <2>3. al \in Alignments BY <1>3
  <2> HIDE DEF al
  <2> QED BY <1>9, <2>1, <2>2, <2>3, UnitsApart, Zenon
<1> HIDE DEF w
<1> QED BY <1>1, <1>2, <1>3, <1>4, <1>5, <1>6, <1>8, <1>9, <1>10, SMT
    DEF Inv, TypeOK, CapacityInv, ModeInv, SearchInv, PlacedInv, FoundInv, ExfatInv, Calculated, UsesFat


\* Larger FATs need a larger area.
LEMMA AreaGrows ==
  ASSUME NEW p \in ParamSet, NEW m \in Nat, NEW n \in Nat, m < n
  PROVE  Area(p, m) \in Nat /\ Area(p, n) \in Nat /\ Area(p, m) <= Area(p, n)
<1>1. CASE p.fatBits = 32 BY <1>1, SMT DEF Area
<1>2. CASE p.fatBits # 32 BY <1>2, SMT DEF Area
<1> QED BY <1>1, <1>2

\* What a turn of the inner loop calculates.
LEMMA FitComputes ==
  ASSUME Inv, phase = "fit"
  PROVE  /\ params \in ParamSet /\ (SmallFat(params) \/ BigFat(params))
         /\ UsesFat /\ params.alignment \in Alignments /\ params.alignment \in Nat
         /\ DataStart \in Nat /\ DataStart <= params.totSec /\ InFront(params, DataStart)
         /\ ClustersFitting = (params.totSec - DataStart) \div params.secPerClus
         /\ ClustersFitting \in Nat
         /\ SectorsNeeded(ClustersFitting) = Need(params, DataStart)
         /\ Need(params, DataStart) \in Nat \ {0}
<1>1. /\ params \in ParamSet /\ (SmallFat(params) \/ BigFat(params))
      /\ partStart \in Nat /\ fsAreaSize \in Nat /\ DataStart \in Nat
  BY Types DEF Inv, ModeInv
<1>2. /\ params.alignment \in Alignments /\ params.bytesPerSec \in SectorSizes
      /\ params.fatBits \in FatVariants
  BY <1>1, ModeFacts, Zenon
<1>3. UsesFat /\ params.alignment \in Nat /\ params.totSec \in Nat
  BY <1>1, <1>2, SMT DEF UsesFat, FatVariants, ParamSet
<1>4. PICK s \in Nat : Witness(params, secPerFat, s) /\ DataStart <= s
  BY DEF Inv, SearchInv
<1>5. DataStart <= params.totSec /\ InFront(params, DataStart)
  BY <1>1, <1>3, <1>4, <1>2, SMT DEF Witness, InFront, SectorSizes
<1>6. Low32(params.totSec) = params.totSec
  <2>1. ~Exceeds32(params.totSec)
    BY <1>1, <1>3, SMT DEF SmallFat, BigFat, Mode, Exceeds32, Width32
  <2> QED BY <2>1, <1>3, Low32Same
<1>7. Low32(params.totSec) - partStart - fsAreaSize = params.totSec - DataStart
  BY <1>1, <1>3, <1>6, SMT DEF DataStart
<1>8. ClustersFitting = (params.totSec - DataStart) \div params.secPerClus
  BY <1>7 DEF ClustersFitting
<1>9. SectorsNeeded(ClustersFitting) = Need(params, DataStart)
  BY <1>8, Zenon DEF SectorsNeeded, Need
<1>10. /\ (params.totSec - DataStart) \div params.secPerClus \in Nat
       /\ Need(params, DataStart) \in Nat \ {0}
  BY <1>1, <1>5, NeedBounds, Zenon
<1> QED BY <1>1, <1>2, <1>3, <1>5, <1>8, <1>9, <1>10

\* A turn of the inner loop: the data area moves, but not past the witness; or the
\* FAT shrinks and the present place is the new witness; or the search is over.
LEMMA FitKeepsInv ==
  ASSUME Inv, Fit
  PROVE  Inv'
<1> DEFINE al == params.alignment
          need == Need(params, DataStart)
<1>1. /\ phase = "fit"
      /\ maxClus' = ClustersFitting /\ tmpSecPerFat' = SectorsNeeded(maxClus')
      /\ UNCHANGED <<card, args, capacity, params, exfat, reason>>
  BY DEF Fit
<1>2. /\ params \in ParamSet /\ (SmallFat(params) \/ BigFat(params))
      /\ UsesFat /\ al \in Alignments /\ al \in Nat
      /\ DataStart \in Nat /\ DataStart <= params.totSec /\ InFront(params, DataStart)
      /\ maxClus' = (params.totSec - DataStart) \div params.secPerClus
      /\ maxClus' \in Nat /\ tmpSecPerFat' = need /\ need \in Nat \ {0}
  BY <1>1, FitComputes
<1>3. /\ secPerFat \in Nat /\ secPerFat >= 1
      /\ fsAreaSize \in Nat /\ partStart \in Nat /\ rsvdSecCnt \in Nat
      /\ DataStart % al = 0 /\ Area(params, secPerFat) + al <= DataStart
      /\ partStart >= al /\ fsAreaSize = rsvdSecCnt + (2 * secPerFat) + RootSectors
      /\ rsvdSecCnt >= (IF params.fatBits = 32 THEN 9 ELSE 1)
  BY <1>1, <1>2, Types DEF Inv, SearchInv, PlacedInv
<1>4. PICK s \in Nat : Witness(params, secPerFat, s) /\ DataStart <= s
  BY <1>1 DEF Inv, SearchInv
<1>5. RootSectors' = RootSectors /\ RootSectors \in Nat /\ params.fatBits \in FatVariants
  <2>1. params.fatBits \in FatVariants /\ PlainSectors(params) BY <1>2, ModeFacts, Zenon
  <2>2. RootSectors \in Nat BY <2>1, SMT DEF RootSectors, UdivCeil, PlainSectors, FatVariants
  <2> QED BY <1>1, <2>1, <2>2 DEF RootSectors
<1>6. CASE tmpSecPerFat' > secPerFat /\ Shift
  <2>1. /\ \/ /\ partStart' = partStart + al
              /\ fsAreaSize' = fsAreaSize /\ rsvdSecCnt' = rsvdSecCnt
           \/ /\ fsAreaSize' = fsAreaSize + al /\ rsvdSecCnt' = rsvdSecCnt + al
              /\ partStart' = partStart
        /\ phase' = phase /\ secPerFat' = secPerFat
    BY <1>6 DEF Shift
  <2>2. DataStart # s /\ s % al = 0
    <3>1. Need(params, s) <= secPerFat /\ s % al = 0 BY <1>4 DEF Witness
    <3>2. ~(need <= secPerFat) BY <1>2, <1>3, <1>6, SMT
    <3> QED BY <3>1, <3>2
  <2>3. DataStart + al \in Nat /\ DataStart + al < s + al
    <3> HIDE DEF al
    <3> QED BY <1>2, <1>4, <2>2, SMT
  <2>4. (DataStart + al) % al = 0 BY <1>2, <1>3, UnitsAdd, Zenon
  <2>5. DataStart + al <= s BY <1>2, <2>2, <2>3, <2>4, UnitsApart, Zenon
  <2>6. DataStart' = DataStart + al /\ DataStart <= DataStart'
    <3> HIDE DEF al
    <3> QED BY <1>2, <1>3, <2>1, SMT DEF DataStart
  <2>7. /\ partStart' \in Nat /\ fsAreaSize' \in Nat /\ rsvdSecCnt' \in Nat /\ partStart' >= al
        /\ fsAreaSize' = rsvdSecCnt' + (2 * secPerFat) + RootSectors
        /\ rsvdSecCnt' >= (IF params.fatBits = 32 THEN 9 ELSE 1)
        /\ Area(params, secPerFat) + al <= DataStart'
    <3>1. Area(params, secPerFat) \in Nat BY <1>3, SMT DEF Area
    <3> HIDE DEF al
    <3> QED BY <1>2, <1>3, <1>5, <2>1, <2>3, <2>6, <3>1, SMT
  <2> HIDE DEF need
  <2>8. TypeOK' /\ CapacityInv' /\ ModeInv' /\ FoundInv' /\ ExfatInv'
    BY <1>1, <1>2, <1>3, <2>1, <2>7, SMT
    DEF Inv, TypeOK, CapacityInv, ModeInv, FoundInv, ExfatInv, Calculated
  <2>9. SearchInv'
    <3>1. Witness(params', secPerFat', s) /\ DataStart' <= s BY <1>1, <1>4, <2>1, <2>5, <2>6
    <3> QED BY <1>1, <1>3, <2>1, <3>1, SMT DEF SearchInv
  <2>10. PlacedInv'
    <3>1. DataStart' % al = 0 BY <2>4, <2>6
    <3> QED BY <1>1, <1>5, <2>1, <2>7, <3>1, Zenon DEF PlacedInv
  <2> QED BY <2>8, <2>9, <2>10 DEF Inv
<1>7. CASE tmpSecPerFat' < secPerFat /\ Shrink
  <2>1. /\ secPerFat' = IF params.fatBits = 32 THEN secPerFat - 1 ELSE tmpSecPerFat'
        /\ phase' = "place"
        /\ UNCHANGED <<rsvdSecCnt, fsAreaSize, partStart>>
    BY <1>7 DEF Shrink
  <2>2. secPerFat' \in Nat /\ secPerFat' >= 1 /\ need <= secPerFat' /\ secPerFat' < secPerFat
    BY <1>2, <1>3, <1>7, <2>1, SMT
  <2>3. Witness(params, secPerFat', DataStart) BY <1>2, <1>3, <2>2, Zenon DEF Witness
  <2>4. Area(params, secPerFat') + al <= DataStart
    <3>1. params \in ParamSet /\ secPerFat \in Nat /\ secPerFat' \in Nat /\ secPerFat' < secPerFat
      BY <1>2, <1>3, <2>2
    <3>2. Area(params, secPerFat') \in Nat /\ Area(params, secPerFat) \in Nat
          /\ Area(params, secPerFat') <= Area(params, secPerFat)
      BY <3>1, AreaGrows, Zenon
    <3>3. al \in Nat /\ DataStart \in Nat /\ Area(params, secPerFat) + al <= DataStart BY <1>2, <1>3
    <3> HIDE DEF al
    <3> QED BY <3>2, <3>3, SMT
  <2> HIDE DEF need
  <2> QED BY <1>1, <1>2, <1>3, <2>1, <2>2, <2>3, <2>4, SMT
      DEF Inv, TypeOK, CapacityInv, ModeInv, SearchInv, PlacedInv, FoundInv, ExfatInv, Calculated
<1>8. CASE /\ tmpSecPerFat' = secPerFat
           /\ phase' = "check"
           /\ UNCHANGED <<rsvdSecCnt, secPerFat, fsAreaSize, partStart>>
  <2>1. DataStart' = DataStart BY <1>8 DEF DataStart
  <2> HIDE DEF need
  <2>2. secPerFat = need BY <1>2, <1>8
  <2>3. secPerFat = Need(params, DataStart) BY <2>2 DEF need
  <2> QED BY <1>1, <1>2, <1>3, <1>5, <1>8, <2>1, <2>3, SMT
      DEF Inv, TypeOK, CapacityInv, ModeInv, SearchInv, PlacedInv, FoundInv, ExfatInv, Calculated, UsesFat
<1> QED BY <1>6, <1>7, <1>8 DEF Fit


\* The three exFAT modes leave room for everything.
LEMMA ExfatFieldTypes ==
  ASSUME params \in ParamSet, Exfat(params)
  PROVE  /\ ExfatFields \in [partitionOffset : Nat, volumeLength : Nat, fatOffset : Nat,
                             fatLength : Nat, clusterHeapOffset : Nat, clusterCount : Nat]
         /\ params.fatBits = 64
<1> DEFINE t == params.totSec
          al == params.alignment
          c == (t - (al * 2)) \div params.secPerClus
<1>1. t \in Nat /\ al \in Nat BY DEF ParamSet
<1>2. /\ t - al \in Nat /\ al \div 2 \in Nat /\ c \in Nat /\ params.fatBits = 64
  BY <1>1, SMT DEF Exfat, Mode
<1> HIDE DEF c
<1>3. ExfatFields.clusterCount = c BY SMT DEF ExfatFields, c
<1> QED BY <1>1, <1>2, SMT DEF ExfatFields, c

LEMMA CalcExfatKeepsInv ==
  ASSUME Inv, CalcFormatExFat
  PROVE  Inv'
<1>1. /\ phase = "exfat" /\ phase' = "check" /\ exfat' = ExfatFields
      /\ UNCHANGED <<card, args, capacity, params, fatVars, reason>>
  BY DEF CalcFormatExFat, ExfatFields
<1>2. params \in ParamSet /\ Exfat(params) BY <1>1, Types DEF Inv, ModeInv
<1>3. /\ ExfatFields \in [partitionOffset : Nat, volumeLength : Nat, fatOffset : Nat,
                          fatLength : Nat, clusterHeapOffset : Nat, clusterCount : Nat]
      /\ params.fatBits = 64 /\ ExfatFields' = ExfatFields
  BY <1>1, <1>2, ExfatFieldTypes DEF ExfatFields
<1> QED BY <1>1, <1>2, <1>3, SMT
    DEF Inv, TypeOK, CapacityInv, ModeInv, SearchInv, PlacedInv, FoundInv, ExfatInv, Calculated, UsesFat, fatVars

LEMMA CheckKeepsInv ==
  ASSUME Inv, Check
  PROVE  Inv'
<1>1. /\ phase = "check" /\ phase' \in {"refused", "accepted"}
      /\ reason' \in Refusals \cup {"none"}
      /\ UNCHANGED <<card, args, capacity, params, fatVars, exfat>>
  BY SMT DEF Check, Refuse, FatVerdict, ExfatVerdict, Refusals, Inv, TypeOK
<1>2. DataStart' = DataStart /\ RootSectors' = RootSectors /\ ExfatFields' = ExfatFields
  BY <1>1 DEF DataStart, RootSectors, ExfatFields, fatVars
<1> QED BY <1>1, <1>2, SMT
    DEF Inv, TypeOK, CapacityInv, ModeInv, SearchInv, PlacedInv, FoundInv, ExfatInv, Calculated, UsesFat, fatVars

LEMMA NextKeepsInv == Inv /\ [Next]_vars => Inv'
<1> SUFFICES ASSUME Inv, [Next]_vars PROVE Inv' OBVIOUS
<1>1. CASE Next
  BY <1>1, ChooseKeepsInv, LookUpKeepsInv, Place16KeepsInv, Place32KeepsInv, FitKeepsInv,
     CalcExfatKeepsInv, CheckKeepsInv DEF Next
<1>2. CASE UNCHANGED vars
  <2>1. DataStart' = DataStart /\ RootSectors' = RootSectors /\ ExfatFields' = ExfatFields
    BY <1>2 DEF vars, DataStart, RootSectors, ExfatFields, fatVars
  <2> QED BY <1>2, <2>1, SMT
      DEF Inv, TypeOK, CapacityInv, ModeInv, SearchInv, PlacedInv, FoundInv, ExfatInv, Calculated, UsesFat,
          vars, fatVars
<1> QED BY <1>1, <1>2

\* The inductive invariant holds in every state of getFormatParams.
THEOREM ParamsInvariant == Spec => []Inv
BY InitInv, NextKeepsInv, PTL DEF Spec

\* Every variable of the calculation keeps its type; in particular no
\* difference the source computes in u32 is negative.
THEOREM ParamsTypeCorrect == Spec => []TypeOK
<1>1. Inv => TypeOK BY DEF Inv
<1> QED BY <1>1, ParamsInvariant, PTL


-----------------------------------------------------------------------------
(* The properties.                                                         *)

\* An accepted or checked FAT layout, in linear terms.
LEMMA FoundFacts ==
  ASSUME Inv, phase \in {"check", "accepted"}, UsesFat
  PROVE  /\ params \in ParamSet /\ (SmallFat(params) \/ BigFat(params))
         /\ DataStart \in Nat /\ DataStart <= params.totSec /\ InFront(params, DataStart)
         /\ secPerFat \in Nat \ {0} /\ maxClus \in Nat
         /\ maxClus * params.secPerClus <= params.totSec - DataStart
         /\ (secPerFat - 1) * (params.bytesPerSec * 8) < (2 + maxClus) * params.fatBits
         /\ (2 + maxClus) * params.fatBits <= secPerFat * (params.bytesPerSec * 8)
<1>1. params \in ParamSet /\ DataStart \in Nat BY Types DEF Inv
<1>2. SmallFat(params) \/ BigFat(params)
  <2>1. Exfat(params) => params.fatBits = 64 BY SMT DEF Exfat, Mode
  <2>2. params.fatBits # 64 BY SMT DEF UsesFat
  <2> QED BY <2>1, <2>2, Zenon DEF Inv, ModeInv
<1>3. /\ DataStart <= params.totSec /\ InFront(params, DataStart)
      /\ maxClus = (params.totSec - DataStart) \div params.secPerClus
      /\ secPerFat = Need(params, DataStart)
  BY DEF Inv, FoundInv
<1> QED BY <1>1, <1>2, <1>3, NeedBounds, Zenon

LEMMA InvNoWrap == Inv => NoWrap
<1> SUFFICES ASSUME Inv PROVE NoWrap OBVIOUS
<1>1. ASSUME phase \in {"place", "fit"}
      PROVE  /\ ~Exceeds32(params.totSec)
             /\ ~Exceeds32((params.totSec \div params.secPerClus) * params.fatBits)
  <2>1. params \in ParamSet /\ params.totSec \in Nat /\ (SmallFat(params) \/ BigFat(params))
    BY <1>1, Types, SMT DEF Inv, ModeInv, ParamSet
  <2>2. CASE SmallFat(params)
    BY <2>1, <2>2, SMT DEF SmallFat, Mode, Exceeds32, Width32
  <2>3. CASE BigFat(params)
    BY <2>1, <2>3, SMT DEF BigFat, Mode, Exceeds32, Width32
  <2> QED BY <2>1, <2>2, <2>3
<1>2. ASSUME phase = "fit"
      PROVE  /\ DataStart <= params.totSec
             /\ ~Exceeds32((2 + ClustersFitting) * params.fatBits)
  <2> DEFINE m == (params.totSec - DataStart) \div params.secPerClus
  <2>1. /\ params \in ParamSet /\ (SmallFat(params) \/ BigFat(params))
        /\ DataStart \in Nat /\ DataStart <= params.totSec
        /\ ClustersFitting = m
    BY <1>2, FitComputes
  <2>2. m \in Nat /\ m * params.secPerClus <= params.totSec - DataStart
    BY <2>1, NeedBounds, Zenon
  <2>3. params.totSec \in Nat BY <2>1 DEF ParamSet
  <2> HIDE DEF m
  <2>4. CASE SmallFat(params)
    BY <2>1, <2>2, <2>3, <2>4, SMT DEF SmallFat, Mode, Exceeds32, Width32
  <2>5. CASE BigFat(params)
    BY <2>1, <2>2, <2>3, <2>5, SMT DEF BigFat, Mode, Exceeds32, Width32
  <2> QED BY <2>1, <2>4, <2>5
<1>3. ASSUME phase = "accepted", UsesFat
      PROVE  /\ ~Exceeds32(secPerFat * params.bytesPerSec)
             /\ ~Exceeds32((DataStart + params.secPerClus) * params.bytesPerSec)
  <2>1. /\ params \in ParamSet /\ (SmallFat(params) \/ BigFat(params))
        /\ DataStart \in Nat /\ DataStart <= params.totSec /\ InFront(params, DataStart)
        /\ secPerFat \in Nat /\ params.totSec \in Nat
    BY <1>3, FoundFacts DEF ParamSet
  <2>2. Area(params, secPerFat) <= DataStart
    <3>1. /\ Area(params, secPerFat) + params.alignment <= DataStart
          /\ params.alignment \in Nat
      BY <1>3, <2>1 DEF Inv, PlacedInv, ParamSet
    <3>2. Area(params, secPerFat) \in Nat BY <2>1, SMT DEF Area
    <3> QED BY <2>1, <3>1, <3>2, SMT
  <2>3. 2 * secPerFat <= DataStart BY <2>1, <2>2, SMT DEF Area
  <2>4. CASE SmallFat(params)
    BY <2>1, <2>3, <2>4, SMT DEF SmallFat, Mode, Exceeds32, Width32, InFront
  <2>5. CASE BigFat(params)
    BY <2>1, <2>3, <2>5, SMT DEF BigFat, Mode, Exceeds32, Width32, InFront
  <2> QED BY <2>1, <2>4, <2>5
<1> QED BY <1>1, <1>2, <1>3 DEF NoWrap

LEMMA InvFatLayout == Inv => FatLayout
<1> SUFFICES ASSUME Inv, phase = "accepted", UsesFat
             PROVE  /\ params.totSec * (params.bytesPerSec \div 512) <= card
                    /\ DataStart + (maxClus * params.secPerClus) <= params.totSec
                    /\ partStart >= params.alignment
                    /\ DataStart % params.alignment = 0
                    /\ fsAreaSize = rsvdSecCnt + (2 * secPerFat) + RootSectors
                    /\ rsvdSecCnt >= (IF params.fatBits = 32 THEN 9 ELSE 1)
  BY DEF FatLayout
<1> DEFINE phys == params.totSec * (params.bytesPerSec \div 512)
          used == maxClus * params.secPerClus
<1>1. phys <= card
  <2>1. phys <= capacity /\ capacity <= card /\ capacity \in Nat /\ card \in Nat
    BY Types DEF Inv, CapacityInv, Calculated
  <2>2. phys \in Int
    <3>1. params.bytesPerSec \in SectorSizes /\ params.totSec \in Nat
      BY FoundFacts, ModeFacts, Zenon
    <3> QED BY <3>1, SMT DEF SectorSizes
  <2> HIDE DEF phys
  <2> QED BY <2>1, <2>2, SMT
<1>2. DataStart + used <= params.totSec
  <2>1. /\ used <= params.totSec - DataStart
        /\ DataStart \in Nat /\ params.totSec \in Nat
    BY FoundFacts, Zenon DEF ParamSet
  <2>2. used \in Nat
    <3>1. maxClus \in Nat /\ params.secPerClus \in Nat BY FoundFacts DEF ParamSet
    <3> QED BY <3>1, SMT
  <2> HIDE DEF used
  <2> QED BY <2>1, <2>2, SMT
<1> QED BY <1>1, <1>2 DEF Inv, PlacedInv

LEMMA InvFatIsExact == Inv => FatIsExact
BY FoundFacts, Zenon DEF FatIsExact

LEMMA ExfatFacts ==
  ASSUME Inv, phase \in {"check", "accepted"}, ~UsesFat
  PROVE  /\ Exfat(params)
         /\ params.totSec \in Nat /\ params.alignment \in Nat
         /\ exfat.partitionOffset = params.alignment
         /\ exfat.volumeLength = params.totSec - params.alignment
         /\ exfat.fatOffset = params.alignment \div 2
         /\ exfat.fatLength = params.alignment \div 2
         /\ exfat.clusterHeapOffset = params.alignment
         /\ exfat.clusterCount = (params.totSec - (params.alignment * 2)) \div params.secPerClus
<1>1. params \in ParamSet /\ exfat = ExfatFields BY Types DEF Inv, ExfatInv
<1>2. Exfat(params)
  <2>1. ~SmallFat(params) BY SMT DEF SmallFat, Mode, UsesFat
  <2>2. ~BigFat(params) BY SMT DEF BigFat, Mode, UsesFat
  <2> QED BY <2>1, <2>2 DEF Inv, ModeInv
<1> QED BY <1>1, <1>2, Zenon DEF ExfatFields, ParamSet

LEMMA InvExfatLayout == Inv => ExfatLayout
<1> SUFFICES ASSUME Inv, phase = "accepted", ~UsesFat PROVE ExfatLayout BY DEF ExfatLayout
<1>1. /\ card \in Nat /\ capacity \in Nat
      /\ capacity <= card /\ params.totSec * (params.bytesPerSec \div 512) <= capacity
  BY Types DEF Inv, CapacityInv, Calculated
<1> QED BY <1>1, ExfatFacts, SMT DEF Exfat, Mode, ExfatLayout

LEMMA InvBitmap == Inv => BitmapFitsOneCluster
<1> SUFFICES ASSUME Inv, phase = "accepted", ~UsesFat PROVE BitmapFitsOneCluster
  BY DEF BitmapFitsOneCluster
<1> QED BY ExfatFacts, SMT DEF Exfat, Mode, BitmapFitsOneCluster

\* The checks on what was calculated never find anything.
LEMMA VerdictIsRight ==
  ASSUME Inv, phase = "check"
  PROVE  /\ UsesFat => FatVerdict \notin {"entries", "area", "offset"}
         /\ ~UsesFat => ExfatVerdict = "none"
<1>1. ASSUME UsesFat PROVE FatVerdict \notin {"entries", "area", "offset"}
  <2> DEFINE f == secPerFat * params.bytesPerSec
  <2>1. /\ params \in ParamSet /\ (SmallFat(params) \/ BigFat(params))
        /\ secPerFat \in Nat \ {0} /\ maxClus \in Nat
        /\ (2 + maxClus) * params.fatBits <= secPerFat * (params.bytesPerSec * 8)
    BY <1>1, FoundFacts
  <2>2. params.fatBits \in FatVariants /\ params.bytesPerSec \in SectorSizes
    BY <2>1, ModeFacts, Zenon
  <2>3. f \in Nat /\ secPerFat * (params.bytesPerSec * 8) = f * 8
    BY <2>1, <2>2, SMT DEF SectorSizes
  <2> HIDE DEF f
  <2>4. f \div (params.fatBits \div 8) >= maxClus + 2
    <3>1. CASE params.fatBits = 12 BY <2>1, <2>3, <3>1, SMT
    <3>2. CASE params.fatBits = 16 BY <2>1, <2>3, <3>2, SMT
    <3>3. CASE params.fatBits = 32 BY <2>1, <2>3, <3>3, SMT
    <3> QED BY <2>2, <3>1, <3>2, <3>3, SMT DEF FatVariants
  <2>5. ~((secPerFat * params.bytesPerSec) \div (params.fatBits \div 8) < maxClus + 2)
    <3>1. f \div (params.fatBits \div 8) \in Int BY <2>2, <2>3, SMT DEF FatVariants
    <3>2. ~(f \div (params.fatBits \div 8) < maxClus + 2)
      <4> DEFINE e == f \div (params.fatBits \div 8)
      <4>1. e \in Int /\ e >= maxClus + 2 /\ maxClus \in Nat BY <2>1, <2>4, <3>1
      <4> HIDE DEF e
      <4>2. ~(e < maxClus + 2) BY <4>1, SMT
      <4> QED BY <4>2 DEF e
    <3> QED BY <3>2 DEF f
  <2>6. fsAreaSize = rsvdSecCnt + (2 * secPerFat) + RootSectors BY <1>1 DEF Inv, PlacedInv
  <2> QED BY <2>5, <2>6, Zenon DEF FatVerdict
<1>2. ASSUME ~UsesFat PROVE ExfatVerdict = "none"
  BY <1>2, ExfatFacts, SMT DEF Exfat, Mode, ExfatVerdict
<1> QED BY <1>1, <1>2

\* Only Check and the two early refusals set the reason.
LEMMA NextKeepsRight == Inv /\ CalculationsAreRight /\ [Next]_vars => CalculationsAreRight'
<1> SUFFICES ASSUME Inv, CalculationsAreRight, [Next]_vars PROVE CalculationsAreRight' OBVIOUS
<1>1. CASE ChooseCapacity BY <1>1, SMT DEF ChooseCapacity, Refuse, CalculationsAreRight
<1>2. CASE LookUp BY <1>2, SMT DEF LookUp, UseRows, Refuse, CalculationsAreRight
<1>3. CASE Place16 \/ Place32 \/ Fit \/ CalcFormatExFat
  <2>1. reason' = reason BY <1>3, Zenon DEF Place16, Place32, Fit, CalcFormatExFat
  <2> QED BY <2>1 DEF CalculationsAreRight
<1>4. CASE Check
  <2>1. phase = "check" /\ (UsesFat <=> params.fatBits # 64)
    BY <1>4, SMT DEF Check, UsesFat, Inv, TypeOK
  <2>2. (IF params.fatBits = 64 THEN ExfatVerdict ELSE FatVerdict) \notin {"entries", "area", "offset"}
    BY <2>1, VerdictIsRight, SMT
  <2> QED BY <1>4, <2>2, Zenon DEF Check, Refuse, CalculationsAreRight
<1>5. CASE UNCHANGED vars BY <1>5 DEF vars, CalculationsAreRight
<1> QED BY <1>1, <1>2, <1>3, <1>4, <1>5, Zenon DEF Next

\* No u32 of the calculations wraps, whatever the capacity and the flags.
THEOREM NothingWraps == Spec => []NoWrap
BY ParamsInvariant, InvNoWrap, PTL

\* Accepted FAT parameters describe an aligned partition on the card that leaves
\* the MBR and the boot sectors their room.
THEOREM FatIsLaidOut == Spec => []FatLayout
BY ParamsInvariant, InvFatLayout, PTL

\* The FAT has an entry for each cluster and not a sector more than that takes.
THEOREM FatFits == Spec => []FatIsExact
BY ParamsInvariant, InvFatIsExact, PTL

\* Accepted exFAT parameters describe regions that do not overlap and a FAT with an
\* entry for each cluster.
THEOREM ExfatIsLaidOut == Spec => []ExfatLayout
BY ParamsInvariant, InvExfatLayout, PTL

\* The chain writer of exFAT never has to link two clusters.
THEOREM BitmapTakesOneCluster == Spec => []BitmapFitsOneCluster
BY ParamsInvariant, InvBitmap, PTL

\* The checks on the results of the calculations can never fail.
THEOREM CalculationsHold == Spec => []CalculationsAreRight
<1>1. Init => CalculationsAreRight BY DEF Init, CalculationsAreRight
<1> QED BY <1>1, ParamsInvariant, NextKeepsRight, PTL DEF Spec

=============================================================================
