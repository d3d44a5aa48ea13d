--------------------------- MODULE VolLabelProofs ---------------------------
(***************************************************************************)
(* Theorems about the labels, for every label a user may give: of any      *)
(* length, of characters of every width, cut anywhere by the copy of 44    *)
(* bytes in main.                                                          *)
(***************************************************************************)
EXTENDS VolLabel, SequenceTheorems, FiniteSetTheorems, WellFoundedInduction, TLAPS

-----------------------------------------------------------------------------
(* The copy in main.                                                       *)

\* A set of numbers has a least one.
LEMMA LeastNatural ==
  ASSUME NEW T \in SUBSET Nat, T # {}
  PROVE  \E x \in T : \A y \in T : x <= y
<1>1. PICK x \in T : \A y \in T : ~(<<y, x>> \in OpToRel(<, Nat))
  BY NatLessThanWellFounded, WFMin
<1>2. ASSUME NEW y \in T  PROVE x <= y
  <2>1. ~(y < x)  BY <1>1 DEF OpToRel
  <2> QED  BY <2>1
<1> QED  BY <1>2

\* The octets of a label: character, and byte of the character.
Octets(l) == {o \in (1 .. Len(l)) \X (1 .. 4) : o[2] <= Width(l[o[1]])}

LEMMA BytesType ==
  ASSUME NEW S, NEW l \in Seq(S)
  PROVE  Bytes(l) \in Nat
<1>1. Len(l) \in Nat  BY LenProperties
<1>2. IsFiniteSet((1 .. Len(l)) \X (1 .. 4))
  <2>1. 1 \in Int /\ 4 \in Int /\ Len(l) \in Int  BY <1>1
  <2>2. IsFiniteSet(1 .. Len(l)) /\ IsFiniteSet(1 .. 4)  BY <2>1, FS_Interval
  <2> QED  BY <2>2, FS_Product
<1>3. Octets(l) \subseteq (1 .. Len(l)) \X (1 .. 4)  BY DEF Octets
<1>4. IsFiniteSet(Octets(l))  BY <1>2, <1>3, FS_Subset
<1> QED  BY <1>4, FS_CardinalityType DEF Bytes, Octets

LEMMA NoBytes == Bytes(<<>>) = 0
<1>1. Octets(<<>>) = {}
  <2>1. Len(<<>>) = 0  BY EmptySeq
  <2> QED  BY <2>1 DEF Octets
<1> QED  BY <1>1, FS_EmptySet DEF Bytes, Octets

\* Characters of at most n bytes take at most n times as many bytes.
LEMMA BytesBound ==
  ASSUME NEW S, NEW l \in Seq(S), NEW n \in 0 .. 4, \A i \in 1 .. Len(l) : Width(l[i]) <= n
  PROVE  Bytes(l) <= Len(l) * n
<1>1. Len(l) \in Nat /\ n \in Nat  BY LenProperties
<1>2. /\ IsFiniteSet(1 .. Len(l)) /\ Cardinality(1 .. Len(l)) = Len(l)
      /\ IsFiniteSet(1 .. n) /\ Cardinality(1 .. n) = n
  <2>1. ASSUME NEW m \in Nat  PROVE IsFiniteSet(1 .. m) /\ Cardinality(1 .. m) = m
    <3>1. PICK a \in Int : a = 1  OBVIOUS
    <3>2. m \in Int  OBVIOUS
    <3>3. IsFiniteSet(a .. m) /\ Cardinality(a .. m) = IF a > m THEN 0 ELSE m - a + 1
      BY <3>1, <3>2, FS_Interval
    <3>4. (IF a > m THEN 0 ELSE m - a + 1) = m  BY <3>1
    <3> QED  BY <3>1, <3>3, <3>4
  <2> QED  BY <1>1, <2>1
<1>3. IsFiniteSet((1 .. Len(l)) \X (1 .. n)) /\ Cardinality((1 .. Len(l)) \X (1 .. n)) = Len(l) * n
  BY <1>2, FS_Product
<1>4. Octets(l) \subseteq (1 .. Len(l)) \X (1 .. n)
  <2> SUFFICES ASSUME NEW o \in Octets(l) PROVE o \in (1 .. Len(l)) \X (1 .. n)  OBVIOUS
  <2>1. o \in (1 .. Len(l)) \X (1 .. 4) /\ o[2] <= Width(l[o[1]])  BY DEF Octets
  <2>2. PICK i \in 1 .. Len(l), b \in 1 .. 4 : o = <<i, b>>  BY <2>1
  <2>3. b <= Width(l[i]) /\ Width(l[i]) <= n /\ Width(l[i]) \in Nat  BY <2>1, <2>2 DEF Width
  <2>4. b \in 1 .. n  BY <2>3
  <2> QED  BY <2>2, <2>4
<1>5. Cardinality(Octets(l)) <= Len(l) * n  BY <1>3, <1>4, FS_Subset
<1> QED  BY <1>5 DEF Bytes, Octets

\* There is a longest part of the label that the copy has whole.
LEMMA KeptIs ==
  ASSUME NEW S, NEW l \in Seq(S)
  PROVE  /\ Kept(l) \in Prefixes(l)
         /\ Bytes(Kept(l)) <= MaxBytes
         /\ Kept(l) = l \/ Bytes(Append(Kept(l), l[Len(Kept(l)) + 1])) > MaxBytes
<1> DEFINE n == Len(l)
           part(k) == SubSeq(l, 1, k)
           G == {k \in 0 .. n : k = n \/ Bytes(part(k + 1)) > MaxBytes}
<1>1. n \in Nat  BY LenProperties
<1>2. \A k \in 0 .. n : part(k) \in Seq(S) /\ Len(part(k)) = k /\ \A i \in 1 .. k : part(k)[i] = l[i]
  BY <1>1, SubSeqProperties
<1>3. part(n) = l  BY <1>1, <1>2, SeqEqual
<1>4. part(0) = <<>>  BY <1>1, <1>2, EmptySeq
<1>5. \A k \in 0 .. n : Bytes(part(k)) \in Nat  BY <1>2, BytesType
<1>6. \A k \in 0 .. n - 1 : Append(part(k), l[k + 1]) = part(k + 1)
  <2> TAKE k \in 0 .. n - 1
  <2>1. k \in 0 .. n /\ k + 1 \in 0 .. n /\ k + 1 \in 1 .. n  BY <1>1
  <2>2. l[k + 1] \in S  BY <2>1, ElementOfSeq
  <2> DEFINE p == part(k)
             q == part(k + 1)
  <2>3. /\ p \in Seq(S) /\ Len(p) = k /\ \A i \in 1 .. k : p[i] = l[i]
        /\ q \in Seq(S) /\ Len(q) = k + 1 /\ \A i \in 1 .. k + 1 : q[i] = l[i]
    BY <1>2, <2>1
  <2> HIDE DEF p, q
  <2>4. /\ Append(p, l[k + 1]) \in Seq(S) /\ Len(Append(p, l[k + 1])) = k + 1
        /\ \A i \in 1 .. k : Append(p, l[k + 1])[i] = p[i]
        /\ Append(p, l[k + 1])[k + 1] = l[k + 1]
    BY <2>2, <2>3, AppendProperties
  <2>5. \A i \in 1 .. k + 1 : Append(p, l[k + 1])[i] = q[i]
    <3> TAKE i \in 1 .. k + 1
    <3>1. i \in 1 .. k \/ i = k + 1  BY <2>1
    <3> QED  BY <2>1, <2>3, <2>4, <3>1
  <2>6. Append(p, l[k + 1]) = q  BY <2>3, <2>4, <2>5, SeqEqual
  <2> QED  BY <2>6 DEF p, q
<1> HIDE DEF n, part
<1>7. PICK k \in G : \A j \in G : k <= j
  <2>1. n \in G  BY <1>1
  <2>2. G \subseteq Nat  OBVIOUS
  <2> QED  BY <2>1, <2>2, LeastNatural
<1>8. Bytes(part(k)) <= MaxBytes
  <2>1. CASE k = 0  BY <1>4, <2>1, NoBytes DEF MaxBytes
  <2>2. CASE k # 0
    <3>1. k - 1 \in 0 .. n /\ k - 1 # n /\ (k - 1) + 1 = k /\ k \in 0 .. n /\ ~(k <= k - 1)
      BY <1>1, <1>7, <2>2
    <3>2. k - 1 \notin G  BY <1>7, <3>1
    <3>3. ~(Bytes(part(k)) > MaxBytes)  BY <3>1, <3>2
    <3> QED  BY <1>5, <3>1, <3>3 DEF MaxBytes
  <2> QED  BY <2>1, <2>2
<1>9. part(k) = l \/ Bytes(Append(part(k), l[Len(part(k)) + 1])) > MaxBytes
  <2>1. CASE k = n  BY <1>3, <2>1
  <2>2. CASE k # n
    <3>1. k \in 0 .. n - 1 /\ k \in 0 .. n /\ Bytes(part(k + 1)) > MaxBytes  BY <1>1, <1>7, <2>2
    <3> QED  BY <1>2, <1>6, <3>1
  <2> QED  BY <2>1, <2>2
<1>10. part(k) \in Prefixes(l)
  <2>1. k \in 0 .. Len(l)  BY <1>7 DEF n
  <2> QED  BY <2>1 DEF Prefixes, part
<1>11. \E p \in Prefixes(l) :
         /\ Bytes(p) <= MaxBytes
         /\ p = l \/ Bytes(Append(p, l[Len(p) + 1])) > MaxBytes
  BY <1>8, <1>9, <1>10
<1> QED  BY <1>11 DEF Kept

LEMMA KeptType ==
  ASSUME NEW S, NEW l \in Seq(S)
  PROVE  Kept(l) \in Seq(S)
<1>1. PICK k \in 0 .. Len(l) : Kept(l) = SubSeq(l, 1, k)  BY KeptIs DEF Prefixes
<1>2. Len(l) \in Nat  BY LenProperties
<1> QED  BY <1>1, <1>2, SubSeqProperties

\* A FAT label that the copy cut is too long, or not whole.
LEMMA CutIsSeen ==
  ASSUME NEW l \in Seq(Class), ~CutInside(l), Len(Kept(l)) <= 11,
         \A i \in 1 .. Len(Kept(l)) : Kept(l)[i] \in InTable
  PROVE  Kept(l) = l
<1> DEFINE p == Kept(l)
<1>1. p \in Seq(Class) /\ Len(p) \in Nat  BY KeptType, LenProperties
<1>2. \A i \in 1 .. Len(p) : Width(p[i]) <= 3  BY DEF InTable, Width
<1>3. Bytes(p) <= Len(p) * 3 /\ Bytes(p) \in Nat
  <2> HIDE DEF p
  <2>1. PICK n \in 0 .. 4 : n = 3  OBVIOUS
  <2>2. Bytes(p) <= Len(p) * n  BY <1>1, <1>2, <2>1, BytesBound
  <2> QED  BY <1>1, <2>1, <2>2, BytesType
<1>4. Bytes(p) < MaxBytes  BY <1>1, <1>3 DEF MaxBytes
<1> QED  BY <1>4 DEF CutInside

-----------------------------------------------------------------------------
(* The conversions.                                                        *)

Units == Class \cup {"high", "low"}

\* No pair of units is torn.
Paired(u) ==
  \A i \in 1 .. Len(u) :
    /\ u[i] = "high" => i < Len(u) /\ u[i + 1] = "low"
    /\ u[i] = "low" => i > 1 /\ u[i - 1] = "high"

\* The characters are those of a copy that is whole, and not too many.
WholeCopy == wLabel = Kept(given) /\ ~CutInside(given) /\ Len(wLabel) <= 11

\* What mbstowcs puts into the buffer: at most twelve characters, and all of the
\* copy if they are less.
LEMMA WideIs ==
  ASSUME NEW l \in Seq(Class)
  PROVE  /\ Wide(l) \in Seq(Class) /\ Len(Wide(l)) \in Nat /\ Len(Wide(l)) <= 12
         /\ Len(Wide(l)) <= 11 => Wide(l) = l /\ Len(l) < Wanted
<1> DEFINE n == IF Len(l) < 12 THEN Len(l) ELSE 12
           w == SubSeq(l, 1, n)
<1>1. Len(l) \in Nat /\ n \in 0 .. Len(l) /\ n <= 12 /\ (n <= 11 => n = Len(l) /\ Len(l) < 12)
  BY LenProperties
<1>2. w \in Seq(Class) /\ Len(w) = n /\ \A i \in 1 .. n : w[i] = l[i]
  <2> HIDE DEF n
  <2> QED  BY <1>1, SubSeqProperties
<1>3. n = Len(l) => w = l
  <2> HIDE DEF n
  <2> QED  BY <1>1, <1>2, SeqEqual
<1>4. Wide(l) = w  BY DEF Wide, Wanted
<1> HIDE DEF n, w
<1> QED  BY <1>1, <1>2, <1>3, <1>4 DEF Wanted

\* Units after a paired sequence: one character, or a pair.
LEMMA PairedAfter ==
  ASSUME NEW u, NEW v, Len(u) \in Nat, Paired(u),
         \A i \in 1 .. Len(u) : v[i] = u[i],
         \/ Len(v) = Len(u) + 1 /\ v[Len(u) + 1] \notin {"high", "low"}
         \/ Len(v) = Len(u) + 2 /\ v[Len(u) + 1] = "high" /\ v[Len(u) + 2] = "low"
  PROVE  Paired(v)
<1> SUFFICES ASSUME NEW i \in 1 .. Len(v)
             PROVE  /\ v[i] = "high" => i < Len(v) /\ v[i + 1] = "low"
                    /\ v[i] = "low" => i > 1 /\ v[i - 1] = "high"
  BY DEF Paired
<1>1. CASE i \in 1 .. Len(u)
  <2>1. v[i] = "high" => i < Len(u) /\ u[i + 1] = "low"  BY <1>1 DEF Paired
  <2>2. v[i] = "high" => i + 1 \in 1 .. Len(u)  BY <1>1, <2>1
  <2>3. v[i] = "low" => i > 1 /\ u[i - 1] = "high"  BY <1>1 DEF Paired
  <2>4. v[i] = "low" => i - 1 \in 1 .. Len(u)  BY <1>1, <2>3
  <2>5. Len(v) > Len(u)  OBVIOUS
  <2> QED  BY <1>1, <2>1, <2>2, <2>3, <2>4, <2>5
<1>2. CASE i = Len(u) + 1  BY <1>2
<1>3. CASE i = Len(u) + 2  BY <1>3
<1> QED  BY <1>1, <1>2, <1>3

\* wchar2cp850 has converted the characters before the next one.
Converted ==
  /\ length \in Nat
  /\ out \in Seq(Class) /\ Len(out) = next - 1 /\ Len(out) <= 11
  /\ \A i \in 1 .. Len(out) : wLabel[i] \in InTable /\ out[i] = Written(wLabel[i])

Checked == length = Len(wLabel) /\ Acceptable(out)

FatInv ==
  /\ Converted
  /\ step \in {"check", "accepted"} => next = Len(wLabel) + 1
  /\ step = "accepted" => Checked

ExfatInv ==
  /\ step # "check"
  /\ out \in Seq(Units) /\ length = Len(out) /\ Len(out) <= 11 /\ Paired(out)

Indexed ==
  /\ wLabel \in Seq(Class) /\ Len(wLabel) <= 12
  /\ next \in Nat \ {0} /\ next <= Len(wLabel) + 1

LabelInv ==
  /\ given \in Labels /\ given \in Seq(Class)
  /\ step \in {"start", "convert", "check", "accepted", "refused"}
  /\ Indexed
  /\ step = "start" => wLabel = <<>>
  /\ step \notin {"start", "refused"} => WholeCopy
  /\ \/ fs = "fat" /\ FatInv
     \/ fs = "exfat" /\ ExfatInv

LEMMA LabelInit == Init => LabelInv
<1> SUFFICES ASSUME Init PROVE LabelInv  OBVIOUS
<1> USE DEF Init
<1>1. given \in Seq(Class)  BY LabelsAssumption
<1>2. /\ wLabel \in Seq(Class) /\ Len(wLabel) = 0
      /\ out \in Seq(Class) /\ out \in Seq(Units) /\ Len(out) = 0
  BY EmptySeq
<1>3. Indexed  BY <1>2 DEF Indexed
<1>4. Converted  BY <1>2 DEF Converted
<1>5. ExfatInv  BY <1>2 DEF ExfatInv, Paired
<1>6. FatInv  BY <1>4 DEF FatInv
<1> QED  BY <1>1, <1>3, <1>5, <1>6 DEF LabelInv

LEMMA ToWideStep == LabelInv /\ ToWide => LabelInv'
<1> SUFFICES ASSUME LabelInv, ToWide PROVE LabelInv'  OBVIOUS
<1> DEFINE kept == Kept(given)
           fails == CutInside(given) /\ Len(kept) < Wanted
<1>1. /\ step = "start" /\ given' = given /\ fs' = fs /\ next' = next /\ length' = length /\ out' = out
      /\ wLabel' = Wide(kept)
      /\ step' = IF fails \/ Len(wLabel') > 11 THEN "refused" ELSE "convert"
  BY DEF ToWide
<1>2. kept \in Seq(Class)  BY KeptType DEF LabelInv
<1> HIDE DEF kept
<1>3. Indexed /\ Len(wLabel) = 0  BY <1>1, EmptySeq DEF LabelInv
<1>4. next = 1  BY <1>3 DEF Indexed
<1>5. Indexed'
  <2>1. wLabel' \in Seq(Class) /\ Len(wLabel') \in Nat /\ Len(wLabel') <= 12  BY <1>1, <1>2, WideIs
  <2> QED  BY <1>1, <1>4, <2>1 DEF Indexed
<1>6. (step' \notin {"start", "refused"} => WholeCopy')
  <2> SUFFICES ASSUME step' # "refused" PROVE WholeCopy'  OBVIOUS
  <2>1. ~fails /\ ~(Len(wLabel') > 11)  BY <1>1
  <2>2. Len(wLabel') <= 11  BY <1>1, <1>2, <2>1, WideIs
  <2>3. wLabel' = kept /\ Len(kept) < Wanted  BY <1>1, <1>2, <2>2, WideIs
  <2>4. ~CutInside(given)  BY <2>1, <2>3
  <2> QED  BY <1>1, <2>2, <2>3, <2>4 DEF WholeCopy, kept
<1>7. ASSUME FatInv PROVE FatInv'
  <2>1. Converted /\ Len(out) = 0  BY <1>4, <1>7 DEF FatInv, Converted
  <2>2. Converted'  BY <1>1, <2>1 DEF Converted
  <2> QED  BY <1>1, <2>2 DEF FatInv
<1>8. ASSUME ExfatInv PROVE ExfatInv'  BY <1>1, <1>8 DEF ExfatInv, Paired
<1> QED  BY <1>1, <1>5, <1>6, <1>7, <1>8 DEF LabelInv

LEMMA FatCharStep == LabelInv /\ FatChar => LabelInv'
<1> SUFFICES ASSUME LabelInv, FatChar PROVE LabelInv'  OBVIOUS
<1> DEFINE c == wLabel[next]
<1>1. /\ step = "convert" /\ fs = "fat" /\ next <= Len(wLabel)
      /\ given' = given /\ fs' = fs /\ wLabel' = wLabel /\ length' = length
      /\ \/ step' = "refused" /\ out' = out /\ next' = next
         \/ c \in InTable /\ out' = Append(out, Written(c)) /\ next' = next + 1 /\ step' = step
  BY DEF FatChar, Finish
<1>2. Indexed /\ FatInv /\ Converted  BY <1>1 DEF LabelInv, FatInv
<1>3. Len(wLabel) \in Nat  BY <1>2, LenProperties DEF Indexed
<1>4. Indexed'  BY <1>1, <1>2, <1>3 DEF Indexed
<1>5. (step' \notin {"start", "refused"} => WholeCopy')  BY <1>1 DEF LabelInv, WholeCopy
<1>6. Converted'
  <2>1. CASE out' = out /\ next' = next  BY <1>1, <1>2, <2>1 DEF Converted
  <2>2. CASE c \in InTable /\ out' = Append(out, Written(c)) /\ next' = next + 1
    <3>1. out \in Seq(Class) /\ Len(out) = next - 1 /\ next \in Nat \ {0}
      BY <1>2 DEF Converted, Indexed
    <3>2. next <= 11  BY <1>1, <1>3, <3>1 DEF LabelInv, WholeCopy
    <3> DEFINE b == Written(c)
    <3>3. b \in Class  BY <2>2 DEF Written, InTable, Class
    <3> HIDE DEF b
    <3>4. /\ out' \in Seq(Class) /\ Len(out') = next
          /\ \A i \in 1 .. Len(out) : out'[i] = out[i]
          /\ out'[next] = b
      <4>1. /\ Append(out, b) \in Seq(Class) /\ Len(Append(out, b)) = Len(out) + 1
            /\ \A i \in 1 .. Len(out) : Append(out, b)[i] = out[i]
            /\ Append(out, b)[Len(out) + 1] = b
        BY <3>1, <3>3, AppendProperties
      <4>2. Len(out) + 1 = next  BY <3>1
      <4>3. out' = Append(out, b)  BY <2>2 DEF b
      <4> QED  BY <4>1, <4>2, <4>3
    <3>5. \A i \in 1 .. next : wLabel[i] \in InTable /\ out'[i] = Written(wLabel[i])
      <4> TAKE i \in 1 .. next
      <4>1. i \in 1 .. Len(out) \/ i = next  BY <3>1
      <4>2. CASE i \in 1 .. Len(out)  BY <1>2, <3>4, <4>2 DEF Converted
      <4>3. CASE i = next  BY <2>2, <3>4, <4>3 DEF b
      <4> QED  BY <4>1, <4>2, <4>3
    <3>6. next' - 1 = next  BY <2>2, <3>1
    <3> QED  BY <1>1, <1>2, <3>2, <3>4, <3>5, <3>6 DEF Converted
  <2> QED  BY <1>1, <2>1, <2>2
<1>7. FatInv'  BY <1>1, <1>6 DEF FatInv
<1> QED
  <2>1. given' \in Labels /\ given' \in Seq(Class)  BY <1>1 DEF LabelInv
  <2>2. step' \in {"start", "convert", "check", "accepted", "refused"} /\ step' # "start"  BY <1>1
  <2>3. fs' = "fat"  BY <1>1
  <2> QED  BY <1>4, <1>5, <1>7, <2>1, <2>2, <2>3 DEF LabelInv

LEMMA FatConvertedStep == LabelInv /\ FatConverted => LabelInv'
<1> SUFFICES ASSUME LabelInv, FatConverted PROVE LabelInv'  OBVIOUS
<1>1. /\ step = "convert" /\ fs = "fat" /\ next > Len(wLabel) /\ step' = "check"
      /\ given' = given /\ fs' = fs /\ wLabel' = wLabel /\ length' = length
      /\ next' = next /\ out' = out
  BY DEF FatConverted
<1>2. Indexed /\ FatInv /\ Converted  BY <1>1 DEF LabelInv, FatInv
<1>3. Indexed' /\ Converted'  BY <1>1, <1>2 DEF Indexed, Converted
<1>4. next = Len(wLabel) + 1
  <2>1. Len(wLabel) \in Nat  BY <1>2, LenProperties DEF Indexed
  <2> QED  BY <1>1, <1>2, <2>1 DEF Indexed
<1>5. (step' \notin {"start", "refused"} => WholeCopy')  BY <1>1 DEF LabelInv, WholeCopy
<1>6. FatInv'  BY <1>1, <1>3, <1>4 DEF FatInv
<1> QED
  <2>1. given' \in Labels /\ given' \in Seq(Class)  BY <1>1 DEF LabelInv
  <2>2. step' \in {"start", "convert", "check", "accepted", "refused"} /\ step' # "start"  BY <1>1
  <2>3. fs' = "fat"  BY <1>1
  <2> QED  BY <1>3, <1>5, <1>6, <2>1, <2>2, <2>3 DEF LabelInv

LEMMA FatCheckStep == LabelInv /\ FatCheck => LabelInv'
<1> SUFFICES ASSUME LabelInv, FatCheck PROVE LabelInv'  OBVIOUS
<1>1. /\ step = "check" /\ length' = Len(wLabel)
      /\ \/ step' = "accepted" /\ Acceptable(out)
         \/ step' = "refused"
      /\ given' = given /\ fs' = fs /\ wLabel' = wLabel /\ next' = next /\ out' = out
  BY DEF FatCheck, Finish
<1>2. fs = "fat" /\ Indexed /\ FatInv /\ Converted  BY <1>1 DEF LabelInv, FatInv, ExfatInv
<1>3. Len(wLabel) \in Nat  BY <1>2, LenProperties DEF Indexed
<1>4. Indexed' /\ Converted'  BY <1>1, <1>2, <1>3 DEF Indexed, Converted
<1>5. (step' \notin {"start", "refused"} => WholeCopy')  BY <1>1 DEF LabelInv, WholeCopy
<1>6. next = Len(wLabel) + 1  BY <1>1, <1>2 DEF FatInv
<1>7. (step' = "accepted" => Checked')  BY <1>1 DEF Checked, Acceptable
<1>8. FatInv'  BY <1>1, <1>4, <1>6, <1>7 DEF FatInv
<1> QED
  <2>1. given' \in Labels /\ given' \in Seq(Class)  BY <1>1 DEF LabelInv
  <2>2. step' \in {"start", "convert", "check", "accepted", "refused"} /\ step' # "start"  BY <1>1
  <2>3. fs' = "fat"  BY <1>1, <1>2
  <2> QED  BY <1>4, <1>5, <1>8, <2>1, <2>2, <2>3 DEF LabelInv

LEMMA ExfatCharStep == LabelInv /\ ExfatChar => LabelInv'
<1> SUFFICES ASSUME LabelInv, ExfatChar PROVE LabelInv'  OBVIOUS
<1> DEFINE c == wLabel[next]
<1>1. /\ step = "convert" /\ fs = "exfat" /\ length < 11 /\ next <= Len(wLabel) /\ next' = next + 1
      /\ given' = given /\ fs' = fs /\ wLabel' = wLabel
      /\ \/ c # "supp" /\ out' = Append(out, c) /\ length' = length + 1 /\ step' = step
         \/ out' = out /\ length' = length /\ step' = "refused"
         \/ length + 1 < 11 /\ out' = out \o <<"high", "low">> /\ length' = length + 2 /\ step' = step
  BY DEF ExfatChar, Finish, PairFits, PairUnits
<1>2. Indexed /\ ExfatInv  BY <1>1 DEF LabelInv
<1>3. Len(wLabel) \in Nat  BY <1>2, LenProperties DEF Indexed
<1>4. Indexed'  BY <1>1, <1>2, <1>3 DEF Indexed
<1>5. (step' \notin {"start", "refused"} => WholeCopy')  BY <1>1 DEF LabelInv, WholeCopy
<1>6. out \in Seq(Units) /\ length = Len(out) /\ Len(out) \in Nat /\ Len(out) <= 11 /\ Paired(out)
  BY <1>2, LenProperties DEF ExfatInv
<1>7. c \in Class
  <2>1. next \in 1 .. Len(wLabel) /\ wLabel \in Seq(Class)  BY <1>1, <1>2, <1>3 DEF Indexed
  <2> QED  BY <2>1, ElementOfSeq
<1> HIDE DEF c
<1>8. out' \in Seq(Units) /\ length' = Len(out') /\ Len(out') <= 11 /\ Paired(out')
  <2>1. CASE out' = Append(out, c) /\ length' = length + 1
    <3>1. c \in Units /\ c # "high" /\ c # "low"  BY <1>7 DEF Units, Class
    <3>2. /\ Append(out, c) \in Seq(Units) /\ Len(Append(out, c)) = Len(out) + 1
          /\ \A i \in 1 .. Len(out) : Append(out, c)[i] = out[i]
          /\ Append(out, c)[Len(out) + 1] = c
      BY <1>6, <3>1, AppendProperties
    <3>3. Paired(out')  BY <1>6, <2>1, <3>1, <3>2, PairedAfter
    <3> QED  BY <1>1, <1>6, <2>1, <3>2, <3>3
  <2>2. CASE out' = out /\ length' = length  BY <1>6, <2>2
  <2>3. CASE length + 1 < 11 /\ out' = out \o <<"high", "low">> /\ length' = length + 2
    <3> DEFINE pair == <<"high", "low">>
    <3>1. pair \in Seq(Units) /\ Len(pair) = 2 /\ pair[1] = "high" /\ pair[2] = "low"  BY DEF Units
    <3> HIDE DEF pair
    <3>2. /\ out \o pair \in Seq(Units) /\ Len(out \o pair) = Len(out) + Len(pair)
          /\ \A i \in 1 .. Len(out) + Len(pair) :
               (out \o pair)[i] = IF i <= Len(out) THEN out[i] ELSE pair[i - Len(out)]
      BY <1>6, <3>1, ConcatProperties
    <3>3. out' = out \o pair  BY <2>3 DEF pair
    <3>4. \A i \in 1 .. Len(out) : out'[i] = out[i]  BY <1>6, <3>1, <3>2, <3>3
    <3>5. out'[Len(out) + 1] = "high" /\ out'[Len(out) + 2] = "low"
      <4>1. Len(out) + 1 \in 1 .. Len(out) + 2 /\ Len(out) + 2 \in 1 .. Len(out) + 2  BY <1>6
      <4>2. (Len(out) + 1) - Len(out) = 1 /\ (Len(out) + 2) - Len(out) = 2  BY <1>6
      <4>3. ~(Len(out) + 1 <= Len(out)) /\ ~(Len(out) + 2 <= Len(out))  BY <1>6
      <4> QED  BY <3>1, <3>2, <3>3, <4>1, <4>2, <4>3
    <3>6. Paired(out')  BY <1>6, <3>1, <3>2, <3>3, <3>4, <3>5, PairedAfter
    <3> QED  BY <1>6, <2>3, <3>1, <3>2, <3>3, <3>6
  <2> QED  BY <1>1, <2>1, <2>2, <2>3
<1>9. ExfatInv'  BY <1>1, <1>8 DEF ExfatInv
<1> QED
  <2>1. given' \in Labels /\ given' \in Seq(Class)  BY <1>1 DEF LabelInv
  <2>2. step' \in {"start", "convert", "check", "accepted", "refused"} /\ step' # "start"  BY <1>1
  <2>3. fs' = "exfat"  BY <1>1
  <2> QED  BY <1>4, <1>5, <1>9, <2>1, <2>2, <2>3 DEF LabelInv

LEMMA ExfatDoneStep == LabelInv /\ ExfatDone => LabelInv'
<1> SUFFICES ASSUME LabelInv, ExfatDone PROVE LabelInv'  OBVIOUS
<1>1. /\ step = "convert" /\ fs = "exfat" /\ step' = "accepted"
      /\ given' = given /\ fs' = fs /\ wLabel' = wLabel /\ next' = next
      /\ length' = length /\ out' = out
  BY DEF ExfatDone, Finish
<1>2. Indexed /\ ExfatInv /\ WholeCopy  BY <1>1 DEF LabelInv
<1>3. Indexed' /\ ExfatInv' /\ WholeCopy'  BY <1>1, <1>2 DEF Indexed, ExfatInv, WholeCopy
<1> QED  BY <1>1, <1>3 DEF LabelInv

LEMMA LabelAlways == Spec => []LabelInv
<1>1. LabelInv /\ [Next]_vars => LabelInv'
  <2> SUFFICES ASSUME LabelInv, [Next]_vars PROVE LabelInv'  OBVIOUS
  <2>1. CASE UNCHANGED vars
    BY <2>1 DEF vars, LabelInv, Indexed, WholeCopy, FatInv, Converted, Checked, ExfatInv
  <2>2. CASE Next
    BY <2>2, ToWideStep, FatCharStep, FatConvertedStep, FatCheckStep, ExfatCharStep, ExfatDoneStep DEF Next
  <2> QED  BY <2>1, <2>2
<1> QED  BY <1>1, LabelInit, PTL DEF Spec

-----------------------------------------------------------------------------
(* The theorems.                                                           *)

\* For every label, also one that is refused: mbstowcs stays inside wLabel, and
\* neither conversion writes behind its buffer.
THEOREM LabelsFit == Spec => []OutputFits
<1>1. LabelInv => OutputFits
  <2> SUFFICES ASSUME LabelInv PROVE OutputFits  OBVIOUS
  <2>1. Len(wLabel) \in Nat /\ Len(wLabel) <= 12  BY LenProperties DEF LabelInv, Indexed
  <2>2. Len(out) \in Nat /\ Len(out) <= 11
    <3>1. CASE FatInv  BY <3>1, LenProperties DEF FatInv, Converted
    <3>2. CASE ExfatInv  BY <3>2, LenProperties DEF ExfatInv
    <3> QED  BY <3>1, <3>2 DEF LabelInv
  <2> QED  BY <2>1, <2>2 DEF OutputFits, WideSize
<1> QED  BY <1>1, LabelAlways, PTL

\* For every label: the count that is returned is that of the units written, and
\* every surrogate is written with its other half.
THEOREM LabelIsCounted == Spec => []UnitsCounted
<1>1. LabelInv => UnitsCounted
  <2> SUFFICES ASSUME LabelInv, step = "accepted" PROVE UnitsCounted  BY DEF UnitsCounted
  <2>1. length = Len(out) /\ Paired(out) /\ DOMAIN out = 1 .. Len(out)
    <3>1. CASE FatInv
      <4>1. Converted /\ Checked /\ next = Len(wLabel) + 1  BY <3>1 DEF FatInv
      <4>2. Len(wLabel) \in Nat  BY LenProperties DEF LabelInv, Indexed
      <4>3. out \in Seq(Class) /\ length = Len(out)  BY <4>1, <4>2 DEF Converted, Checked
      <4>4. \A i \in 1 .. Len(out) : out[i] \in Class  BY <4>3, ElementOfSeq
      <4>5. Paired(out)  BY <4>4 DEF Paired, Class
      <4> QED  BY <4>3, <4>5, LenProperties
    <3>2. CASE ExfatInv  BY <3>2, LenProperties DEF ExfatInv
    <3> QED  BY <3>1, <3>2 DEF LabelInv
  <2> QED  BY <2>1 DEF UnitsCounted, Paired
<1> QED  BY <1>1, LabelAlways, PTL

\* For every label: if it is accepted for FAT, what is written has all of its
\* characters, although main copies no more than 44 bytes and mbstowcs stops at
\* twelve characters, and each of them, but for U+ACCE, reads as it was given.
THEOREM LabelIsWhole == Spec => []FatLabelIsGiven
<1>1. LabelInv => FatLabelIsGiven
  <2> SUFFICES ASSUME LabelInv, step = "accepted", fs = "fat" PROVE FatLabelIsGiven
    BY DEF FatLabelIsGiven
  <2>1. Converted /\ Checked /\ next = Len(wLabel) + 1 /\ WholeCopy /\ given \in Seq(Class)
    BY DEF LabelInv, FatInv
  <2>2. Len(wLabel) \in Nat /\ Len(wLabel) <= 11
    BY <2>1, LenProperties DEF LabelInv, Indexed, WholeCopy
  <2>3. /\ Len(out) = Len(wLabel) /\ DOMAIN out = 1 .. Len(out)
        /\ \A i \in 1 .. Len(out) : wLabel[i] \in InTable /\ out[i] = Written(wLabel[i])
    BY <2>1, <2>2, LenProperties DEF Converted
  <2>4. wLabel = given  BY <2>1, <2>2, <2>3, CutIsSeen DEF WholeCopy
  <2> QED  BY <2>1, <2>2, <2>3, <2>4 DEF FatLabelIsGiven, Checked, Acceptable, Written
<1> QED  BY <1>1, LabelAlways, PTL
=============================================================================
