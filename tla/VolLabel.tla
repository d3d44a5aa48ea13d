------------------------------ MODULE VolLabel ------------------------------
(***************************************************************************)
(* The way of a volume label from the command line to the file system:     *)
(* the copy main makes of it (source/main.cpp), and convertCheckFatLabel   *)
(* and convertCheckExfatLabel (source/vol_label.cpp), character by         *)
(* character.                                                              *)
(*                                                                         *)
(* A character is the class the code puts it in:                           *)
(*   "plain"    ASCII that is allowed in a FAT label                       *)
(*   "space"    the space                                                  *)
(*   "special"  ASCII that is not allowed in a FAT label                   *)
(*   "latin"    0x80 to 0x7FF, in cp850Lut                                 *)
(*   "box"      0x800 to 0xFFFF, in cp850Lut (0x2017, 0x2500 to 0x25A0)    *)
(*   "acute"    U+00B4, 0xEF of code page 850, not in cp850Lut             *)
(*   "acce"     U+ACCE, which cp850Lut has at 0xEF                         *)
(*   "greek"    other characters of 0x80 to 0x7FF                          *)
(*   "bmp"      other characters of 0x800 to 0xFFFF                        *)
(*   "supp"     0x10000 and above, which UTF-16 needs two units for        *)
(***************************************************************************)
EXTENDS Naturals, FiniteSets, SequencesExt

CONSTANT Labels  \* bound: what the user may give with -l

Class == {"plain", "space", "special", "latin", "box", "acute", "acce", "greek", "bmp", "supp"}

\* ASCII and cp850Lut.
InTable == {"plain", "space", "special", "latin", "box", "acce"}

\* The character a byte stands for in code page 850, of the byte wchar2cp850
\* writes for a character of the table.
Written(c) == IF c = "acce" THEN "acute" ELSE c

ASSUME LabelsAssumption == \A l \in Labels : l # <<>> /\ l \in Seq(Class)

VARIABLES
  given,        \* optarg
  fs,           \* params.fatBits < 64, or not
  step,         \* where the conversion is
  wLabel,       \* the wide characters, without their terminator
  next,         \* index of the next one
  length,       \* count of UTF-16 units, returned
  out           \* dosLabel, as code page 850 reads it, or utf16Label

vars == <<given, fs, step, wLabel, next, length, out>>

\* Bytes of a character in UTF-8.
Width(c) ==
  CASE c = "supp" -> 4
    [] c \in {"box", "acce", "bmp"} -> 3
    [] c \in {"latin", "acute", "greek"} -> 2
    [] OTHER -> 1

Bytes(l) == Cardinality({o \in (1 .. Len(l)) \X (1 .. 4) : o[2] <= Width(l[o[1]])})

\* char label[4 * 11 + 1]
MaxBytes == 44

\* strncpy: the copy ends with the last of its bytes, maybe inside a character.
Kept(l) == CHOOSE p \in Prefixes(l) :
             /\ Bytes(p) <= MaxBytes
             /\ p = l \/ Bytes(Append(p, l[Len(p) + 1])) > MaxBytes

CutInside(l) == Kept(l) # l /\ Bytes(Kept(l)) < MaxBytes

Init ==
  /\ given \in Labels
  /\ fs \in {"fat", "exfat"}
  /\ step = "start"
  /\ wLabel = <<>> /\ out = <<>>
  /\ next = 1 /\ length = 0

Finish(verdict) == step' = verdict

\* wchar_t wLabel[13]
WideSize == 13

\* Slip: the size of the buffer is asked for, and the terminator is lost.
WantedAll == 13

\* Slip: no more is asked for than a label may have, so that none is too long.
WantedFitting == 11

\* What label2wchar asks mbstowcs for.
Wanted == 12

\* mbstowcs converts the characters in front of the first one that is not whole.
Wide(l) == SubSeq(l, 1, IF Len(l) < Wanted THEN Len(l) ELSE Wanted)

\* label2wchar: the characters are in the buffer before their number is looked at.
\* A character that is not whole makes mbstowcs fail when it gets there.
ToWide ==
  LET kept  == Kept(given)
      fails == CutInside(given) /\ Len(kept) < Wanted
  IN  /\ step = "start"
      /\ wLabel' = Wide(kept)
      /\ step' = IF fails \/ Len(wLabel') > 11 THEN "refused" ELSE "convert"
      /\ UNCHANGED <<given, fs, next, length, out>>

\* wchar2cp850
FatChar ==
  /\ step = "convert" /\ fs = "fat" /\ next <= Len(wLabel)
  /\ LET c == wLabel[next]
     IN  \/ c \notin InTable /\ Finish("refused") /\ UNCHANGED <<out, next>>
         \/ c \in InTable /\ out' = Append(out, Written(c)) /\ next' = next + 1 /\ UNCHANGED step
  /\ UNCHANGED <<given, fs, wLabel, length>>

FatConverted ==
  /\ step = "convert" /\ fs = "fat" /\ next > Len(wLabel)
  /\ step' = "check"
  /\ UNCHANGED <<given, fs, wLabel, next, length, out>>

\* Slip: only the characters are looked at, not the first one.
AcceptableAnyFirst(l) == ~Contains(l, "special")

Acceptable(l) == l[1] # "space" /\ ~Contains(l, "special")

\* The rest of convertCheckFatLabel.
FatCheck ==
  /\ step = "check"
  /\ Finish(IF Acceptable(out) THEN "accepted" ELSE "refused")
  /\ length' = Len(wLabel)
  /\ UNCHANGED <<given, fs, wLabel, next, out>>

\* Slip: no check before a surrogate pair.
PairFitsAlways == TRUE

PairFits == length + 1 < 11

\* Slip: a pair counts as one unit.
PairUnitsOne == 1

PairUnits == 2

\* One turn of the loop in convertCheckExfatLabel.
ExfatChar ==
  /\ step = "convert" /\ fs = "exfat"
  /\ length < 11 /\ next <= Len(wLabel)
  /\ next' = next + 1
  /\ LET c == wLabel[next]
     IN  \/ c # "supp" /\ out' = Append(out, c) /\ length' = length + 1 /\ UNCHANGED step
         \/ c = "supp" /\ ~PairFits /\ Finish("refused") /\ UNCHANGED <<out, length>>
         \/ /\ c = "supp" /\ PairFits
            /\ out' = out \o <<"high", "low">>
            /\ length' = length + PairUnits
            /\ UNCHANGED step
  /\ UNCHANGED <<given, fs, wLabel>>

ExfatDone ==
  /\ step = "convert" /\ fs = "exfat"
  /\ length >= 11 \/ next > Len(wLabel)
  /\ Finish("accepted")
  /\ UNCHANGED <<given, fs, wLabel, next, length, out>>

Next == ToWide \/ FatChar \/ FatConverted \/ FatCheck \/ ExfatChar \/ ExfatDone

Spec == Init /\ [][Next]_vars

-----------------------------------------------------------------------------
(* Properties.                                                             *)

\* Neither buffer overflows, with its terminator: not wLabel, which mbstowcs fills
\* before anyone knows that the label is too long, and not convertedLabel[12], at
\* any turn of the loop, when a character of two units comes last either.
OutputFits == Len(wLabel) + 1 <= WideSize /\ Len(out) + 1 <= 12

\* What is returned, and becomes the character count of the label entry, is the
\* number of units written, and no pair of them is torn.
UnitsCounted ==
  step = "accepted" =>
    /\ length = Len(out)
    /\ \A i \in DOMAIN out :
         /\ out[i] = "high" => i < Len(out) /\ out[i + 1] = "low"
         /\ out[i] = "low" => i > 1 /\ out[i - 1] = "high"

\* A FAT label that was accepted is the one the user gave, whole, character for
\* character, and one that a directory entry may have: neither the copy of 44 bytes
\* in main nor the limit of mbstowcs shortens it silently.  The one character that
\* turns into another is U+ACCE, which is not in the code page and, against the
\* message of wchar2cp850, becomes the acute accent.
FatLabelIsGiven ==
  step = "accepted" /\ fs = "fat" =>
    /\ Len(out) = Len(given) /\ Len(out) <= 11
    /\ \A i \in DOMAIN out : out[i] = IF given[i] = "acce" THEN "acute" ELSE given[i]
    /\ out[1] # "space" /\ ~Contains(out, "special")

(***************************************************************************)
(* What the help and the messages say.                                     *)
(***************************************************************************)

\* "Error: Label is too long.": a label that does not fit is refused, so that
\* one that was accepted is whole, for exFAT as for FAT.
ExfatLabelIsGiven ==
  step = "accepted" /\ fs = "exfat" => next = Len(given) + 1

\* Code page 850 itself.
Cp850 == {"plain", "space", "special", "latin", "box", "acute"}

\* "CP850.TXT Range 0x80-0xFF": a character of the code page is never the reason
\* to refuse a FAT label.
Cp850IsAccepted ==
  step = "refused" /\ fs = "fat" =>
    Len(given) > 11 \/ given[1] = "space" \/ \E i \in DOMAIN given : given[i] \notin Cp850 \ {"special"}
=============================================================================
