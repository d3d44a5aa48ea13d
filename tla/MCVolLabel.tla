----------------------------- MODULE MCVolLabel -----------------------------
(***************************************************************************)
(* All labels of one to three characters, all of one to nine in which the  *)
(* only question is how many units a character needs, longer ones with a   *)
(* run of equal characters in the middle, and labels that the copy of 44   *)
(* bytes cuts, at and inside of a character.                               *)
(***************************************************************************)
EXTENDS VolLabel

Of(S, n) == [1 .. n -> S]

Repeat(c, n) == [i \in 1 .. n |-> c]

MCCut ==
  {Repeat(c, n) : c \in Class, n \in {11, 12, 13, 15, 23, 45}}
  \cup {Repeat("supp", 10) \o l : l \in {<<"bmp", "bmp">>, <<"latin", "box">>, <<"bmp", "plain", "plain">>}}

MCLabels ==
  UNION {Of(Class, n) : n \in 1 .. 3}
  \cup UNION {Of({"bmp", "supp"}, n) : n \in 1 .. 9}
  \cup {<<a>> \o Repeat(b, n) \o <<c, d>> :
           a \in Class, b \in Class \ {"acute", "greek"}, c \in Class, d \in {"plain", "space", "bmp", "supp"}, n \in {8, 9}}
  \cup MCCut
=============================================================================
