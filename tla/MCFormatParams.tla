--------------------------- MODULE MCFormatParams ---------------------------
(***************************************************************************)
(* The capacities are those around every limit of both tables, those the   *)
(* loops take many turns for, and a coarse net over each row; the largest  *)
(* are just below 2^31 sectors (1 TiB), where TLC's integers end.          *)
(***************************************************************************)
EXTENDS FormatParams

Limits == {128, 4096, 16384, 32768, 65536, 131072, 262144, 524288, 1032192,
           2064384, 2097152, 4128768, 4194304, 8257536, 8259584, 67108864, 268435456, 1073741824}

\* First sizes refused or accepted again inside a row, sizes with many turns.
Corners == {130816, 4209984, 5472, 385184, 33534870, 67094015, 1074091745, 1611082616}

MCCards ==
  UNION {{n - 1, n, n + 1} : n \in Limits \cup Corners}
  \cup {1, 127, 2147483647}
  \cup {128 + (37 * k) : k \in 1 .. 300}
  \cup {16384 + (1531 * k) : k \in 1 .. 300}
  \cup {524288 + (65521 * k) : k \in 1 .. 60}
  \cup {4194304 + (1048573 * k) : k \in 1 .. 60}
  \cup {67108864 + (33554393 * k) : k \in 1 .. 60}

\* Only the limits themselves, without -c.
MCFewCards == UNION {{n - 1, n, n + 1} : n \in Limits \cup Corners}

MCNoOverride == {0}

MCOverrides == {0, 1, 127, 128, 100003, 4300000}
=============================================================================
