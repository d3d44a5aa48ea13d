-------------------------------- MODULE Main --------------------------------
(***************************************************************************)
(* The process (source/main.cpp): the loop over the options, the call of   *)
(* formatSd (FormatSd), and the exit code.                                 *)
(*                                                                         *)
(* getopt_long hands the options over in their order; what is no option    *)
(* is an operand, wherever it stands.  A label is a sequence of cells of   *)
(* its 44 bytes, a capacity a number below, at or above the limit.         *)
(***************************************************************************)
EXTENDS FormatSd

CONSTANTS
  Options,      \* what getopt_long may return: character and argument
  MaxOptions,   \* bound: options on a command line
  LabelSize,    \* 4 * 11 in cells
  Nul,          \* the byte 0
  MaxCapacity   \* 1 << 32

ASSUME MainAssumption ==
  /\ \A o \in Options : o.opt \in {"b", "c", "e", "f", "l", "v", "h", "?"}
  /\ \A o \in Options : o.opt = "c" => o.arg \in Nat
  /\ \A o \in Options : o.opt = "l" => Len(o.arg) \in Nat /\ DOMAIN o.arg = 1 .. Len(o.arg)
  /\ MaxOptions \in Nat /\ LabelSize \in Nat \ {0} /\ MaxCapacity \in Nat

VARIABLES
  argv,         \* the options
  operands,     \* argc - optind behind the loop
  next,         \* option the loop is at
  label,        \* the buffer
  overrTotSec   \* 0 when it was not given

lineVars == <<argv, operands, next, label, overrTotSec>>
mainVars == <<allVars, lineVars>>

NoLabel == [i \in 1 .. LabelSize |-> Nul]

MainInit ==
  /\ SdInit
  /\ phase = "options"
  /\ argv \in UNION {[1 .. n -> Options] : n \in 0 .. MaxOptions}
  /\ operands \in 0 .. 2
  /\ next = 1
  /\ label = NoLabel
  /\ overrTotSec = 0

\* main returns before there is an object to destroy.
Exit(c) ==
  /\ exit' = c
  /\ phase' = "end"
  /\ UNCHANGED <<vars, idVars, layout, labelled, flags, todo, unwinding, code, lineVars>>

\* The option is taken, on to the next one.
Take(f, l, c) ==
  /\ flags' = f /\ label' = l /\ overrTotSec' = c
  /\ next' = next + 1
  /\ UNCHANGED <<vars, idVars, phase, layout, labelled, todo, unwinding, code, exit, argv, operands>>

\* Slip: the bytes are copied without the zeros behind them.
CopyUnpadded(l) == [i \in 1 .. LabelSize |-> IF i \in DOMAIN l THEN l[i] ELSE label[i]]

\* strncpy: what is too long is cut, what is short is filled with zeros.
Copy(l) == [i \in 1 .. LabelSize |-> IF i \in DOMAIN l THEN l[i] ELSE Nul]

EraseFlag(type) == IF type = "trim" THEN "erase" ELSE "secErase"

\* "Capacity 0 or out of range", "Invalid erase type", or not an option at all.
Invalid(o) ==
  \/ o.opt = "?"
  \/ o.opt = "c" /\ (o.arg = 0 \/ o.arg > MaxCapacity)
  \/ o.opt = "e" /\ o.arg \notin {"trim", "secure"}

ParseOption ==
  /\ phase = "options" /\ next <= Len(argv)
  /\ LET o == argv[next]
     IN  \/ o.opt = "b" /\ Take([flags EXCEPT !.bigClusters = TRUE], label, overrTotSec)
         \/ o.opt = "c" /\ ~Invalid(o) /\ Take(flags, label, o.arg)
         \/ o.opt = "e" /\ ~Invalid(o)
              /\ Take([flags EXCEPT ![EraseFlag(o.arg)] = TRUE], label, overrTotSec)
         \/ o.opt = "f" /\ Take([flags EXCEPT !.forceFat32 = TRUE], label, overrTotSec)
         \/ o.opt = "l" /\ Take(flags, Copy(o.arg), overrTotSec)
         \/ o.opt = "v" /\ Take([flags EXCEPT !.verbose = TRUE], label, overrTotSec)
         \/ o.opt = "h" /\ Exit(OK)
         \/ Invalid(o) /\ Exit(ERR_INVALID_ARG)

\* There must be exactly one operand, the device.
CheckOperands ==
  /\ phase = "options" /\ next > Len(argv)
  /\ \/ operands # 1 /\ Exit(ERR_INVALID_ARG)
     \/ /\ operands = 1 /\ phase' = "call"
        /\ UNCHANGED <<vars, idVars, layout, labelled, flags, todo, unwinding, code, exit, lineVars>>

(***************************************************************************)
(* formatSd gets copies; the command line is not looked at again, and so   *)
(* is forgotten here, with the flag that only verbose_printf reads.  The   *)
(* std::string of a long label may throw.                                  *)
(***************************************************************************)
CallFormatSd ==
  /\ phase = "call"
  /\ \/ label[LabelSize] # Nul /\ Exit(ERR_EXCEPTION)
     \/ /\ phase' = "start"
        /\ labelled' = (label[1] # Nul)
        /\ flags' = [flags EXCEPT !.verbose = FALSE]
        /\ argv' = <<>> /\ next' = 1 /\ label' = NoLabel /\ overrTotSec' = 0
        /\ UNCHANGED <<vars, idVars, layout, todo, unwinding, code, exit, operands>>

MainNext ==
  \/ ParseOption \/ CheckOperands \/ CallFormatSd
  \/ SdNext /\ UNCHANGED lineVars

MainSpec == MainInit /\ [][MainNext]_mainVars

\* One process of one thread, which no other has to let go on: system calls
\* return.  That one of them returns an error is possible, but never relied on.
MainFairSpec == MainSpec /\ WF_mainVars(MainNext /\ err' = err)

-----------------------------------------------------------------------------
(* Properties.                                                             *)

Has(o) == \E i \in DOMAIN argv : argv[i].opt = o

HasErase(type) == \E i \in DOMAIN argv : argv[i].opt = "e" /\ argv[i].arg = type

\* The argument of the last option of this name.
LastArg(o, default) ==
  LET at == {i \in DOMAIN argv : argv[i].opt = o}
  IN  IF at = {} THEN default ELSE argv[CHOOSE i \in at : \A j \in at : j <= i].arg

\* Where the loop ends early.
Stops == {i \in DOMAIN argv : argv[i].opt = "h" \/ Invalid(argv[i])}

(***************************************************************************)
(* What formatSd gets is what the command line as a whole says, in any     *)
(* order and with every repetition: each flag is set exactly if its option *)
(* is there, label and capacity are those of the last one that gave them,  *)
(* with nothing left of an earlier one.  formatSd is only called when      *)
(* nothing on the line is wrong, and otherwise what stopped the loop first *)
(* decides the exit code.                                                  *)
(***************************************************************************)
OptionsAreMeant ==
  /\ phase = "call" =>
       /\ Stops = {} /\ operands = 1
       /\ flags = [bigClusters |-> Has("b"), erase |-> HasErase("trim"), forceFat32 |-> Has("f"),
                   secErase |-> HasErase("secure"), verbose |-> Has("v")]
       /\ overrTotSec = LastArg("c", 0)
       /\ LET l == LastArg("l", <<>>)
          IN  \A i \in 1 .. LabelSize : label[i] = IF i <= Len(l) THEN l[i] ELSE Nul
  /\ phase = "end" /\ (Stops # {} \/ operands # 1) =>
       exit = IF \E i \in Stops : argv[i].opt = "h" /\ \A j \in Stops : i <= j
              THEN OK ELSE ERR_INVALID_ARG

(***************************************************************************)
(* When the process exits with 0 and was not asked for help, there is a    *)
(* file system a driver mounts: whatever failed on the way, in whichever   *)
(* buffer the bytes were, was an exit code.                                *)
(***************************************************************************)
SuccessMounts == exit = OK /\ ~Has("h") => Mounts

\* The process ends with an exit code, whatever fails on its way.
Terminates == <>(exit # Running)
=============================================================================
