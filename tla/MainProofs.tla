----------------------------- MODULE MainProofs -----------------------------
(***************************************************************************)
(* Theorems about the process, for every command line, every user, every   *)
(* card and every layout: when root is out of reach, when the card is      *)
(* still untouched, and when it is let go.                                 *)
(***************************************************************************)
EXTENDS Main, SequenceTheorems, TLAPS

\* The phases up to the decision which layout the card gets.
Undecided ==
  {"options", "call", "start", "privileges", "first", "second", "paranoid", "params"}

-----------------------------------------------------------------------------
(* Ids of the process.                                                     *)

\* No layout is chosen before the ids are dropped, and how far they are, step
\* by step: the group is set for good while root still may, then the user.
IdInv ==
  /\ phase \in Undecided => layout = NoLayout
  /\ phase \in {"options", "call", "start", "privileges", "first"} => IdInit
  /\ phase = "first" => uid.real # 0
  /\ phase = "second" =>
       /\ \/ uid = AllIds(User)
          \/ uid = SetOnExec /\ capable = FALSE
       /\ gid = AllIds(User)
  /\ phase = "paranoid" => uid = AllIds(User) /\ gid = AllIds(User)
  /\ phase = "params" => uid.real = 0 \/ NobodyElse
  /\ NoWayBack

\* The ids stay what they are, and so does the layout while it is undecided.
LEMMA IdsKept ==
  ASSUME IdInv, UNCHANGED idVars,
         \/ layout' = layout
         \/ phase = "params"
         \/ layout # NoLayout,
         \/ phase' = phase
         \/ phase' \notin Undecided
         \/ phase = "options" /\ phase' = "call"
         \/ phase = "call" /\ phase' = "start"
         \/ phase = "start" /\ phase' = "privileges"
         \/ phase = "privileges" /\ phase' = IF uid.real = 0 THEN "params" ELSE "first",
         phase' \in Undecided => layout' = NoLayout
  PROVE  IdInv'
BY DEF IdInv, NoWayBack, NobodyElse, MaySet, Privileged, AllIds, SetOnExec, IdInit, idVars, Undecided

LEMMA IdStep == IdInv /\ [MainNext]_mainVars => IdInv'
<1> SUFFICES ASSUME IdInv, [MainNext]_mainVars PROVE IdInv'  OBVIOUS
<1>1. CASE ParseOption
  <2>1. \/ phase' = phase /\ phase = "options"
        \/ phase' = "end"
    BY <1>1 DEF ParseOption, Take, Exit
  <2>2. UNCHANGED <<idVars, layout>>  BY <1>1 DEF ParseOption, Take, Exit
  <2> QED  BY <2>1, <2>2, IdsKept DEF IdInv, Undecided
<1>2. CASE CheckOperands \/ CallFormatSd
  <2>1. UNCHANGED <<idVars, layout>> /\ phase \in Undecided
    BY <1>2 DEF CheckOperands, CallFormatSd, Exit, Undecided
  <2>2. \/ phase' = "end"
        \/ phase = "options" /\ phase' = "call"
        \/ phase = "call" /\ phase' = "start"
    BY <1>2 DEF CheckOperands, CallFormatSd, Exit
  <2> QED  BY <2>1, <2>2, IdsKept DEF IdInv, Undecided
<1>3. CASE OpenCard /\ UNCHANGED idVars
  <2>1. phase = "start" /\ phase' \in {"privileges", "return"} /\ layout' = layout
    BY <1>3 DEF OpenCard, Goto, Return
  <2> QED  BY <1>3, <2>1, IdsKept DEF IdInv, Undecided
<1>4. CASE DropPrivileges
  <2>1. /\ phase = "privileges" /\ layout' = layout /\ UNCHANGED idVars
        /\ phase' = IF uid.real = 0 THEN "params" ELSE "first"
    BY <1>4 DEF DropPrivileges, Goto
  <2> QED  BY <2>1, IdsKept DEF IdInv, Undecided
<1>5. CASE DropIds
  <2>1. UserAssumption  BY UserAssumption
  <2>2. layout' = layout /\ phase \in Undecided  BY <1>5 DEF DropIds, Goto, Undecided
  <2>3. CASE phase = "first"
    <3>1. IdInit /\ uid.real # 0  BY <2>3 DEF IdInv
    <3>2. phase' = "second" /\ SetGid(gid.real)  BY <1>5, <2>3 DEF DropIds, Goto
    <3>3. \/ uid = AllIds(User) /\ gid = AllIds(User)
          \/ uid = SetOnExec /\ capable = FALSE /\ gid \in {AllIds(User), SetOnExec}
      BY <3>1 DEF IdInit, AllIds
    <3>4. gid' = AllIds(User) /\ UNCHANGED <<uid, capable>>
      BY <3>2, <3>3 DEF SetGid, AfterSet, Privileged, AllIds, SetOnExec
    <3> QED
      BY <2>2, <2>3, <3>2, <3>3, <3>4 DEF IdInv, NoWayBack, Undecided
  <2>4. CASE phase = "second"
    <3>1. /\ uid = AllIds(User) \/ (uid = SetOnExec /\ capable = FALSE)
          /\ gid = AllIds(User)
      BY <2>4 DEF IdInv
    <3>2. phase' = "paranoid" /\ SetUid(uid.real)  BY <1>5, <2>4 DEF DropIds, Goto
    <3>3. uid' = AllIds(User) /\ UNCHANGED gid
      BY <3>1, <3>2 DEF SetUid, AfterSet, Privileged, AllIds, SetOnExec
    <3> QED
      BY <2>2, <2>4, <3>1, <3>2, <3>3 DEF IdInv, NoWayBack, Undecided
  <2> QED  BY <1>5, <2>3, <2>4 DEF DropIds
<1>6. CASE DropFails
  <2>1. phase \in Undecided /\ phase' = "end" /\ layout' = layout
    BY <1>6 DEF DropFails, Die, Undecided
  <2> QED  BY <2>1 DEF IdInv, NoWayBack, Undecided
<1>7. CASE ParanoidCheck
  <2>1. /\ phase = "paranoid" /\ layout' = layout /\ layout = NoLayout
        /\ uid = AllIds(User) /\ gid = AllIds(User)
    BY <1>7 DEF ParanoidCheck, Die, Goto, IdInv, Undecided
  <2>2. CASE Die  BY <2>1, <2>2 DEF Die, IdInv, NoWayBack, Undecided
  <2>3. CASE ~MaySet(uid, 0) /\ Goto("params") /\ UNCHANGED idVars
    <3>1. NobodyElse'
      BY <2>1, <2>3 DEF NobodyElse, MaySet, Privileged, AllIds, idVars
    <3> QED  BY <2>1, <2>3, <3>1 DEF IdInv, NoWayBack, Undecided, Goto
  <2> QED  BY <1>7, <2>2, <2>3 DEF ParanoidCheck
<1>8. CASE ChooseParams /\ UNCHANGED idVars
  <2>1. phase = "params" /\ phase' \in {"return", "label"}
    BY <1>8 DEF ChooseParams, Return
  <2> QED  BY <1>8, <2>1, IdsKept DEF Undecided
<1>9. CASE /\ \/ CheckLabel \/ EraseCard \/ Partition \/ Format \/ Call \/ Continue \/ GiveUp
              \/ FormatDone \/ CloseCard \/ Closed \/ Destroy \/ Destroyed \/ Finished
           /\ UNCHANGED idVars
  <2>1. phase \notin Undecided /\ phase' \notin Undecided /\ layout' = layout
    BY <1>9 DEF CheckLabel, EraseCard, Partition, Format, Call, Continue, GiveUp, FormatDone,
       CloseCard, Closed, Destroy, Destroyed, Finished, Goto, Return, sdVars, allVars, Undecided
  <2> QED  BY <1>9, <2>1, IdsKept
<1>10. CASE UNCHANGED mainVars
  <2>1. UNCHANGED <<phase, layout, idVars>>  BY <1>10 DEF mainVars, allVars, sdVars
  <2> QED  BY <2>1, IdsKept DEF IdInv
<1> QED
  BY <1>1, <1>2, <1>3, <1>4, <1>5, <1>6, <1>7, <1>8, <1>9, <1>10 DEF MainNext, SdNext

\* Whoever runs the program, and with whatever ids and capabilities: from the
\* moment a layout is chosen, before the card is changed, a process that is not
\* root's own has no id left by which it could become root, or of root's group.
THEOREM RootIsOutOfReach == MainSpec => []NoWayBack
<1>1. MainInit => IdInv
  BY DEF MainInit, SdInit, IdInv, NoWayBack, Undecided
<1>2. IdInv => NoWayBack  BY DEF IdInv
<1> QED  BY <1>1, <1>2, IdStep, PTL DEF MainSpec

-----------------------------------------------------------------------------
(* The card.                                                               *)

Untouched == pos = 0 /\ \A a \in Addr : disk[a] = Old

\* Everything up to the erase.
Before == Undecided \cup {"label", "erase"}

Refusals == {ERR_INVALID_ARG, ERR_DEV_OPEN, ERR_DEV_TOO_SMALL, ERR_FORMAT_PARAMS}

\* A refusal is decided on while the card is untouched, and on its way out there
\* is no position that a destructor would flush; a later error is none of them.
RefusalInv ==
  /\ phase \in Before => Untouched
  /\ phase = "return" /\ code \in Refusals => Untouched
  /\ phase = "returning" => code \notin Refusals
  /\ phase # "end" => exit = Running
  /\ RefusedUntouched

LEMMA Codes ==
  /\ Running \notin Refusals /\ Aborted \notin Refusals /\ ERR_EXCEPTION \notin Refusals
  /\ OK \notin Refusals /\ ERR_ERASE \notin Refusals /\ ERR_PARTITION \notin Refusals
  /\ ERR_FORMAT \notin Refusals /\ ERR_CLOSE_DEV \notin Refusals
BY DEF Refusals, Running, Aborted, OK, ERR_INVALID_ARG, ERR_DEV_OPEN, ERR_DEV_TOO_SMALL,
   ERR_FORMAT_PARAMS, ERR_EXCEPTION, ERR_ERASE, ERR_PARTITION, ERR_FORMAT, ERR_CLOSE_DEV

\* The exit code is one of a refusal only if the card is untouched.
LEMMA RefusedIs == RefusedUntouched <=> (exit \in Refusals => \A a \in Addr : disk[a] = Old)
BY DEF RefusedUntouched, Refusals

\* Steps that leave the card and the position alone.
LEMMA UntouchedKept ==
  ASSUME Untouched, UNCHANGED <<disk, pos>>
  PROVE  Untouched'
BY DEF Untouched, Addr

LEMMA RefusalStep == RefusalInv /\ [MainNext]_mainVars => RefusalInv'
<1> SUFFICES ASSUME RefusalInv, [MainNext]_mainVars PROVE RefusalInv'  OBVIOUS
<1>1. ASSUME phase \in Before, UNCHANGED <<disk, pos>>, phase' # "returning",
             phase' # "end" => exit' = Running
      PROVE  RefusalInv'
  <2>1. Untouched'  BY <1>1, UntouchedKept DEF RefusalInv
  <2>2. RefusedUntouched'  BY <2>1 DEF RefusedUntouched, Untouched, Addr
  <2> QED  BY <1>1, <2>1, <2>2 DEF RefusalInv
<1>2. ASSUME phase # "end", phase' \notin Before, phase' \notin {"return", "end"}, exit' = exit,
             phase' = "returning" => code' \notin Refusals
      PROVE  RefusalInv'
  <2>1. exit' = Running  BY <1>2 DEF RefusalInv
  <2>2. RefusedUntouched'  BY <2>1, Codes DEF RefusedUntouched, Refusals
  <2> QED  BY <1>2, <2>1, <2>2 DEF RefusalInv
<1>3. ASSUME phase # "end", phase' = "return", code' \notin Refusals, exit' = exit
      PROVE  RefusalInv'
  <2>1. exit' = Running  BY <1>3 DEF RefusalInv
  <2>2. RefusedUntouched'  BY <2>1, Codes DEF RefusedUntouched, Refusals
  <2> QED  BY <1>3, <2>1, <2>2 DEF RefusalInv, Before, Undecided
<1>4. CASE ParseOption \/ CheckOperands \/ CallFormatSd
  <2>1. /\ phase \in Before /\ UNCHANGED <<disk, pos>> /\ phase' # "returning"
        /\ phase' # "end" => exit' = exit
    BY <1>4 DEF ParseOption, CheckOperands, CallFormatSd, Take, Exit, vars, devVars, writerVars,
       Before, Undecided
  <2>2. exit = Running  BY <1>4 DEF ParseOption, CheckOperands, CallFormatSd, RefusalInv
  <2> QED  BY <1>1, <2>1, <2>2
<1>5. CASE DropPrivileges \/ DropIds \/ DropFails \/ ParanoidCheck
  <2>1. /\ phase \in Before /\ UNCHANGED <<disk, pos>> /\ phase' # "returning"
        /\ phase' # "end" => exit' = exit
    BY <1>5 DEF DropPrivileges, DropIds, DropFails, ParanoidCheck, Goto, Die, vars, devVars,
       writerVars, Before, Undecided
  <2>2. exit = Running
    BY <1>5 DEF DropPrivileges, DropIds, DropFails, ParanoidCheck, RefusalInv
  <2> QED  BY <1>1, <2>1, <2>2
<1>6. CASE OpenCard \/ ChooseParams \/ CheckLabel
  <2>1. /\ phase \in Before /\ UNCHANGED <<disk, pos>> /\ phase' # "returning"
        /\ exit' = exit /\ exit = Running
    BY <1>6 DEF OpenCard, ChooseParams, CheckLabel, Open, DevOpen, DevOpenFails, Goto, Return, vars,
       devVars, writerVars, Before, Undecided, RefusalInv
  <2> QED  BY <1>1, <2>1
<1>7. CASE EraseCard
  <2>1. CASE phase' = "return"
    <3>1. code' = ERR_ERASE /\ exit' = exit /\ phase # "end"
      BY <1>7, <2>1 DEF EraseCard, Goto, Return
    <3> QED  BY <1>3, <2>1, <3>1, Codes
  <2>2. CASE phase' = "mbr"
    <3>1. exit' = exit /\ phase # "end"  BY <1>7, <2>2 DEF EraseCard, Goto, Return
    <3> QED  BY <1>2, <2>2, <3>1 DEF Before, Undecided
  <2> QED  BY <1>7, <2>1, <2>2 DEF EraseCard, Goto, Return
<1>8. CASE Partition \/ Call \/ Continue \/ FormatDone \/ CloseCard
  <2>1. /\ phase # "end" /\ exit' = exit
        /\ phase' \in {"partition", "format", "close", "closing"}
    BY <1>8 DEF Partition, Call, Continue, FormatDone, CloseCard, Goto, sdVars
  <2> QED  BY <1>2, <2>1 DEF Before, Undecided
<1>9. CASE Format
  <2>1. CASE phase' = "format"
    <3>1. phase # "end" /\ exit' = exit  BY <1>9, <2>1 DEF Format, Return
    <3> QED  BY <1>2, <2>1, <3>1 DEF Before, Undecided
  <2>2. CASE Return(ERR_EXCEPTION)
    BY <1>3, <1>9, <2>2, Codes DEF Format, Return
  <2> QED  BY <1>9, <2>1, <2>2 DEF Format
<1>10. CASE GiveUp \/ Closed
  <2>1. phase # "end" /\ phase' = "return" /\ exit' = exit
        /\ code' \in {ERR_PARTITION, ERR_FORMAT, OK, ERR_CLOSE_DEV}
    BY <1>10 DEF GiveUp, Closed, Return, ErrorCode
  <2> QED  BY <1>3, <2>1, Codes
<1>11. CASE Destroy
  <2>1. CASE phase' = "returning"
    <3>1. phase = "return" /\ pos > 0 /\ code' = code /\ exit' = exit
      BY <1>11, <2>1 DEF Destroy, Goto
    <3>2. code \notin Refusals  BY <3>1 DEF RefusalInv, Untouched
    <3> QED  BY <1>2, <2>1, <3>1, <3>2 DEF Before, Undecided
  <2>2. CASE phase' = "end"
    <3>1. phase = "return" /\ exit' = code /\ code' = code /\ disk' = disk
      BY <1>11, <2>2 DEF Destroy, Goto, DevClose, devVars
    <3>2. RefusedUntouched'
      BY <3>1 DEF RefusalInv, RefusedUntouched, Refusals, Untouched, Addr
    <3> QED  BY <2>2, <3>2 DEF RefusalInv, Before, Undecided
  <2> QED  BY <1>11, <2>1, <2>2 DEF Destroy, Goto
<1>12. CASE Destroyed
  <2>1. phase = "returning" /\ phase' = "end" /\ exit' \in {code, Aborted, ERR_EXCEPTION}
    BY <1>12 DEF Destroyed
  <2>2. exit' \notin Refusals  BY <2>1, Codes DEF RefusalInv
  <2>3. RefusedUntouched'  BY <2>2 DEF RefusedUntouched, Refusals
  <2> QED  BY <2>1, <2>3 DEF RefusalInv, Before, Undecided
<1>13. CASE Finished \/ UNCHANGED mainVars
  <2>1. UNCHANGED <<phase, code, exit, disk, pos>>
    BY <1>13 DEF Finished, mainVars, allVars, sdVars, vars, devVars, writerVars
  <2> QED  BY <2>1 DEF RefusalInv, RefusedUntouched, Untouched, Addr
<1> QED
  BY <1>4, <1>5, <1>6, <1>7, <1>8, <1>9, <1>10, <1>11, <1>12, <1>13 DEF MainNext, SdNext

LEMMA RefusalStart == MainInit => RefusalInv
<1> SUFFICES ASSUME MainInit PROVE RefusalInv  OBVIOUS
<1>1. Untouched /\ phase = "options" /\ exit = Running
  BY DEF MainInit, SdInit, Init, DevInit, Untouched
<1>2. RefusedUntouched  BY <1>1 DEF RefusedUntouched, Untouched
<1> QED  BY <1>1, <1>2 DEF RefusalInv

\* An exit code that says the arguments or the card were refused means that no
\* byte of the card was changed, also not by a destructor on the way out.
THEOREM RefusalIsHarmless == MainSpec => []RefusedUntouched
<1>1. RefusalInv => RefusedUntouched  BY DEF RefusalInv
<1> QED  BY <1>1, RefusalStart, RefusalStep, PTL DEF MainSpec

-----------------------------------------------------------------------------
(* The exit code.                                                          *)

\* What the destructor of the writer finds when formatSd has returned: the code is
\* that of the failure, close() has failed exactly if it says so, and where it was
\* called, or the erase has failed, there is no position left to flush.
Leaving ==
  /\ err # "none" => code \in {ERR_ERASE, ERR_PARTITION, ERR_FORMAT} /\ ~unwinding
  /\ closeRes # "none" => pos = 0
  /\ closeRes = "EIO" <=> code = ERR_CLOSE_DEV
  /\ code = ERR_CLOSE_DEV => err = "none"
  /\ code = ERR_ERASE => pos = 0 /\ \A a \in Addr : disk[a] \in {Old, Trimmed}
  /\ code # Aborted

\* What it leaves behind when it has flushed the buffer.
Flushing ==
  /\ err # "none" => code \in {ERR_PARTITION, ERR_FORMAT} /\ ~unwinding
  /\ closeRes \in {"ok", "EIO"}
  /\ code \notin {ERR_CLOSE_DEV, ERR_ERASE, Aborted}

\* Where there may be a failure, and what is known of it.
ExitInv ==
  /\ phase \in Before \cup {"mbr", "close", "closing"} => err = "none"
  /\ phase \notin {"closing", "return", "returning", "end"} => closeRes = "none"
  /\ phase = "closing" => closeRes \in {"ok", "EIO"}
  /\ phase \notin {"return", "returning", "end"} => ~unwinding
  /\ phase = "return" => Leaving
  /\ phase = "returning" => Flushing
  /\ ExitTellsFailure

\* A step that neither ends formatSd nor finds a failure.
LEMMA ExitKept ==
  ASSUME ExitInv, phase \notin {"closing", "return", "returning", "end"},
         phase' \notin {"closing", "return", "returning", "end"},
         closeRes' = closeRes, unwinding' = unwinding,
         phase' \in Before \cup {"mbr", "close"} => err' = "none"
  PROVE  ExitInv'
BY DEF ExitInv, ExitTellsFailure

\* main returns, or the process is aborted, before the card is changed.
LEMMA ExitEarly ==
  ASSUME ExitInv, RefusalInv, phase \in Before, phase' = "end",
         UNCHANGED <<err, closeRes, disk>>,
         exit' \in {OK, ERR_INVALID_ARG, ERR_EXCEPTION, Aborted}
  PROVE  ExitInv'
<1>1. err' = "none" /\ closeRes' = "none"  BY DEF ExitInv, Before, Undecided
<1>2. \A a \in Addr' : disk'[a] = Old  BY DEF RefusalInv, Untouched, Addr
<1>3. exit' \notin {ERR_CLOSE_DEV, ERR_ERASE}
  BY DEF OK, ERR_INVALID_ARG, ERR_EXCEPTION, Aborted, ERR_CLOSE_DEV, ERR_ERASE
<1>4. ExitTellsFailure'  BY <1>1, <1>2, <1>3 DEF ExitTellsFailure
<1> QED  BY <1>4 DEF ExitInv, Before, Undecided

\* A return without a failure of the writer, or with one it says.
LEMMA ExitReturn ==
  ASSUME phase' = "return", Leaving'
  PROVE  ExitInv'
BY DEF ExitInv, ExitTellsFailure, Before, Undecided

\* A return before close() was called.
LEMMA ReturnIs ==
  ASSUME ExitInv, phase \notin {"closing", "return", "returning", "end"}, phase' = "return",
         closeRes' = closeRes, unwinding' => err' = "none",
         code' \in {ERR_INVALID_ARG, ERR_DEV_OPEN, ERR_DEV_TOO_SMALL, ERR_ERASE, ERR_FORMAT_PARAMS,
                    ERR_PARTITION, ERR_FORMAT, ERR_EXCEPTION},
         err' # "none" => code' \in {ERR_ERASE, ERR_PARTITION, ERR_FORMAT},
         code' = ERR_ERASE => pos' = 0 /\ \A a \in Addr' : disk'[a] \in {Old, Trimmed}
  PROVE  ExitInv'
<1>1. closeRes' = "none"  BY DEF ExitInv
<1>2. code' # ERR_CLOSE_DEV /\ code' # Aborted
  BY DEF ERR_INVALID_ARG, ERR_DEV_OPEN, ERR_DEV_TOO_SMALL, ERR_ERASE, ERR_FORMAT_PARAMS,
     ERR_PARTITION, ERR_FORMAT, ERR_EXCEPTION, ERR_CLOSE_DEV, Aborted
<1>3. Leaving'  BY <1>1, <1>2 DEF Leaving
<1> QED  BY <1>3, ExitReturn

LEMMA ExitStep == RefusalInv /\ ExitInv /\ [MainNext]_mainVars => ExitInv'
<1> SUFFICES ASSUME RefusalInv, ExitInv, [MainNext]_mainVars PROVE ExitInv'  OBVIOUS
<1>1. CASE ParseOption \/ CheckOperands \/ CallFormatSd
  <2>1. /\ phase \in {"options", "call"} /\ UNCHANGED <<err, closeRes, disk, unwinding>>
        /\ \/ phase' \in {"options", "call", "start"}
           \/ phase' = "end" /\ exit' \in {OK, ERR_INVALID_ARG, ERR_EXCEPTION}
    BY <1>1 DEF ParseOption, CheckOperands, CallFormatSd, Take, Exit, vars, devVars, writerVars
  <2>2. err = "none"  BY <2>1 DEF ExitInv, Before, Undecided
  <2> QED  BY <2>1, <2>2, ExitKept, ExitEarly DEF Before, Undecided
<1>2. CASE DropPrivileges \/ DropIds \/ DropFails \/ ParanoidCheck
  <2>1. /\ phase \in {"privileges", "first", "second", "paranoid"}
        /\ UNCHANGED <<err, closeRes, disk, unwinding>>
        /\ \/ phase' \in {"params", "first", "second", "paranoid"}
           \/ phase' = "end" /\ exit' = Aborted
    BY <1>2 DEF DropPrivileges, DropIds, DropFails, ParanoidCheck, Goto, Die, vars, devVars, writerVars
  <2>2. err = "none"  BY <2>1 DEF ExitInv, Before, Undecided
  <2> QED  BY <2>1, <2>2, ExitKept, ExitEarly DEF Before, Undecided
<1>3. CASE OpenCard \/ ChooseParams \/ CheckLabel
  <2>1. /\ phase \in {"start", "params", "label"} /\ UNCHANGED <<err, closeRes, unwinding>>
        /\ \/ phase' \in {"privileges", "label", "erase"}
           \/ /\ phase' = "return"
              /\ code' \in {ERR_DEV_OPEN, ERR_DEV_TOO_SMALL, ERR_FORMAT_PARAMS, ERR_INVALID_ARG}
    BY <1>3 DEF OpenCard, ChooseParams, CheckLabel, Open, Goto, Return, vars, writerVars
  <2>2. err = "none"  BY <2>1 DEF ExitInv, Before, Undecided
  <2>3. code' \in {ERR_DEV_OPEN, ERR_DEV_TOO_SMALL, ERR_FORMAT_PARAMS, ERR_INVALID_ARG}
          => code' # ERR_ERASE
    BY DEF ERR_DEV_OPEN, ERR_DEV_TOO_SMALL, ERR_FORMAT_PARAMS, ERR_INVALID_ARG, ERR_ERASE
  <2>4. CASE phase' = "return"  BY <2>1, <2>2, <2>3, <2>4, ReturnIs
  <2> QED  BY <2>1, <2>2, <2>4, ExitKept
<1>4. CASE EraseCard
  <2>1. /\ phase = "erase" /\ UNCHANGED <<closeRes, unwinding>> /\ err = "none"
        /\ \/ phase' = "mbr" /\ err' = "none"
           \/ phase' = "return" /\ code' = ERR_ERASE /\ EraseAll
    <3>1. phase = "erase"  BY <1>4 DEF EraseCard
    <3>2. err = "none"  BY <3>1 DEF ExitInv, Before
    <3> QED  BY <1>4, <3>1, <3>2 DEF EraseCard, EraseAll, Goto, Return, vars, writerVars
  <2>2. CASE phase' = "mbr" /\ err' = "none"  BY <2>1, <2>2, ExitKept
  <2>3. CASE phase' = "return" /\ code' = ERR_ERASE /\ EraseAll
    <3>1. \A a \in Addr : disk[a] = Old  BY <2>1 DEF RefusalInv, Before, Untouched
    <3>2. pos' = 0 /\ \A a \in Addr' : disk'[a] \in {Old, Trimmed}
      BY <2>3, <3>1 DEF EraseAll, DevErase, Addr
    <3>3. ~unwinding'  BY <2>1 DEF ExitInv
    <3> QED  BY <2>1, <2>3, <3>2, <3>3, ReturnIs
  <2> QED  BY <2>1, <2>2, <2>3
<1>5. CASE Partition \/ Call \/ Continue
  <2>1. /\ phase \in {"mbr", "partition", "format"} /\ phase' \in {"partition", "format"}
        /\ UNCHANGED <<closeRes, unwinding>>
    BY <1>5 DEF Partition, Call, Continue, FillCall, WriteCall, ReturnEarly, AlignToBuffer, FlushHead,
       FillBlock, FillDone, WriteBlock, WriteDone, ReturnOk, ReturnError, sdVars, vars, writerVars
  <2> QED  BY <2>1, ExitKept DEF Before, Undecided
<1>6. CASE Format
  <2>1. /\ phase = "partition" /\ UNCHANGED <<err, closeRes>> /\ err = "none"
        /\ \/ phase' = "format" /\ unwinding' = unwinding
           \/ phase' = "return" /\ code' = ERR_EXCEPTION
    BY <1>6 DEF Format, Ready, Return, vars, writerVars
  <2>2. ERR_EXCEPTION # ERR_ERASE  BY DEF ERR_EXCEPTION, ERR_ERASE
  <2>3. CASE phase' = "return" /\ code' = ERR_EXCEPTION  BY <2>1, <2>2, <2>3, ReturnIs
  <2> QED  BY <2>1, <2>3, ExitKept
<1>7. CASE GiveUp
  <2>1. /\ phase \in {"partition", "format"} /\ phase' = "return" /\ UNCHANGED <<err, closeRes, unwinding>>
        /\ code' \in {ERR_PARTITION, ERR_FORMAT}
    BY <1>7 DEF GiveUp, Return, ErrorCode, vars, writerVars
  <2>2. ~unwinding  BY <2>1 DEF ExitInv
  <2>3. code' # ERR_ERASE  BY <2>1 DEF ERR_PARTITION, ERR_FORMAT, ERR_ERASE
  <2> QED  BY <2>1, <2>2, <2>3, ReturnIs
<1>8. CASE FormatDone
  <2>1. /\ phase = "format" /\ phase' = "close" /\ UNCHANGED <<err, closeRes, unwinding>>
        /\ err = "none"
    BY <1>8 DEF FormatDone, Ready, Goto, vars, writerVars
  <2> QED  BY <2>1, ExitKept
<1>9. CASE CloseCard
  <2>1. /\ phase = "close" /\ phase' = "closing" /\ UNCHANGED <<err, unwinding>>
        /\ closeRes' \in {"ok", "EIO"}
    BY <1>9 DEF CloseCard, CloseFlush, Goto
  <2>2. err = "none" /\ ~unwinding  BY <2>1 DEF ExitInv
  <2> QED  BY <2>1, <2>2 DEF ExitInv, ExitTellsFailure
<1>10. CASE Closed
  <2>1. /\ phase = "closing" /\ phase' = "return" /\ UNCHANGED <<err, closeRes, unwinding>>
        /\ pos' = 0 /\ code' = IF closeRes = "ok" THEN OK ELSE ERR_CLOSE_DEV
    BY <1>10 DEF Closed, CloseDev, Return
  <2>2. err = "none" /\ closeRes \in {"ok", "EIO"} /\ ~unwinding  BY <2>1 DEF ExitInv
  <2>3. OK # ERR_CLOSE_DEV /\ code' \notin {ERR_ERASE, Aborted}
    BY <2>1 DEF OK, ERR_CLOSE_DEV, ERR_ERASE, Aborted
  <2>4. Leaving'  BY <2>1, <2>2, <2>3 DEF Leaving
  <2> QED  BY <2>1, <2>4, ExitReturn
<1>11. CASE Destroy
  <2>1. phase = "return" /\ Leaving  BY <1>11 DEF Destroy, ExitInv
  <2>2. CASE pos > 0 /\ CloseFlush /\ Goto("returning")
    <3>1. /\ phase' = "returning" /\ UNCHANGED <<err, unwinding, code>>
          /\ closeRes' \in {"ok", "EIO"} /\ pos # 0
      BY <2>2 DEF CloseFlush, Goto
    <3>2. closeRes = "none" /\ code # ERR_CLOSE_DEV /\ code # ERR_ERASE
      BY <2>1, <3>1 DEF Leaving
    <3>3. Flushing'  BY <2>1, <3>1, <3>2 DEF Leaving, Flushing
    <3> QED  BY <3>1, <3>3 DEF ExitInv, ExitTellsFailure, Before, Undecided
  <2>3. CASE phase' = "end"
    <3>1. /\ exit' = code /\ UNCHANGED <<err, closeRes, disk, unwinding>>
      BY <1>11, <2>3 DEF Destroy, Goto, DevClose, devVars
    <3>2. ExitTellsFailure'
      BY <2>1, <3>1 DEF Leaving, ExitTellsFailure, Addr
    <3> QED  BY <2>3, <3>2 DEF ExitInv, Before, Undecided
  <2> QED  BY <1>11, <2>2, <2>3 DEF Destroy
<1>12. CASE Destroyed
  <2>1. Flushing /\ phase' = "end"  BY <1>12 DEF Destroyed, ExitInv
  <2>2. /\ UNCHANGED <<err, closeRes, unwinding>>
        /\ exit' = IF closeRes = "ok" THEN code ELSE IF unwinding THEN Aborted ELSE ERR_EXCEPTION
    BY <1>12 DEF Destroyed, CloseDev
  <2>3. /\ Aborted \notin {ERR_CLOSE_DEV, ERR_ERASE, ERR_EXCEPTION}
        /\ ERR_EXCEPTION \notin {ERR_CLOSE_DEV, ERR_ERASE}
    BY DEF Aborted, ERR_CLOSE_DEV, ERR_ERASE, ERR_EXCEPTION
  <2>4. ExitTellsFailure'
    <3>1. CASE closeRes = "ok"
      BY <2>1, <2>2, <3>1 DEF Flushing, ExitTellsFailure
    <3>2. CASE closeRes = "EIO" /\ unwinding
      <4>1. err' = "none" /\ exit' = Aborted /\ closeRes' = "EIO" /\ unwinding'
        BY <2>1, <2>2, <3>2 DEF Flushing
      <4> QED  BY <2>3, <4>1 DEF ExitTellsFailure
    <3>3. CASE closeRes = "EIO" /\ ~unwinding
      <4>1. exit' = ERR_EXCEPTION  BY <2>2, <3>3
      <4> QED  BY <2>3, <4>1 DEF ExitTellsFailure
    <3> QED  BY <2>1, <3>1, <3>2, <3>3 DEF Flushing
  <2> QED  BY <2>1, <2>4 DEF ExitInv, Before, Undecided
<1>13. CASE Finished \/ UNCHANGED mainVars
  <2>1. UNCHANGED <<phase, code, exit, disk, pos, err, closeRes, unwinding>>
    BY <1>13 DEF Finished, mainVars, allVars, sdVars, vars, devVars, writerVars
  <2>2. /\ Leaving' <=> Leaving
        /\ Flushing' <=> Flushing
        /\ ExitTellsFailure' <=> ExitTellsFailure
    BY <2>1 DEF Leaving, Flushing, ExitTellsFailure, Addr
  <2> QED  BY <2>1, <2>2 DEF ExitInv
<1> QED
  BY <1>1, <1>2, <1>3, <1>4, <1>5, <1>6, <1>7, <1>8, <1>9, <1>10, <1>11, <1>12, <1>13
  DEF MainNext, SdNext

LEMMA ExitStart == MainInit => ExitInv
BY DEF MainInit, SdInit, Init, ExitInv, ExitTellsFailure, Before, Undecided

\* Whatever fails on the card, in a call or in the flush by close() or by the
\* destructor, is in the exit code, whichever code was on its way; a code that says
\* how far the program came is true, and abort() leaves a changed card behind only
\* when an exception was under way and the flush failed, too.
THEOREM ErrorsAreTold == MainSpec => []ExitTellsFailure
<1>1. ExitInv => ExitTellsFailure  BY DEF ExitInv
<1>2. RefusalInv /\ ExitInv /\ [MainNext]_mainVars => (RefusalInv /\ ExitInv)'
  BY RefusalStep, ExitStep
<1> QED  BY <1>1, <1>2, RefusalStart, ExitStart, PTL DEF MainSpec

-----------------------------------------------------------------------------
(* The descriptor.                                                         *)

\* Nothing is opened before formatSd opens the card.
ReleaseInv ==
  /\ phase \in {"options", "call", "start"} => ~fd /\ step = "new"
  /\ CardIsReleased

LEMMA ReleaseStep == ReleaseInv /\ [MainNext]_mainVars => ReleaseInv'
<1> SUFFICES ASSUME ReleaseInv, [MainNext]_mainVars PROVE ReleaseInv'  OBVIOUS
<1> USE DEF ReleaseInv, CardIsReleased
<1>1. CASE ParseOption \/ CheckOperands \/ CallFormatSd
  <2>1. phase \in {"options", "call"} /\ UNCHANGED <<fd, step>>
    BY <1>1 DEF ParseOption, CheckOperands, CallFormatSd, Take, Exit, vars, devVars, writerVars, callVars
  <2> QED  BY <2>1
<1>2. CASE DropFails \/ ParanoidCheck
  BY <1>2 DEF DropFails, ParanoidCheck, Die, Goto
<1>3. CASE Destroy
  BY <1>3 DEF Destroy, Goto, DevClose, devVars
<1>4. CASE Destroyed
  BY <1>4 DEF Destroyed, CloseDev, DevClose
<1>5. CASE Finished \/ UNCHANGED mainVars
  BY <1>5 DEF Finished, mainVars, allVars, sdVars, vars, devVars, writerVars, callVars
<1>6. CASE \/ OpenCard \/ DropPrivileges \/ DropIds \/ ChooseParams \/ CheckLabel \/ EraseCard
           \/ Partition \/ Format \/ Call \/ Continue \/ GiveUp \/ FormatDone
           \/ CloseCard \/ Closed
  <2>1. phase' \notin {"options", "call", "start", "end"}
    BY <1>6 DEF OpenCard, DropPrivileges, DropIds, ChooseParams, CheckLabel, EraseCard, Partition,
       Format, Call, Continue, GiveUp, FormatDone, CloseCard, Closed, Goto, Return, sdVars
  <2> QED  BY <2>1
<1> QED
  BY <1>1, <1>2, <1>3, <1>4, <1>5, <1>6 DEF MainNext, SdNext

\* However the process ends, its card is closed, and unless it was aborted the
\* destructors have run to their end.
THEOREM CardIsAlwaysReleased == MainSpec => []CardIsReleased
<1>1. MainInit => ReleaseInv
  BY DEF MainInit, SdInit, Init, DevInit, ReleaseInv, CardIsReleased
<1>2. ReleaseInv => CardIsReleased  BY DEF ReleaseInv
<1> QED  BY <1>1, <1>2, ReleaseStep, PTL DEF MainSpec

-----------------------------------------------------------------------------
(* The command line.                                                       *)

\* The options of this name among the first n.
Named(o, n) == {i \in 1 .. n : argv[i].opt = o}

\* The argument of the last one of them.
IsLastArg(value, o, n, default) ==
  \/ Named(o, n) = {} /\ value = default
  \/ \E i \in Named(o, n) : value = argv[i].arg /\ \A j \in Named(o, n) : j <= i

Padded(l) == [i \in 1 .. LabelSize |-> IF i <= Len(l) THEN l[i] ELSE Nul]

IsLabel(l, n) ==
  \/ Named("l", n) = {} /\ l = NoLabel
  \/ \E i \in Named("l", n) : l = Padded(argv[i].arg) /\ \A j \in Named("l", n) : j <= i

MeantFlags(n) ==
  [bigClusters |-> Named("b", n) # {},
   erase       |-> \E i \in Named("e", n) : argv[i].arg = "trim",
   forceFat32  |-> Named("f", n) # {},
   secErase    |-> \E i \in Named("e", n) : argv[i].arg = "secure",
   verbose     |-> Named("v", n) # {}]

\* What the loop has made of the first n options, none of which ended it.
Parsed(n) ==
  /\ \A i \in 1 .. n : i \notin Stops
  /\ flags = MeantFlags(n)
  /\ IsLastArg(overrTotSec, "c", n, 0)
  /\ IsLabel(label, n)

LineInv ==
  /\ argv \in Seq(Options) /\ next \in Nat \ {0}
  /\ phase = "options" => next <= Len(argv) + 1 /\ Parsed(next - 1)
  /\ phase = "call" => Parsed(Len(argv))
  /\ phase \notin {"options", "end"} => operands = 1 /\ Stops = {}
  /\ phase = "end" /\ (Stops # {} \/ operands # 1) =>
       exit = IF \E i \in Stops : argv[i].opt = "h" /\ \A j \in Stops : i <= j
              THEN OK ELSE ERR_INVALID_ARG

\* One more option.
LEMMA NamedNext ==
  ASSUME NEW n \in Nat, NEW o
  PROVE  Named(o, n + 1) = Named(o, n) \cup (IF argv[n + 1].opt = o THEN {n + 1} ELSE {})
BY DEF Named

LEMMA NamedBounds == ASSUME NEW n \in Nat, NEW o PROVE Named(o, n) \subseteq 1 .. n
BY DEF Named

LEMMA OptionIs ==
  ASSUME argv \in Seq(Options), NEW i \in 1 .. Len(argv)
  PROVE  argv[i] \in Options /\ i \in DOMAIN argv
OBVIOUS

\* The other options leave the argument alone.
LEMMA LastArgKept ==
  ASSUME NEW n \in Nat, NEW value, NEW o, NEW default, IsLastArg(value, o, n, default),
         argv[n + 1].opt # o
  PROVE  IsLastArg(value, o, n + 1, default)
BY NamedNext DEF IsLastArg

LEMMA LabelKept ==
  ASSUME NEW n \in Nat, NEW l, IsLabel(l, n), argv[n + 1].opt # "l"
  PROVE  IsLabel(l, n + 1)
BY NamedNext DEF IsLabel

LEMMA LastArgTaken ==
  ASSUME NEW n \in Nat, NEW o, NEW default, argv[n + 1].opt = o
  PROVE  IsLastArg(argv[n + 1].arg, o, n + 1, default)
<1>1. n + 1 \in Named(o, n + 1)  BY DEF Named
<1>2. \A j \in Named(o, n + 1) : j <= n + 1  BY NamedBounds
<1> QED  BY <1>1, <1>2 DEF IsLastArg

LEMMA LabelTaken ==
  ASSUME NEW n \in Nat, argv[n + 1].opt = "l",
         LET l == argv[n + 1].arg IN Len(l) \in Nat /\ DOMAIN l = 1 .. Len(l)
  PROVE  IsLabel(Copy(argv[n + 1].arg), n + 1)
<1> DEFINE l == argv[n + 1].arg
<1>1. n + 1 \in Named("l", n + 1)  BY DEF Named
<1>2. \A j \in Named("l", n + 1) : j <= n + 1  BY NamedBounds
<1>3. Copy(l) = Padded(l)
  <2>1. LabelSize \in Nat  BY MainAssumption
  <2>2. \A i \in 1 .. LabelSize : i \in DOMAIN l <=> i <= Len(l)  BY <2>1
  <2> HIDE DEF l
  <2> QED  BY <2>2 DEF Copy, Padded
<1> QED  BY <1>1, <1>2, <1>3 DEF IsLabel

\* The flags of a command line with one more option.
LEMMA FlagsNext ==
  ASSUME NEW n \in Nat, NEW o, o = argv[n + 1]
  PROVE  MeantFlags(n + 1) =
           IF o.opt = "b" THEN [MeantFlags(n) EXCEPT !.bigClusters = TRUE]
           ELSE IF o.opt = "f" THEN [MeantFlags(n) EXCEPT !.forceFat32 = TRUE]
           ELSE IF o.opt = "v" THEN [MeantFlags(n) EXCEPT !.verbose = TRUE]
           ELSE IF o.opt = "e" /\ o.arg = "trim" THEN [MeantFlags(n) EXCEPT !.erase = TRUE]
           ELSE IF o.opt = "e" /\ o.arg = "secure" THEN [MeantFlags(n) EXCEPT !.secErase = TRUE]
           ELSE MeantFlags(n)
<1> DEFINE m == n + 1
<1>1. /\ Named("b", m) # {} <=> o.opt = "b" \/ Named("b", n) # {}
      /\ Named("f", m) # {} <=> o.opt = "f" \/ Named("f", n) # {}
      /\ Named("v", m) # {} <=> o.opt = "v" \/ Named("v", n) # {}
  BY NamedNext
<1>2. (\E i \in Named("e", m) : argv[i].arg = "trim")
        <=> (o.opt = "e" /\ o.arg = "trim") \/ \E i \in Named("e", n) : argv[i].arg = "trim"
  BY NamedNext
<1>3. (\E i \in Named("e", m) : argv[i].arg = "secure")
        <=> (o.opt = "e" /\ o.arg = "secure") \/ \E i \in Named("e", n) : argv[i].arg = "secure"
  BY NamedNext
<1> HIDE DEF m
<1> DEFINE trim(k) == \E i \in Named("e", k) : argv[i].arg = "trim"
           secure(k) == \E i \in Named("e", k) : argv[i].arg = "secure"
<1>4. \A k : MeantFlags(k) =
        [bigClusters |-> Named("b", k) # {}, erase |-> trim(k), forceFat32 |-> Named("f", k) # {},
         secErase |-> secure(k), verbose |-> Named("v", k) # {}]
  BY DEF MeantFlags
<1> HIDE DEF trim, secure
<1> QED  BY <1>1, <1>2, <1>3, <1>4 DEF m, trim, secure

LEMMA LineStep == LineInv /\ [MainNext]_mainVars => LineInv'
<1> SUFFICES ASSUME LineInv, [MainNext]_mainVars PROVE LineInv'  OBVIOUS
<1>1. CASE ParseOption
  <2> DEFINE n == next - 1
             o == argv[next]
  <2>1. /\ n \in Nat /\ n + 1 = next /\ next \in 1 .. Len(argv) /\ Parsed(n)
        /\ argv \in Seq(Options) /\ Len(argv) \in Nat /\ phase = "options"
    BY <1>1 DEF ParseOption, LineInv
  <2>2. o \in Options /\ next \in DOMAIN argv  BY <2>1, OptionIs
  <2>3. /\ o.opt \in {"b", "c", "e", "f", "l", "v", "h", "?"}
        /\ o.opt = "l" => Len(o.arg) \in Nat /\ DOMAIN o.arg = 1 .. Len(o.arg)
    BY <2>2, MainAssumption
  <2>4. \A i \in DOMAIN argv : i < next => i \notin Stops  BY <2>1 DEF Parsed
  <2>5. ASSUME NEW c, Exit(c), c = IF o.opt = "h" THEN OK ELSE ERR_INVALID_ARG,
               o.opt = "h" \/ Invalid(o)
        PROVE  LineInv'
    <3>1. next \in Stops /\ \A j \in Stops : next <= j
      <4>1. next \in Stops  BY <2>2, <2>5 DEF Stops
      <4>2. ASSUME NEW j \in Stops PROVE next <= j
        <5>1. j \in DOMAIN argv /\ j \in 1 .. Len(argv)  BY <2>1 DEF Stops
        <5> QED  BY <2>1, <2>4, <5>1
      <4> QED  BY <4>1, <4>2
    <3>2. (\E i \in Stops : argv[i].opt = "h" /\ \A j \in Stops : i <= j) <=> o.opt = "h"
      <4>1. ASSUME NEW i \in Stops, \A j \in Stops : i <= j PROVE i = next
        <5>1. i \in 1 .. Len(argv)  BY <2>1 DEF Stops
        <5> QED  BY <2>1, <3>1, <4>1, <5>1
      <4> QED  BY <3>1, <4>1
    <3>3. UNCHANGED <<argv, next>> /\ phase' = "end" /\ exit' = c  BY <2>5 DEF Exit, lineVars
    <3>4. Stops' = Stops  BY <3>3 DEF Stops, Invalid
    <3>5. exit' = IF \E i \in Stops' : argv'[i].opt = "h" /\ \A j \in Stops' : i <= j
                  THEN OK ELSE ERR_INVALID_ARG
      BY <2>5, <3>2, <3>3, <3>4
    <3> QED  BY <3>3, <3>5 DEF LineInv
  <2>6. ASSUME NEW f, NEW l, NEW c, Take(f, l, c), o.opt # "h", ~Invalid(o),
               f = MeantFlags(next), IsLabel(l, next), IsLastArg(c, "c", next, 0)
        PROVE  LineInv'
    <3>1. /\ UNCHANGED <<argv, phase, operands>> /\ next' = next + 1
          /\ flags' = f /\ label' = l /\ overrTotSec' = c
      BY <2>6 DEF Take
    <3>2. Stops' = Stops  BY <3>1 DEF Stops, Invalid
    <3>3. \A i \in 1 .. next : i \notin Stops
      <4>1. next \notin Stops  BY <2>6 DEF Stops
      <4>2. \A i \in 1 .. n : i \notin Stops  BY <2>1 DEF Parsed
      <4> QED  BY <2>1, <4>1, <4>2
    <3>4. next' - 1 = next /\ next' \in Nat \ {0} /\ next' <= Len(argv) + 1  BY <2>1, <3>1
    <3>5. Parsed(next - 1)'
      <4>1. /\ (\A i \in 1 .. next - 1 : i \notin Stops)'
            /\ (flags = MeantFlags(next - 1))'
        BY <2>6, <3>1, <3>2, <3>3, <3>4 DEF MeantFlags, Named
      <4>2. IsLastArg(overrTotSec, "c", next - 1, 0)'
        BY <2>6, <3>1, <3>4 DEF IsLastArg, Named
      <4>3. IsLabel(label, next - 1)'
        BY <2>6, <3>1, <3>4 DEF IsLabel, Named
      <4> QED  BY <4>1, <4>2, <4>3 DEF Parsed
    <3> QED  BY <2>1, <3>1, <3>4, <3>5 DEF LineInv
  <2>7. /\ flags = MeantFlags(n) /\ IsLastArg(overrTotSec, "c", n, 0) /\ IsLabel(label, n)
    BY <2>1 DEF Parsed
  <2>8. /\ o.opt # "c" => IsLastArg(overrTotSec, "c", next, 0)
        /\ o.opt = "c" => IsLastArg(o.arg, "c", next, 0)
        /\ o.opt # "l" => IsLabel(label, next)
        /\ o.opt = "l" => IsLabel(Copy(o.arg), next)
    BY <2>1, <2>3, <2>7, LastArgKept, LastArgTaken, LabelKept, LabelTaken
  <2>9. MeantFlags(next) =
          IF o.opt = "b" THEN [flags EXCEPT !.bigClusters = TRUE]
          ELSE IF o.opt = "f" THEN [flags EXCEPT !.forceFat32 = TRUE]
          ELSE IF o.opt = "v" THEN [flags EXCEPT !.verbose = TRUE]
          ELSE IF o.opt = "e" /\ o.arg = "trim" THEN [flags EXCEPT !.erase = TRUE]
          ELSE IF o.opt = "e" /\ o.arg = "secure" THEN [flags EXCEPT !.secErase = TRUE]
          ELSE flags
    BY <2>1, <2>7, FlagsNext
  <2> HIDE DEF o, n
  <2>10. CASE o.opt = "b" /\ Take([flags EXCEPT !.bigClusters = TRUE], label, overrTotSec)
    BY <2>6, <2>8, <2>9, <2>10 DEF Invalid
  <2>11. CASE o.opt = "c" /\ ~Invalid(o) /\ Take(flags, label, o.arg)
    BY <2>6, <2>8, <2>9, <2>11
  <2>12. CASE o.opt = "e" /\ ~Invalid(o)
                /\ Take([flags EXCEPT ![EraseFlag(o.arg)] = TRUE], label, overrTotSec)
    <3>1. CASE o.arg = "trim"
      BY <2>6, <2>8, <2>9, <2>12, <3>1 DEF EraseFlag
    <3>2. CASE o.arg = "secure"
      BY <2>6, <2>8, <2>9, <2>12, <3>2 DEF EraseFlag
    <3> QED  BY <2>12, <3>1, <3>2 DEF Invalid
  <2>13. CASE o.opt = "f" /\ Take([flags EXCEPT !.forceFat32 = TRUE], label, overrTotSec)
    BY <2>6, <2>8, <2>9, <2>13 DEF Invalid
  <2>14. CASE o.opt = "l" /\ Take(flags, Copy(o.arg), overrTotSec)
    BY <2>6, <2>8, <2>9, <2>14 DEF Invalid
  <2>15. CASE o.opt = "v" /\ Take([flags EXCEPT !.verbose = TRUE], label, overrTotSec)
    BY <2>6, <2>8, <2>9, <2>15 DEF Invalid
  <2>16. CASE o.opt = "h" /\ Exit(OK)  BY <2>5, <2>16
  <2>17. CASE Invalid(o) /\ Exit(ERR_INVALID_ARG)
    <3>1. o.opt # "h"  BY <2>17 DEF Invalid
    <3> QED  BY <2>5, <2>17, <3>1
  <2> QED
    BY <1>1, <2>10, <2>11, <2>12, <2>13, <2>14, <2>15, <2>16, <2>17 DEF ParseOption, o
<1>2. CASE CheckOperands
  <2>1. /\ phase = "options" /\ next = Len(argv) + 1 /\ Parsed(Len(argv))
        /\ argv \in Seq(Options) /\ Len(argv) \in Nat /\ next \in Nat \ {0}
    BY <1>2 DEF CheckOperands, LineInv
  <2>2. Stops = {}
    <3>1. \A i \in 1 .. Len(argv) : i \notin Stops  BY <2>1 DEF Parsed
    <3> QED  BY <2>1, <3>1 DEF Stops
  <2>3. UNCHANGED <<lineVars, flags>>  BY <1>2 DEF CheckOperands, Exit
  <2>4. Stops' = Stops /\ Parsed(Len(argv))'
    BY <2>1, <2>3
    DEF Parsed, MeantFlags, IsLabel, IsLastArg, Named, Stops, Invalid, lineVars
  <2>5. phase' = "end" => exit' = ERR_INVALID_ARG  BY <1>2 DEF CheckOperands, Exit
  <2>6. phase' \in {"end", "call"} /\ (phase' = "call" => operands = 1)
    BY <1>2 DEF CheckOperands, Exit
  <2> QED  BY <2>1, <2>2, <2>3, <2>4, <2>5, <2>6 DEF LineInv, lineVars
<1>3. CASE CallFormatSd
  <2>1. operands = 1 /\ Stops = {} /\ argv \in Seq(Options) /\ next \in Nat \ {0}
    BY <1>3 DEF CallFormatSd, LineInv
  <2>2. operands' = 1 /\ Stops' = {} /\ argv' \in Seq(Options) /\ next' \in Nat \ {0}
    <3>1. CASE Exit(ERR_EXCEPTION)  BY <2>1, <3>1 DEF Exit, lineVars, Stops, Invalid
    <3>2. CASE argv' = <<>> /\ next' = 1 /\ operands' = operands
      BY <2>1, <3>2 DEF Stops
    <3> QED  BY <1>3, <3>1, <3>2 DEF CallFormatSd
  <2>3. phase' \in {"end", "start"}  BY <1>3 DEF CallFormatSd, Exit
  <2> QED  BY <2>2, <2>3 DEF LineInv
<1>4. CASE SdNext /\ UNCHANGED lineVars
  <2>1. UNCHANGED <<argv, next, operands>> /\ Stops' = Stops
    BY <1>4 DEF lineVars, Stops, Invalid
  <2>2. phase' \notin {"options", "call"}
    BY <1>4 DEF SdNext, DropPrivileges, DropIds, DropFails, ParanoidCheck, OpenCard, ChooseParams,
       CheckLabel, EraseCard, Partition, Format, Call, Continue, GiveUp, FormatDone, CloseCard,
       Closed, Destroy, Destroyed, Finished, Die, Goto, Return, sdVars, allVars
  <2>3. phase = "end" => phase' = "end" /\ exit' = exit
    BY <1>4 DEF SdNext, DropPrivileges, DropIds, DropFails, ParanoidCheck, OpenCard, ChooseParams,
       CheckLabel, EraseCard, Partition, Format, Call, Continue, GiveUp, FormatDone, CloseCard,
       Closed, Destroy, Destroyed, Finished, sdVars, allVars
  <2>4. phase # "options"
    BY <1>4 DEF SdNext, DropPrivileges, DropIds, DropFails, ParanoidCheck, OpenCard, ChooseParams,
       CheckLabel, EraseCard, Partition, Format, Call, Continue, GiveUp, FormatDone, CloseCard,
       Closed, Destroy, Destroyed, Finished, sdVars, allVars
  <2> QED  BY <2>1, <2>2, <2>3, <2>4 DEF LineInv
<1>5. CASE UNCHANGED mainVars
  <2>1. UNCHANGED <<argv, operands, next, label, overrTotSec, phase, exit, flags>>
    BY <1>5 DEF mainVars, allVars, sdVars, lineVars
  <2>2. Stops' = Stops  BY <2>1 DEF Stops, Invalid
  <2>3. /\ Parsed(next - 1)' <=> Parsed(next - 1)
        /\ Parsed(Len(argv))' <=> Parsed(Len(argv))
    BY <2>1, <2>2 DEF Parsed, MeantFlags, IsLabel, IsLastArg, Named
  <2> QED  BY <2>1, <2>2, <2>3 DEF LineInv
<1> QED  BY <1>1, <1>2, <1>3, <1>4, <1>5 DEF MainNext

LEMMA LineStart == MainInit => LineInv
<1> SUFFICES ASSUME MainInit PROVE LineInv  OBVIOUS
<1>1. argv \in Seq(Options)
  <2>1. PICK n \in 0 .. MaxOptions : argv \in [1 .. n -> Options]  BY DEF MainInit
  <2>2. n \in Nat  BY <2>1, MainAssumption
  <2> QED  BY <2>1, <2>2, SeqDef
<1>2. phase = "options" /\ next = 1 /\ exit = Running  BY DEF MainInit, SdInit
<1>3. \A o : Named(o, 0) = {}  BY DEF Named
<1>4. Parsed(0)
  <2>1. flags = MeantFlags(0)
    <3>1. MeantFlags(0) = [bigClusters |-> FALSE, erase |-> FALSE, forceFat32 |-> FALSE,
                           secErase |-> FALSE, verbose |-> FALSE]
      BY <1>3 DEF MeantFlags
    <3> QED  BY <3>1 DEF MainInit, SdInit, NoFlags
  <2> QED  BY <1>3, <2>1 DEF MainInit, Parsed, IsLastArg, IsLabel
<1> QED  BY <1>1, <1>2, <1>4 DEF LineInv

\* The last of the options of a name.
LEMMA LastIs ==
  ASSUME argv \in Seq(Options), NEW o, NEW default,
         NEW i \in Named(o, Len(argv)), \A j \in Named(o, Len(argv)) : j <= i
  PROVE  LastArg(o, default) = argv[i].arg
<1> DEFINE at == Named(o, Len(argv))
<1>1. at = {j \in DOMAIN argv : argv[j].opt = o}  BY DEF Named
<1>2. at \subseteq Int  BY DEF Named
<1>3. \A k \in at : (\A j \in at : j <= k) => k = i  BY <1>2
<1>4. (CHOOSE k \in at : \A j \in at : j <= k) = i  BY <1>3
<1>5. at # {}  OBVIOUS
<1> QED  BY <1>1, <1>4, <1>5 DEF LastArg

LEMMA LineMeant == LineInv => OptionsAreMeant
<1> SUFFICES ASSUME LineInv PROVE OptionsAreMeant  OBVIOUS
<1>1. ASSUME phase = "call"
      PROVE  /\ Stops = {} /\ operands = 1
             /\ flags = [bigClusters |-> Has("b"), erase |-> HasErase("trim"),
                         forceFat32 |-> Has("f"), secErase |-> HasErase("secure"),
                         verbose |-> Has("v")]
             /\ overrTotSec = LastArg("c", 0)
             /\ LET l == LastArg("l", <<>>)
                IN  \A i \in 1 .. LabelSize : label[i] = IF i <= Len(l) THEN l[i] ELSE Nul
  <2> DEFINE n == Len(argv)
  <2>1. argv \in Seq(Options) /\ Parsed(n) /\ Stops = {} /\ operands = 1
    BY <1>1 DEF LineInv
  <2>2. \A o : Named(o, n) = {i \in DOMAIN argv : argv[i].opt = o}  BY <2>1 DEF Named
  <2>3. \A o : Has(o) <=> Named(o, n) # {}  BY <2>2 DEF Has
  <2>4. \A t : HasErase(t) <=> \E i \in Named("e", n) : argv[i].arg = t  BY <2>2 DEF HasErase
  <2>5. flags = MeantFlags(n)  BY <2>1 DEF Parsed
  <2>6. \A o, default : Named(o, n) = {} => LastArg(o, default) = default  BY <2>2 DEF LastArg
  <2>7. overrTotSec = LastArg("c", 0)
    BY <2>1, <2>6, LastIs DEF Parsed, IsLastArg
  <2>8. \A i \in 1 .. LabelSize :
          label[i] = IF i <= Len(LastArg("l", <<>>)) THEN LastArg("l", <<>>)[i] ELSE Nul
    <3>1. CASE Named("l", n) = {} /\ label = NoLabel
      <4>1. LastArg("l", <<>>) = <<>>  BY <2>6, <3>1
      <4> QED  BY <3>1, <4>1, MainAssumption DEF NoLabel
    <3>2. CASE \E i \in Named("l", n) :
                 label = Padded(argv[i].arg) /\ \A j \in Named("l", n) : j <= i
      <4>1. label = Padded(LastArg("l", <<>>))  BY <2>1, <3>2, LastIs
      <4> QED  BY <4>1 DEF Padded
    <3> QED  BY <2>1, <3>1, <3>2 DEF Parsed, IsLabel
  <2>9. flags = [bigClusters |-> Has("b"), erase |-> HasErase("trim"), forceFat32 |-> Has("f"),
                 secErase |-> HasErase("secure"), verbose |-> Has("v")]
    <3> HIDE DEF n
    <3> QED  BY <2>3, <2>4, <2>5 DEF MeantFlags
  <2> QED  BY <2>1, <2>7, <2>8, <2>9
<1> QED  BY <1>1 DEF OptionsAreMeant, LineInv

(***************************************************************************)
(* formatSd is only called when nothing on the command line is wrong, and  *)
(* with what the line as a whole says, whatever the order and the          *)
(* repetitions of its options; otherwise the first that stopped the loop   *)
(* decides the exit code.                                                  *)
(***************************************************************************)
THEOREM LineIsMeant == MainSpec => []OptionsAreMeant
<1> QED  BY LineStart, LineStep, LineMeant, PTL DEF MainSpec
=============================================================================
