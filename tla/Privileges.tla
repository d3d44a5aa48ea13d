----------------------------- MODULE Privileges -----------------------------
(***************************************************************************)
(* The user and group ids of the process (source/privileges.cpp), and what *)
(* setuid and setgid do to them.  With an effective user id of 0, or the   *)
(* capability for it, all three ids are set; without, the effective one,   *)
(* and only to one of the others.  A capability that came with user id 0   *)
(* goes with it, one of the program file stays.  Supplementary groups are  *)
(* the caller's and stay as they are.                                      *)
(***************************************************************************)
EXTENDS Naturals

CONSTANT User     \* the id, of user and group, that runs the program

ASSUME UserAssumption == User \in Nat \ {0}

VARIABLES
  uid, gid,
  capable       \* CAP_SETUID and CAP_SETGID from the program file

idVars == <<uid, gid, capable>>

AllIds(x) == [real |-> x, effective |-> x, saved |-> x]

\* After exec of a file that sets the id to that of its owner, root.
SetOnExec == [real |-> User, effective |-> 0, saved |-> 0]

\* Run by root, by a user, with or without capabilities, or as the set-user-ID
\* program the comment in dropPrivileges speaks of, whose group may be set as well.
IdInit ==
  \/ uid = AllIds(0) /\ gid = AllIds(0) /\ capable = FALSE
  \/ uid = AllIds(User) /\ gid = AllIds(User) /\ capable \in BOOLEAN
  \/ uid = SetOnExec /\ gid \in {AllIds(User), SetOnExec} /\ capable = FALSE

Privileged == uid.effective = 0 \/ capable

MaySet(id, x) == Privileged \/ x \in {id.real, id.saved}

AfterSet(id, x) == IF Privileged THEN AllIds(x) ELSE [id EXCEPT !.effective = x]

SetUid(x) == MaySet(uid, x) /\ uid' = AfterSet(uid, x) /\ UNCHANGED <<gid, capable>>

SetGid(x) == MaySet(gid, x) /\ gid' = AfterSet(gid, x) /\ UNCHANGED <<uid, capable>>

\* The process has no id, nor a means, left to become anybody else.
NobodyElse == uid = AllIds(uid.real) /\ gid = AllIds(gid.real) /\ ~MaySet(uid, 0)
=============================================================================
