----------------------------- MODULE MCElfFile -----------------------------
(***************************************************************************)
(* Outputs for model checking ElfFile, as execOutPrepareCode leaves them:  *)
(* the merged code is in the last entry section, executable and with the   *)
(* permissions of all of them, and those before it are empty.              *)
(***************************************************************************)
EXTENDS ElfFile

Sect(p, f, e, n) == [perm |-> p, fill |-> f, entry |-> e, size |-> n]

X == 1    \* code as the back end makes it
RW == 6
RWX == 7

Plain ==
  {Sect(X, "INITIALISED", FALSE, 1), Sect(X, "INITIALISED", FALSE, 5000),
   Sect(X, "INITIALISED", FALSE, 0), Sect(RW, "INITIALISED", FALSE, 4096),
   Sect(RW, "ZEROED", FALSE, 1), Sect(RW, "UNINITIALISED", FALSE, 5000),
   Sect(X, "ZEROED", FALSE, 3), Sect(RW, "ONE_ED", FALSE, 8), Sect(0, "ZEROED", FALSE, 8)}
Emptied ==
  {Sect(X, "INITIALISED", TRUE, 0), Sect(0, "ZEROED", TRUE, 0), Sect(X, "ZEROED", TRUE, 0),
   Sect(3, "INITIALISED", TRUE, 0)}
Merged == {Sect(p, "INITIALISED", TRUE, n) : p \in {X, RWX}, n \in {1, 4097}}

(* Permissions as sets of bits: RWX holds those of every other.            *)
Includes(p, q) == \A bit \in {1, 2, 4} : (q \div bit) % 2 = 1 => (p \div bit) % 2 = 1

Last_(some) == Max({s \in DOMAIN some : some[s].entry})
IsPrepared(some) ==
  \/ \A s \in DOMAIN some : ~ some[s].entry
  \/ /\ some[Last_(some)] \in Merged
     /\ \A s \in DOMAIN some : some[s].entry /\ s # Last_(some) =>
          some[s] \in Emptied /\ Includes(some[Last_(some)].perm, some[s].perm)

Kinds == Plain \cup Emptied \cup Merged
AllPermissions ==
  [s \in 1 .. 9 |-> IF s = 9 THEN Sect(RWX, "INITIALISED", TRUE, 1)
                    ELSE Sect(s - 1, "INITIALISED", FALSE, 10)]

UpToThree ==
  {some \in UNION {[1 .. n -> Kinds] : n \in 1 .. 3} : IsPrepared(some)} \cup {AllPermissions}

-----------------------------------------------------------------------------
(* What the back end makes of a program with a function and another one    *)
(* defined inside it: the code, and two sections called funcs.             *)
NestedFunctions ==
  {<<Sect(X, "INITIALISED", TRUE, 20), Sect(X, "INITIALISED", FALSE, 10),
     Sect(X, "INITIALISED", FALSE, 10)>>}
=============================================================================
