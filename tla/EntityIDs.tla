------------------------------ MODULE EntityIDs ------------------------------
(***************************************************************************)
(* Entity ids (lib/server/idallocate.h): the IDServer of dbmgr gives away  *)
(* ranges, the IDClient of a baseapp hands out the ids of its ranges one   *)
(* by one.  A range is a pair <<begin, end>> whose end is the begin of the *)
(* next one.                                                               *)
(*                                                                         *)
(* A part of Startup, where the ranges travel in messages.  The widths are *)
(* left out: ids have 32 bits, and dbmgr gives a range of 1024 to each     *)
(* application that starts.                                                *)
(***************************************************************************)
EXTENDS Components

CONSTANTS
    idBegin,    \* the first id IDServer gives away
    range_step  \* range_step_

ASSUME IdsAssumption ==
    /\ idBegin \in Nat \ {0}
    /\ range_step \in Nat \ {0}

\* The ids begin anew with every dbmgr: what follows is about one run of it, which is
\* also the longest time that any other server lives.
ASSUME OneDbmgr ==
    \A p, q \in Processes :
        componentType[p] = DBMGR_TYPE /\ componentType[q] = DBMGR_TYPE => p = q

VARIABLES
    last_id_range_begin, \* IDServer: the begin of the next range
    idRange,             \* IDClient: the range in use
    id_list,             \* IDClient: the ranges kept for later
    handedOut            \* history: the ids a process has handed out

idVars == <<last_id_range_begin, idRange, id_list, handedOut>>

IdRange == Nat \X Nat
Ids(r) == r[1] .. (r[2] - 1)

IdsTypeOK ==
    /\ last_id_range_begin \in Nat
    /\ idRange \in [Processes -> IdRange]
    /\ id_list \in [Processes -> Seq(IdRange)]
    /\ handedOut \in [Processes -> SUBSET Nat]

IdsInit ==
    /\ last_id_range_begin = idBegin
    /\ idRange = [p \in Processes |-> <<0, 0>>]
    /\ id_list = [p \in Processes |-> <<>>]
    /\ handedOut = [p \in Processes |-> {}]

-----------------------------------------------------------------------------

\* allocRange, called n times: the i-th range it returns.
NthRange(i) ==
    <<last_id_range_begin + (i - 1) * range_step, last_id_range_begin + i * range_step>>

\* Mutant: the next range begins with the end of this one, as if that belonged to it.
AllocRangesShort(n) == last_id_range_begin' = last_id_range_begin + n * range_step - 1

AllocRanges(n) == last_id_range_begin' = last_id_range_begin + n * range_step

\* size() takes up the next range when the one in use is empty.
Exhausted(p) == idRange[p][1] = idRange[p][2]
TakesNext(p) == Exhausted(p) /\ id_list[p] # <<>>

RangeInUse(p) == IF TakesNext(p) THEN Head(id_list[p]) ELSE idRange[p]
RangesKept(p) == IF TakesNext(p) THEN Tail(id_list[p]) ELSE id_list[p]

size(p) == RangeInUse(p)[2] - RangeInUse(p)[1]

\* A caller of size() that only looks whether it is 0.
CheckSize(p) ==
    /\ size(p) # 0
    /\ idRange' = [idRange EXCEPT ![p] = RangeInUse(p)]
    /\ id_list' = [id_list EXCEPT ![p] = RangesKept(p)]
    /\ UNCHANGED <<last_id_range_begin, handedOut>>

\* onAddRange: the range comes into use, or is kept behind the others.
OnAddRange(p, r) ==
    /\ IF size(p) = 0
       THEN /\ idRange' = [idRange EXCEPT ![p] = r]
            /\ id_list' = [id_list EXCEPT ![p] = RangesKept(p)]
       ELSE /\ idRange' = [idRange EXCEPT ![p] = RangeInUse(p)]
            /\ id_list' = [id_list EXCEPT ![p] = Append(RangesKept(p), r)]
    /\ UNCHANGED <<last_id_range_begin, handedOut>>

\* alloc, which its callers do not call when size() is 0.  The range that this
\* leaves empty is replaced by the next size(), not by alloc: begin is never
\* greater than end.
Alloc(p) ==
    /\ size(p) # 0
    /\ LET r == RangeInUse(p) IN
          /\ idRange' = [idRange EXCEPT ![p] = <<r[1] + 1, r[2]>>]
          /\ handedOut' = [handedOut EXCEPT ![p] = @ \cup {r[1]}]
    /\ id_list' = [id_list EXCEPT ![p] = RangesKept(p)]
    /\ UNCHANGED last_id_range_begin

-----------------------------------------------------------------------------

\* The id a baseapp will hand out next has never been handed out, by itself or by
\* another one, whatever ranges it was given, kept and used up before.
NextIdIsFresh ==
    \A p \in Processes : size(p) # 0 =>
        \A q \in Processes : RangeInUse(p)[1] \notin handedOut[q]

=============================================================================
