----------------------------- MODULE LifoStack ------------------------------
(***************************************************************************)
(* What the experiment stack of a game promises: a stack of profiles.      *)
(* Beginning an experiment remembers the profile that is active; rolling   *)
(* back returns to the last one remembered, which is then due to become    *)
(* active unless the command is abandoned; committing forgets them all;    *)
(* deleting a profile forgets that profile and nothing else.  A stack that *)
(* deletions took more than one entry from since it was last empty is a    *)
(* bag: rolling back returns to one of those remembered.                   *)
(* ProfileManager implements it with numbered rows of a table.             *)
(***************************************************************************)
EXTENDS Integers, Sequences

CONSTANTS Profiles, None

VARIABLES
    active, stack, due,
    lost    \* entries that deletions took since the stack was empty; 2 is "several"

LifoInit == active = None /\ stack = <<>> /\ due = None /\ lost = 0

Remember ==
    /\ active # None
    /\ stack' = Append(stack, active)
    /\ UNCHANGED <<active, due, lost>>

\* An empty stack is a stack again.
Leaves(s, taken) ==
    /\ stack' = s
    /\ lost' = IF s = <<>> THEN 0 ELSE IF lost + taken <= 1 THEN lost + taken ELSE 2

TakeBack ==
    /\ due = None
    /\ \E k \in DOMAIN stack :
          /\ lost <= 1 => k = Len(stack)
          /\ due' = stack[k]
          /\ Leaves(SubSeq(stack, 1, k - 1) \o SubSeq(stack, k + 1, Len(stack)), 0)
    /\ UNCHANGED active

Return   == due # None /\ active' = due /\ due' = None /\ UNCHANGED <<stack, lost>>
Abandon  == due # None /\ due' = None /\ UNCHANGED <<active, stack, lost>>
Become(p) == due = None /\ active' = p /\ UNCHANGED <<stack, due, lost>>
ForgetAll == due = None /\ Leaves(<<>>, 0) /\ UNCHANGED <<active, due>>

\* The others stay, in their order.
Forget(p) ==
    /\ due = None
    /\ \E m \in 0..Len(stack) : \E f \in [1..m -> DOMAIN stack] :
          /\ \A i, j \in 1..m : i < j => f[i] < f[j]
          /\ {f[i] : i \in 1..m} = {k \in DOMAIN stack : stack[k] # p}
          /\ Leaves([i \in 1..m |-> stack[f[i]]], Len(stack) - m)
    /\ active' = IF active = p THEN None ELSE active
    /\ UNCHANGED due

LifoNext ==
    \/ Remember \/ TakeBack \/ Return \/ Abandon \/ ForgetAll
    \/ \E p \in Profiles : Become(p) \/ Forget(p)

Lifo == LifoInit /\ [][LifoNext]_<<active, stack, due, lost>>
=============================================================================
