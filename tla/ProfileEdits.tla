----------------------------- MODULE ProfileEdits -----------------------------
(* What edits promise about a profile: each changes its list of mods at once. *)
EXTENDS Naturals, Sequences

CONSTANT Mods

VARIABLES list, frozen

Entry == [id : Mods, enabled : BOOLEAN, pinned : BOOLEAN]

Init ==
    /\ list \in Seq(Entry)
    /\ frozen \in BOOLEAN

\* Neighbours change places when nothing holds the profile or either of them.
Move ==
    /\ ~ frozen
    /\ \E i \in 1 .. Len(list) - 1 :
        /\ ~ list[i].pinned /\ ~ list[i + 1].pinned
        /\ list' = [list EXCEPT ![i] = list[i + 1], ![i + 1] = list[i]]
    /\ UNCHANGED frozen

Enable ==
    /\ \E i \in DOMAIN list : list' = [list EXCEPT ![i].enabled = ~ @]
    /\ UNCHANGED frozen

Pin ==
    /\ \E i \in DOMAIN list : list' = [list EXCEPT ![i].pinned = ~ @]
    /\ UNCHANGED frozen

Insert ==
    /\ \E m \in Mods :
        /\ \A i \in DOMAIN list : list[i].id # m
        /\ list' = Append(list, [id |-> m, enabled |-> TRUE, pinned |-> FALSE])
    /\ UNCHANGED frozen

Remove ==
    /\ \E k \in DOMAIN list : list' = SubSeq(list, 1, k - 1) \o SubSeq(list, k + 1, Len(list))
    /\ UNCHANGED frozen

Freeze == frozen' = ~ frozen /\ UNCHANGED list

\* A death in the middle costs the end of the list.
Lose ==
    /\ \E k \in 0 .. Len(list) : list' = SubSeq(list, 1, k)
    /\ UNCHANGED frozen

Next == Move \/ Enable \/ Pin \/ Insert \/ Remove \/ Freeze \/ Lose

Spec == Init /\ [][Next]_<<list, frozen>>
=============================================================================
