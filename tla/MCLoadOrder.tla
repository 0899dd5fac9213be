----------------------------- MODULE MCLoadOrder -----------------------------
(* Three mods and one more to add, under any two of some rules. *)
EXTENDS LoadOrder

CONSTANTS m1, m2, m3, m4, gui

MCEntry(m, pins, off) == [id |-> m, enabled |-> m \notin off, pinned |-> m \in pins]
MCProfiles ==
    {[locked |-> l, list |-> <<MCEntry(m1, p, o), MCEntry(m2, p, o), MCEntry(m3, p, o)>>] :
        l \in BOOLEAN, p \in {{}, {m2}}, o \in {{}, {m2}}}

Before(a, b) == [kind |-> "load_before", a |-> a, b |-> b]
After(a, b) == [kind |-> "load_after", a |-> a, b |-> b]
Never(a, b) == [kind |-> "incompatible", a |-> a, b |-> b]

MCAllRules ==
    {After(m1, m1)} \cup {After(x[1], x[2]) : x \in {x \in {m1, m2, m3} \X {m1, m2, m3} : x[1] # x[2]}}
        \cup {Before(m1, m2), Before(m3, m1), After(m1, m4), Before(m4, m3), Never(m2, m3)}
\* Any two of the rules, and the cycles of three
MCRulesets ==
    {s \in SUBSET MCAllRules : Cardinality(s) <= 2}
        \cup {{After(m1, m2), After(m2, m3), After(m3, m1)},
              {After(m1, m3), Before(m3, m1), After(m2, m3)},
              {After(m2, m1), After(m1, m2), After(m3, m1)},
              {After(m1, m4), Before(m4, m3), After(m3, m1)}}

MCCommands ==
    [op : {"reorder"}, mod : {m1, m2, m4}, up : BOOLEAN]
        \cup [op : {"toggle"}, mod : {m1, m3}, on : BOOLEAN]
        \cup [op : {"pin"}, mod : {m2}, on : BOOLEAN]
        \cup [op : {"add"}, mod : {m2, m4}]
        \cup [op : {"remove"}, index : {1, 2}]
        \cup [op : {"lock"}, on : BOOLEAN]
=============================================================================
