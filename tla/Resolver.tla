------------------------------- MODULE Resolver -------------------------------
(***************************************************************************)
(* The load order resolver (crates/modde-core/src/resolver/mod.rs): sorts  *)
(* the enabled mods of a profile so that its rules are met and its list is *)
(* otherwise kept. One action per round of its loop.                       *)
(***************************************************************************)
EXTENDS Naturals, Sequences, FiniteSets

CONSTANTS
    Mods,
    AllRules        \* the rules a profile may have

Rule == [kind : {"load_after", "load_before", "incompatible"}, a : Mods, b : Mods]

ASSUME ResolverAssumption == AllRules \subseteq Rule /\ IsFiniteSet(AllRules)

VARIABLES
    stage,          \* "idle", "sorting", and the results: "done", "cycle", "conflict"
    input,          \* enabled_mods: the enabled mods in the order of the profile
    edges,          \* the rules of successors: both of their mods are enabled
    degree,         \* in_degree
    ready,          \* the heap
    order,          \* what was emitted
    offender        \* the mod a cycle is reported for, in a set

resolution == <<stage, input, edges, degree, ready, order, offender>>

Named(s) == {s[i] : i \in DOMAIN s}
Distinct(s) == \A i, j \in DOMAIN s : s[i] = s[j] => i = j

\* `a` loads after `b`, or before it.
Earlier(r) == IF r.kind = "load_after" THEN r.b ELSE r.a
Later(r) == IF r.kind = "load_after" THEN r.a ELSE r.b

Ordering(rules, on) ==
    {r \in rules : r.kind # "incompatible" /\ Earlier(r) \in on /\ Later(r) \in on}
Conflicts(rules, on) == {r \in rules : r.kind = "incompatible" /\ r.a \in on /\ r.b \in on}

\* input_pos
Position(m) == CHOOSE i \in DOMAIN input : input[i] = m

Into(m) == {r \in edges : Later(r) = m}
Between(m, n) == {r \in edges : Earlier(r) = m /\ Later(r) = n}

Idle ==
    /\ stage = "idle" /\ input = <<>> /\ edges = {} /\ degree = [m \in Mods |-> 0]
    /\ ready = {} /\ order = <<>> /\ offender = {}

Forget ==
    /\ stage' = "idle" /\ input' = <<>> /\ edges' = {} /\ degree' = [m \in Mods |-> 0]
    /\ ready' = {} /\ order' = <<>> /\ offender' = {}

\* Mutant: a degree counts the mods to wait for, and not the rules.
BeginDistinct(enabled, rules) ==
    LET on == Named(enabled)
        kept == Ordering(rules, on)
    IN  /\ stage = "idle"
        /\ input' = enabled
        /\ order' = <<>> /\ offender' = {}
        /\ IF Conflicts(rules, on) # {}
           THEN stage' = "conflict" /\ UNCHANGED <<edges, degree, ready>>
           ELSE /\ stage' = "sorting"
                /\ edges' = kept
                /\ degree' = [m \in Mods |->
                                 Cardinality({Earlier(r) : r \in {r \in kept : Later(r) = m}})]
                /\ ready' = {m \in on : degree'[m] = 0}

\* Incompatible mods are looked for before anything is sorted.
Begin(enabled, rules) ==
    LET on == Named(enabled)
        kept == Ordering(rules, on)
    IN  /\ stage = "idle"
        /\ input' = enabled
        /\ order' = <<>> /\ offender' = {}
        /\ IF Conflicts(rules, on) # {}
           THEN stage' = "conflict" /\ UNCHANGED <<edges, degree, ready>>
           ELSE /\ stage' = "sorting"
                /\ edges' = kept
                /\ degree' = [m \in Mods |-> Cardinality({r \in kept : Later(r) = m})]
                /\ ready' = {m \in on : degree'[m] = 0}

\* Mutants: any ready mod is emitted; a successor is decremented once, however many rules say so.
PopAny ==
    /\ stage = "sorting"
    /\ \E m \in ready :
        /\ order' = Append(order, m)
        /\ degree' = [n \in Mods |-> degree[n] - Cardinality(Between(m, n))]
        /\ ready' = (ready \ {m}) \cup {n \in Mods : Between(m, n) # {} /\ degree'[n] = 0}
    /\ UNCHANGED <<stage, input, edges, offender>>
PopOnce ==
    /\ stage = "sorting"
    /\ \E m \in ready :
        /\ \A n \in ready : Position(m) <= Position(n)
        /\ order' = Append(order, m)
        /\ degree' = [n \in Mods |-> IF Between(m, n) # {} THEN degree[n] - 1 ELSE degree[n]]
        /\ ready' = (ready \ {m}) \cup {n \in Mods : Between(m, n) # {} /\ degree'[n] = 0}
    /\ UNCHANGED <<stage, input, edges, offender>>

\* The least ready mod is emitted; its successors are decremented once for each rule, and are
\* ready when they come to nothing.
Pop ==
    /\ stage = "sorting"
    /\ \E m \in ready :
        /\ \A n \in ready : Position(m) <= Position(n)
        /\ order' = Append(order, m)
        /\ degree' = [n \in Mods |-> degree[n] - Cardinality(Between(m, n))]
        /\ ready' = (ready \ {m}) \cup {n \in Mods : Between(m, n) # {} /\ degree'[n] = 0}
    /\ UNCHANGED <<stage, input, edges, offender>>

\* The heap is empty. A cycle is reported for the first mod that still waits.
Finish ==
    /\ stage = "sorting" /\ ready = {}
    /\ IF Len(order) = Len(input)
       THEN stage' = "done" /\ UNCHANGED offender
       ELSE /\ stage' = "cycle"
            /\ offender' = {m \in Named(input) :
                               /\ degree[m] > 0
                               /\ \A n \in Named(input) : degree[n] > 0 => Position(m) <= Position(n)}
    /\ UNCHANGED <<input, edges, degree, ready, order>>

Inputs == {s \in UNION {[1 .. n -> Mods] : n \in Nat} : Distinct(s)}

\* resolve by itself, of any profile.
ResolveNext ==
    \/ \E s \in Inputs, rules \in SUBSET AllRules : Begin(s, rules)
    \/ Pop
    \/ Finish
    \/ Forget

ResolveSpec == Idle /\ [][ResolveNext]_resolution

-----------------------------------------------------------------------------
(* Properties *)

\* The enabled mods, each once, in an order that meets every rule
IsOrder(p) ==
    /\ Distinct(p)
    /\ \A m \in Named(input) : \E i \in DOMAIN input : p[i] = m
    /\ \A r \in edges : \E i, j \in DOMAIN input : i < j /\ p[i] = Earlier(r) /\ p[j] = Later(r)

\* The result is an order that meets the rules, and the first of all of them when they are
\* compared like words, by the mods' places in the list: wherever another one departs from it,
\* the other one takes a mod that is further down the list (the stability contract,
\* resolver/mod.rs:180-193).
LeastOrder ==
    stage = "done" =>
        /\ Len(order) = Len(input)
        /\ IsOrder(order)
        /\ \A p \in [DOMAIN input -> Named(input)] :
               IsOrder(p) => \A i \in DOMAIN input :
                   (\A j \in 1 .. i - 1 : p[j] = order[j]) => Position(order[i]) <= Position(p[i])

\* A cycle is reported only when no order of the enabled mods meets the rules, and for a mod
\* that was not emitted.
CycleIsReal ==
    stage = "cycle" =>
        /\ \A p \in [DOMAIN input -> Named(input)] : ~ IsOrder(p)
        /\ offender # {} /\ offender \cap Named(order) = {}
=============================================================================
