------------------------------- MODULE LoadOrder -------------------------------
(***************************************************************************)
(* The list of mods of one profile: the sessions that edit it (the         *)
(* interface and the command line, crates/modde-ui/src/app/profile_ops.rs, *)
(* crates/modde-cli/src/commands/profile/mod.rs) read the whole profile,   *)
(* change their copy and write it back whole, row by row                   *)
(* (crates/modde-core/src/db/profile.rs); a deployment reads it in between *)
(* and resolves what it read.                                              *)
(***************************************************************************)
EXTENDS Resolver

CONSTANTS
    Editors,
    Profiles,       \* what the profile may be at the beginning: its lock and its list
    Rulesets,       \* and its rules
    Commands,
    MaxEdits,       \* bound: commands of all sessions together
    MaxDeaths       \* bound: processes that die while they write

Entry == [id : Mods, enabled : BOOLEAN, pinned : BOOLEAN]
Command ==
    [op : {"reorder"}, mod : Mods, up : BOOLEAN]
        \cup [op : {"toggle", "pin"}, mod : Mods, on : BOOLEAN]
        \cup [op : {"add"}, mod : Mods]
        \cup [op : {"remove"}, index : Nat \ {0}]
        \cup [op : {"lock"}, on : BOOLEAN]

ASSUME LoadOrderAssumption ==
    /\ Profiles \subseteq [locked : BOOLEAN, list : Seq(Entry)]
    /\ \A p \in Profiles : \A i, j \in DOMAIN p.list : p.list[i].id = p.list[j].id => i = j
    /\ Rulesets \subseteq SUBSET AllRules
    /\ Commands \subseteq Command
    /\ MaxEdits \in Nat /\ MaxDeaths \in Nat

VARIABLES
    locked,         \* profiles.load_order_lock
    rows,           \* profile_mods, as load_mods orders them; `at` is sort_index
    rules,          \* load_order_rules
    session,        \* session[e]: where editor e is and the copy it works on
    reading,        \* the list a deployment has read, before the rules; or nothing, in a set
    edits, deaths

profile == <<locked, rows, rules>>
vars == <<profile, session, reading, edits, deaths, resolution>>

Row(m, i) == [id |-> m.id, enabled |-> m.enabled, pinned |-> m.pinned, at |-> i]
Entered(r) == [id |-> r.id, enabled |-> r.enabled, pinned |-> r.pinned]

\* load_mods: ORDER BY sort_index
Stored == [i \in DOMAIN rows |-> Entered(rows[i])]

\* A row is read behind those with the same sort_index that were there before it.
Inserted(r) ==
    LET n == Cardinality({i \in DOMAIN rows : rows[i].at <= r.at})
    IN  SubSeq(rows, 1, n) \o <<r>> \o SubSeq(rows, n + 1, Len(rows))

Nobody == [pc |-> "idle", locked |-> FALSE, list |-> <<>>, rules |-> {}, next |-> 0]

-----------------------------------------------------------------------------
(* The copy: what a command makes of it, or a refusal *)

Place(list, m) == {i \in DOMAIN list : list[i].id = m}

\* Mutant: the neighbour's pin is not looked at.
ReorderedPast(frozen, list, c) ==
    LET i == CHOOSE i \in Place(list, c.mod) : TRUE
        t == IF c.up THEN i - 1 ELSE i + 1
    IN  IF \/ frozen \/ Place(list, c.mod) = {}
           \/ list[i].pinned \/ t \notin DOMAIN list
        THEN {}
        ELSE {[list EXCEPT ![i] = list[t], ![t] = list[i]]}

\* try_reorder; the first reason to refuse wins, and a refusal leaves everything as it is.
Reordered(frozen, list, c) ==
    LET i == CHOOSE i \in Place(list, c.mod) : TRUE
        t == IF c.up THEN i - 1 ELSE i + 1
    IN  IF \/ frozen \/ Place(list, c.mod) = {}
           \/ list[i].pinned \/ t \notin DOMAIN list \/ list[t].pinned
        THEN {}
        ELSE {[list EXCEPT ![i] = list[t], ![t] = list[i]]}

\* The lists a command writes: none if it stops without writing.
Edited(frozen, list, c) ==
    CASE c.op = "reorder" -> Reordered(frozen, list, c)
      [] c.op = "toggle" ->
            {[i \in DOMAIN list |->
                IF list[i].id = c.mod THEN [list[i] EXCEPT !.enabled = c.on] ELSE list[i]]}
      [] c.op = "pin" ->
            {[list EXCEPT ![i].pinned = c.on] : i \in Place(list, c.mod)}
      [] c.op = "add" ->
            {Append(list, [id |-> c.mod, enabled |-> TRUE, pinned |-> FALSE])}
      [] c.op = "remove" ->
            {SubSeq(list, 1, k - 1) \o SubSeq(list, k + 1, Len(list)) :
                k \in {c.index} \cap DOMAIN list}
      [] c.op = "lock" -> IF frozen = c.on THEN {} ELSE {list}

-----------------------------------------------------------------------------
(* A session *)

\* resolve works on a copy of its own: nothing another process does meanwhile can reach it.
Undisturbed == stage # "sorting" /\ UNCHANGED resolution

Go(e, r) == session' = [session EXCEPT ![e] = r]

\* The row of the profile, its mods and its rules are read by a statement each.
ReadProfile(e) ==
    /\ session[e].pc = "idle" /\ edits < MaxEdits
    /\ edits' = edits + 1
    /\ Go(e, [Nobody EXCEPT !.pc = "mods", !.locked = locked])
    /\ UNCHANGED <<profile, reading, deaths>> /\ Undisturbed

ReadMods(e) ==
    /\ session[e].pc = "mods"
    /\ Go(e, [session[e] EXCEPT !.pc = "rules", !.list = Stored])
    /\ UNCHANGED <<profile, reading, edits, deaths>> /\ Undisturbed

ReadRules(e) ==
    /\ session[e].pc = "rules"
    /\ Go(e, [session[e] EXCEPT !.pc = "edit", !.rules = rules])
    /\ UNCHANGED <<profile, reading, edits, deaths>> /\ Undisturbed

Edit(e) ==
    /\ session[e].pc = "edit"
    /\ \E c \in Commands :
        LET lists == Edited(session[e].locked, session[e].list, c)
        IN  IF lists = {}
            THEN Go(e, Nobody)
            ELSE \E l \in lists :
                    Go(e, [session[e] EXCEPT !.pc = "update", !.list = l,
                                             !.locked = IF c.op = "lock" THEN c.on ELSE @])
    /\ UNCHANGED <<profile, reading, edits, deaths>> /\ Undisturbed

\* update_profile, which create_or_update comes to as well when the profile's row is there:
\* its INSERT is refused before anything is written.
WriteProfile(e) ==
    /\ session[e].pc = "update"
    /\ locked' = session[e].locked
    /\ Go(e, [session[e] EXCEPT !.pc = "clear_mods"])
    /\ UNCHANGED <<rows, rules, reading, edits, deaths>> /\ Undisturbed

\* Mutant: the old rows stay.
ClearNothing(e) ==
    /\ session[e].pc = "clear_mods"
    /\ Go(e, [session[e] EXCEPT !.pc = "clear_rules"])
    /\ UNCHANGED <<profile, reading, edits, deaths>> /\ Undisturbed

ClearMods(e) ==
    /\ session[e].pc = "clear_mods"
    /\ rows' = <<>>
    /\ Go(e, [session[e] EXCEPT !.pc = "clear_rules"])
    /\ UNCHANGED <<locked, rules, reading, edits, deaths>> /\ Undisturbed

ClearRules(e) ==
    /\ session[e].pc = "clear_rules"
    /\ rules' = {}
    /\ Go(e, [session[e] EXCEPT !.pc = "insert", !.next = 1])
    /\ UNCHANGED <<locked, rows, reading, edits, deaths>> /\ Undisturbed

\* insert_mods: a mod has one row in a profile, and a second one is an error nothing is taken
\* back for.
InsertMod(e) ==
    LET s == session[e] IN
    /\ s.pc = "insert" /\ s.next <= Len(s.list)
    /\ LET m == s.list[s.next] IN
       IF \E i \in DOMAIN rows : rows[i].id = m.id
       THEN Go(e, Nobody) /\ UNCHANGED rows
       ELSE /\ rows' = Inserted(Row(m, s.next))
            /\ Go(e, [s EXCEPT !.next = @ + 1])
    /\ UNCHANGED <<locked, rules, reading, edits, deaths>> /\ Undisturbed

\* insert_rules, after the last mod
InsertRule(e) ==
    LET s == session[e] IN
    /\ s.pc = "insert" /\ s.next > Len(s.list) /\ ~ s.rules \subseteq rules
    /\ rules' = rules \cup {CHOOSE r \in s.rules : r \notin rules}
    /\ UNCHANGED <<locked, rows, session, reading, edits, deaths>> /\ Undisturbed

Written(e) ==
    /\ session[e].pc = "insert" /\ session[e].next > Len(session[e].list)
    /\ session[e].rules \subseteq rules
    /\ Go(e, Nobody)
    /\ UNCHANGED <<profile, reading, edits, deaths>> /\ Undisturbed

Die(e) ==
    /\ session[e].pc \in {"update", "clear_mods", "clear_rules", "insert"}
    /\ deaths < MaxDeaths /\ deaths' = deaths + 1
    /\ Go(e, Nobody)
    /\ UNCHANGED <<profile, reading, edits>> /\ Undisturbed

-----------------------------------------------------------------------------
(* A deployment *)

Load ==
    /\ reading = {} /\ stage = "idle"
    /\ reading' = {Stored}
    /\ UNCHANGED <<profile, session, edits, deaths, resolution>>

EnabledOf(list) ==
    LET Kept(i) == Cardinality({j \in 1 .. i : list[j].enabled})
        n == Kept(Len(list))
    IN  [k \in 1 .. n |-> list[CHOOSE i \in DOMAIN list : list[i].enabled /\ Kept(i) = k].id]

Resolve ==
    /\ \E l \in reading : Begin(EnabledOf(l), rules)
    /\ reading' = {}
    /\ UNCHANGED <<profile, session, edits, deaths>>

Sort == (Pop \/ Finish) /\ UNCHANGED <<profile, session, reading, edits, deaths>>

Use ==
    /\ stage \in {"done", "cycle", "conflict"} /\ Forget
    /\ UNCHANGED <<profile, session, reading, edits, deaths>>

-----------------------------------------------------------------------------
Init ==
    /\ \E p \in Profiles :
        /\ locked = p.locked
        /\ rows = [i \in DOMAIN p.list |-> Row(p.list[i], i)]
    /\ rules \in Rulesets
    /\ session = [e \in Editors |-> Nobody]
    /\ reading = {} /\ edits = 0 /\ deaths = 0
    /\ Idle

Next ==
    \/ \E e \in Editors :
        \/ ReadProfile(e) \/ ReadMods(e) \/ ReadRules(e) \/ Edit(e)
        \/ WriteProfile(e) \/ ClearMods(e) \/ ClearRules(e)
        \/ InsertMod(e) \/ InsertRule(e) \/ Written(e)
        \/ Die(e)
    \/ Load \/ Resolve \/ Sort \/ Use

Spec == Init /\ [][Next]_vars

-----------------------------------------------------------------------------
(* Properties *)

Pcs == {"idle", "mods", "rules", "edit", "update", "clear_mods", "clear_rules", "insert"}

TypeOK ==
    /\ locked \in BOOLEAN
    /\ \A i \in DOMAIN rows : rows[i] \in [id : Mods, enabled : BOOLEAN, pinned : BOOLEAN, at : Nat]
    /\ \A i, j \in DOMAIN rows : rows[i].id = rows[j].id => i = j
    /\ rules \subseteq AllRules
    /\ \A e \in Editors :
        /\ session[e].pc \in Pcs /\ session[e].locked \in BOOLEAN
        /\ session[e].list \in Seq(Entry) /\ session[e].rules \subseteq AllRules
        /\ session[e].next \in 0 .. Len(session[e].list) + 1
    /\ \A l \in reading : l \in Seq(Entry)
    /\ edits \in 0 .. MaxEdits /\ deaths \in 0 .. MaxDeaths
    /\ stage \in {"idle", "sorting", "done", "cycle", "conflict"}
    /\ input \in Seq(Mods) /\ Distinct(input) /\ edges \subseteq AllRules
    /\ degree \in [Mods -> Nat] /\ ready \subseteq Mods \ Named(order)
    /\ order \in Seq(Mods) /\ offender \subseteq Mods

\* What becomes of a list in the table: a mod at its end that comes before has no row.
Insertable(l) ==
    LET n == Len(l)
    IN  IF \E i \in 1 .. n - 1 : l[i].id = l[n].id THEN SubSeq(l, 1, n - 1) ELSE l

\* The list being written: the copy of a session that has cleared the rows
Writing == {e \in Editors : session[e].pc \in {"clear_rules", "insert"}}
View ==
    IF Writing = {} THEN Stored ELSE Insertable(session[CHOOSE e \in Writing : TRUE].list)

\* Writing a profile row by row comes to changing its list at once (ProfileEdits): a move takes
\* neighbours neither of which is pinned, in a profile that is not locked, nothing else changes
\* the order, and a process that dies while it writes costs the end of the list only
\* (update_profile, try_reorder). For sessions that do not overlap.
Edits == INSTANCE ProfileEdits WITH list <- View, frozen <- locked
EditsAreWhole == Edits!Spec

\* Whenever a deployment reads the rows, it gets the beginning of a list that was chosen, in
\* its order.
RowsAreBeginning ==
    LET s == Stored IN Len(s) <= Len(View) /\ s = SubSeq(View, 1, Len(s))

-----------------------------------------------------------------------------
(* What does not hold *)

\* A session that ends, and does not die, has put back the rules it found: it does not when
\* the mod it adds has a row already, and it stops at that row.
RulesKept ==
    [][\A e \in Writing \ Writing' : deaths' = deaths => rules' = session[e].rules]_vars

\* "you cannot reorder or remove locked mods" (docs/src/guides/profiles.md:182): a locked
\* profile only grows at its end.
LockHolds ==
    [][locked /\ locked' =>
        /\ Len(View) <= Len(View')
        /\ \A i \in DOMAIN View : View'[i].id = View[i].id]_vars

\* The order of the enabled mods of a list that LeastOrder asks for, if there is one
Least(list, rs) ==
    LET s == EnabledOf(list)
        on == Named(s)
        At(m) == CHOOSE i \in DOMAIN s : s[i] = m
        orders == {p \in [DOMAIN s -> on] :
                       /\ Distinct(p)
                       /\ \A r \in Ordering(rs, on) : \E i, j \in DOMAIN s :
                              i < j /\ p[i] = Earlier(r) /\ p[j] = Later(r)}
    IN  {p \in orders : \A q \in orders : \A i \in DOMAIN s :
            (\A j \in 1 .. i - 1 : q[j] = p[j]) => At(p[i]) <= At(q[i])}

\* "Swapping two adjacent mods in the list and re-resolving produces the swapped order"
\* (docs/src/reference/architecture.md:338), even when no rule names both.
ReorderShows ==
    [][\A i \in DOMAIN View :
        /\ i + 1 \in DOMAIN View /\ DOMAIN View' = DOMAIN View
        /\ View[i].enabled /\ View[i + 1].enabled
        /\ View' = [View EXCEPT ![i] = View[i + 1], ![i + 1] = View[i]]
        /\ \A e \in Writing' : \A r \in session[e].rules : {r.a, r.b} # {View[i].id, View[i + 1].id}
        => \A e \in Writing' :
            Least(View, session[e].rules) = {} \/ Least(View', session[e].rules) # Least(View, session[e].rules)]_vars
=============================================================================
