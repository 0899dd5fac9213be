-------------------------- MODULE LoadOrder_proofs --------------------------
(***************************************************************************)
(* That the resolver sorts as its contract says, for any list of mods and  *)
(* any finite set of rules; that it is given nothing else by a deployment, *)
(* whatever sessions do to the profile; and that a session that is alone   *)
(* changes the profile as ProfileEdits says.                               *)
(***************************************************************************)
EXTENDS LoadOrder, FiniteSetTheorems, SequenceTheorems, WellFoundedInduction, TLAPS

-----------------------------------------------------------------------------
(* Lemmas about numbers and sequences *)

\* A set of numbers that has a member has a least one.
LEMMA LeastNumber ==
    ASSUME NEW T, T \subseteq Nat, T # {}
    PROVE  \E x \in T : \A y \in T : x <= y
<1> DEFINE F == {0 .. x : x \in T}
<1>1. F \subseteq FiniteSubsetsOf(Nat)
  <2> SUFFICES ASSUME NEW x \in T PROVE 0 .. x \in FiniteSubsetsOf(Nat)
    OBVIOUS
  <2>1. IsFiniteSet(0 .. x)
    BY FS_Interval
  <2>2. 0 .. x \subseteq Nat
    BY x \in Nat
  <2> QED BY <2>1, <2>2 DEF FiniteSubsetsOf
<1>2. F # {}
  OBVIOUS
<1> HIDE DEF F
<1>3. PICK u \in F : \A v \in F : ~ (<<v, u>> \in StrictSubsetOrdering(Nat))
  BY <1>1, <1>2, FS_StrictSubsetOrderingWellFounded, WFMin
<1>4. PICK x \in T : u = 0 .. x
  BY DEF F
<1>5. \A y \in T : x <= y
  <2> SUFFICES ASSUME NEW y \in T, ~ x <= y PROVE FALSE
    OBVIOUS
  <2>1. x \in Nat /\ y \in Nat /\ y < x
    OBVIOUS
  <2>2. 0 .. y \subseteq 0 .. x /\ 0 .. y # 0 .. x
    <3>1. x \in 0 .. x /\ x \notin 0 .. y
      BY <2>1
    <3>2. 0 .. y \subseteq 0 .. x
      BY <2>1
    <3> QED BY <3>1, <3>2
  <2>3. 0 .. y \in F
    BY DEF F
  <2>4. 0 .. y \in SUBSET Nat /\ 0 .. x \in SUBSET Nat
    BY <2>1
  <2>5. <<0 .. y, 0 .. x>> \in StrictSubsetOrdering(Nat)
    BY <2>2, <2>4 DEF StrictSubsetOrdering
  <2> QED BY <1>3, <1>4, <2>3, <2>5
<1> QED BY <1>5

\* A sequence without repetitions names as many things as it has places.
LEMMA NamedCardinality ==
    ASSUME NEW S, NEW s \in Seq(S), Distinct(s)
    PROVE  IsFiniteSet(Named(s)) /\ Cardinality(Named(s)) = Len(s)
<1> DEFINE f == [i \in 1 .. Len(s) |-> s[i]]
<1>1. Len(s) \in Nat /\ DOMAIN s = 1 .. Len(s)
  OBVIOUS
<1>2. f \in Bijection(1 .. Len(s), Named(s))
  <2>1. f \in [1 .. Len(s) -> Named(s)]
    BY <1>1 DEF Named
  <2>2. \A i, j \in 1 .. Len(s) : f[i] = f[j] => i = j
    BY <1>1 DEF Distinct
  <2>3. \A t \in Named(s) : \E i \in 1 .. Len(s) : f[i] = t
    BY <1>1 DEF Named
  <2> QED BY <2>1, <2>2, <2>3 DEF Bijection, Injection, Surjection, IsInjective
<1>3. ExistsBijection(1 .. Len(s), Named(s))
  BY <1>2 DEF ExistsBijection
<1>4. IsFiniteSet(1 .. Len(s)) /\ Cardinality(1 .. Len(s)) = Len(s)
  BY <1>1, FS_Interval
<1> QED BY <1>3, <1>4, FS_Bijection

\* Two such sequences, one of which names nothing but what the other does, name the same when
\* they are as long as each other, and only then.
LEMMA NamedEqual ==
    ASSUME NEW S, NEW s \in Seq(S), NEW t \in Seq(S), Distinct(s), Distinct(t),
           Named(s) \subseteq Named(t)
    PROVE  Len(s) = Len(t) <=> Named(s) = Named(t)
<1>1. /\ IsFiniteSet(Named(s)) /\ Cardinality(Named(s)) = Len(s)
      /\ IsFiniteSet(Named(t)) /\ Cardinality(Named(t)) = Len(t)
  BY NamedCardinality
<1>2. Cardinality(Named(t)) = Cardinality(Named(s)) => Named(t) = Named(s)
  BY <1>1, FS_Subset
<1> QED BY <1>1, <1>2
-----------------------------------------------------------------------------
(* The invariant of the loop *)

\* The mods emitted before place i
Prior(i) == {order[j] : j \in 1 .. i - 1}

\* What m still waits for
Waits(m) == {r \in Into(m) : Earlier(r) \notin Named(order)}

SortTyped ==
    /\ stage \in {"idle", "sorting", "done", "cycle", "conflict"}
    /\ input \in Seq(Mods) /\ Distinct(input)
    /\ edges \subseteq AllRules
    /\ order \in Seq(Mods) /\ Distinct(order)
    /\ Named(order) \subseteq Named(input)

\* The degrees count the rules yet to be met, and the heap holds what waits for nothing.
Counted ==
    /\ \A r \in edges : Earlier(r) \in Named(input) /\ Later(r) \in Named(input)
    /\ degree = [m \in Mods |-> Cardinality(Waits(m))]
    /\ ready = {m \in Named(input) \ Named(order) : Waits(m) = {}}

\* What was emitted came after all it waits for.
Met == \A r \in edges, j \in DOMAIN order :
          order[j] = Later(r) => \E i \in DOMAIN order : i < j /\ order[i] = Earlier(r)

\* Every mod emitted was the least of those that waited for nothing then.
Greedy == \A i \in DOMAIN order, m \in Named(input) :
             m \notin Prior(i) /\ (\A r \in Into(m) : Earlier(r) \in Prior(i))
                => Position(order[i]) <= Position(m)

Ended ==
    /\ stage = "done" => Len(order) = Len(input)
    /\ stage = "cycle" =>
        /\ ready = {} /\ Len(order) # Len(input)
        /\ offender = {m \in Named(input) :
                          /\ degree[m] > 0
                          /\ \A n \in Named(input) : degree[n] > 0 => Position(m) <= Position(n)}

SortInv == SortTyped /\ (stage \in {"sorting", "done", "cycle"} => Counted /\ Met /\ Greedy /\ Ended)

LEMMA NamedAreMods ==
    ASSUME NEW s \in Seq(Mods)
    PROVE  Named(s) \subseteq Mods
BY DEF Named

LEMMA PositionOf ==
    ASSUME SortTyped, NEW m \in Named(input)
    PROVE  Position(m) \in DOMAIN input /\ input[Position(m)] = m /\ Position(m) \in Nat
<1>1. PICK i \in DOMAIN input : input[i] = m
  BY DEF Named
<1>2. Position(m) \in DOMAIN input /\ input[Position(m)] = m
  BY <1>1 DEF Position
<1>3. DOMAIN input = 1 .. Len(input) /\ Len(input) \in Nat
  BY DEF SortTyped
<1> QED BY <1>2, <1>3

\* Rules are finitely many, and so are those that something waits for.
LEMMA WaitsFinite ==
    ASSUME SortTyped
    PROVE  \A m : /\ IsFiniteSet(Into(m)) /\ IsFiniteSet(Waits(m))
                  /\ Cardinality(Waits(m)) \in Nat
                  /\ Cardinality(Waits(m)) = 0 <=> Waits(m) = {}
<1> SUFFICES ASSUME NEW m
             PROVE  /\ IsFiniteSet(Into(m)) /\ IsFiniteSet(Waits(m))
                    /\ Cardinality(Waits(m)) \in Nat
                    /\ Cardinality(Waits(m)) = 0 <=> Waits(m) = {}
  OBVIOUS
<1>1. IsFiniteSet(edges)
  BY ResolverAssumption, FS_Subset DEF SortTyped
<1>2. IsFiniteSet(Into(m))
  BY <1>1, FS_Subset DEF Into
<1>3. IsFiniteSet(Waits(m))
  BY <1>2, FS_Subset DEF Waits
<1> QED BY <1>2, <1>3, FS_CardinalityType, FS_EmptySet

-----------------------------------------------------------------------------
(* The steps keep the invariant *)

LEMMA IdleInv == Idle => SortInv
<1> SUFFICES ASSUME Idle PROVE SortInv
  OBVIOUS
<1>1. <<>> \in Seq(Mods) /\ Distinct(<<>>) /\ Named(<<>>) = {}
  BY DEF Distinct, Named
<1> QED BY <1>1 DEF Idle, SortInv, SortTyped

LEMMA ForgetInv == Forget => SortInv'
<1> SUFFICES ASSUME Forget PROVE SortInv'
  OBVIOUS
<1>1. <<>> \in Seq(Mods) /\ Distinct(<<>>) /\ Named(<<>>) = {}
  BY DEF Distinct, Named
<1> QED BY <1>1 DEF Forget, SortInv, SortTyped

LEMMA BeginInv ==
    ASSUME SortInv, NEW s \in Inputs, NEW rs \in SUBSET AllRules, Begin(s, rs)
    PROVE  SortInv'
<1> DEFINE on == Named(s)
           kept == Ordering(rs, on)
<1>0. s \in Seq(Mods) /\ Distinct(s) /\ on \subseteq Mods
  <2>1. s \in Seq(Mods)
    BY SeqDef DEF Inputs
  <2>2. Distinct(s)
    BY DEF Inputs
  <2> QED BY <2>1, <2>2, NamedAreMods
<1>1. <<>> \in Seq(Mods) /\ Distinct(<<>>) /\ Named(<<>>) = {} /\ DOMAIN <<>> = {}
  BY DEF Distinct, Named
<1>2. /\ stage = "idle" /\ input' = s /\ order' = <<>> /\ offender' = {}
  BY DEF Begin
<1>3. CASE Conflicts(rs, on) # {}
  <2>1. stage' = "conflict" /\ UNCHANGED edges
    BY <1>3 DEF Begin
  <2> QED BY <1>0, <1>1, <1>2, <2>1 DEF SortInv, SortTyped
<1>4. CASE Conflicts(rs, on) = {}
  <2>1. /\ stage' = "sorting" /\ edges' = kept
        /\ degree' = [m \in Mods |-> Cardinality({r \in kept : Later(r) = m})]
        /\ ready' = {m \in on : degree'[m] = 0}
    BY <1>4 DEF Begin
  <2>2. kept \subseteq AllRules
    BY DEF Ordering
  <2>3. SortTyped'
    BY <1>0, <1>1, <1>2, <2>1, <2>2 DEF SortTyped
  <2>4. \A m : Waits(m)' = {r \in kept : Later(r) = m}
    BY <1>1, <1>2, <2>1 DEF Waits, Into
  <2>5. Counted'
    <3>1. (\A r \in edges : Earlier(r) \in Named(input) /\ Later(r) \in Named(input))'
      BY <1>2, <2>1 DEF Ordering
    <3>2. (degree = [m \in Mods |-> Cardinality(Waits(m))])'
      BY <2>1, <2>4
    <3>3. \A m \in Mods : degree'[m] = 0 <=> Waits(m)' = {}
      <4>1. IsFiniteSet(kept)
        BY <2>2, ResolverAssumption, FS_Subset
      <4>2. \A m : IsFiniteSet({r \in kept : Later(r) = m})
        BY <4>1, FS_Subset
      <4>3. \A m : Cardinality({r \in kept : Later(r) = m}) = 0 <=> {r \in kept : Later(r) = m} = {}
        BY <4>2, FS_EmptySet
      <4> QED BY <2>1, <2>4, <4>3
    <3>4. (ready = {m \in Named(input) \ Named(order) : Waits(m) = {}})'
      BY <1>0, <1>1, <1>2, <2>1, <3>3
    <3> QED BY <3>1, <3>2, <3>4 DEF Counted
  <2>6. Met' /\ Greedy' /\ Ended'
    BY <1>1, <1>2, <2>1 DEF Met, Greedy, Ended
  <2> QED BY <2>3, <2>5, <2>6 DEF SortInv
<1> QED BY <1>3, <1>4

\* What a round of the loop does to the order
LEMMA PopOrder ==
    ASSUME SortTyped, NEW m \in Named(input), m \notin Named(order), order' = Append(order, m)
    PROVE  /\ order' \in Seq(Mods) /\ Distinct(order)'
           /\ DOMAIN order = 1 .. Len(order) /\ DOMAIN order' = 1 .. Len(order) + 1
           /\ Len(order) \in Nat
           /\ \A i \in DOMAIN order : order'[i] = order[i]
           /\ order'[Len(order) + 1] = m
           /\ Named(order)' = Named(order) \cup {m}
<1>1. m \in Mods /\ order \in Seq(Mods)
  BY NamedAreMods DEF SortTyped
<1>2. /\ order' \in Seq(Mods) /\ Len(order') = Len(order) + 1
      /\ DOMAIN order = 1 .. Len(order) /\ DOMAIN order' = 1 .. Len(order) + 1
      /\ Len(order) \in Nat
  BY <1>1
<1>3. \A i \in DOMAIN order : order'[i] = order[i]
  BY <1>1, <1>2
<1>4. order'[Len(order) + 1] = m
  BY <1>1, <1>2
<1>5. Named(order)' = Named(order) \cup {m}
  <2>1. \A i \in DOMAIN order' : order'[i] \in Named(order) \cup {m}
    <3> TAKE i \in DOMAIN order'
    <3>1. i \in DOMAIN order \/ i = Len(order) + 1
      BY <1>2
    <3> QED BY <3>1, <1>3, <1>4 DEF Named
  <2>2. \A i \in DOMAIN order : i \in DOMAIN order'
    BY <1>2
  <2>3. Len(order) + 1 \in DOMAIN order'
    BY <1>2
  <2>4. Named(order)' \subseteq Named(order) \cup {m}
    BY <2>1 DEF Named
  <2>5. Named(order) \subseteq Named(order)'
    BY <2>2, <1>3 DEF Named
  <2>6. m \in Named(order)'
    BY <2>3, <1>4 DEF Named
  <2> QED BY <2>4, <2>5, <2>6
<1>6. Distinct(order)'
  <2> SUFFICES ASSUME NEW i \in DOMAIN order', NEW j \in DOMAIN order', order'[i] = order'[j]
               PROVE  i = j
    BY DEF Distinct
  <2>1. /\ i \in DOMAIN order \/ i = Len(order) + 1
        /\ j \in DOMAIN order \/ j = Len(order) + 1
    BY <1>2
  <2>2. \A k \in DOMAIN order : order'[k] # m
    BY <1>3 DEF Named
  <2>3. CASE i \in DOMAIN order /\ j \in DOMAIN order
    BY <2>3, <1>3 DEF SortTyped, Distinct
  <2> QED BY <2>1, <2>2, <2>3, <1>4
<1> QED BY <1>2, <1>3, <1>4, <1>5, <1>6

LEMMA PopInv ==
    ASSUME SortInv, Pop
    PROVE  SortInv'
<1>0. stage = "sorting" /\ UNCHANGED <<stage, input, edges, offender>>
  BY DEF Pop
<1>1. SortTyped /\ Counted /\ Met /\ Greedy
  BY <1>0 DEF SortInv
<1>2. PICK m \in ready :
        /\ \A n \in ready : Position(m) <= Position(n)
        /\ order' = Append(order, m)
        /\ degree' = [n \in Mods |-> degree[n] - Cardinality(Between(m, n))]
        /\ ready' = (ready \ {m}) \cup {n \in Mods : Between(m, n) # {} /\ degree'[n] = 0}
  BY DEF Pop
<1>3. m \in Named(input) /\ m \notin Named(order) /\ Waits(m) = {}
  BY <1>1 DEF Counted
<1>4. /\ order' \in Seq(Mods) /\ Distinct(order)'
      /\ DOMAIN order = 1 .. Len(order) /\ DOMAIN order' = 1 .. Len(order) + 1
      /\ Len(order) \in Nat
      /\ \A i \in DOMAIN order : order'[i] = order[i]
      /\ order'[Len(order) + 1] = m
      /\ Named(order)' = Named(order) \cup {m}
  BY <1>1, <1>2, <1>3, PopOrder
<1>5. SortTyped'
  BY <1>0, <1>1, <1>3, <1>4 DEF SortTyped
<1>6. Named(input) \subseteq Mods
  BY <1>1, NamedAreMods DEF SortTyped
<1>7. \A n : Waits(n)' = Waits(n) \ Between(m, n)
  BY <1>0, <1>4 DEF Waits, Into, Between
<1>8. \A n : Between(m, n) \subseteq Waits(n)
  BY <1>3 DEF Between, Waits, Into
<1>9. \A n \in Mods : degree'[n] = Cardinality(Waits(n)') /\ (degree'[n] = 0 <=> Waits(n)' = {})
  <2> TAKE n \in Mods
  <2>1. IsFiniteSet(Waits(n)) /\ Waits(n) \cap Between(m, n) = Between(m, n)
    BY <1>1, <1>8, WaitsFinite
  <2>2. /\ IsFiniteSet(Waits(n) \ Between(m, n))
        /\ Cardinality(Waits(n) \ Between(m, n)) = Cardinality(Waits(n)) - Cardinality(Between(m, n))
    BY <2>1, FS_Difference
  <2>3. degree'[n] = Cardinality(Waits(n)')
    BY <1>1, <1>2, <1>7, <2>2 DEF Counted
  <2> QED BY <2>2, <2>3, <1>7, FS_EmptySet
<1>10. Counted'
  <2>1. (\A r \in edges : Earlier(r) \in Named(input) /\ Later(r) \in Named(input))'
    BY <1>0, <1>1 DEF Counted
  <2>2. (degree = [n \in Mods |-> Cardinality(Waits(n))])'
    BY <1>2, <1>9
  <2>3. \A n \in ready' : n \in Named(input) \ Named(order)' /\ Waits(n)' = {}
    <3> TAKE n \in ready'
    <3>1. CASE n \in ready \ {m}
      <4>1. n \in Named(input) \ Named(order) /\ Waits(n) = {} /\ n # m
        BY <3>1, <1>1 DEF Counted
      <4> QED BY <4>1, <1>4, <1>7
    <3>2. CASE n \in Mods /\ Between(m, n) # {} /\ degree'[n] = 0
      <4>1. PICK r \in edges : Earlier(r) = m /\ Later(r) = n
        BY <3>2 DEF Between
      <4>2. n \in Named(input)
        BY <4>1, <1>1 DEF Counted
      <4>3. n # m
        BY <4>1, <1>3 DEF Waits, Into
      <4>4. n \notin Named(order)
        <5> SUFFICES ASSUME n \in Named(order) PROVE FALSE
          OBVIOUS
        <5>1. PICK j \in DOMAIN order : order[j] = n
          BY DEF Named
        <5>2. PICK i \in DOMAIN order : order[i] = m
          BY <4>1, <5>1, <1>1 DEF Met
        <5> QED BY <5>2, <1>3 DEF Named
      <4>5. Waits(n)' = {}
        BY <3>2, <1>9
      <4> QED BY <4>2, <4>3, <4>4, <4>5, <1>4
    <3> QED BY <3>1, <3>2, <1>2
  <2>4. \A n \in Named(input) \ Named(order)' : Waits(n)' = {} => n \in ready'
    <3> SUFFICES ASSUME NEW n \in Named(input) \ Named(order)', Waits(n)' = {}
                 PROVE  n \in ready'
      OBVIOUS
    <3>1. n \in Mods /\ n # m /\ n \notin Named(order) /\ degree'[n] = 0
      BY <1>4, <1>6, <1>9
    <3>2. CASE Between(m, n) # {}
      BY <3>1, <3>2, <1>2
    <3>3. CASE Between(m, n) = {}
      <4>1. Waits(n) = {}
        BY <3>3, <1>7
      <4> QED BY <4>1, <3>1, <1>1, <1>2 DEF Counted
    <3> QED BY <3>2, <3>3
  <2>5. (ready = {n \in Named(input) \ Named(order) : Waits(n) = {}})'
    BY <2>3, <2>4, <1>0
  <2> QED BY <2>1, <2>2, <2>5 DEF Counted
<1>11. Met'
  <2> SUFFICES ASSUME NEW r \in edges, NEW j \in DOMAIN order', order'[j] = Later(r)
               PROVE  \E i \in DOMAIN order' : i < j /\ order'[i] = Earlier(r)
    BY <1>0 DEF Met
  <2>1. CASE j \in DOMAIN order
    <3>1. PICK i \in DOMAIN order : i < j /\ order[i] = Earlier(r)
      BY <2>1, <1>1, <1>4 DEF Met
    <3> QED BY <3>1, <1>4
  <2>2. CASE j = Len(order) + 1
    <3>1. Later(r) = m
      BY <2>2, <1>4
    <3>2. Earlier(r) \in Named(order)
      BY <3>1, <1>3 DEF Waits, Into
    <3>3. PICK i \in DOMAIN order : order[i] = Earlier(r)
      BY <3>2 DEF Named
    <3> QED BY <2>2, <3>3, <1>4
  <2> QED BY <2>1, <2>2, <1>4
<1>12. Greedy'
  <2>1. \A i \in DOMAIN order : Prior(i)' = Prior(i)
    <3> TAKE i \in DOMAIN order
    <3>1. \A j \in 1 .. i - 1 : order'[j] = order[j]
      BY <1>4
    <3> QED BY <3>1 DEF Prior
  <2>2. \A k \in DOMAIN order' : k = Len(order) + 1 => Prior(k)' = Named(order)
    <3> SUFFICES ASSUME NEW k \in DOMAIN order', k = Len(order) + 1
                 PROVE  Prior(k)' = Named(order)
      OBVIOUS
    <3>1. \A j \in 1 .. k - 1 : j \in DOMAIN order /\ order'[j] = order[j]
      BY <1>4
    <3>2. \A j \in DOMAIN order : j \in 1 .. k - 1
      BY <1>4
    <3> QED BY <3>1, <3>2 DEF Prior, Named
  <2>3. \A n : Position(n)' = Position(n) /\ Into(n)' = Into(n)
    BY <1>0 DEF Position, Into
  <2> SUFFICES ASSUME NEW i \in DOMAIN order', NEW n \in Named(input),
                      n \notin Prior(i)', \A r \in Into(n) : Earlier(r) \in Prior(i)'
               PROVE  Position(order'[i]) <= Position(n)
    BY <1>0, <2>3 DEF Greedy
  <2>4. CASE i \in DOMAIN order
    BY <2>4, <2>1, <1>1, <1>4 DEF Greedy
  <2>5. CASE i = Len(order) + 1
    <3>1. n \notin Named(order) /\ Waits(n) = {}
      BY <2>2, <2>5 DEF Waits
    <3>2. n \in ready
      BY <3>1, <1>1 DEF Counted
    <3> QED BY <2>5, <3>2, <1>2, <1>4
  <2> QED BY <2>4, <2>5, <1>4
<1>13. Ended'
  BY <1>0 DEF Ended
<1> QED BY <1>0, <1>5, <1>10, <1>11, <1>12, <1>13 DEF SortInv

LEMMA FinishInv ==
    ASSUME SortInv, Finish
    PROVE  SortInv'
<1>1. stage = "sorting" /\ ready = {} /\ UNCHANGED <<input, edges, degree, ready, order>>
  BY DEF Finish
<1>2. SortTyped /\ Counted /\ Met /\ Greedy
  BY <1>1 DEF SortInv
<1>3. \A n : Position(n)' = Position(n) /\ Into(n)' = Into(n) /\ Waits(n)' = Waits(n) /\ Prior(n)' = Prior(n)
  BY <1>1 DEF Position, Into, Waits, Prior
<1>4. stage' \in {"done", "cycle"}
  BY DEF Finish
<1>5. SortTyped' /\ Counted' /\ Met' /\ Greedy'
  <2>1. SortTyped'
    BY <1>1, <1>2, <1>4 DEF SortTyped
  <2>2. Counted'
    BY <1>1, <1>2, <1>3 DEF Counted
  <2>3. Met'
    BY <1>1, <1>2 DEF Met
  <2>4. Greedy'
    BY <1>1, <1>2, <1>3 DEF Greedy
  <2> QED BY <2>1, <2>2, <2>3, <2>4
<1>6. Ended'
  BY <1>1, <1>3 DEF Finish, Ended
<1> QED BY <1>4, <1>5, <1>6 DEF SortInv

LEMMA StutterInv ==
    ASSUME SortInv, UNCHANGED resolution
    PROVE  SortInv'
<1>1. UNCHANGED <<stage, input, edges, degree, ready, order, offender>>
  BY DEF resolution
<1>2. \A n : Position(n)' = Position(n) /\ Into(n)' = Into(n) /\ Waits(n)' = Waits(n) /\ Prior(n)' = Prior(n)
  BY <1>1 DEF Position, Into, Waits, Prior
<1>3. SortTyped'
  BY <1>1 DEF SortInv, SortTyped
<1>4. Counted => Counted'
  BY <1>1, <1>2 DEF Counted
<1>5. Met => Met'
  BY <1>1 DEF Met
<1>6. Greedy => Greedy'
  BY <1>1, <1>2 DEF Greedy
<1>7. Ended => Ended'
  BY <1>1, <1>2 DEF Ended
<1> QED BY <1>1, <1>3, <1>4, <1>5, <1>6, <1>7 DEF SortInv

\* The invariant holds of every resolution.
THEOREM SortInvariance == ResolveSpec => []SortInv
<1>1. Idle => SortInv
  BY IdleInv
<1>2. SortInv /\ [ResolveNext]_resolution => SortInv'
  BY BeginInv, PopInv, FinishInv, ForgetInv, StutterInv DEF ResolveNext
<1> QED BY <1>1, <1>2, PTL DEF ResolveSpec

-----------------------------------------------------------------------------
(* What the invariant says of the results *)

\* A finished order has every mod, and meets every rule.
LEMMA DoneIsOrder ==
    ASSUME SortInv, stage = "done"
    PROVE  /\ Len(order) = Len(input) /\ DOMAIN order = DOMAIN input
           /\ Named(order) = Named(input) /\ IsOrder(order)
<1>1. SortTyped /\ Counted /\ Met /\ Ended
  BY DEF SortInv
<1>2. Len(order) = Len(input)
  BY <1>1 DEF Ended
<1>3. DOMAIN order = DOMAIN input
  BY <1>1, <1>2 DEF SortTyped
<1>4. Named(order) = Named(input)
  BY <1>1, <1>2, NamedEqual DEF SortTyped
<1>5. \A m \in Named(input) : \E i \in DOMAIN input : order[i] = m
  BY <1>3, <1>4 DEF Named
<1>6. \A r \in edges : \E i, j \in DOMAIN input :
          i < j /\ order[i] = Earlier(r) /\ order[j] = Later(r)
  <2> TAKE r \in edges
  <2>1. PICK j \in DOMAIN input : order[j] = Later(r)
    BY <1>1, <1>5 DEF Counted
  <2>2. PICK i \in DOMAIN input : i < j /\ order[i] = Earlier(r)
    BY <2>1, <1>1, <1>3 DEF Met
  <2> QED BY <2>1, <2>2
<1> QED BY <1>1, <1>2, <1>3, <1>4, <1>5, <1>6 DEF IsOrder, SortTyped

LEMMA InvLeast == SortInv => LeastOrder
<1> SUFFICES ASSUME SortInv, stage = "done"
             PROVE  /\ Len(order) = Len(input) /\ IsOrder(order)
                    /\ \A p \in [DOMAIN input -> Named(input)] :
                          IsOrder(p) => \A i \in DOMAIN input :
                              (\A j \in 1 .. i - 1 : p[j] = order[j])
                                  => Position(order[i]) <= Position(p[i])
  BY DEF LeastOrder
<1>1. Len(order) = Len(input) /\ DOMAIN order = DOMAIN input /\ IsOrder(order)
  BY DoneIsOrder
<1>2. SortTyped /\ Counted /\ Greedy
  BY DEF SortInv
<1>3. DOMAIN input = 1 .. Len(input) /\ Len(input) \in Nat
  BY <1>2 DEF SortTyped
<1>4. ASSUME NEW p \in [DOMAIN input -> Named(input)], IsOrder(p), NEW i \in DOMAIN input,
             \A j \in 1 .. i - 1 : p[j] = order[j]
      PROVE  Position(order[i]) <= Position(p[i])
  <2>1. p[i] \in Named(input) /\ DOMAIN p = DOMAIN input /\ Distinct(p)
    BY <1>4 DEF IsOrder
  <2>2. p[i] \notin Prior(i)
    <3> SUFFICES ASSUME NEW j \in 1 .. i - 1, p[i] = order[j] PROVE FALSE
      BY DEF Prior
    <3>1. j \in DOMAIN input /\ j # i /\ p[j] = p[i]
      BY <1>3, <1>4
    <3> QED BY <3>1, <2>1 DEF Distinct
  <2>3. \A r \in Into(p[i]) : Earlier(r) \in Prior(i)
    <3> TAKE r \in Into(p[i])
    <3>1. r \in edges /\ Later(r) = p[i]
      BY DEF Into
    <3>2. PICK a, b \in DOMAIN input : a < b /\ p[a] = Earlier(r) /\ p[b] = Later(r)
      BY <3>1, <1>4 DEF IsOrder
    <3>3. b = i
      BY <3>1, <3>2, <2>1 DEF Distinct
    <3>4. a \in 1 .. i - 1 /\ p[a] = order[a]
      BY <1>3, <1>4, <3>2, <3>3
    <3> QED BY <3>2, <3>4 DEF Prior
  <2> QED BY <2>1, <2>2, <2>3, <1>1, <1>2 DEF Greedy
<1> QED BY <1>1, <1>4

\* The order of every finished resolution is the first of all orders that meet the rules.
THEOREM OrderIsLeast == ResolveSpec => []LeastOrder
BY SortInvariance, InvLeast, PTL

\* Of the mods left out when the heap runs dry, each waits for another one that is left out.
LEMMA CycleIsKnot ==
    ASSUME SortInv, stage = "cycle"
    PROVE  /\ Named(input) \ Named(order) # {}
           /\ \A m \in Named(input) \ Named(order) :
                 \E r \in Into(m) : Earlier(r) \in Named(input) \ Named(order)
<1>1. SortTyped /\ Counted /\ Ended
  BY DEF SortInv
<1>2. Named(input) # Named(order)
  BY <1>1, NamedEqual DEF SortTyped, Ended
<1>3. ASSUME NEW m \in Named(input) \ Named(order)
      PROVE  \E r \in Into(m) : Earlier(r) \in Named(input) \ Named(order)
  <2>1. Waits(m) # {}
    BY <1>1, <1>3 DEF Counted, Ended
  <2>2. PICK r \in Into(m) : Earlier(r) \notin Named(order)
    BY <2>1 DEF Waits
  <2>3. Earlier(r) \in Named(input)
    BY <1>1 DEF Counted, Into
  <2> QED BY <2>2, <2>3
<1> QED BY <1>1, <1>2, <1>3 DEF SortTyped

\* What was emitted waits for nothing.
LEMMA EmittedIsFree ==
    ASSUME SortInv, stage = "cycle", NEW m \in Named(order)
    PROVE  degree[m] = 0
<1>1. SortTyped /\ Counted /\ Met
  BY DEF SortInv
<1>2. PICK j \in DOMAIN order : order[j] = m
  BY DEF Named
<1>3. \A r \in Into(m) : Earlier(r) \in Named(order)
  BY <1>1, <1>2 DEF Met, Into, Named
<1>4. Waits(m) = {}
  BY <1>3 DEF Waits
<1>5. m \in Mods
  BY <1>1, NamedAreMods DEF SortTyped
<1>6. Cardinality(Waits(m)) = 0
  BY <1>4, FS_EmptySet
<1> QED BY <1>1, <1>5, <1>6 DEF Counted

LEMMA InvCycle == SortInv => CycleIsReal
<1> SUFFICES ASSUME SortInv, stage = "cycle"
             PROVE  /\ \A p \in [DOMAIN input -> Named(input)] : ~ IsOrder(p)
                    /\ offender # {} /\ offender \cap Named(order) = {}
  BY DEF CycleIsReal
<1>1. SortTyped /\ Counted /\ Ended
  BY DEF SortInv
<1>2. DOMAIN input = 1 .. Len(input) /\ Len(input) \in Nat
  BY <1>1 DEF SortTyped
<1> DEFINE Left == Named(input) \ Named(order)
<1>3. Left # {} /\ \A m \in Left : \E r \in Into(m) : Earlier(r) \in Left
  BY CycleIsKnot
<1>4. ASSUME NEW p \in [DOMAIN input -> Named(input)], IsOrder(p)
      PROVE  FALSE
  <2> DEFINE T == {i \in DOMAIN input : p[i] \in Left}
  <2>1. T \subseteq Nat /\ T # {}
    <3>1. PICK m \in Named(input) : m \in Left
      BY <1>3
    <3>2. PICK i \in DOMAIN input : p[i] = m
      BY <1>4 DEF IsOrder
    <3>3. i \in T
      BY <3>1, <3>2
    <3>4. T \subseteq Nat
      BY <1>2
    <3> QED BY <3>3, <3>4
  <2> HIDE DEF T
  <2>2. PICK i \in T : \A k \in T : i <= k
    BY <2>1, LeastNumber
  <2>3. i \in DOMAIN input /\ p[i] \in Left
    BY DEF T
  <2>4. PICK r \in Into(p[i]) : Earlier(r) \in Left
    BY <1>3, <2>3
  <2>5. PICK a, b \in DOMAIN input : a < b /\ p[a] = Earlier(r) /\ p[b] = Later(r)
    BY <1>4, <2>4 DEF IsOrder, Into
  <2>6. b = i
    BY <1>4, <2>3, <2>4, <2>5 DEF IsOrder, Distinct, Into
  <2>7. a \in T
    BY <2>4, <2>5 DEF T
  <2> QED BY <1>2, <2>2, <2>3, <2>5, <2>6, <2>7
<1>5. offender # {}
  <2> DEFINE T == {Position(m) : m \in {m \in Named(input) : degree[m] > 0}}
  <2>1. T \subseteq Nat
    BY <1>1, PositionOf
  <2>2. T # {}
    <3>1. PICK m \in Named(input) : m \in Left
      BY <1>3
    <3>2. Cardinality(Waits(m)) \in Nat /\ Cardinality(Waits(m)) # 0
      <4>1. Waits(m) # {}
        BY <1>1, <3>1 DEF Counted, Ended
      <4> QED BY <4>1, <1>1, WaitsFinite
    <3>3. m \in Mods
      BY <1>1, NamedAreMods DEF SortTyped
    <3>4. degree[m] > 0
      BY <1>1, <3>2, <3>3 DEF Counted
    <3> QED BY <3>4
  <2>3. PICK x \in T : \A y \in T : x <= y
    <3> HIDE DEF T
    <3> QED BY <2>1, <2>2, LeastNumber
  <2>4. PICK m \in Named(input) : degree[m] > 0 /\ x = Position(m)
    OBVIOUS
  <2>5. \A n \in Named(input) : degree[n] > 0 => Position(m) <= Position(n)
    BY <2>3, <2>4
  <2> QED BY <1>1, <2>4, <2>5 DEF Ended
<1>6. offender \cap Named(order) = {}
  <2> SUFFICES ASSUME NEW m \in offender, m \in Named(order) PROVE FALSE
    OBVIOUS
  <2>1. degree[m] > 0
    BY <1>1 DEF Ended
  <2>2. degree[m] = 0
    BY EmittedIsFree
  <2> QED BY <2>1, <2>2
<1> QED BY <1>4, <1>5, <1>6

\* A cycle is reported only when no order meets the rules.
THEOREM CyclesAreReal == ResolveSpec => []CycleIsReal
BY SortInvariance, InvCycle, PTL

-----------------------------------------------------------------------------
(* What sessions and deployments, however many, keep of the profile *)

TableRow == [id : Mods, enabled : BOOLEAN, pinned : BOOLEAN, at : Nat]
Session == [pc : Pcs, locked : BOOLEAN, list : Seq(Entry), rules : SUBSET AllRules, next : Nat]

\* A mod comes once in a list.
Once(l) == \A i, j \in DOMAIN l : l[i].id = l[j].id => i = j

TableOK ==
    /\ locked \in BOOLEAN
    /\ rows \in Seq(TableRow) /\ Once(rows)
    /\ rules \subseteq AllRules

ReadingOK == \A l \in reading : l \in Seq(Entry) /\ Once(l)

SessionsOK ==
    /\ session \in [Editors -> Session]
    /\ \A e \in Editors :
        /\ session[e].next <= Len(session[e].list) + 1
        /\ session[e].pc = "insert" <=> session[e].next # 0

BoundsOK == edits \in 0 .. MaxEdits /\ deaths \in 0 .. MaxDeaths

\* What a resolution that sorts nothing leaves as it was
AtRest ==
    /\ stage \in {"idle", "conflict"} =>
        /\ edges = {} /\ degree = [m \in Mods |-> 0] /\ ready = {} /\ order = <<>>
    /\ stage # "cycle" => offender = {}

TypeInv == TableOK /\ ReadingOK /\ SessionsOK /\ BoundsOK /\ SortInv /\ AtRest

LEMMA StoredIsList ==
    ASSUME TableOK
    PROVE  /\ Stored \in Seq(Entry) /\ Once(Stored)
           /\ DOMAIN Stored = DOMAIN rows /\ Len(Stored) = Len(rows)
           /\ \A i \in DOMAIN rows : Stored[i] = Entered(rows[i])
<1>1. rows \in Seq(TableRow) /\ DOMAIN rows = 1 .. Len(rows) /\ Len(rows) \in Nat
  BY DEF TableOK
<1>2. Stored = [i \in 1 .. Len(rows) |-> Entered(rows[i])]
  BY <1>1 DEF Stored
<1>3. \A i \in 1 .. Len(rows) : Entered(rows[i]) \in Entry /\ Entered(rows[i]).id = rows[i].id
  <2> TAKE i \in 1 .. Len(rows)
  <2>1. rows[i] \in TableRow
    BY <1>1
  <2>2. /\ rows[i].id \in Mods /\ rows[i].enabled \in BOOLEAN /\ rows[i].pinned \in BOOLEAN
    BY <2>1 DEF TableRow
  <2> QED BY <2>2 DEF Entered, Entry
<1>4. Stored \in [1 .. Len(rows) -> Entry]
  BY <1>2, <1>3
<1>5. Stored \in Seq(Entry)
  BY <1>1, <1>4, SeqDef
<1>6. DOMAIN Stored = 1 .. Len(rows) /\ Len(Stored) = Len(rows)
  BY <1>1, <1>4, <1>5
<1>7. Once(Stored)
  BY <1>1, <1>2, <1>3 DEF Once, TableOK
<1> QED BY <1>1, <1>2, <1>5, <1>6, <1>7

\* A row put between the others is behind some and before some.
LEMMA InsertedRow ==
    ASSUME TableOK, NEW r \in TableRow
    PROVE  \E n \in 0 .. Len(rows) :
              /\ Inserted(r) \in Seq(TableRow) /\ Len(Inserted(r)) = Len(rows) + 1
              /\ n = Cardinality({i \in DOMAIN rows : rows[i].at <= r.at})
              /\ \A i \in 1 .. Len(rows) + 1 :
                    Inserted(r)[i] = IF i <= n THEN rows[i] ELSE IF i = n + 1 THEN r ELSE rows[i - 1]
<1>1. rows \in Seq(TableRow) /\ DOMAIN rows = 1 .. Len(rows) /\ Len(rows) \in Nat
  BY DEF TableOK
<1> DEFINE S == {i \in DOMAIN rows : rows[i].at <= r.at}
           n == Cardinality(S)
<1>2. n \in 0 .. Len(rows)
  <2>1. IsFiniteSet(1 .. Len(rows)) /\ Cardinality(1 .. Len(rows)) = Len(rows)
    BY <1>1, FS_Interval
  <2>2. S \subseteq 1 .. Len(rows)
    BY <1>1
  <2>3. IsFiniteSet(S) /\ Cardinality(S) <= Len(rows)
    BY <2>1, <2>2, FS_Subset
  <2>4. Cardinality(S) \in Nat
    BY <2>3, FS_CardinalityType
  <2> QED BY <1>1, <2>3, <2>4
<1>3. Inserted(r) = SubSeq(rows, 1, n) \o <<r>> \o SubSeq(rows, n + 1, Len(rows))
  BY DEF Inserted
<1> HIDE DEF n
<1> DEFINE a == SubSeq(rows, 1, n)
           b == SubSeq(rows, n + 1, Len(rows))
<1>4. /\ a \in Seq(TableRow) /\ Len(a) = n /\ \A i \in 1 .. n : a[i] = rows[i]
  BY <1>1, <1>2
<1>5. /\ b \in Seq(TableRow) /\ Len(b) = Len(rows) - n
      /\ \A i \in 1 .. Len(rows) - n : b[i] = rows[n + i]
  BY <1>1, <1>2
<1> HIDE DEF a, b
<1>6. /\ a \o <<r>> \in Seq(TableRow) /\ Len(a \o <<r>>) = n + 1
      /\ \A i \in 1 .. n : (a \o <<r>>)[i] = rows[i]
      /\ (a \o <<r>>)[n + 1] = r
  BY <1>2, <1>4
<1> DEFINE c == a \o <<r>>
<1> HIDE DEF c
<1>7. c \in Seq(TableRow) /\ Len(c) = n + 1 /\ c[n + 1] = r /\ \A i \in 1 .. n : c[i] = rows[i]
  BY <1>6 DEF c
<1>8. c \o b \in Seq(TableRow) /\ Len(c \o b) = Len(rows) + 1
  BY <1>1, <1>2, <1>5, <1>7
<1>9. \A i \in 1 .. Len(rows) + 1 :
          (c \o b)[i] = IF i <= n THEN rows[i] ELSE IF i = n + 1 THEN r ELSE rows[i - 1]
  <2> SUFFICES ASSUME NEW i \in 1 .. Len(rows) + 1
               PROVE  (c \o b)[i] = IF i <= n THEN rows[i] ELSE IF i = n + 1 THEN r ELSE rows[i - 1]
    OBVIOUS
  <2>1. CASE i <= n + 1
    <3>1. (c \o b)[i] = c[i]
      BY <2>1, <1>1, <1>2, <1>5, <1>7
    <3> QED BY <2>1, <3>1, <1>1, <1>2, <1>7
  <2>2. CASE i > n + 1
    <3>1. (c \o b)[i] = b[i - (n + 1)] /\ i - (n + 1) \in 1 .. Len(rows) - n
      BY <2>2, <1>1, <1>2, <1>5, <1>7
    <3>2. b[i - (n + 1)] = rows[n + (i - (n + 1))] /\ n + (i - (n + 1)) = i - 1
      BY <3>1, <1>1, <1>2, <1>5
    <3> QED BY <2>2, <3>1, <3>2, <1>1, <1>2
  <2>3. i <= n + 1 \/ i > n + 1
    BY <1>1, <1>2
  <2> QED BY <2>1, <2>2, <2>3
<1> QED BY <1>2, <1>3, <1>8, <1>9 DEF a, b, c, n

\* A mod that has no row gets one.
LEMMA InsertedOnce ==
    ASSUME TableOK, NEW r \in TableRow, \A i \in DOMAIN rows : rows[i].id # r.id
    PROVE  Inserted(r) \in Seq(TableRow) /\ Once(Inserted(r))
<1>1. rows \in Seq(TableRow) /\ DOMAIN rows = 1 .. Len(rows) /\ Len(rows) \in Nat
  BY DEF TableOK
<1>2. PICK n \in 0 .. Len(rows) :
              /\ Inserted(r) \in Seq(TableRow) /\ Len(Inserted(r)) = Len(rows) + 1
              /\ \A i \in 1 .. Len(rows) + 1 :
                    Inserted(r)[i] = IF i <= n THEN rows[i] ELSE IF i = n + 1 THEN r ELSE rows[i - 1]
  BY InsertedRow
<1> DEFINE t == Inserted(r)
<1> HIDE DEF t
<1>3. DOMAIN t = 1 .. Len(rows) + 1
  BY <1>1, <1>2 DEF t
<1>4. ASSUME NEW i \in DOMAIN t, NEW j \in DOMAIN t, t[i].id = t[j].id
      PROVE  i = j
  <2> DEFINE old(k) == IF k <= n THEN k ELSE k - 1
  <2>1. \A k \in DOMAIN t : k # n + 1 => old(k) \in DOMAIN rows /\ t[k] = rows[old(k)]
    BY <1>1, <1>2, <1>3 DEF t
  <2>2. n + 1 \in DOMAIN t /\ t[n + 1] = r
    BY <1>1, <1>2, <1>3 DEF t
  <2>3. CASE i = n + 1 \/ j = n + 1
    BY <2>1, <2>2, <2>3, <1>4
  <2>4. CASE i # n + 1 /\ j # n + 1
    <3>1. old(i) = old(j)
      BY <2>1, <2>4, <1>4 DEF TableOK, Once
    <3> QED BY <2>4, <3>1, <1>1, <1>3
  <2> QED BY <2>3, <2>4
<1> QED BY <1>2, <1>4 DEF Once, t

-----------------------------------------------------------------------------
(* The lists commands make, and what a resolution is given of a list *)

Swapped(l, i, t) == [l EXCEPT ![i] = l[t], ![t] = l[i]]
Without(l, k) == SubSeq(l, 1, k - 1) \o SubSeq(l, k + 1, Len(l))
Toggled(l, m, on) == [i \in DOMAIN l |-> IF l[i].id = m THEN [l[i] EXCEPT !.enabled = on] ELSE l[i]]
Pinned(l, i, on) == [l EXCEPT ![i].pinned = on]
Extended(l, m) == Append(l, [id |-> m, enabled |-> TRUE, pinned |-> FALSE])

LEMMA SwappedList ==
    ASSUME NEW S, NEW l \in Seq(S), NEW i \in DOMAIN l, NEW t \in DOMAIN l
    PROVE  /\ Swapped(l, i, t) \in Seq(S) /\ Len(Swapped(l, i, t)) = Len(l)
           /\ \A k \in DOMAIN l : Swapped(l, i, t)[k] =
                                      IF k = t THEN l[i] ELSE IF k = i THEN l[t] ELSE l[k]
<1>1. DOMAIN l = 1 .. Len(l) /\ Len(l) \in Nat
  OBVIOUS
<1> DEFINE m == Swapped(l, i, t)
<1>2. m = [k \in 1 .. Len(l) |-> IF k = t THEN l[i] ELSE IF k = i THEN l[t] ELSE l[k]]
  BY <1>1 DEF Swapped
<1>3. m \in [1 .. Len(l) -> S]
  BY <1>1, <1>2
<1>4. m \in Seq(S)
  BY <1>1, <1>3, SeqDef
<1>5. Len(m) = Len(l)
  BY <1>1, <1>3, <1>4
<1> QED BY <1>1, <1>2, <1>4, <1>5

LEMMA RemovedList ==
    ASSUME NEW S, NEW l \in Seq(S), NEW k \in DOMAIN l
    PROVE  /\ Without(l, k) \in Seq(S) /\ Len(Without(l, k)) = Len(l) - 1
           /\ \A i \in 1 .. Len(l) - 1 : Without(l, k)[i] = IF i < k THEN l[i] ELSE l[i + 1]
<1>1. DOMAIN l = 1 .. Len(l) /\ Len(l) \in Nat /\ k \in 1 .. Len(l)
  OBVIOUS
<1> DEFINE a == SubSeq(l, 1, k - 1)
           b == SubSeq(l, k + 1, Len(l))
<1>2. a \in Seq(S) /\ Len(a) = k - 1 /\ \A i \in 1 .. k - 1 : a[i] = l[i]
  BY <1>1
<1>3. b \in Seq(S) /\ Len(b) = Len(l) - k /\ \A i \in 1 .. Len(l) - k : b[i] = l[k + i]
  BY <1>1
<1> HIDE DEF a, b
<1>4. a \o b \in Seq(S) /\ Len(a \o b) = Len(l) - 1
  <2>1. a \in Seq(S) /\ b \in Seq(S)
    BY <1>2, <1>3
  <2>2. a \o b \in Seq(S) /\ Len(a \o b) = Len(a) + Len(b)
    BY <2>1, ConcatProperties
  <2> QED BY <2>2, <1>1, <1>2, <1>3
<1>5. ASSUME NEW i \in 1 .. Len(l) - 1
      PROVE  (a \o b)[i] = IF i < k THEN l[i] ELSE l[i + 1]
  <2>1. CASE i < k
    BY <2>1, <1>1, <1>2, <1>3
  <2>2. CASE i >= k
    <3>1. (a \o b)[i] = b[i - (k - 1)] /\ i - (k - 1) \in 1 .. Len(l) - k
      BY <2>2, <1>1, <1>2, <1>3
    <3>2. b[i - (k - 1)] = l[k + (i - (k - 1))] /\ k + (i - (k - 1)) = i + 1
      BY <3>1, <1>1, <1>3
    <3> QED BY <2>2, <3>1, <3>2, <1>1
  <2>3. i < k \/ i >= k
    BY <1>1
  <2> QED BY <2>1, <2>2, <2>3
<1> QED BY <1>4, <1>5 DEF a, b, Without

LEMMA ToggledList ==
    ASSUME NEW l \in Seq(Entry), NEW m, NEW on \in BOOLEAN
    PROVE  /\ Toggled(l, m, on) \in Seq(Entry) /\ Len(Toggled(l, m, on)) = Len(l)
           /\ \A i \in DOMAIN l : Toggled(l, m, on)[i] = IF l[i].id = m THEN [l[i] EXCEPT !.enabled = on] ELSE l[i]
<1>1. DOMAIN l = 1 .. Len(l) /\ Len(l) \in Nat
  OBVIOUS
<1> DEFINE t == Toggled(l, m, on)
<1>2. \A i \in 1 .. Len(l) : t[i] \in Entry
  <2> TAKE i \in 1 .. Len(l)
  <2>1. l[i] \in Entry
    BY <1>1
  <2>2. [l[i] EXCEPT !.enabled = on] \in Entry
    BY <2>1 DEF Entry
  <2>3. t[i] = IF l[i].id = m THEN [l[i] EXCEPT !.enabled = on] ELSE l[i]
    BY <1>1 DEF Toggled
  <2> QED BY <2>1, <2>2, <2>3
<1>3. t \in [1 .. Len(l) -> Entry]
  BY <1>1, <1>2 DEF Toggled
<1>4. t \in Seq(Entry)
  BY <1>1, <1>3, SeqDef
<1>5. Len(t) = Len(l)
  BY <1>1, <1>3, <1>4
<1> QED BY <1>1, <1>4, <1>5 DEF Toggled

LEMMA PinnedList ==
    ASSUME NEW l \in Seq(Entry), NEW i \in DOMAIN l, NEW on \in BOOLEAN
    PROVE  /\ Pinned(l, i, on) \in Seq(Entry) /\ Len(Pinned(l, i, on)) = Len(l)
           /\ \A k \in DOMAIN l : Pinned(l, i, on)[k] = IF k = i THEN [l[i] EXCEPT !.pinned = on] ELSE l[k]
<1>1. DOMAIN l = 1 .. Len(l) /\ Len(l) \in Nat
  OBVIOUS
<1> DEFINE t == Pinned(l, i, on)
<1>2. t = [k \in 1 .. Len(l) |-> IF k = i THEN [l[i] EXCEPT !.pinned = on] ELSE l[k]]
  BY <1>1 DEF Pinned
<1>3. \A k \in 1 .. Len(l) : l[k] \in Entry
  BY <1>1
<1>4. [l[i] EXCEPT !.pinned = on] \in Entry
  BY <1>1, <1>3 DEF Entry
<1>5. t \in [1 .. Len(l) -> Entry]
  BY <1>2, <1>3, <1>4
<1>6. t \in Seq(Entry)
  BY <1>1, <1>5, SeqDef
<1>7. Len(t) = Len(l)
  BY <1>1, <1>5, <1>6
<1> QED BY <1>1, <1>2, <1>6, <1>7

\* What a command is, and what it makes of a list
LEMMA CommandCases ==
    ASSUME NEW c \in Command, NEW frozen, NEW l, NEW m \in Edited(frozen, l, c)
    PROVE  \/ c.op = "reorder" /\ m \in Reordered(frozen, l, c)
           \/ /\ c.op = "toggle" /\ c.on \in BOOLEAN
              /\ m = Toggled(l, c.mod, c.on)
           \/ /\ c.op = "pin" /\ c.on \in BOOLEAN
              /\ \E i \in DOMAIN l : m = Pinned(l, i, c.on)
           \/ /\ c.op = "add" /\ c.mod \in Mods
              /\ m = Extended(l, c.mod)
           \/ /\ c.op = "remove"
              /\ \E k \in DOMAIN l : m = Without(l, k)
           \/ c.op = "lock" /\ c.on \in BOOLEAN /\ m = l
<1>1. CASE c \in [op : {"reorder"}, mod : Mods, up : BOOLEAN]
  BY <1>1 DEF Edited
<1>2. CASE c \in [op : {"toggle", "pin"}, mod : Mods, on : BOOLEAN]
  <2>1. CASE c.op = "toggle"
    BY <1>2, <2>1 DEF Edited, Toggled
  <2>2. CASE c.op = "pin"
    BY <1>2, <2>2 DEF Edited, Pinned, Place
  <2> QED BY <1>2, <2>1, <2>2
<1>3. CASE c \in [op : {"add"}, mod : Mods]
  BY <1>3 DEF Edited, Extended
<1>4. CASE c \in [op : {"remove"}, index : Nat \ {0}]
  BY <1>4 DEF Edited, Without
<1>5. CASE c \in [op : {"lock"}, on : BOOLEAN]
  BY <1>5 DEF Edited
<1> QED BY <1>1, <1>2, <1>3, <1>4, <1>5 DEF Command

\* A move takes neighbours, neither of which is pinned.
LEMMA ReorderedList ==
    ASSUME NEW frozen \in BOOLEAN, NEW l \in Seq(Entry), NEW c, NEW m \in Reordered(frozen, l, c)
    PROVE  /\ ~ frozen
           /\ \E i, t \in DOMAIN l :
                /\ t = i + 1 \/ i = t + 1
                /\ ~ l[i].pinned /\ ~ l[t].pinned
                /\ m = Swapped(l, i, t)
<1> DEFINE i == CHOOSE i \in Place(l, c.mod) : TRUE
           t == IF c.up THEN i - 1 ELSE i + 1
<1>1. /\ ~ frozen /\ Place(l, c.mod) # {}
      /\ ~ l[i].pinned /\ t \in DOMAIN l /\ ~ l[t].pinned
      /\ m = Swapped(l, i, t)
  BY DEF Reordered, Swapped
<1>2. i \in DOMAIN l
  BY <1>1 DEF Place
<1>3. i \in Nat
  BY <1>2
<1>4. t = i + 1 \/ i = t + 1
  BY <1>3
<1> HIDE DEF i, t
<1> QED BY <1>1, <1>2, <1>4

LEMMA EditedIsList ==
    ASSUME NEW c \in Command, NEW frozen \in BOOLEAN, NEW l \in Seq(Entry), NEW m \in Edited(frozen, l, c)
    PROVE  m \in Seq(Entry)
<1>1. CASE m \in Reordered(frozen, l, c)
  <2>1. PICK i, t \in DOMAIN l : m = Swapped(l, i, t)
    BY <1>1, ReorderedList
  <2> QED BY <2>1, SwappedList
<1>2. CASE c.on \in BOOLEAN /\ m = Toggled(l, c.mod, c.on)
  BY <1>2, ToggledList
<1>3. CASE c.on \in BOOLEAN /\ \E i \in DOMAIN l : m = Pinned(l, i, c.on)
  <2>1. PICK i \in DOMAIN l : m = Pinned(l, i, c.on)
    BY <1>3
  <2> QED BY <1>3, <2>1, PinnedList
<1>4. CASE c.mod \in Mods /\ m = Extended(l, c.mod)
  <2>1. [id |-> c.mod, enabled |-> TRUE, pinned |-> FALSE] \in Entry
    BY <1>4 DEF Entry
  <2> QED BY <1>4, <2>1 DEF Extended
<1>5. CASE \E k \in DOMAIN l : m = Without(l, k)
  BY <1>5, RemovedList
<1>6. CASE m = l
  BY <1>6
<1> QED BY <1>1, <1>2, <1>3, <1>4, <1>5, <1>6, CommandCases

\* The enabled mods of a list are a list of mods, each once.
LEMMA EnabledAreInput ==
    ASSUME NEW l \in Seq(Entry), Once(l)
    PROVE  EnabledOf(l) \in Inputs
<1> DEFINE Kept(i) == Cardinality({j \in 1 .. i : l[j].enabled})
           n == Kept(Len(l))
           at(k) == CHOOSE i \in DOMAIN l : l[i].enabled /\ Kept(i) = k
<1>1. DOMAIN l = 1 .. Len(l) /\ Len(l) \in Nat
  OBVIOUS
<1>2. EnabledOf(l) = [k \in 1 .. n |-> l[at(k)].id]
  BY DEF EnabledOf
<1>3. \A i \in Nat : IsFiniteSet({j \in 1 .. i : l[j].enabled}) /\ Kept(i) \in Nat
  <2> TAKE i \in Nat
  <2>1. IsFiniteSet(1 .. i)
    BY FS_Interval
  <2>2. IsFiniteSet({j \in 1 .. i : l[j].enabled})
    BY <2>1, FS_Subset
  <2> QED BY <2>2, FS_CardinalityType
<1>4. Kept(0) = 0
  <2>1. {j \in 1 .. 0 : l[j].enabled} = {}
    OBVIOUS
  <2> QED BY <2>1, FS_EmptySet
<1>5. \A i \in Nat \ {0} : Kept(i) = IF l[i].enabled THEN Kept(i - 1) + 1 ELSE Kept(i - 1)
  <2> TAKE i \in Nat \ {0}
  <2> DEFINE T == {j \in 1 .. i - 1 : l[j].enabled}
  <2>1. {j \in 1 .. i : l[j].enabled} = IF l[i].enabled THEN T \cup {i} ELSE T
    OBVIOUS
  <2>2. IsFiniteSet(T) /\ i \notin T
    BY <1>3
  <2>3. Cardinality(T \cup {i}) = Cardinality(T) + 1
    BY <2>2, FS_AddElement
  <2> QED BY <2>1, <2>3
<1>6. n \in Nat
  BY <1>1, <1>3
<1> HIDE DEF Kept, n
<1>7. ASSUME NEW k \in 1 .. n
      PROVE  at(k) \in DOMAIN l /\ l[at(k)].enabled /\ Kept(at(k)) = k
  <2> DEFINE T == {i \in 0 .. Len(l) : Kept(i) >= k}
  <2>1. T \subseteq Nat /\ T # {}
    <3>1. Len(l) \in T
      BY <1>1, <1>6 DEF n
    <3> QED BY <1>1, <3>1
  <2> HIDE DEF T
  <2>2. PICK i \in T : \A j \in T : i <= j
    BY <2>1, LeastNumber
  <2>3. i \in 0 .. Len(l) /\ Kept(i) >= k
    BY DEF T
  <2>4. i # 0
    BY <2>3, <1>4, <1>6
  <2>5. i - 1 \in 0 .. Len(l) /\ i - 1 \in Nat /\ ~ i <= i - 1
    BY <2>3, <2>4, <1>1
  <2>6. Kept(i - 1) < k
    <3>1. i - 1 \notin T
      BY <2>2, <2>5
    <3>2. Kept(i - 1) \in Nat
      BY <2>5, <1>3 DEF Kept
    <3> QED BY <3>1, <3>2, <2>5, <1>6 DEF T
  <2>7. Kept(i) = IF l[i].enabled THEN Kept(i - 1) + 1 ELSE Kept(i - 1)
    BY <1>5, <2>3, <2>4
  <2>8. Kept(i - 1) \in Nat
    BY <2>5, <1>3 DEF Kept
  <2>9. l[i].enabled /\ Kept(i) = k /\ i \in DOMAIN l
    BY <2>3, <2>4, <2>6, <2>7, <2>8, <1>1, <1>6
  <2> QED BY <2>9
<1> HIDE DEF at
<1>8. \A k \in 1 .. n : l[at(k)].id \in Mods
  <2> TAKE k \in 1 .. n
  <2>1. l[at(k)] \in Entry
    BY <1>7
  <2> QED BY <2>1 DEF Entry
<1>9. EnabledOf(l) \in [1 .. n -> Mods]
  BY <1>2, <1>8
<1>10. Distinct(EnabledOf(l))
  <2> SUFFICES ASSUME NEW j \in 1 .. n, NEW k \in 1 .. n, l[at(j)].id = l[at(k)].id PROVE j = k
    BY <1>2 DEF Distinct
  <2>1. at(j) = at(k)
    BY <1>7 DEF Once
  <2> QED BY <2>1, <1>7
<1> QED BY <1>6, <1>9, <1>10 DEF Inputs

-----------------------------------------------------------------------------
(* Every step keeps the types *)

LEMMA ResolutionKept ==
    ASSUME SortInv, AtRest, UNCHANGED resolution
    PROVE  SortInv' /\ AtRest'
<1>1. SortInv'
  BY StutterInv
<1>2. AtRest'
  BY DEF AtRest, resolution
<1> QED BY <1>1, <1>2

\* A session goes on as r.
LEMMA GoOK ==
    ASSUME SessionsOK, NEW e \in Editors, NEW r \in Session, Go(e, r),
           r.next <= Len(r.list) + 1, r.pc = "insert" <=> r.next # 0
    PROVE  SessionsOK'
<1>1. session' = [session EXCEPT ![e] = r]
  BY DEF Go
<1>2. \A d \in Editors : session'[d] = IF d = e THEN r ELSE session[d]
  BY <1>1 DEF SessionsOK
<1>3. session' \in [Editors -> Session]
  BY <1>1 DEF SessionsOK
<1>4. ASSUME NEW d \in Editors
      PROVE  session'[d].next <= Len(session'[d].list) + 1 /\ (session'[d].pc = "insert" <=> session'[d].next # 0)
  BY <1>2 DEF SessionsOK
<1> QED BY <1>3, <1>4 DEF SessionsOK

LEMMA NobodyIsSession ==
    Nobody \in Session /\ Nobody.next = 0 /\ Len(Nobody.list) = 0 /\ Nobody.pc = "idle"
<1>1. <<>> \in Seq(Entry) /\ Len(<<>>) = 0
  OBVIOUS
<1>2. Nobody.list = <<>> /\ Nobody.next = 0 /\ Nobody.pc = "idle"
  BY DEF Nobody
<1> QED BY <1>1, <1>2 DEF Nobody, Session, Pcs

LEMMA SessionFields ==
    ASSUME SessionsOK, NEW e \in Editors
    PROVE  /\ session[e] \in Session /\ session[e].pc \in Pcs /\ session[e].locked \in BOOLEAN
           /\ session[e].list \in Seq(Entry) /\ Len(session[e].list) \in Nat
           /\ session[e].rules \subseteq AllRules /\ session[e].next \in Nat
           /\ session[e].next <= Len(session[e].list) + 1
           /\ session[e].pc = "insert" <=> session[e].next # 0
<1>1. session[e] \in Session
  BY DEF SessionsOK
<1>2. /\ session[e].pc \in Pcs /\ session[e].locked \in BOOLEAN
      /\ session[e].list \in Seq(Entry) /\ session[e].rules \subseteq AllRules
      /\ session[e].next \in Nat
  BY <1>1 DEF Session
<1>3. Len(session[e].list) \in Nat
  BY <1>2
<1> QED BY <1>1, <1>2, <1>3 DEF SessionsOK

\* A session that stops, or goes on with the copy it has
LEMMA GoNobody ==
    ASSUME SessionsOK, NEW e \in Editors, Go(e, Nobody)
    PROVE  SessionsOK'
<1> PICK r : r = Nobody
  OBVIOUS
<1>1. r \in Session /\ r.next = 0 /\ Len(r.list) = 0 /\ r.pc = "idle"
  BY NobodyIsSession
<1> QED BY <1>1, GoOK

LEMMA GoOn ==
    ASSUME SessionsOK, NEW e \in Editors, NEW pc \in Pcs \ {"insert"},
           Go(e, [session[e] EXCEPT !.pc = pc]),
           session[e].pc # "insert"
    PROVE  SessionsOK'
<1> DEFINE r == [session[e] EXCEPT !.pc = pc]
<1>1. r \in Session /\ r.next = session[e].next /\ r.list = session[e].list /\ r.pc # "insert"
  BY SessionFields DEF Session
<1>2. r.next <= Len(r.list) + 1 /\ r.next = 0
  BY <1>1, SessionFields
<1> HIDE DEF r
<1> QED BY <1>1, <1>2, GoOK DEF r

LEMMA ReadsTyped ==
    ASSUME TypeInv, NEW e \in Editors, ReadProfile(e) \/ ReadMods(e) \/ ReadRules(e)
    PROVE  TypeInv'
<1>1. TableOK /\ ReadingOK /\ SessionsOK /\ BoundsOK /\ SortInv /\ AtRest
  BY DEF TypeInv
<1>2. SortInv' /\ AtRest'
  BY <1>1, ResolutionKept DEF ReadProfile, ReadMods, ReadRules, Undisturbed
<1>3. TableOK' /\ ReadingOK'
  BY <1>1 DEF ReadProfile, ReadMods, ReadRules, profile, TableOK, ReadingOK
<1>4. BoundsOK'
  BY <1>1, LoadOrderAssumption DEF ReadProfile, ReadMods, ReadRules, BoundsOK
<1>5. SessionsOK'
  <2>1. CASE ReadProfile(e)
    <3> DEFINE r == [Nobody EXCEPT !.pc = "mods", !.locked = locked]
    <3>1. locked \in BOOLEAN /\ Go(e, r)
      BY <1>1, <2>1 DEF TableOK, ReadProfile
    <3>2. r \in Session /\ r.next = 0 /\ r.list = <<>> /\ r.pc = "mods"
      BY <3>1, NobodyIsSession DEF Nobody, Session, Pcs
    <3> HIDE DEF r
    <3>3. r.next <= Len(r.list) + 1
      BY <3>2
    <3> QED BY <1>1, <3>1, <3>2, <3>3, GoOK
  <2>2. CASE ReadMods(e)
    <3> DEFINE r == [session[e] EXCEPT !.pc = "rules", !.list = Stored]
    <3>1. Go(e, r) /\ session[e].pc = "mods" /\ Stored \in Seq(Entry)
      BY <1>1, <2>2, StoredIsList DEF ReadMods
    <3>2. r \in Session /\ r.next = session[e].next /\ r.list = Stored /\ r.pc = "rules"
      BY <3>1, <1>1, SessionFields DEF Session, Pcs
    <3> HIDE DEF r
    <3>3. r.next = 0 /\ r.next <= Len(r.list) + 1
      BY <3>1, <3>2, <1>1, SessionFields
    <3> QED BY <1>1, <3>1, <3>2, <3>3, GoOK
  <2>3. CASE ReadRules(e)
    <3> DEFINE r == [session[e] EXCEPT !.pc = "edit", !.rules = rules]
    <3>1. Go(e, r) /\ session[e].pc = "rules" /\ rules \in SUBSET AllRules
      BY <1>1, <2>3 DEF ReadRules, TableOK
    <3>2. r \in Session /\ r.next = session[e].next /\ r.list = session[e].list /\ r.pc = "edit"
      BY <3>1, <1>1, SessionFields DEF Session, Pcs
    <3> HIDE DEF r
    <3>3. r.next = 0 /\ r.next <= Len(r.list) + 1
      BY <3>1, <3>2, <1>1, SessionFields
    <3> QED BY <1>1, <3>1, <3>2, <3>3, GoOK
  <2> QED BY <2>1, <2>2, <2>3
<1> QED BY <1>2, <1>3, <1>4, <1>5 DEF TypeInv

LEMMA EditTyped ==
    ASSUME TypeInv, NEW e \in Editors, Edit(e)
    PROVE  TypeInv'
<1>1. TableOK /\ ReadingOK /\ SessionsOK /\ BoundsOK /\ SortInv /\ AtRest
  BY DEF TypeInv
<1>2. /\ session[e].pc = "edit" /\ UNCHANGED <<locked, rows, rules, reading, edits, deaths>>
      /\ UNCHANGED resolution
  BY DEF Edit, profile, Undisturbed
<1>3. SortInv' /\ AtRest'
  BY <1>1, <1>2, ResolutionKept
<1>4. TableOK' /\ ReadingOK' /\ BoundsOK'
  BY <1>1, <1>2 DEF TableOK, ReadingOK, BoundsOK
<1>5. SessionsOK'
  <2>1. PICK c \in Commands :
          LET lists == Edited(session[e].locked, session[e].list, c)
          IN  IF lists = {}
              THEN Go(e, Nobody)
              ELSE \E l \in lists :
                      Go(e, [session[e] EXCEPT !.pc = "update", !.list = l,
                                               !.locked = IF c.op = "lock" THEN c.on ELSE @])
    BY DEF Edit
  <2>2. CASE Go(e, Nobody)
    BY <2>2, <1>1, GoNobody
  <2>3. CASE \E l \in Edited(session[e].locked, session[e].list, c) :
                Go(e, [session[e] EXCEPT !.pc = "update", !.list = l,
                                         !.locked = IF c.op = "lock" THEN c.on ELSE @])
    <3>1. PICK l \in Edited(session[e].locked, session[e].list, c) :
                Go(e, [session[e] EXCEPT !.pc = "update", !.list = l,
                                         !.locked = IF c.op = "lock" THEN c.on ELSE @])
      BY <2>3
    <3> DEFINE k == IF c.op = "lock" THEN c.on ELSE session[e].locked
               r == [session[e] EXCEPT !.pc = "update", !.list = l, !.locked = k]
    <3>2. c \in Command
      BY LoadOrderAssumption
    <3>3. l \in Seq(Entry)
      BY <3>2, <1>1, SessionFields, EditedIsList
    <3>4. k \in BOOLEAN
      <4>1. c.op = "lock" => c.on \in BOOLEAN
        BY <3>2, CommandCases
      <4> QED BY <4>1, <1>1, SessionFields
    <3> HIDE DEF k
    <3>5. r \in Session /\ r.next = session[e].next /\ r.list = l /\ r.pc = "update"
      BY <3>3, <3>4, <1>1, SessionFields DEF Session, Pcs
    <3> HIDE DEF r
    <3>6. r.next = 0 /\ r.next <= Len(r.list) + 1
      BY <3>3, <3>5, <1>1, <1>2, SessionFields
    <3>7. Go(e, r)
      BY <3>1 DEF k, r
    <3> QED BY <1>1, <3>5, <3>6, <3>7, GoOK
  <2> QED BY <2>1, <2>2, <2>3
<1> QED BY <1>3, <1>4, <1>5 DEF TypeInv

LEMMA WritesTyped ==
    ASSUME TypeInv, NEW e \in Editors, WriteProfile(e) \/ ClearMods(e) \/ ClearRules(e)
    PROVE  TypeInv'
<1>1. TableOK /\ ReadingOK /\ SessionsOK /\ BoundsOK /\ SortInv /\ AtRest
  BY DEF TypeInv
<1>2. UNCHANGED <<reading, edits, deaths>> /\ UNCHANGED resolution
  BY DEF WriteProfile, ClearMods, ClearRules, Undisturbed
<1>3. SortInv' /\ AtRest'
  BY <1>1, <1>2, ResolutionKept
<1>4. ReadingOK' /\ BoundsOK'
  BY <1>1, <1>2 DEF ReadingOK, BoundsOK
<1>5. TableOK' /\ SessionsOK'
  <2>1. CASE WriteProfile(e)
    <3>1. /\ locked' = session[e].locked /\ UNCHANGED <<rows, rules>>
          /\ session[e].pc = "update" /\ Go(e, [session[e] EXCEPT !.pc = "clear_mods"])
      BY <2>1 DEF WriteProfile
    <3>2. TableOK'
      BY <3>1, <1>1, SessionFields DEF TableOK
    <3>3. SessionsOK'
      BY <3>1, <1>1, GoOn DEF Pcs
    <3> QED BY <3>2, <3>3
  <2>2. CASE ClearMods(e)
    <3>1. /\ rows' = <<>> /\ UNCHANGED <<locked, rules>>
          /\ session[e].pc = "clear_mods" /\ Go(e, [session[e] EXCEPT !.pc = "clear_rules"])
      BY <2>2 DEF ClearMods
    <3>2. <<>> \in Seq(TableRow) /\ Once(<<>>)
      BY DEF Once
    <3>3. TableOK'
      BY <3>1, <3>2, <1>1 DEF TableOK
    <3>4. SessionsOK'
      BY <3>1, <1>1, GoOn DEF Pcs
    <3> QED BY <3>3, <3>4
  <2>3. CASE ClearRules(e)
    <3> DEFINE r == [session[e] EXCEPT !.pc = "insert", !.next = 1]
    <3>1. rules' = {} /\ UNCHANGED <<locked, rows>> /\ Go(e, r)
      BY <2>3 DEF ClearRules
    <3>2. TableOK'
      BY <3>1, <1>1 DEF TableOK
    <3>3. r \in Session /\ r.next = 1 /\ r.list = session[e].list /\ r.pc = "insert"
      BY <1>1, SessionFields DEF Session, Pcs
    <3> HIDE DEF r
    <3>4. r.next <= Len(r.list) + 1
      BY <3>3, <1>1, SessionFields
    <3> QED BY <1>1, <3>1, <3>2, <3>3, <3>4, GoOK
  <2> QED BY <2>1, <2>2, <2>3
<1> QED BY <1>3, <1>4, <1>5 DEF TypeInv

LEMMA InsertModTyped ==
    ASSUME TypeInv, NEW e \in Editors, InsertMod(e)
    PROVE  TypeInv'
<1>1. TableOK /\ ReadingOK /\ SessionsOK /\ BoundsOK /\ SortInv /\ AtRest
  BY DEF TypeInv
<1> DEFINE s == session[e]
           m == s.list[s.next]
<1>2. /\ s.pc = "insert" /\ s.next <= Len(s.list)
      /\ UNCHANGED <<locked, rules, reading, edits, deaths>> /\ UNCHANGED resolution
  BY DEF InsertMod, Undisturbed
<1>3. SortInv' /\ AtRest'
  BY <1>1, <1>2, ResolutionKept
<1>4. ReadingOK' /\ BoundsOK'
  BY <1>1, <1>2 DEF ReadingOK, BoundsOK
<1>5. \/ Go(e, Nobody) /\ UNCHANGED rows
      \/ /\ \A i \in DOMAIN rows : rows[i].id # m.id
         /\ rows' = Inserted(Row(m, s.next)) /\ Go(e, [s EXCEPT !.next = @ + 1])
  BY DEF InsertMod
<1>6. CASE Go(e, Nobody) /\ UNCHANGED rows
  <2>1. TableOK'
    BY <1>1, <1>2, <1>6 DEF TableOK
  <2> QED BY <2>1, <1>1, <1>3, <1>4, <1>6, GoNobody DEF TypeInv
<1>7. CASE /\ \A i \in DOMAIN rows : rows[i].id # m.id
           /\ rows' = Inserted(Row(m, s.next)) /\ Go(e, [s EXCEPT !.next = @ + 1])
  <2>1. /\ s \in Session /\ s.list \in Seq(Entry) /\ Len(s.list) \in Nat /\ s.next \in Nat
        /\ s.next \in 1 .. Len(s.list)
    BY <1>1, <1>2, SessionFields
  <2>2. m \in Entry
    BY <2>1
  <2>3. Row(m, s.next) \in TableRow /\ Row(m, s.next).id = m.id
    BY <2>1, <2>2 DEF Row, Entry, TableRow
  <2>4. TableOK'
    BY <1>1, <1>2, <1>7, <2>3, InsertedOnce DEF TableOK
  <2> DEFINE r == [s EXCEPT !.next = @ + 1]
  <2>5. r \in Session /\ r.next = s.next + 1 /\ r.list = s.list /\ r.pc = "insert"
    BY <1>2, <2>1 DEF Session
  <2> HIDE DEF r
  <2>6. r.next <= Len(r.list) + 1 /\ r.next # 0
    BY <2>1, <2>5
  <2>7. Go(e, r)
    BY <1>7 DEF r
  <2>8. SessionsOK'
    BY <1>1, <2>5, <2>6, <2>7, GoOK
  <2> QED BY <1>3, <1>4, <2>4, <2>8 DEF TypeInv
<1> QED BY <1>5, <1>6, <1>7

LEMMA EndsTyped ==
    ASSUME TypeInv, NEW e \in Editors, InsertRule(e) \/ Written(e) \/ Die(e)
    PROVE  TypeInv'
<1>1. TableOK /\ ReadingOK /\ SessionsOK /\ BoundsOK /\ SortInv /\ AtRest
  BY DEF TypeInv
<1>2. UNCHANGED <<locked, rows, reading, edits>> /\ UNCHANGED resolution
  BY DEF InsertRule, Written, Die, Undisturbed, profile
<1>3. SortInv' /\ AtRest'
  BY <1>1, <1>2, ResolutionKept
<1>4. ReadingOK'
  BY <1>1, <1>2 DEF ReadingOK
<1>5. BoundsOK'
  <2>1. UNCHANGED deaths \/ (deaths < MaxDeaths /\ deaths' = deaths + 1)
    BY DEF InsertRule, Written, Die
  <2> QED BY <2>1, <1>1, <1>2, LoadOrderAssumption DEF BoundsOK
<1>6. TableOK' /\ SessionsOK'
  <2>1. CASE InsertRule(e)
    <3>1. /\ rules' = rules \cup {CHOOSE r \in session[e].rules : r \notin rules}
          /\ ~ session[e].rules \subseteq rules /\ UNCHANGED session
      BY <2>1 DEF InsertRule
    <3>2. (CHOOSE r \in session[e].rules : r \notin rules) \in AllRules
      BY <3>1, <1>1, SessionFields
    <3>3. TableOK'
      BY <1>1, <1>2, <3>1, <3>2 DEF TableOK
    <3> QED BY <1>1, <3>1, <3>3 DEF SessionsOK
  <2>2. CASE Written(e) \/ Die(e)
    <3>1. Go(e, Nobody) /\ UNCHANGED rules
      BY <2>2 DEF Written, Die, profile
    <3>2. TableOK'
      BY <1>1, <1>2, <3>1 DEF TableOK
    <3> QED BY <1>1, <3>1, <3>2, GoNobody
  <2> QED BY <2>1, <2>2
<1> QED BY <1>3, <1>4, <1>5, <1>6 DEF TypeInv

LEMMA DeploymentTyped ==
    ASSUME TypeInv, Load \/ Resolve \/ Sort \/ Use
    PROVE  TypeInv'
<1>1. TableOK /\ ReadingOK /\ SessionsOK /\ BoundsOK /\ SortInv /\ AtRest
  BY DEF TypeInv
<1>2. UNCHANGED <<locked, rows, rules, session, edits, deaths>>
  BY DEF Load, Resolve, Sort, Use, profile
<1>3. TableOK' /\ SessionsOK' /\ BoundsOK'
  BY <1>1, <1>2 DEF TableOK, SessionsOK, BoundsOK
<1>4. CASE Load
  <2>1. ReadingOK'
    BY <1>1, <1>4, StoredIsList DEF Load, ReadingOK
  <2>2. SortInv' /\ AtRest'
    BY <1>1, <1>4, ResolutionKept DEF Load
  <2> QED BY <1>3, <2>1, <2>2 DEF TypeInv
<1>5. CASE Resolve
  <2>1. PICK l \in reading : Begin(EnabledOf(l), rules)
    BY <1>5 DEF Resolve
  <2>2. EnabledOf(l) \in Inputs /\ rules \in SUBSET AllRules
    BY <1>1, EnabledAreInput DEF ReadingOK, TableOK
  <2>3. SortInv'
    BY <1>1, <2>1, <2>2, BeginInv
  <2>4. AtRest'
    BY <1>1, <2>1 DEF Begin, AtRest
  <2>5. ReadingOK'
    BY <1>5 DEF Resolve, ReadingOK
  <2> QED BY <1>3, <2>3, <2>4, <2>5 DEF TypeInv
<1>6. CASE Sort
  <2>1. ReadingOK'
    BY <1>1, <1>6 DEF Sort, ReadingOK
  <2>2. SortInv'
    BY <1>1, <1>6, PopInv, FinishInv DEF Sort
  <2>3. AtRest'
    BY <1>1, <1>6 DEF Sort, Pop, Finish, AtRest
  <2> QED BY <1>3, <2>1, <2>2, <2>3 DEF TypeInv
<1>7. CASE Use
  <2>1. ReadingOK'
    BY <1>1, <1>7 DEF Use, ReadingOK
  <2>2. SortInv'
    BY <1>7, ForgetInv DEF Use
  <2>3. AtRest'
    BY <1>7 DEF Use, Forget, AtRest
  <2> QED BY <1>3, <2>1, <2>2, <2>3 DEF TypeInv
<1> QED BY <1>4, <1>5, <1>6, <1>7

LEMMA InitTyped == Init => TypeInv
<1> SUFFICES ASSUME Init PROVE TypeInv
  OBVIOUS
<1>1. PICK p \in Profiles :
        /\ locked = p.locked
        /\ rows = [i \in DOMAIN p.list |-> Row(p.list[i], i)]
  BY DEF Init
<1>2. p.locked \in BOOLEAN /\ p.list \in Seq(Entry) /\ Once(p.list)
  BY LoadOrderAssumption DEF Once
<1>3. DOMAIN p.list = 1 .. Len(p.list) /\ Len(p.list) \in Nat
  BY <1>2
<1>4. \A i \in 1 .. Len(p.list) : Row(p.list[i], i) \in TableRow /\ Row(p.list[i], i).id = p.list[i].id
  <2> TAKE i \in 1 .. Len(p.list)
  <2>1. p.list[i] \in Entry
    BY <1>2, <1>3
  <2> QED BY <2>1 DEF Row, Entry, TableRow
<1>5. rows \in [1 .. Len(p.list) -> TableRow]
  BY <1>1, <1>3, <1>4
<1>6. rows \in Seq(TableRow)
  BY <1>3, <1>5, SeqDef
<1>7. Once(rows)
  BY <1>1, <1>2, <1>3, <1>4 DEF Once
<1>8. TableOK
  BY <1>1, <1>2, <1>6, <1>7, LoadOrderAssumption DEF Init, TableOK
<1>9. SessionsOK
  <2>1. session = [e \in Editors |-> Nobody]
    BY DEF Init
  <2>2. \A e \in Editors : session[e] = Nobody
    BY <2>1
  <2>3. session \in [Editors -> Session]
    BY <2>1, NobodyIsSession
  <2> QED BY <2>2, <2>3, NobodyIsSession DEF SessionsOK
<1>10. SortInv /\ AtRest
  BY IdleInv DEF Init, Idle, AtRest
<1>11. ReadingOK /\ BoundsOK
  BY LoadOrderAssumption DEF Init, ReadingOK, BoundsOK
<1> QED BY <1>8, <1>9, <1>10, <1>11 DEF TypeInv

LEMMA NextTyped ==
    ASSUME TypeInv, [Next]_vars
    PROVE  TypeInv'
<1>1. CASE UNCHANGED vars
  <2>1. UNCHANGED <<locked, rows, rules, session, reading, edits, deaths>> /\ UNCHANGED resolution
    BY <1>1 DEF vars, profile
  <2>2. SortInv' /\ AtRest'
    BY <2>1, ResolutionKept DEF TypeInv
  <2> QED BY <2>1, <2>2 DEF TypeInv, TableOK, ReadingOK, SessionsOK, BoundsOK
<1>2. CASE \E e \in Editors :
              \/ ReadProfile(e) \/ ReadMods(e) \/ ReadRules(e) \/ Edit(e)
              \/ WriteProfile(e) \/ ClearMods(e) \/ ClearRules(e)
              \/ InsertMod(e) \/ InsertRule(e) \/ Written(e)
              \/ Die(e)
  BY <1>2, ReadsTyped, EditTyped, WritesTyped, InsertModTyped, EndsTyped
<1>3. CASE Load \/ Resolve \/ Sort \/ Use
  BY <1>3, DeploymentTyped
<1> QED BY <1>1, <1>2, <1>3 DEF Next

LEMMA TypesHold == Spec => []TypeInv
BY InitTyped, NextTyped, PTL DEF Spec

LEMMA TypeInvTypes == TypeInv => TypeOK
<1> SUFFICES ASSUME TypeInv PROVE TypeOK
  OBVIOUS
<1>1. TableOK /\ ReadingOK /\ SessionsOK /\ BoundsOK /\ SortInv /\ AtRest
  BY DEF TypeInv
<1>2. /\ locked \in BOOLEAN /\ rules \subseteq AllRules
      /\ \A i \in DOMAIN rows : rows[i] \in [id : Mods, enabled : BOOLEAN, pinned : BOOLEAN, at : Nat]
      /\ \A i, j \in DOMAIN rows : rows[i].id = rows[j].id => i = j
  <2>1. locked \in BOOLEAN /\ rules \subseteq AllRules /\ rows \in Seq(TableRow) /\ Once(rows)
    BY <1>1 DEF TableOK
  <2>2. \A i \in DOMAIN rows : rows[i] \in TableRow
    BY <2>1
  <2>3. \A i, j \in DOMAIN rows : rows[i].id = rows[j].id => i = j
    BY <2>1 DEF Once
  <2> QED BY <2>1, <2>2, <2>3 DEF TableRow
<1>3. \A e \in Editors :
        /\ session[e].pc \in Pcs /\ session[e].locked \in BOOLEAN
        /\ session[e].list \in Seq(Entry) /\ session[e].rules \subseteq AllRules
        /\ session[e].next \in 0 .. Len(session[e].list) + 1
  BY <1>1, SessionFields
<1>4. /\ stage \in {"idle", "sorting", "done", "cycle", "conflict"}
      /\ input \in Seq(Mods) /\ Distinct(input) /\ edges \subseteq AllRules /\ order \in Seq(Mods)
  BY <1>1 DEF SortInv, SortTyped
<1>5. degree \in [Mods -> Nat] /\ ready \subseteq Mods \ Named(order)
  <2>1. CASE stage \in {"idle", "conflict"}
    BY <1>1, <2>1 DEF AtRest
  <2>2. CASE stage \in {"sorting", "done", "cycle"}
    <3>1. SortTyped /\ Counted
      BY <1>1, <2>2 DEF SortInv
    <3>2. \A m \in Mods : Cardinality(Waits(m)) \in Nat
      BY <3>1, WaitsFinite
    <3>3. Named(input) \subseteq Mods
      BY <1>4, NamedAreMods
    <3> QED BY <3>1, <3>2, <3>3 DEF Counted
  <2> QED BY <1>4, <2>1, <2>2
<1>6. offender \subseteq Mods
  <2>1. CASE stage # "cycle"
    BY <1>1, <2>1 DEF AtRest
  <2>2. CASE stage = "cycle"
    <3>1. SortTyped /\ Ended
      BY <1>1, <2>2 DEF SortInv
    <3>2. offender \subseteq Named(input)
      BY <2>2, <3>1 DEF Ended
    <3> QED BY <1>4, <3>2, NamedAreMods
  <2> QED BY <2>1, <2>2
<1> QED BY <1>1, <1>2, <1>3, <1>4, <1>5, <1>6 DEF TypeOK, ReadingOK, BoundsOK

\* The list and the rules stay lists of mods and rules, a mod has one row at most, and the sort's
\* tables stay what the sort expects, whatever sessions there are.
THEOREM TypeCorrect == Spec => []TypeOK
BY TypesHold, TypeInvTypes, PTL

\* The order a deployment gets is the first of those that meet the rules, whatever sessions do
\* while it reads the rows and the rules.
THEOREM DeployedOrderIsLeast == Spec => []LeastOrder
<1>1. TypeInv => LeastOrder
  BY InvLeast DEF TypeInv
<1> QED BY <1>1, TypesHold, PTL

\* A deployment is refused for a cycle only when the list and the rules it read have no order.
THEOREM DeployedCyclesAreReal == Spec => []CycleIsReal
<1>1. TypeInv => CycleIsReal
  BY InvCycle DEF TypeInv
<1> QED BY <1>1, TypesHold, PTL

\* A deployment resolves as ResolveSpec says, of any list and rules it finds: what sessions do
\* meanwhile takes no part in it.
THEOREM DeploymentsResolve == Spec => ResolveSpec
<1>1. Init => Idle
  BY DEF Init
<1>2. ASSUME TypeInv, [Next]_vars
      PROVE  [ResolveNext]_resolution
  <2>1. CASE UNCHANGED vars
    BY <2>1 DEF vars
  <2>2. CASE \E e \in Editors :
              \/ ReadProfile(e) \/ ReadMods(e) \/ ReadRules(e) \/ Edit(e)
              \/ WriteProfile(e) \/ ClearMods(e) \/ ClearRules(e)
              \/ InsertMod(e) \/ InsertRule(e) \/ Written(e)
              \/ Die(e)
    BY <2>2 DEF ReadProfile, ReadMods, ReadRules, Edit, WriteProfile, ClearMods, ClearRules,
                InsertMod, InsertRule, Written, Die, Undisturbed
  <2>3. CASE Load
    BY <2>3 DEF Load
  <2>4. CASE Resolve
    <3>1. PICK l \in reading : Begin(EnabledOf(l), rules)
      BY <2>4 DEF Resolve
    <3>2. EnabledOf(l) \in Inputs /\ rules \in SUBSET AllRules
      BY <1>2, EnabledAreInput DEF TypeInv, ReadingOK, TableOK
    <3> QED BY <3>1, <3>2 DEF ResolveNext
  <2>5. CASE Sort \/ Use
    BY <2>5 DEF Sort, Use, ResolveNext
  <2> QED BY <1>2, <2>1, <2>2, <2>3, <2>4, <2>5 DEF Next
<1> QED BY <1>1, <1>2, TypesHold, PTL DEF Spec, ResolveSpec

-----------------------------------------------------------------------------
(* A session that is alone *)

Alone == \A d, e \in Editors : d = e

\* A list in which nothing but its end may come up a second time
AlmostOnce(l) == \A i, j \in 1 .. Len(l) - 1 : l[i].id = l[j].id => i = j

EnabledAt(l, i) == [l EXCEPT ![i].enabled = ~ @]
PinnedAt(l, i) == [l EXCEPT ![i].pinned = ~ @]

\* What one command makes of a list: the steps of ProfileEdits
Changed(frozen, l, m) ==
    \/ m = l
    \/ /\ ~ frozen
       /\ \E i \in 1 .. Len(l) - 1 : ~ l[i].pinned /\ ~ l[i + 1].pinned /\ m = Swapped(l, i, i + 1)
    \/ \E i \in DOMAIN l : m = EnabledAt(l, i)
    \/ \E i \in DOMAIN l : m = PinnedAt(l, i)
    \/ \E n \in Mods : (\A i \in DOMAIN l : l[i].id # n) /\ m = Extended(l, n)
    \/ \E i \in DOMAIN l : m = Without(l, i)

\* sort_index is the place in the list.
Placed == \A i \in DOMAIN rows : rows[i].at = i

\* The copy is what the rows were when it was read, until a command changes it, and the rows
\* inserted are its first ones.
Follows(e) ==
    LET s == session[e] IN
    /\ s.pc \in {"mods", "rules", "edit"} => s.locked = locked
    /\ s.pc \in {"rules", "edit"} => s.list = Stored
    /\ s.pc \in {"update", "clear_mods", "clear_rules", "insert"} => AlmostOnce(s.list)
    /\ s.pc = "update" =>
        \/ s.list = Stored
        \/ s.locked = locked /\ Changed(locked, Stored, Insertable(s.list))
    /\ s.pc = "clear_mods" =>
        s.locked = locked /\ Changed(locked, Stored, Insertable(s.list))
    /\ s.pc = "clear_rules" => rows = <<>>
    /\ s.pc = "insert" =>
        Len(rows) = s.next - 1 /\ \A i \in DOMAIN rows : rows[i] = Row(s.list[i], i)

AloneInv == Placed /\ \A e \in Editors : Follows(e)

LEMMA Places ==
    ASSUME NEW n \in Nat
    PROVE  /\ \A i \in 1 .. n : i # n => i \in 1 .. n - 1
           /\ \A i \in 1 .. n - 1 : i \in 1 .. n /\ n \in 1 .. n /\ i # n
OBVIOUS

LEMMA InsertableList ==
    ASSUME NEW l \in Seq(Entry), AlmostOnce(l)
    PROVE  /\ Insertable(l) \in Seq(Entry) /\ Once(Insertable(l))
           /\ \A i \in DOMAIN Insertable(l) : i \in DOMAIN l /\ Insertable(l)[i] = l[i]
           /\ Len(Insertable(l)) = Len(l) \/ Len(Insertable(l)) + 1 = Len(l)
           /\ Len(Insertable(l)) # Len(l) => \E i \in 1 .. Len(l) - 1 : l[i].id = l[Len(l)].id
<1>1. DOMAIN l = 1 .. Len(l) /\ Len(l) \in Nat
  OBVIOUS
<1>2. CASE \E i \in 1 .. Len(l) - 1 : l[i].id = l[Len(l)].id
  <2>1. Insertable(l) = SubSeq(l, 1, Len(l) - 1)
    BY <1>2 DEF Insertable
  <2>2. Len(l) - 1 \in Nat
    BY <1>1, <1>2
  <2>3. /\ SubSeq(l, 1, Len(l) - 1) \in Seq(Entry) /\ Len(SubSeq(l, 1, Len(l) - 1)) = Len(l) - 1
        /\ \A i \in 1 .. Len(l) - 1 : SubSeq(l, 1, Len(l) - 1)[i] = l[i]
    BY <1>1, <2>2
  <2> DEFINE m == Insertable(l)
  <2> HIDE DEF m
  <2>4. m \in Seq(Entry) /\ Len(m) = Len(l) - 1 /\ \A i \in 1 .. Len(l) - 1 : m[i] = l[i]
    BY <2>1, <2>3 DEF m
  <2>5. DOMAIN m = 1 .. Len(l) - 1
    BY <2>4
  <2>6. Once(m)
    BY <2>4, <2>5 DEF Once, AlmostOnce
  <2>7. \A i \in DOMAIN m : i \in DOMAIN l /\ m[i] = l[i]
    BY <1>1, <2>4, <2>5, Places
  <2>8. Len(m) + 1 = Len(l)
    BY <1>1, <2>4
  <2> QED BY <1>2, <2>4, <2>6, <2>7, <2>8 DEF m
<1>3. CASE ~ \E i \in 1 .. Len(l) - 1 : l[i].id = l[Len(l)].id
  <2>1. Insertable(l) = l
    BY <1>3 DEF Insertable
  <2>2. Once(l)
    <3> SUFFICES ASSUME NEW i \in 1 .. Len(l), NEW j \in 1 .. Len(l), l[i].id = l[j].id
                 PROVE  i = j
      BY <1>1 DEF Once
    <3>1. CASE i = Len(l) /\ j # Len(l)
      <4>1. j \in 1 .. Len(l) - 1
        BY <1>1, <3>1, Places
      <4> QED BY <4>1, <3>1, <1>3
    <3>2. CASE j = Len(l) /\ i # Len(l)
      <4>1. i \in 1 .. Len(l) - 1
        BY <1>1, <3>2, Places
      <4> QED BY <4>1, <3>2, <1>3
    <3>3. CASE i # Len(l) /\ j # Len(l)
      <4>1. i \in 1 .. Len(l) - 1 /\ j \in 1 .. Len(l) - 1
        BY <1>1, <3>3, Places
      <4> QED BY <4>1 DEF AlmostOnce
    <3> QED BY <3>1, <3>2, <3>3
  <2> QED BY <1>1, <2>1, <2>2
<1> QED BY <1>2, <1>3

LEMMA OnceInsertable ==
    ASSUME NEW l \in Seq(Entry), Once(l)
    PROVE  AlmostOnce(l) /\ Insertable(l) = l
<1>1. DOMAIN l = 1 .. Len(l) /\ Len(l) \in Nat
  OBVIOUS
<1>2. AlmostOnce(l)
  BY <1>1 DEF Once, AlmostOnce
<1>3. ~ \E i \in 1 .. Len(l) - 1 : l[i].id = l[Len(l)].id
  <2> SUFFICES ASSUME NEW i \in 1 .. Len(l) - 1, l[i].id = l[Len(l)].id PROVE FALSE
    OBVIOUS
  <2>1. i \in 1 .. Len(l) /\ Len(l) \in 1 .. Len(l) /\ i # Len(l)
    BY <1>1, Places
  <2> QED BY <1>1, <2>1 DEF Once
<1> QED BY <1>2, <1>3 DEF Insertable

LEMMA EnabledAtList ==
    ASSUME NEW l \in Seq(Entry), NEW i \in DOMAIN l
    PROVE  /\ EnabledAt(l, i) \in Seq(Entry) /\ Len(EnabledAt(l, i)) = Len(l)
           /\ \A k \in DOMAIN l : EnabledAt(l, i)[k] =
                                      IF k = i THEN [l[i] EXCEPT !.enabled = ~ @] ELSE l[k]
<1>1. DOMAIN l = 1 .. Len(l) /\ Len(l) \in Nat
  OBVIOUS
<1> DEFINE t == EnabledAt(l, i)
<1>2. t = [k \in 1 .. Len(l) |-> IF k = i THEN [l[i] EXCEPT !.enabled = ~ @] ELSE l[k]]
  BY <1>1 DEF EnabledAt
<1>3. \A k \in 1 .. Len(l) : l[k] \in Entry
  BY <1>1
<1>4. [l[i] EXCEPT !.enabled = ~ @] \in Entry
  BY <1>1, <1>3 DEF Entry
<1>5. t \in [1 .. Len(l) -> Entry]
  BY <1>2, <1>3, <1>4
<1>6. t \in Seq(Entry)
  BY <1>1, <1>5, SeqDef
<1>7. Len(t) = Len(l)
  BY <1>1, <1>5, <1>6
<1> QED BY <1>1, <1>2, <1>6, <1>7

LEMMA PinnedAtList ==
    ASSUME NEW l \in Seq(Entry), NEW i \in DOMAIN l
    PROVE  /\ PinnedAt(l, i) \in Seq(Entry) /\ Len(PinnedAt(l, i)) = Len(l)
           /\ \A k \in DOMAIN l : PinnedAt(l, i)[k] =
                                      IF k = i THEN [l[i] EXCEPT !.pinned = ~ @] ELSE l[k]
<1>1. DOMAIN l = 1 .. Len(l) /\ Len(l) \in Nat
  OBVIOUS
<1> DEFINE t == PinnedAt(l, i)
<1>2. t = [k \in 1 .. Len(l) |-> IF k = i THEN [l[i] EXCEPT !.pinned = ~ @] ELSE l[k]]
  BY <1>1 DEF PinnedAt
<1>3. \A k \in 1 .. Len(l) : l[k] \in Entry
  BY <1>1
<1>4. [l[i] EXCEPT !.pinned = ~ @] \in Entry
  BY <1>1, <1>3 DEF Entry
<1>5. t \in [1 .. Len(l) -> Entry]
  BY <1>2, <1>3, <1>4
<1>6. t \in Seq(Entry)
  BY <1>1, <1>5, SeqDef
<1>7. Len(t) = Len(l)
  BY <1>1, <1>5, <1>6
<1> QED BY <1>1, <1>2, <1>6, <1>7

\* Neighbours change places, whichever of them is asked to move.
LEMMA SwappedSame ==
    ASSUME NEW l \in Seq(Entry), NEW i \in DOMAIN l, NEW t \in DOMAIN l
    PROVE  Swapped(l, i, t) = Swapped(l, t, i)
<1> DEFINE a == Swapped(l, i, t)
           b == Swapped(l, t, i)
<1>1. DOMAIN l = 1 .. Len(l) /\ Len(l) \in Nat
  OBVIOUS
<1>2. /\ a \in Seq(Entry) /\ Len(a) = Len(l)
      /\ \A k \in DOMAIN l : a[k] = IF k = t THEN l[i] ELSE IF k = i THEN l[t] ELSE l[k]
  BY SwappedList
<1>3. /\ b \in Seq(Entry) /\ Len(b) = Len(l)
      /\ \A k \in DOMAIN l : b[k] = IF k = i THEN l[t] ELSE IF k = t THEN l[i] ELSE l[k]
  BY SwappedList
<1> HIDE DEF a, b
<1>4. \A k \in 1 .. Len(a) : a[k] = b[k]
  BY <1>1, <1>2, <1>3
<1>5. a = b
  BY <1>2, <1>3, <1>4, SeqEqual
<1> QED BY <1>5 DEF a, b

LEMMA ToggledIsEnabled ==
    ASSUME NEW l \in Seq(Entry), Once(l), NEW m, NEW on \in BOOLEAN
    PROVE  /\ Toggled(l, m, on) = l \/ \E i \in DOMAIN l : Toggled(l, m, on) = EnabledAt(l, i)
           /\ Once(Toggled(l, m, on))
<1> DEFINE t == Toggled(l, m, on)
<1>1. DOMAIN l = 1 .. Len(l) /\ Len(l) \in Nat
  OBVIOUS
<1>2. /\ t \in Seq(Entry) /\ Len(t) = Len(l)
      /\ \A i \in DOMAIN l : t[i] = IF l[i].id = m THEN [l[i] EXCEPT !.enabled = on] ELSE l[i]
  BY ToggledList
<1> HIDE DEF t
<1>3. \A i \in DOMAIN l : l[i] \in Entry
  BY <1>1
<1>4. \A x \in Entry : [x EXCEPT !.enabled = on].id = x.id
  BY DEF Entry
<1>5. \A i \in DOMAIN l : t[i].id = l[i].id
  BY <1>2, <1>3, <1>4
<1>6. DOMAIN t = DOMAIN l
  BY <1>1, <1>2
<1>7. Once(t)
  BY <1>5, <1>6 DEF Once
<1>8. CASE \A i \in DOMAIN l : l[i].id = m => l[i].enabled = on
  <2>1. \A x \in Entry : x.enabled = on => [x EXCEPT !.enabled = on] = x
    BY DEF Entry
  <2>2. \A i \in 1 .. Len(t) : t[i] = l[i]
    BY <1>1, <1>2, <1>3, <1>8, <2>1
  <2>3. t = l
    BY <1>2, <2>2, SeqEqual
  <2> QED BY <2>3, <1>7 DEF t
<1>9. CASE \E i \in DOMAIN l : l[i].id = m /\ l[i].enabled # on
  <2>1. PICK i \in DOMAIN l : l[i].id = m /\ l[i].enabled # on
    BY <1>9
  <2>2. \A x \in Entry : x.enabled # on => [x EXCEPT !.enabled = on] = [x EXCEPT !.enabled = ~ @]
    BY DEF Entry
  <2> DEFINE u == EnabledAt(l, i)
  <2>3. /\ u \in Seq(Entry) /\ Len(u) = Len(l)
        /\ \A k \in DOMAIN l : u[k] = IF k = i THEN [l[i] EXCEPT !.enabled = ~ @] ELSE l[k]
    BY EnabledAtList
  <2> HIDE DEF u
  <2>4. [l[i] EXCEPT !.enabled = on] = [l[i] EXCEPT !.enabled = ~ @]
    BY <1>3, <2>1, <2>2
  <2>5. \A k \in 1 .. Len(t) : t[k] = u[k]
    <3> TAKE k \in 1 .. Len(t)
    <3>1. k \in DOMAIN l
      BY <1>1, <1>2
    <3>2. CASE k = i
      <4>1. t[k] = [l[i] EXCEPT !.enabled = on]
        BY <1>2, <2>1, <3>1, <3>2
      <4>2. u[k] = [l[i] EXCEPT !.enabled = ~ @]
        BY <2>3, <3>1, <3>2
      <4> QED BY <4>1, <4>2, <2>4
    <3>3. CASE k # i
      <4>1. l[k].id # m
        BY <2>1, <3>1, <3>3 DEF Once
      <4> QED BY <4>1, <1>2, <2>3, <3>1, <3>3
    <3> QED BY <3>2, <3>3
  <2>6. t = u
    BY <1>2, <2>3, <2>5, SeqEqual
  <2> QED BY <2>6, <1>7 DEF t, u
<1> QED BY <1>8, <1>9

LEMMA PinnedIsPinnedAt ==
    ASSUME NEW l \in Seq(Entry), Once(l), NEW i \in DOMAIN l, NEW on \in BOOLEAN
    PROVE  /\ Pinned(l, i, on) = l \/ Pinned(l, i, on) = PinnedAt(l, i)
           /\ Once(Pinned(l, i, on))
<1> DEFINE t == Pinned(l, i, on)
           u == PinnedAt(l, i)
<1>1. DOMAIN l = 1 .. Len(l) /\ Len(l) \in Nat
  OBVIOUS
<1>2. /\ t \in Seq(Entry) /\ Len(t) = Len(l)
      /\ \A k \in DOMAIN l : t[k] = IF k = i THEN [l[i] EXCEPT !.pinned = on] ELSE l[k]
  BY PinnedList
<1>3. /\ u \in Seq(Entry) /\ Len(u) = Len(l)
      /\ \A k \in DOMAIN l : u[k] = IF k = i THEN [l[i] EXCEPT !.pinned = ~ @] ELSE l[k]
  BY PinnedAtList
<1> HIDE DEF t, u
<1>4. l[i] \in Entry
  BY <1>1
<1>5. \A x \in Entry : [x EXCEPT !.pinned = on].id = x.id
  BY DEF Entry
<1>6. \A k \in DOMAIN l : t[k].id = l[k].id
  BY <1>2, <1>4, <1>5
<1>7. DOMAIN t = DOMAIN l
  BY <1>1, <1>2
<1>8. Once(t)
  BY <1>6, <1>7 DEF Once
<1>9. CASE l[i].pinned = on
  <2>1. \A x \in Entry : x.pinned = on => [x EXCEPT !.pinned = on] = x
    BY DEF Entry
  <2>2. \A k \in 1 .. Len(t) : t[k] = l[k]
    BY <1>1, <1>2, <1>4, <1>9, <2>1
  <2>3. t = l
    BY <1>2, <2>2, SeqEqual
  <2> QED BY <2>3, <1>8 DEF t
<1>10. CASE l[i].pinned # on
  <2>1. \A x \in Entry : x.pinned # on => [x EXCEPT !.pinned = on] = [x EXCEPT !.pinned = ~ @]
    BY DEF Entry
  <2>2. [l[i] EXCEPT !.pinned = on] = [l[i] EXCEPT !.pinned = ~ @]
    BY <1>4, <1>10, <2>1
  <2>3. \A k \in 1 .. Len(t) : t[k] = u[k]
    BY <1>1, <1>2, <1>3, <2>2
  <2>4. t = u
    BY <1>2, <1>3, <2>3, SeqEqual
  <2> QED BY <2>4, <1>8 DEF t, u
<1> QED BY <1>9, <1>10

LEMMA SwappedOnce ==
    ASSUME NEW l \in Seq(Entry), Once(l), NEW i \in DOMAIN l, NEW t \in DOMAIN l
    PROVE  Once(Swapped(l, i, t))
<1> DEFINE a == Swapped(l, i, t)
<1>1. DOMAIN l = 1 .. Len(l) /\ Len(l) \in Nat
  OBVIOUS
<1>2. /\ a \in Seq(Entry) /\ Len(a) = Len(l)
      /\ \A k \in DOMAIN l : a[k] = IF k = t THEN l[i] ELSE IF k = i THEN l[t] ELSE l[k]
  BY SwappedList
<1> HIDE DEF a
<1>3. DOMAIN a = DOMAIN l
  BY <1>1, <1>2
<1> DEFINE old(k) == IF k = t THEN i ELSE IF k = i THEN t ELSE k
<1>4. \A k \in DOMAIN l : a[k] = l[old(k)] /\ old(k) \in DOMAIN l
  BY <1>2
<1>5. \A j, k \in DOMAIN l : old(j) = old(k) => j = k
  OBVIOUS
<1> HIDE DEF old
<1>6. Once(a)
  BY <1>3, <1>4, <1>5 DEF Once
<1> QED BY <1>6 DEF a

LEMMA WithoutOnce ==
    ASSUME NEW l \in Seq(Entry), Once(l), NEW k \in DOMAIN l
    PROVE  Once(Without(l, k))
<1> DEFINE a == Without(l, k)
<1>1. DOMAIN l = 1 .. Len(l) /\ Len(l) \in Nat
  OBVIOUS
<1>2. /\ a \in Seq(Entry) /\ Len(a) = Len(l) - 1
      /\ \A i \in 1 .. Len(l) - 1 : a[i] = IF i < k THEN l[i] ELSE l[i + 1]
  BY RemovedList
<1> HIDE DEF a
<1>3. DOMAIN a = 1 .. Len(l) - 1
  BY <1>1, <1>2
<1> DEFINE old(i) == IF i < k THEN i ELSE i + 1
<1>4. \A i \in 1 .. Len(l) - 1 : a[i] = l[old(i)] /\ old(i) \in DOMAIN l
  BY <1>1, <1>2
<1>5. \A i, j \in 1 .. Len(l) - 1 : old(i) = old(j) => i = j
  BY <1>1
<1> HIDE DEF old
<1>6. Once(a)
  BY <1>3, <1>4, <1>5 DEF Once
<1> QED BY <1>6 DEF a

LEMMA ExtendedList ==
    ASSUME NEW l \in Seq(Entry), Once(l), NEW n \in Mods
    PROVE  /\ Extended(l, n) \in Seq(Entry) /\ AlmostOnce(Extended(l, n))
           /\ \/ Insertable(Extended(l, n)) = l
              \/ /\ \A i \in DOMAIN l : l[i].id # n
                 /\ Insertable(Extended(l, n)) = Extended(l, n)
<1> DEFINE x == [id |-> n, enabled |-> TRUE, pinned |-> FALSE]
           a == Extended(l, n)
<1>1. DOMAIN l = 1 .. Len(l) /\ Len(l) \in Nat
  OBVIOUS
<1>2. x \in Entry /\ x.id = n
  BY DEF Entry
<1>3. a = Append(l, x)
  BY DEF Extended
<1> HIDE DEF x, a
<1>4. /\ a \in Seq(Entry) /\ Len(a) = Len(l) + 1 /\ a[Len(l) + 1] = x
      /\ \A i \in 1 .. Len(l) : a[i] = l[i]
  BY <1>1, <1>2, <1>3
<1>5. AlmostOnce(a)
  BY <1>1, <1>4 DEF Once, AlmostOnce
<1>6. CASE \E i \in 1 .. Len(l) : l[i].id = n
  <2>1. \E i \in 1 .. Len(a) - 1 : a[i].id = a[Len(a)].id
    BY <1>1, <1>2, <1>4, <1>6
  <2>2. Insertable(a) = SubSeq(a, 1, Len(a) - 1)
    BY <2>1 DEF Insertable
  <2>3. Len(a) - 1 = Len(l)
    BY <1>1, <1>4
  <2>4. /\ SubSeq(a, 1, Len(l)) \in Seq(Entry) /\ Len(SubSeq(a, 1, Len(l))) = Len(l)
        /\ \A i \in 1 .. Len(l) : SubSeq(a, 1, Len(l))[i] = a[i]
    BY <1>1, <1>4
  <2>5. SubSeq(a, 1, Len(l)) = l
    BY <1>4, <2>4, SeqEqual
  <2> QED BY <1>4, <1>5, <2>2, <2>3, <2>5 DEF a
<1>7. CASE \A i \in 1 .. Len(l) : l[i].id # n
  <2>1. ~ \E i \in 1 .. Len(a) - 1 : a[i].id = a[Len(a)].id
    BY <1>1, <1>2, <1>4, <1>7
  <2>2. Insertable(a) = a
    BY <2>1 DEF Insertable
  <2> QED BY <1>1, <1>4, <1>5, <1>7, <2>2 DEF a
<1> QED BY <1>6, <1>7

\* What a command makes of a list, without a mod there is no row for, is one change of it.
LEMMA EditedChanges ==
    ASSUME NEW c \in Command, NEW frozen \in BOOLEAN, NEW l \in Seq(Entry), Once(l),
           NEW m \in Edited(frozen, l, c)
    PROVE  AlmostOnce(m) /\ Changed(frozen, l, Insertable(m)) /\ (c.op = "lock" => m = l)
<1>1. CASE c.op = "reorder" /\ m \in Reordered(frozen, l, c)
  <2>1. /\ ~ frozen
        /\ \E i, t \in DOMAIN l :
              /\ t = i + 1 \/ i = t + 1
              /\ ~ l[i].pinned /\ ~ l[t].pinned
              /\ m = Swapped(l, i, t)
    BY <1>1, ReorderedList
  <2>2. PICK i, t \in DOMAIN l :
              /\ t = i + 1 \/ i = t + 1
              /\ ~ l[i].pinned /\ ~ l[t].pinned
              /\ m = Swapped(l, i, t)
    BY <2>1
  <2>3. m \in Seq(Entry) /\ Once(m)
    BY <2>2, SwappedList, SwappedOnce
  <2>4. AlmostOnce(m) /\ Insertable(m) = m
    BY <2>3, OnceInsertable
  <2>5. \E k \in 1 .. Len(l) - 1 : ~ l[k].pinned /\ ~ l[k + 1].pinned /\ m = Swapped(l, k, k + 1)
    <3>1. CASE t = i + 1
      <4>1. i \in 1 .. Len(l) - 1
        BY <3>1
      <4> QED BY <2>2, <3>1, <4>1
    <3>2. CASE i = t + 1
      <4>1. t \in 1 .. Len(l) - 1
        BY <3>2
      <4>2. m = Swapped(l, t, i)
        BY <2>2, SwappedSame
      <4> QED BY <2>2, <3>2, <4>1, <4>2
    <3> QED BY <2>2, <3>1, <3>2
  <2> QED BY <1>1, <2>1, <2>4, <2>5 DEF Changed
<1>2. CASE c.op = "toggle" /\ c.on \in BOOLEAN /\ m = Toggled(l, c.mod, c.on)
  <2>1. m \in Seq(Entry) /\ Once(m)
    BY <1>2, ToggledList, ToggledIsEnabled
  <2>2. m = l \/ \E i \in DOMAIN l : m = EnabledAt(l, i)
    BY <1>2, ToggledIsEnabled
  <2>3. AlmostOnce(m) /\ Insertable(m) = m
    BY <2>1, OnceInsertable
  <2> QED BY <1>2, <2>2, <2>3 DEF Changed
<1>3. CASE c.op = "pin" /\ c.on \in BOOLEAN /\ \E i \in DOMAIN l : m = Pinned(l, i, c.on)
  <2>1. PICK i \in DOMAIN l : m = Pinned(l, i, c.on)
    BY <1>3
  <2>2. m \in Seq(Entry) /\ Once(m)
    BY <1>3, <2>1, PinnedList, PinnedIsPinnedAt
  <2>3. m = l \/ m = PinnedAt(l, i)
    BY <1>3, <2>1, PinnedIsPinnedAt
  <2>4. AlmostOnce(m) /\ Insertable(m) = m
    BY <2>2, OnceInsertable
  <2> QED BY <1>3, <2>3, <2>4 DEF Changed
<1>4. CASE c.op = "add" /\ c.mod \in Mods /\ m = Extended(l, c.mod)
  <2>1. AlmostOnce(m)
    BY <1>4, ExtendedList
  <2>2. \/ Insertable(m) = l
        \/ (\A i \in DOMAIN l : l[i].id # c.mod) /\ Insertable(m) = Extended(l, c.mod)
    BY <1>4, ExtendedList
  <2> QED BY <1>4, <2>1, <2>2 DEF Changed
<1>5. CASE c.op = "remove" /\ \E k \in DOMAIN l : m = Without(l, k)
  <2>1. PICK k \in DOMAIN l : m = Without(l, k)
    BY <1>5
  <2>2. m \in Seq(Entry) /\ Once(m)
    BY <2>1, RemovedList, WithoutOnce
  <2>3. AlmostOnce(m) /\ Insertable(m) = m
    BY <2>2, OnceInsertable
  <2> QED BY <1>5, <2>1, <2>3 DEF Changed
<1>6. CASE c.op = "lock" /\ m = l
  <2>1. AlmostOnce(m) /\ Insertable(m) = m
    BY <1>6, OnceInsertable
  <2> QED BY <1>6, <2>1 DEF Changed
<1> QED BY <1>1, <1>2, <1>3, <1>4, <1>5, <1>6, CommandCases

-----------------------------------------------------------------------------
(* The steps of a session that is alone *)

LEMMA AloneGo ==
    ASSUME Alone, SessionsOK, NEW e \in Editors, NEW r, Go(e, r)
    PROVE  session'[e] = r /\ \A d \in Editors : d = e
BY DEF Alone, SessionsOK, Go

LEMMA AloneStill ==
    ASSUME AloneInv, UNCHANGED <<locked, rows, session>>
    PROVE  AloneInv'
<1>1. Stored' = Stored
  BY DEF Stored
<1>2. Placed'
  BY DEF AloneInv, Placed
<1>3. \A e \in Editors : Follows(e) => Follows(e)'
  <2> SUFFICES ASSUME NEW e \in Editors, Follows(e) PROVE Follows(e)'
    OBVIOUS
  <2> QED BY <1>1 DEF Follows
<1> QED BY <1>2, <1>3 DEF AloneInv

LEMMA NobodyFollows ==
    ASSUME Alone, TypeInv, NEW e \in Editors, Go(e, Nobody), Placed'
    PROVE  AloneInv'
<1>1. PICK r : r = Nobody
  OBVIOUS
<1>2. session'[e] = Nobody /\ \A d \in Editors : d = e
  BY AloneGo DEF TypeInv
<1>3. session'[e].pc = "idle"
  BY <1>2, NobodyIsSession
<1>4. Follows(e)'
  BY <1>3 DEF Follows
<1> QED BY <1>2, <1>4 DEF AloneInv

LEMMA ReadsFollow ==
    ASSUME Alone, TypeInv, AloneInv, NEW e \in Editors,
           ReadProfile(e) \/ ReadMods(e) \/ ReadRules(e)
    PROVE  AloneInv'
<1>1. UNCHANGED <<locked, rows>>
  BY DEF ReadProfile, ReadMods, ReadRules, profile
<1>2. Stored' = Stored
  BY <1>1 DEF Stored
<1>3. Placed' /\ Follows(e) /\ SessionsOK
  BY <1>1 DEF AloneInv, Placed, TypeInv
<1>4. CASE ReadProfile(e)
  <2> DEFINE r == [Nobody EXCEPT !.pc = "mods", !.locked = locked]
  <2>1. session'[e] = r /\ \A d \in Editors : d = e
    BY <1>3, <1>4, AloneGo DEF ReadProfile
  <2>2. r.pc = "mods" /\ r.locked = locked
    BY DEF Nobody
  <2> HIDE DEF r
  <2>3. Follows(e)'
    BY <1>1, <2>1, <2>2 DEF Follows
  <2> QED BY <1>3, <2>1, <2>3 DEF AloneInv
<1>5. CASE ReadMods(e)
  <2> DEFINE r == [session[e] EXCEPT !.pc = "rules", !.list = Stored]
  <2>1. session'[e] = r /\ \A d \in Editors : d = e
    BY <1>3, <1>5, AloneGo DEF ReadMods
  <2>2. r.pc = "rules" /\ r.list = Stored /\ r.locked = session[e].locked
    BY <1>3, SessionFields DEF Session
  <2>3. session[e].locked = locked
    BY <1>3, <1>5 DEF ReadMods, Follows
  <2> HIDE DEF r
  <2>4. Follows(e)'
    BY <1>1, <1>2, <2>1, <2>2, <2>3 DEF Follows
  <2> QED BY <1>3, <2>1, <2>4 DEF AloneInv
<1>6. CASE ReadRules(e)
  <2> DEFINE r == [session[e] EXCEPT !.pc = "edit", !.rules = rules]
  <2>1. session'[e] = r /\ \A d \in Editors : d = e
    BY <1>3, <1>6, AloneGo DEF ReadRules
  <2>2. r.pc = "edit" /\ r.list = session[e].list /\ r.locked = session[e].locked
    BY <1>3, SessionFields DEF Session
  <2>3. session[e].locked = locked /\ session[e].list = Stored
    BY <1>3, <1>6 DEF ReadRules, Follows
  <2> HIDE DEF r
  <2>4. Follows(e)'
    BY <1>1, <1>2, <2>1, <2>2, <2>3 DEF Follows
  <2> QED BY <1>3, <2>1, <2>4 DEF AloneInv
<1> QED BY <1>4, <1>5, <1>6

LEMMA EditFollows ==
    ASSUME Alone, TypeInv, AloneInv, NEW e \in Editors, Edit(e)
    PROVE  AloneInv'
<1>1. UNCHANGED <<locked, rows>>
  BY DEF Edit, profile
<1>2. Stored' = Stored
  BY <1>1 DEF Stored
<1>3. Placed' /\ Follows(e) /\ SessionsOK /\ TableOK
  BY <1>1 DEF AloneInv, Placed, TypeInv
<1>4. session[e].pc = "edit" /\ session[e].locked = locked /\ session[e].list = Stored
  BY <1>3 DEF Edit, Follows
<1>5. Stored \in Seq(Entry) /\ Once(Stored) /\ locked \in BOOLEAN
  BY <1>3, StoredIsList DEF TableOK
<1>6. PICK c \in Commands :
          LET lists == Edited(session[e].locked, session[e].list, c)
          IN  IF lists = {}
              THEN Go(e, Nobody)
              ELSE \E l \in lists :
                      Go(e, [session[e] EXCEPT !.pc = "update", !.list = l,
                                               !.locked = IF c.op = "lock" THEN c.on ELSE @])
  BY DEF Edit
<1>7. CASE Go(e, Nobody)
  BY <1>3, <1>7, NobodyFollows
<1>8. CASE \E l \in Edited(session[e].locked, session[e].list, c) :
                Go(e, [session[e] EXCEPT !.pc = "update", !.list = l,
                                         !.locked = IF c.op = "lock" THEN c.on ELSE @])
  <2>1. PICK l \in Edited(session[e].locked, session[e].list, c) :
                Go(e, [session[e] EXCEPT !.pc = "update", !.list = l,
                                         !.locked = IF c.op = "lock" THEN c.on ELSE @])
    BY <1>8
  <2> DEFINE k == IF c.op = "lock" THEN c.on ELSE session[e].locked
             r == [session[e] EXCEPT !.pc = "update", !.list = l, !.locked = k]
  <2>2. session'[e] = r /\ \A d \in Editors : d = e
    BY <1>3, <2>1, AloneGo
  <2> HIDE DEF k
  <2>3. r.pc = "update" /\ r.list = l /\ r.locked = k
    BY <1>3, SessionFields DEF Session
  <2> HIDE DEF r
  <2>4. c \in Command /\ l \in Edited(locked, Stored, c)
    BY <1>4, LoadOrderAssumption
  <2>5. AlmostOnce(l) /\ Changed(locked, Stored, Insertable(l)) /\ (c.op = "lock" => l = Stored)
    BY <1>5, <2>4, EditedChanges
  <2>6. c.op # "lock" => k = locked
    BY <1>4 DEF k
  <2>7. Follows(e)'
    BY <1>1, <1>2, <2>2, <2>3, <2>5, <2>6 DEF Follows
  <2> QED BY <1>3, <2>2, <2>7 DEF AloneInv
<1> QED BY <1>6, <1>7, <1>8

LEMMA WritesFollow ==
    ASSUME Alone, TypeInv, AloneInv, NEW e \in Editors,
           WriteProfile(e) \/ ClearMods(e) \/ ClearRules(e)
    PROVE  AloneInv'
<1>1. Placed /\ Follows(e) /\ SessionsOK /\ TableOK
  BY DEF AloneInv, TypeInv
<1>2. Stored \in Seq(Entry) /\ Once(Stored)
  BY <1>1, StoredIsList
<1>3. CASE WriteProfile(e)
  <2> DEFINE r == [session[e] EXCEPT !.pc = "clear_mods"]
  <2>1. session'[e] = r /\ \A d \in Editors : d = e
    BY <1>1, <1>3, AloneGo DEF WriteProfile
  <2>2. r.pc = "clear_mods" /\ r.list = session[e].list /\ r.locked = session[e].locked
    BY <1>1, SessionFields DEF Session
  <2> HIDE DEF r
  <2>3. UNCHANGED rows /\ locked' = session[e].locked /\ session[e].pc = "update"
    BY <1>3 DEF WriteProfile
  <2>4. Stored' = Stored /\ Placed'
    BY <1>1, <2>3 DEF Stored, Placed
  <2>5. /\ AlmostOnce(session[e].list)
        /\ \/ session[e].list = Stored
           \/ session[e].locked = locked /\ Changed(locked, Stored, Insertable(session[e].list))
    BY <1>1, <2>3 DEF Follows
  <2>6. session[e].list = Stored => Insertable(session[e].list) = Stored
    BY <1>2, OnceInsertable
  <2>7. Changed(locked', Stored, Insertable(session[e].list))
    <3>1. CASE session[e].list = Stored
      BY <3>1, <2>6 DEF Changed
    <3>2. CASE session[e].locked = locked /\ Changed(locked, Stored, Insertable(session[e].list))
      <4>1. locked' = locked
        BY <2>3, <3>2
      <4> QED BY <3>2, <4>1
    <3> QED BY <2>5, <3>1, <3>2
  <2>8. Follows(e)'
    BY <2>1, <2>2, <2>3, <2>4, <2>5, <2>7 DEF Follows
  <2> QED BY <2>1, <2>4, <2>8 DEF AloneInv
<1>4. CASE ClearMods(e)
  <2> DEFINE r == [session[e] EXCEPT !.pc = "clear_rules"]
  <2>1. session'[e] = r /\ \A d \in Editors : d = e
    BY <1>1, <1>4, AloneGo DEF ClearMods
  <2>2. r.pc = "clear_rules" /\ r.list = session[e].list
    BY <1>1, SessionFields DEF Session
  <2> HIDE DEF r
  <2>3. rows' = <<>> /\ session[e].pc = "clear_mods"
    BY <1>4 DEF ClearMods
  <2>4. Placed'
    BY <2>3 DEF Placed
  <2>5. Follows(e)'
    BY <1>1, <2>1, <2>2, <2>3 DEF Follows
  <2> QED BY <2>1, <2>4, <2>5 DEF AloneInv
<1>5. CASE ClearRules(e)
  <2> DEFINE r == [session[e] EXCEPT !.pc = "insert", !.next = 1]
  <2>1. session'[e] = r /\ \A d \in Editors : d = e
    BY <1>1, <1>5, AloneGo DEF ClearRules
  <2>2. r.pc = "insert" /\ r.list = session[e].list /\ r.next = 1
    BY <1>1, SessionFields DEF Session
  <2> HIDE DEF r
  <2>3. UNCHANGED rows /\ session[e].pc = "clear_rules"
    BY <1>5 DEF ClearRules
  <2>4. rows' = <<>> /\ AlmostOnce(session[e].list)
    BY <1>1, <2>3 DEF Follows
  <2>5. Placed'
    BY <2>4 DEF Placed
  <2>6. Follows(e)'
    BY <1>1, <2>1, <2>2, <2>4 DEF Follows
  <2> QED BY <2>1, <2>5, <2>6 DEF AloneInv
<1> QED BY <1>3, <1>4, <1>5

\* The next row comes behind those that are there.
LEMMA InsertModFollows ==
    ASSUME Alone, TypeInv, AloneInv, NEW e \in Editors, InsertMod(e)
    PROVE  AloneInv'
<1> DEFINE s == session[e]
           m == s.list[s.next]
<1>1. Placed /\ Follows(e) /\ SessionsOK /\ TableOK
  BY DEF AloneInv, TypeInv
<1>2. s.pc = "insert" /\ s.next <= Len(s.list)
  BY DEF InsertMod
<1>3. \/ Go(e, Nobody) /\ UNCHANGED rows
      \/ rows' = Inserted(Row(m, s.next)) /\ Go(e, [s EXCEPT !.next = @ + 1])
  BY DEF InsertMod
<1>4. CASE Go(e, Nobody) /\ UNCHANGED rows
  <2>1. Placed'
    BY <1>1, <1>4 DEF Placed
  <2> QED BY <2>1, <1>4, NobodyFollows
<1>5. CASE rows' = Inserted(Row(m, s.next)) /\ Go(e, [s EXCEPT !.next = @ + 1])
  <2> DEFINE r == [s EXCEPT !.next = @ + 1]
             t == Row(m, s.next)
  <2>1. session'[e] = r /\ \A d \in Editors : d = e
    BY <1>1, <1>5, AloneGo
  <2>2. r.pc = "insert" /\ r.list = s.list /\ r.next = s.next + 1
    BY <1>1, <1>2, SessionFields DEF Session
  <2> HIDE DEF r
  <2>3. s.list \in Seq(Entry) /\ Len(s.list) \in Nat /\ s.next \in 1 .. Len(s.list)
    BY <1>1, <1>2, SessionFields
  <2>4. m \in Entry
    BY <2>3
  <2>5. t \in TableRow /\ t.at = s.next
    BY <2>3, <2>4 DEF Row, Entry, TableRow
  <2>5a. rows' = Inserted(t) /\ t = Row(m, s.next)
    BY <1>5
  <2> HIDE DEF t
  <2>6. /\ AlmostOnce(s.list)
        /\ Len(rows) = s.next - 1 /\ \A i \in DOMAIN rows : rows[i] = Row(s.list[i], i)
    BY <1>1, <1>2 DEF Follows
  <2>7. rows \in Seq(TableRow) /\ DOMAIN rows = 1 .. Len(rows) /\ Len(rows) \in Nat
    BY <1>1 DEF TableOK
  <2>8. PICK n \in 0 .. Len(rows) :
              /\ Inserted(t) \in Seq(TableRow) /\ Len(Inserted(t)) = Len(rows) + 1
              /\ n = Cardinality({i \in DOMAIN rows : rows[i].at <= t.at})
              /\ \A i \in 1 .. Len(rows) + 1 :
                    Inserted(t)[i] = IF i <= n THEN rows[i] ELSE IF i = n + 1 THEN t ELSE rows[i - 1]
    BY <1>1, <2>5, InsertedRow
  <2>9. n = Len(rows)
    <3>1. {i \in DOMAIN rows : rows[i].at <= t.at} = 1 .. Len(rows)
      BY <1>1, <2>3, <2>5, <2>6, <2>7 DEF Placed
    <3>2. Cardinality(1 .. Len(rows)) = Len(rows)
      <4>1. \A k \in Nat : Cardinality(1 .. k) = k
        BY FS_Interval
      <4> QED BY <2>7, <4>1
    <3> QED BY <2>8, <3>1, <3>2
  <2>10. /\ rows' \in Seq(TableRow) /\ Len(rows') = Len(rows) + 1
         /\ \A i \in 1 .. Len(rows) : rows'[i] = rows[i]
         /\ rows'[Len(rows) + 1] = t
    <3>1. rows' \in Seq(TableRow) /\ Len(rows') = Len(rows) + 1
      BY <2>5a, <2>8
    <3>2. \A i \in 1 .. Len(rows) + 1 :
              rows'[i] = IF i <= n THEN rows[i] ELSE IF i = n + 1 THEN t ELSE rows[i - 1]
      BY <2>5a, <2>8
    <3>3. \A i \in 1 .. Len(rows) : rows'[i] = rows[i]
      BY <2>7, <2>9, <3>2
    <3>4. rows'[Len(rows) + 1] = t
      BY <2>7, <2>9, <3>2
    <3> QED BY <3>1, <3>3, <3>4
  <2>11. DOMAIN rows' = 1 .. Len(rows) + 1
    BY <2>7, <2>10
  <2>12. Placed'
    <3> SUFFICES ASSUME NEW i \in DOMAIN rows' PROVE rows'[i].at = i
      BY DEF Placed
    <3>1. i \in 1 .. Len(rows) \/ i = Len(rows) + 1
      BY <2>7, <2>11
    <3> QED BY <3>1, <1>1, <2>3, <2>5, <2>6, <2>7, <2>10 DEF Placed
  <2>13. \A i \in DOMAIN rows' : rows'[i] = Row(s.list[i], i)
    <3> TAKE i \in DOMAIN rows'
    <3>1. i \in 1 .. Len(rows) \/ i = Len(rows) + 1
      BY <2>7, <2>11
    <3>2. s.next = Len(rows) + 1
      BY <2>3, <2>6, <2>7
    <3> QED BY <3>1, <3>2, <2>5a, <2>6, <2>7, <2>10
  <2>14. Len(rows') = r.next - 1
    BY <2>2, <2>3, <2>6, <2>7, <2>10
  <2>15. Follows(e)'
    BY <2>1, <2>2, <2>6, <2>13, <2>14 DEF Follows
  <2> QED BY <2>1, <2>12, <2>15 DEF AloneInv
<1> QED BY <1>3, <1>4, <1>5

LEMMA NextFollows ==
    ASSUME Alone, TypeInv, AloneInv, [Next]_vars
    PROVE  AloneInv'
<1>1. CASE UNCHANGED vars \/ Load \/ Resolve \/ Sort \/ Use
  BY <1>1, AloneStill DEF vars, Load, Resolve, Sort, Use, profile
<1>2. ASSUME NEW e \in Editors, InsertRule(e)
      PROVE  AloneInv'
  BY <1>2, AloneStill DEF InsertRule
<1>3. ASSUME NEW e \in Editors, Written(e) \/ Die(e)
      PROVE  AloneInv'
  <2>1. Go(e, Nobody) /\ UNCHANGED rows
    BY <1>3 DEF Written, Die, profile
  <2>2. Placed'
    BY <2>1 DEF AloneInv, Placed
  <2> QED BY <2>1, <2>2, NobodyFollows
<1>4. CASE \E e \in Editors :
              \/ ReadProfile(e) \/ ReadMods(e) \/ ReadRules(e) \/ Edit(e)
              \/ WriteProfile(e) \/ ClearMods(e) \/ ClearRules(e)
              \/ InsertMod(e) \/ InsertRule(e) \/ Written(e)
              \/ Die(e)
  BY <1>2, <1>3, <1>4, ReadsFollow, EditFollows, WritesFollow, InsertModFollows
<1> QED BY <1>1, <1>4 DEF Next

LEMMA InitFollows == Init => AloneInv
<1> SUFFICES ASSUME Init PROVE AloneInv
  OBVIOUS
<1>1. PICK p \in Profiles : rows = [i \in DOMAIN p.list |-> Row(p.list[i], i)]
  BY DEF Init
<1>2. Placed
  BY <1>1 DEF Placed, Row
<1>3. \A e \in Editors : session[e].pc = "idle"
  BY NobodyIsSession DEF Init
<1>4. \A e \in Editors : Follows(e)
  BY <1>3 DEF Follows
<1> QED BY <1>2, <1>4 DEF AloneInv

LEMMA FollowsAlways ==
    ASSUME Alone
    PROVE  Spec => [](TypeInv /\ AloneInv)
<1>1. Init => TypeInv /\ AloneInv
  BY InitTyped, InitFollows
<1>2. (TypeInv /\ AloneInv) /\ [Next]_vars => (TypeInv /\ AloneInv)'
  BY NextTyped, NextFollows
<1> QED BY <1>1, <1>2, PTL DEF Spec

-----------------------------------------------------------------------------
(* The rows are the beginning of the list being written *)

LEMMA NoneWriting ==
    ASSUME \A e \in Editors : session[e].pc \notin {"clear_rules", "insert"}
    PROVE  View = Stored
<1>1. Writing = {}
  BY DEF Writing
<1> QED BY <1>1 DEF View

LEMMA OneWriting ==
    ASSUME Alone, NEW e \in Editors, session[e].pc \in {"clear_rules", "insert"}
    PROVE  View = Insertable(session[e].list)
<1>1. Writing = {e}
  BY DEF Writing, Alone
<1>2. Writing # {} /\ (CHOOSE d \in Writing : TRUE) = e
  BY <1>1
<1> QED BY <1>2 DEF View

LEMMA NoneWritingNext ==
    ASSUME \A e \in Editors : session'[e].pc \notin {"clear_rules", "insert"}
    PROVE  View' = Stored'
<1>1. Writing' = {}
  BY DEF Writing
<1> QED BY <1>1 DEF View

LEMMA OneWritingNext ==
    ASSUME Alone, NEW e \in Editors, session'[e].pc \in {"clear_rules", "insert"}
    PROVE  View' = Insertable(session'[e].list)
<1>1. Writing' = {e}
  BY DEF Writing, Alone
<1>2. Writing' # {} /\ (CHOOSE d \in Writing' : TRUE) = e
  BY <1>1
<1> QED BY <1>2 DEF View

LEMMA WrittenBeginning ==
    ASSUME TypeInv, NEW e \in Editors, Follows(e), session[e].pc \in {"clear_rules", "insert"}
    PROVE  LET v == Insertable(session[e].list) IN
           /\ v \in Seq(Entry) /\ Len(Stored) <= Len(v)
           /\ \A i \in 1 .. Len(Stored) : Stored[i] = v[i]
<1> DEFINE l == session[e].list
           v == Insertable(l)
<1>1. /\ l \in Seq(Entry) /\ Len(l) \in Nat /\ DOMAIN l = 1 .. Len(l) /\ session[e].next \in Nat
      /\ session[e].next <= Len(l) + 1
  BY SessionFields DEF TypeInv
<1>2. AlmostOnce(l)
  BY DEF Follows
<1>3. /\ v \in Seq(Entry)
      /\ \A i \in DOMAIN v : i \in DOMAIN l /\ v[i] = l[i]
      /\ Len(v) = Len(l) \/ Len(v) + 1 = Len(l)
      /\ Len(v) # Len(l) => \E i \in 1 .. Len(l) - 1 : l[i].id = l[Len(l)].id
  BY <1>1, <1>2, InsertableList
<1>4. /\ Stored \in Seq(Entry) /\ Once(Stored) /\ Len(Stored) = Len(rows)
      /\ DOMAIN Stored = DOMAIN rows /\ \A i \in DOMAIN rows : Stored[i] = Entered(rows[i])
  BY StoredIsList DEF TypeInv
<1>5. rows \in Seq(TableRow) /\ DOMAIN rows = 1 .. Len(rows) /\ Len(rows) \in Nat
  BY DEF TypeInv, TableOK
<1> HIDE DEF v
<1>6. Len(v) \in Nat /\ DOMAIN v = 1 .. Len(v)
  BY <1>3
<1>7. CASE session[e].pc = "clear_rules"
  <2>1. rows = <<>>
    BY <1>7 DEF Follows
  <2>2. Len(rows) = 0
    BY <2>1
  <2>3. Len(Stored) = 0
    BY <1>4, <2>2
  <2> QED BY <1>3, <1>6, <2>3 DEF v
<1>8. CASE session[e].pc = "insert"
  <2>1. Len(rows) = session[e].next - 1 /\ \A i \in DOMAIN rows : rows[i] = Row(l[i], i)
    BY <1>8 DEF Follows
  <2>2. Len(rows) <= Len(l)
    BY <1>1, <1>5, <2>1
  <2>3. \A i \in 1 .. Len(rows) : Stored[i] = l[i]
    <3> TAKE i \in 1 .. Len(rows)
    <3>1. l[i] \in Entry
      BY <1>1, <1>5, <2>2
    <3>2. Entered(Row(l[i], i)) = l[i]
      BY <3>1 DEF Entered, Row, Entry
    <3> QED BY <1>4, <1>5, <2>1, <3>2
  <2>4. Len(rows) <= Len(v)
    <3> SUFFICES ASSUME ~ Len(rows) <= Len(v) PROVE FALSE
      OBVIOUS
    <3>1. Len(rows) = Len(l) /\ Len(v) # Len(l)
      BY <1>1, <1>3, <1>5, <1>6, <2>2
    <3>2. PICK i \in 1 .. Len(l) - 1 : l[i].id = l[Len(l)].id
      BY <1>3, <3>1
    <3>3. i \in 1 .. Len(l) /\ Len(l) \in 1 .. Len(l) /\ i # Len(l)
      BY <1>1, Places
    <3>4. Stored[i] = l[i] /\ Stored[Len(l)] = l[Len(l)]
      BY <2>3, <3>1, <3>3
    <3> QED BY <1>4, <1>5, <3>1, <3>2, <3>3, <3>4 DEF Once
  <2>5. \A i \in 1 .. Len(rows) : v[i] = l[i]
    BY <1>3, <1>5, <1>6, <2>4
  <2> QED BY <1>3, <1>4, <2>3, <2>4, <2>5 DEF v
<1> QED BY <1>7, <1>8

LEMMA PrefixOf ==
    ASSUME NEW s \in Seq(Entry), NEW v \in Seq(Entry), Len(s) <= Len(v),
           \A i \in 1 .. Len(s) : s[i] = v[i]
    PROVE  s = SubSeq(v, 1, Len(s))
<1>1. Len(s) \in Nat /\ Len(v) \in Nat /\ DOMAIN v = 1 .. Len(v)
  OBVIOUS
<1> DEFINE n == Len(s)
           t == SubSeq(v, 1, n)
<1>2. n \in 0 .. Len(v)
  BY <1>1
<1>3. t \in Seq(Entry) /\ Len(t) = n /\ \A i \in 1 .. n : t[i] = v[i]
  BY <1>1, <1>2
<1> HIDE DEF t
<1>4. s = t
  BY <1>3, SeqEqual
<1> QED BY <1>4 DEF t

LEMMA FollowsBeginning ==
    ASSUME Alone, TypeInv, AloneInv
    PROVE  RowsAreBeginning /\ View \in Seq(Entry)
<1>1. Stored \in Seq(Entry)
  BY StoredIsList DEF TypeInv
<1>2. CASE \A e \in Editors : session[e].pc \notin {"clear_rules", "insert"}
  <2>1. View = Stored
    BY <1>2, NoneWriting
  <2>2. Len(Stored) <= Len(Stored)
    BY <1>1
  <2>3. Stored = SubSeq(Stored, 1, Len(Stored))
    BY <1>1, <2>2, PrefixOf
  <2> QED BY <1>1, <2>1, <2>2, <2>3 DEF RowsAreBeginning
<1>3. CASE \E e \in Editors : session[e].pc \in {"clear_rules", "insert"}
  <2>1. PICK e \in Editors : session[e].pc \in {"clear_rules", "insert"}
    BY <1>3
  <2>2. PICK v : v = Insertable(session[e].list)
    OBVIOUS
  <2>3. View = v
    BY <2>1, <2>2, OneWriting
  <2>4. v \in Seq(Entry) /\ Len(Stored) <= Len(v) /\ \A i \in 1 .. Len(Stored) : Stored[i] = v[i]
    BY <2>1, <2>2, WrittenBeginning DEF AloneInv
  <2>5. Stored = SubSeq(v, 1, Len(Stored))
    BY <1>1, <2>4, PrefixOf
  <2> QED BY <2>3, <2>4, <2>5 DEF RowsAreBeginning
<1> QED BY <1>2, <1>3

\* A deployment that reads while a session which is alone writes finds the beginning of what it
\* writes, or what was there before.
THEOREM RowsBegin ==
    ASSUME Alone
    PROVE  Spec => []RowsAreBeginning
<1>1. TypeInv /\ AloneInv => RowsAreBeginning
  BY FollowsBeginning
<1> QED BY <1>1, FollowsAlways, PTL

-----------------------------------------------------------------------------
(* A session that is alone changes the profile as ProfileEdits says *)

LEMMA EntriesAreEntries == Edits!Entry = Entry
BY DEF Edits!Entry, Entry

\* What a command changes is a step of ProfileEdits.
LEMMA ChangedIsEdit ==
    ASSUME Changed(locked, View, View'), UNCHANGED locked
    PROVE  Edits!Next \/ View' = View
<1>1. CASE View' = View
  BY <1>1
<1>2. CASE /\ ~ locked
           /\ \E i \in 1 .. Len(View) - 1 :
                 ~ View[i].pinned /\ ~ View[i + 1].pinned /\ View' = Swapped(View, i, i + 1)
  <2>1. Edits!Move
    BY <1>2 DEF Edits!Move, Swapped
  <2> QED BY <2>1 DEF Edits!Next
<1>3. CASE \E i \in DOMAIN View : View' = EnabledAt(View, i)
  <2>1. Edits!Enable
    BY <1>3 DEF Edits!Enable, EnabledAt
  <2> QED BY <2>1 DEF Edits!Next
<1>4. CASE \E i \in DOMAIN View : View' = PinnedAt(View, i)
  <2>1. Edits!Pin
    BY <1>4 DEF Edits!Pin, PinnedAt
  <2> QED BY <2>1 DEF Edits!Next
<1>5. CASE \E n \in Mods : (\A i \in DOMAIN View : View[i].id # n) /\ View' = Extended(View, n)
  <2>1. Edits!Insert
    BY <1>5 DEF Edits!Insert, Extended
  <2> QED BY <2>1 DEF Edits!Next
<1>6. CASE \E i \in DOMAIN View : View' = Without(View, i)
  <2>1. Edits!Remove
    BY <1>6 DEF Edits!Remove, Without
  <2> QED BY <2>1 DEF Edits!Next
<1> QED BY <1>1, <1>2, <1>3, <1>4, <1>5, <1>6 DEF Changed

\* What is read, while it is read, is not changed.
LEMMA StillView ==
    ASSUME UNCHANGED <<rows, session>>
    PROVE  View' = View
<1>1. Stored' = Stored /\ Writing' = Writing
  BY DEF Stored, Writing
<1> QED BY <1>1 DEF View

\* A session that does not write, before or after a step that touches no row
LEMMA QuietView ==
    ASSUME Alone, SessionsOK, NEW e \in Editors, NEW r, Go(e, r), UNCHANGED rows,
           session[e].pc \notin {"clear_rules", "insert"}, r.pc \notin {"clear_rules", "insert"}
    PROVE  View' = View
<1>1. session'[e] = r /\ \A d \in Editors : d = e
  BY AloneGo
<1>2. View = Stored
  BY <1>1, NoneWriting
<1>3. View' = Stored'
  BY <1>1, NoneWritingNext
<1>4. Stored' = Stored
  BY DEF Stored
<1> QED BY <1>2, <1>3, <1>4

\* A session that has written to the end, or stops
LEMMA StoppedView ==
    ASSUME Alone, TypeInv, AloneInv, NEW e \in Editors, Go(e, Nobody), UNCHANGED <<rows, locked>>
    PROVE  Edits!Next
<1>1. session'[e].pc = "idle" /\ \A d \in Editors : d = e
  <2> PICK r : r = Nobody
    OBVIOUS
  <2>1. session'[e] = Nobody /\ \A d \in Editors : d = e
    BY AloneGo DEF TypeInv
  <2> QED BY <2>1, NobodyIsSession
<1>2. View' = Stored'
  BY <1>1, NoneWritingNext
<1>3. Stored' = Stored
  BY DEF Stored
<1>4. Len(Stored) <= Len(View) /\ Stored = SubSeq(View, 1, Len(Stored))
  BY FollowsBeginning DEF RowsAreBeginning
<1>5. Stored \in Seq(Entry) /\ View \in Seq(Entry)
  BY FollowsBeginning, StoredIsList DEF TypeInv
<1>6. Len(Stored) \in 0 .. Len(View)
  BY <1>4, <1>5
<1>7. Edits!Lose
  BY <1>2, <1>3, <1>4, <1>6 DEF Edits!Lose
<1> QED BY <1>7 DEF Edits!Next

LEMMA StepRefines ==
    ASSUME Alone, TypeInv, AloneInv, [Next]_vars
    PROVE  [Edits!Next]_<<View, locked>>
<1>0. SessionsOK /\ TableOK /\ \A e \in Editors : Follows(e)
  BY DEF TypeInv, AloneInv
<1>1. CASE UNCHANGED vars \/ Load \/ Resolve \/ Sort \/ Use
  <2>1. UNCHANGED <<locked, rows, session>>
    BY <1>1 DEF vars, Load, Resolve, Sort, Use, profile
  <2> QED BY <2>1, StillView
<1>2. ASSUME NEW e \in Editors, ReadProfile(e) \/ ReadMods(e) \/ ReadRules(e) \/ Edit(e)
      PROVE  View' = View /\ UNCHANGED locked
  <2>1. UNCHANGED <<locked, rows>>
    BY <1>2 DEF ReadProfile, ReadMods, ReadRules, Edit, profile
  <2>2. session[e].pc \in {"idle", "mods", "rules", "edit"}
    BY <1>2 DEF ReadProfile, ReadMods, ReadRules, Edit
  <2>3. \E r : Go(e, r) /\ r.pc \in {"mods", "rules", "edit", "update", "idle"}
    <3>1. CASE ReadProfile(e)
      <4>1. [Nobody EXCEPT !.pc = "mods", !.locked = locked].pc = "mods"
        BY DEF Nobody
      <4> QED BY <3>1, <4>1 DEF ReadProfile
    <3>2. CASE ReadMods(e)
      <4>1. [session[e] EXCEPT !.pc = "rules", !.list = Stored].pc = "rules"
        BY <1>0, SessionFields DEF Session
      <4> QED BY <3>2, <4>1 DEF ReadMods
    <3>3. CASE ReadRules(e)
      <4>1. [session[e] EXCEPT !.pc = "edit", !.rules = rules].pc = "edit"
        BY <1>0, SessionFields DEF Session
      <4> QED BY <3>3, <4>1 DEF ReadRules
    <3>4. CASE Edit(e)
      <4>1. PICK c \in Commands :
              LET lists == Edited(session[e].locked, session[e].list, c)
              IN  IF lists = {}
                  THEN Go(e, Nobody)
                  ELSE \E l \in lists :
                          Go(e, [session[e] EXCEPT !.pc = "update", !.list = l,
                                                   !.locked = IF c.op = "lock" THEN c.on ELSE @])
        BY <3>4 DEF Edit
      <4>2. CASE Go(e, Nobody)
        BY <4>2, NobodyIsSession
      <4>3. CASE \E l : Go(e, [session[e] EXCEPT !.pc = "update", !.list = l,
                                                 !.locked = IF c.op = "lock" THEN c.on ELSE @])
        <5>1. PICK l : Go(e, [session[e] EXCEPT !.pc = "update", !.list = l,
                                                !.locked = IF c.op = "lock" THEN c.on ELSE @])
          BY <4>3
        <5> DEFINE r == [session[e] EXCEPT !.pc = "update", !.list = l,
                                           !.locked = IF c.op = "lock" THEN c.on ELSE @]
        <5>2. r.pc = "update"
          BY <1>0, SessionFields DEF Session
        <5>3. Go(e, r)
          BY <5>1
        <5> HIDE DEF r
        <5> QED BY <5>2, <5>3
      <4> QED BY <4>1, <4>2, <4>3
    <3> QED BY <1>2, <3>1, <3>2, <3>3, <3>4
  <2>4. PICK r : Go(e, r) /\ r.pc \in {"mods", "rules", "edit", "update", "idle"}
    BY <2>3
  <2>5. View' = View
    BY <1>0, <2>1, <2>2, <2>4, QuietView
  <2> QED BY <2>1, <2>5
<1>3. ASSUME NEW e \in Editors, WriteProfile(e)
      PROVE  View' = View /\ (UNCHANGED locked \/ locked' = ~ locked)
  <2> DEFINE r == [session[e] EXCEPT !.pc = "clear_mods"]
  <2>1. Go(e, r) /\ r.pc = "clear_mods" /\ UNCHANGED rows /\ session[e].pc = "update"
    BY <1>0, <1>3, SessionFields DEF WriteProfile, Session
  <2>2. locked' \in BOOLEAN /\ locked \in BOOLEAN
    BY <1>0, <1>3, SessionFields DEF WriteProfile, TableOK
  <2> HIDE DEF r
  <2>3. View' = View
    BY <1>0, <2>1, QuietView
  <2> QED BY <2>2, <2>3
<1>4. ASSUME NEW e \in Editors, ClearMods(e)
      PROVE  Edits!Next \/ (View' = View /\ UNCHANGED locked)
  <2> DEFINE r == [session[e] EXCEPT !.pc = "clear_rules"]
  <2>1. /\ Go(e, r) /\ r.pc = "clear_rules" /\ r.list = session[e].list
        /\ UNCHANGED locked /\ session[e].pc = "clear_mods"
    BY <1>0, <1>4, SessionFields DEF ClearMods, Session
  <2> HIDE DEF r
  <2>2. session'[e] = r /\ \A d \in Editors : d = e
    BY <1>0, <2>1, AloneGo
  <2>3. View' = Insertable(session[e].list)
    <3>1. View' = Insertable(session'[e].list)
      BY <2>1, <2>2, OneWritingNext
    <3> QED BY <3>1, <2>1, <2>2
  <2>4. View = Stored
    BY <2>1, <2>2, NoneWriting
  <2>5. Changed(locked, Stored, Insertable(session[e].list))
    BY <1>0, <2>1 DEF Follows
  <2>6. Changed(locked, View, View')
    BY <2>3, <2>4, <2>5
  <2> QED BY <2>1, <2>6, ChangedIsEdit
<1>5. ASSUME NEW e \in Editors, ClearRules(e) \/ InsertRule(e)
      PROVE  View' = View /\ UNCHANGED locked
  <2>1. UNCHANGED <<rows, locked>> /\ session[e].pc \in {"clear_rules", "insert"}
    BY <1>5 DEF ClearRules, InsertRule
  <2>2. CASE InsertRule(e)
    BY <2>1, <2>2, StillView DEF InsertRule
  <2>3. CASE ClearRules(e)
    <3> DEFINE r == [session[e] EXCEPT !.pc = "insert", !.next = 1]
    <3>1. Go(e, r) /\ r.pc = "insert" /\ r.list = session[e].list
      BY <1>0, <2>3, SessionFields DEF ClearRules, Session
    <3> HIDE DEF r
    <3>2. session'[e] = r
      BY <1>0, <3>1, AloneGo
    <3>3. View' = Insertable(session'[e].list)
      BY <3>1, <3>2, OneWritingNext
    <3>4. View = Insertable(session[e].list)
      BY <2>1, OneWriting
    <3> QED BY <2>1, <3>1, <3>2, <3>3, <3>4
  <2> QED BY <1>5, <2>2, <2>3
<1>6. ASSUME NEW e \in Editors, InsertMod(e)
      PROVE  Edits!Next \/ (View' = View /\ UNCHANGED locked)
  <2>1. UNCHANGED locked /\ session[e].pc = "insert"
    BY <1>6 DEF InsertMod
  <2>2. CASE Go(e, Nobody) /\ UNCHANGED rows
    BY <2>1, <2>2, StoppedView
  <2>3. CASE Go(e, [session[e] EXCEPT !.next = @ + 1])
    <3> DEFINE r == [session[e] EXCEPT !.next = @ + 1]
    <3>1. Go(e, r) /\ r.pc = "insert" /\ r.list = session[e].list
      BY <1>0, <2>1, <2>3, SessionFields DEF Session
    <3> HIDE DEF r
    <3>2. session'[e] = r
      BY <1>0, <3>1, AloneGo
    <3>3. View' = Insertable(session'[e].list)
      BY <3>1, <3>2, OneWritingNext
    <3>4. View = Insertable(session[e].list)
      BY <2>1, OneWriting
    <3> QED BY <2>1, <3>1, <3>2, <3>3, <3>4
  <2> QED BY <1>6, <2>2, <2>3 DEF InsertMod
<1>7. ASSUME NEW e \in Editors, Written(e) \/ Die(e)
      PROVE  Edits!Next
  <2>1. Go(e, Nobody) /\ UNCHANGED <<rows, locked>>
    BY <1>7 DEF Written, Die, profile
  <2> QED BY <2>1, StoppedView
<1>8. CASE \E e \in Editors :
              \/ ReadProfile(e) \/ ReadMods(e) \/ ReadRules(e) \/ Edit(e)
              \/ WriteProfile(e) \/ ClearMods(e) \/ ClearRules(e)
              \/ InsertMod(e) \/ InsertRule(e) \/ Written(e)
              \/ Die(e)
  <2>1. \/ Edits!Next \/ (View' = View /\ UNCHANGED locked)
        \/ View' = View /\ locked' = ~ locked
    BY <1>8, <1>2, <1>3, <1>4, <1>5, <1>6, <1>7
  <2>2. (View' = View /\ locked' = ~ locked) => Edits!Next
    BY DEF Edits!Next, Edits!Freeze
  <2> QED BY <2>1, <2>2
<1> QED BY <1>1, <1>8 DEF Next

LEMMA InitRefines ==
    ASSUME Alone
    PROVE  Init => Edits!Init
<1> SUFFICES ASSUME Init PROVE Edits!Init
  OBVIOUS
<1>1. TypeInv /\ AloneInv
  BY InitTyped, InitFollows
<1>2. View \in Seq(Entry) /\ locked \in BOOLEAN
  BY <1>1, FollowsBeginning DEF TypeInv, TableOK
<1> QED BY <1>2, EntriesAreEntries DEF Edits!Init

\* Statement by statement, with a death anywhere and deployments in between, a session that is
\* alone comes to changing the list at once, or to losing its end.
THEOREM EditsRefine ==
    ASSUME Alone
    PROVE  Spec => EditsAreWhole
<1>1. TypeInv /\ AloneInv /\ [Next]_vars => [Edits!Next]_<<View, locked>>
  BY StepRefines
<1>2. Spec => Init /\ [][Next]_vars
  BY DEF Spec
<1>3. Spec => Edits!Init
  BY <1>2, InitRefines
<1>4. Spec => [][Edits!Next]_<<View, locked>>
  BY <1>1, <1>2, FollowsAlways, PTL
<1> QED BY <1>3, <1>4 DEF EditsAreWhole, Edits!Spec
=============================================================================
