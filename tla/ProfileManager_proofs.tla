------------------------ MODULE ProfileManager_proofs ------------------------
(***************************************************************************)
(* Theorems about ProfileManager for any profiles, files and fingerprints, *)
(* any number of commands that die, and a game that writes and deletes     *)
(* whenever it likes.                                                      *)
(*                                                                         *)
(* No save is lost because each step of a swap knows something of every    *)
(* file that is live: it is staged, it is in the branch, or the game wrote *)
(* it while the command ran.  The game finds the active profile's saves    *)
(* because a checkout leaves nothing of another branch in the working tree.*)
(***************************************************************************)
EXTENDS ProfileManager, SequenceTheorems, FiniteSetTheorems, WellFoundedInduction, TLAPS

VaultTypes ==
    /\ live \in Tree /\ work \in Tree
    /\ parked \in [Profiles -> Tree]
    /\ meta \in BOOLEAN
    /\ branch \in [Branches -> Seq(Commit)]
    /\ head \in Branches /\ branch[head] # <<>>
    /\ tracked \subseteq Files

ManagerTypes ==
    /\ profiles \subseteq Profiles
    /\ active \in profiles \cup {None}
    /\ rows \in Seq(Row) /\ \A k \in DOMAIN rows : rows[k].profile \in profiles
    /\ pc \in Labels
    /\ cmd \in Command
    /\ todo \subseteq Files
    /\ watching \in Profiles \cup {None}
    /\ author \in Seq(Profiles \cup {None}) /\ Len(author) <= MaxStamp
    /\ forfeit \subseteq 1..MaxStamp
    /\ crashes \in 0..MaxCrashes

Capturing == {"capture", "copyin", "stage", "commit"}
Parking == {"resetpark", "park"}
Deploying == {"deploy", "clear", "copyout"}

\* What a command has in memory at each of its labels.
CommandInv ==
    /\ pc = "idle" => cmd = Idle
    /\ pc # "idle" => cmd.op # "idle" /\ cmd.target \in profiles
    /\ pc \in Capturing => /\ cmd.out \in profiles
                           /\ cmd.op \in {"activate", "try", "rollback", "adopt", "capture"}
    /\ pc \in Parking \cup {"setactive"} => cmd.op \in {"activate", "try", "rollback"}
    /\ pc \in Parking \cup {"fork"} => cmd.out \in profiles
    /\ pc \in Deploying => cmd.op \in {"activate", "try", "rollback", "restore"}
    /\ pc = "deploy" => cmd.op # "restore"
    /\ pc = "push" => cmd.op = "try" /\ cmd.out = active /\ active # None
    /\ pc = "current" => cmd.op = "rollback"
    /\ pc = "adoptactive" => cmd.op = "adopt"
    /\ pc = "fork" => cmd.op = "fork"

\* Where a live save also is, at each label.
LiveInv ==
    /\ pc \in Capturing \ {"capture"} => head = Slug[cmd.out]
    /\ pc \in {"stage", "commit"} =>
        \A f \in Files : live[f] # 0 => live[f] \in forfeit \/ work[f] = live[f]
    /\ pc \in Parking =>
        \A f \in Files : live[f] # 0 => live[f] \in forfeit \cup History(Slug[cmd.out])
    /\ pc = "park" => \A f \in Files : live[f] # 0 => f \in todo \/ live[f] \in forfeit
    /\ pc \in {"deploy", "clear"} => \A f \in Files : live[f] # 0 => live[f] \in forfeit
    /\ pc = "copyout" => \A f \in todo : live[f] # 0 => live[f] \in forfeit

ParkInv == \A p \in Profiles : Stamps(parked[p]) \subseteq History(Slug[p]) \cup forfeit

IInv == VaultTypes /\ ManagerTypes /\ CommandInv /\ LiveInv /\ ParkInv

-----------------------------------------------------------------------------
(* Trees and histories *)

LEMMA EmptyTree == Empty \in Tree /\ Names(Empty) = {} /\ Stamps(Empty) = {}
<1>1. 0 \in Stamp
  BY VaultAssumption DEF Stamp
<1> QED
  BY <1>1 DEF Empty, Tree, Names, Stamps

LEMMA StampsTyped ==
  ASSUME NEW t \in Tree
  PROVE  /\ Stamps(t) \subseteq 1..MaxStamp /\ Names(t) \subseteq Files
         /\ \A f \in Files : t[f] # 0 => t[f] \in Stamps(t)
         /\ \A s \in Stamps(t) : \E f \in Files : t[f] # 0 /\ t[f] = s
<1>1. \A f \in Files : t[f] \in 0..MaxStamp /\ (t[f] # 0 => t[f] \in 1..MaxStamp)
  BY VaultAssumption DEF Tree, Stamp
<1> QED
  BY <1>1 DEF Stamps, Names

LEMMA OverlayTyped ==
  ASSUME NEW t \in Tree, NEW u \in Tree
  PROVE  /\ Overlay(t, u) \in Tree
         /\ \A f \in Files : u[f] # 0 => Overlay(t, u)[f] = u[f]
  BY DEF Overlay, Tree

LEMMA TipTyped ==
  ASSUME NEW h \in Seq(Commit), h # <<>>
  PROVE  TipOf(h) \in Tree /\ Stamps(TipOf(h)) \subseteq StampsOf(h)
<1>1. Len(h) \in DOMAIN h /\ h[Len(h)] \in Commit
  OBVIOUS
<1> QED
  BY <1>1 DEF TipOf, StampsOf, Commit

LEMMA HistoryTyped ==
  ASSUME NEW h \in Seq(Commit)
  PROVE  StampsOf(h) \subseteq 1..MaxStamp
<1> SUFFICES ASSUME NEW s \in StampsOf(h) PROVE s \in 1..MaxStamp
  OBVIOUS
<1>1. PICK k \in DOMAIN h : s \in Stamps(h[k].tree)
  BY DEF StampsOf
<1>2. h[k] \in Commit
  OBVIOUS
<1>3. h[k].tree \in Tree
  BY <1>2 DEF Commit
<1> QED
  BY <1>1, <1>3, StampsTyped

LEMMA AppendHistory ==
  ASSUME NEW h \in Seq(Commit), NEW c \in Commit
  PROVE  /\ Append(h, c) \in Seq(Commit) /\ Append(h, c) # <<>>
         /\ StampsOf(h) \subseteq StampsOf(Append(h, c))
         /\ Stamps(c.tree) \subseteq StampsOf(Append(h, c))
<1> DEFINE g == Append(h, c)
<1>1. /\ g \in Seq(Commit) /\ Len(g) = Len(h) + 1 /\ DOMAIN g = 1..Len(g)
      /\ \A k \in DOMAIN h : k \in DOMAIN g /\ g[k] = h[k]
      /\ Len(g) \in DOMAIN g /\ g[Len(g)] = c
  OBVIOUS
<1> HIDE DEF g
<1>2. g # <<>>
  BY <1>1
<1> QED
  BY <1>1, <1>2 DEF StampsOf, g

LEMMA MaterializedTyped ==
  ASSUME VaultTypes, NEW t \in Tree
  PROVE  Materialized(t) \in Tree
  BY VaultAssumption DEF VaultTypes, Materialized, Tree, Stamp

-----------------------------------------------------------------------------
(* Branches *)

\* Whatever git does but a reset, what a branch had it has.
Grown == \A b \in Branches : History(b) \subseteq History(b)'

LEMMA SlugBranch ==
  \A p \in Profiles : Slug[p] \in Branches
  BY DEF Branches

LEMMA EnsuredTyped ==
  ASSUME VaultTypes, NEW b \in Branches
  PROVE  /\ Ensured(b) \in [Branches -> Seq(Commit)]
         /\ Ensured(b)[b] # <<>>
         /\ \A c \in Branches : /\ branch[c] # <<>> => Ensured(b)[c] = branch[c]
                                /\ StampsOf(branch[c]) \subseteq StampsOf(Ensured(b)[c])
<1>1. StampsOf(<<>>) = {}
  BY DEF StampsOf
<1> QED
  BY <1>1 DEF VaultTypes, Ensured

LEMMA CheckoutKeeps ==
  ASSUME VaultTypes, NEW p \in Profiles, CheckoutBranch(p)
  PROVE  VaultTypes' /\ Grown /\ head' = Slug[p] /\ UNCHANGED liveVars
<1> DEFINE b == Slug[p]
           t == TipOf(Ensured(b)[b])
<1>1. b \in Branches
  BY SlugBranch
<1>2. /\ branch' = Ensured(b) /\ head' = b /\ UNCHANGED liveVars
      /\ work' = Materialized(t) /\ tracked' = Names(t)
  BY DEF CheckoutBranch, CheckoutTree
<1>3. t \in Tree
  BY <1>1, EnsuredTyped, TipTyped
<1>4. Materialized(t) \in Tree /\ Names(t) \subseteq Files
  BY <1>3, MaterializedTyped, StampsTyped
<1>5. VaultTypes'
  BY <1>1, <1>2, <1>4, EnsuredTyped DEF VaultTypes, liveVars
<1>6. Grown
  BY <1>1, <1>2, EnsuredTyped DEF Grown, History
<1> QED
  BY <1>2, <1>5, <1>6

LEMMA CommitKeeps ==
  ASSUME VaultTypes, NEW fp \in Prints, CommitStaged(fp)
  PROVE  /\ VaultTypes' /\ Grown /\ UNCHANGED <<work, head, liveVars>>
         /\ Stamps(work) \subseteq History(head)'
<1> DEFINE c == [tree |-> work, fp |-> fp]
<1>1. c \in Commit /\ c.tree = work
  BY DEF Commit, VaultTypes
<1>2. /\ branch' = IF work = Tip(head) THEN branch
                   ELSE [branch EXCEPT ![head] = Append(branch[head], c)]
      /\ UNCHANGED <<head, work, tracked, liveVars>>
  BY DEF CommitStaged
<1>3. head \in Branches /\ branch \in [Branches -> Seq(Commit)] /\ branch[head] # <<>>
  BY DEF VaultTypes
<1> HIDE DEF c
<1>4. CASE work = Tip(head)
  <2>1. UNCHANGED branch
    BY <1>2, <1>4
  <2>2. Stamps(work) \subseteq StampsOf(branch[head])
    BY <1>3, <1>4, TipTyped DEF Tip
  <2> QED
    BY <1>2, <2>1, <2>2 DEF VaultTypes, Grown, History, liveVars
<1>5. CASE work # Tip(head)
  <2>1. /\ Append(branch[head], c) \in Seq(Commit) /\ Append(branch[head], c) # <<>>
        /\ StampsOf(branch[head]) \subseteq StampsOf(Append(branch[head], c))
        /\ Stamps(work) \subseteq StampsOf(Append(branch[head], c))
    BY <1>1, <1>3, AppendHistory
  <2>2. branch' = [branch EXCEPT ![head] = Append(branch[head], c)]
    BY <1>2, <1>5
  <2>3. /\ branch'[head] = Append(branch[head], c)
        /\ \A b \in Branches : b # head => branch'[b] = branch[b]
        /\ branch' \in [Branches -> Seq(Commit)]
    BY <1>3, <2>1, <2>2
  <2> QED
    BY <1>2, <1>3, <2>1, <2>3 DEF VaultTypes, Grown, History, liveVars
<1> QED
  BY <1>4, <1>5

LEMMA ForkKeeps ==
  ASSUME VaultTypes, NEW p \in Profiles, NEW q \in Profiles, ForkBranch(p, q)
  PROVE  VaultTypes' /\ Grown /\ UNCHANGED liveVars
<1> DEFINE b == Slug[p]
           base == Ensured(b)
<1>1. /\ b \in Branches /\ Slug[q] \in Branches
      /\ base \in [Branches -> Seq(Commit)] /\ base[b] # <<>>
      /\ \A c \in Branches : /\ branch[c] # <<>> => base[c] = branch[c]
                             /\ StampsOf(branch[c]) \subseteq StampsOf(base[c])
  BY SlugBranch, EnsuredTyped
<1>2. /\ branch' = IF base[Slug[q]] = <<>> THEN [base EXCEPT ![Slug[q]] = base[b]] ELSE base
      /\ UNCHANGED <<head, work, tracked, liveVars>>
  BY DEF ForkBranch, ForkPossible
<1> HIDE DEF base, b
<1>3. StampsOf(<<>>) = {}
  BY DEF StampsOf
<1>4. /\ branch' \in [Branches -> Seq(Commit)] /\ branch'[head] # <<>>
      /\ \A c \in Branches : StampsOf(base[c]) \subseteq StampsOf(branch'[c])
  BY <1>1, <1>2, <1>3 DEF VaultTypes
<1> QED
  BY <1>1, <1>2, <1>4 DEF VaultTypes, Grown, History, liveVars

LEMMA CapturedKeeps ==
  ASSUME VaultTypes, NEW p \in Profiles, NEW fp \in Prints, Captured(p, fp)
  PROVE  VaultTypes' /\ Grown /\ UNCHANGED liveVars
<1> DEFINE b == Slug[p]
           base == Ensured(b)
           t == Overlay(Materialized(TipOf(base[b])), live)
           c == [tree |-> t, fp |-> fp]
<1>1. /\ b \in Branches /\ base \in [Branches -> Seq(Commit)] /\ base[b] # <<>>
      /\ \A d \in Branches : StampsOf(branch[d]) \subseteq StampsOf(base[d])
  BY SlugBranch, EnsuredTyped
<1>2. TipOf(base[b]) \in Tree
  BY <1>1, TipTyped
<1>3. t \in Tree
  BY <1>2, MaterializedTyped, OverlayTyped DEF VaultTypes
<1>4. /\ head' = b /\ work' = t /\ UNCHANGED liveVars
      /\ tracked' \in {Names(TipOf(base[b])), Names(t)}
      /\ branch' \in {base, [base EXCEPT ![b] = Append(base[b], c)]}
  BY DEF Captured
<1>5. c \in Commit
  BY <1>3 DEF Commit
<1>6. /\ Append(base[b], c) \in Seq(Commit) /\ Append(base[b], c) # <<>>
      /\ StampsOf(base[b]) \subseteq StampsOf(Append(base[b], c))
  BY <1>1, <1>5, AppendHistory
<1>7. tracked' \subseteq Files
  BY <1>2, <1>3, <1>4, StampsTyped
<1> HIDE DEF base, b, t, c
<1>8. /\ branch' \in [Branches -> Seq(Commit)] /\ branch'[b] # <<>>
      /\ \A d \in Branches : StampsOf(base[d]) \subseteq StampsOf(branch'[d])
  BY <1>1, <1>4, <1>6
<1> QED
  BY <1>1, <1>3, <1>4, <1>7, <1>8 DEF VaultTypes, Grown, History, liveVars

-----------------------------------------------------------------------------
(* The rows of the stack *)

\* Rows j and k as ORDER BY depth lists them, and in their order of insertion where depths repeat.
UpTo(j, k) == \/ rows[j].depth < rows[k].depth
              \/ rows[j].depth = rows[k].depth /\ j <= k

\* A stack that has rows has a top one, whatever their depths.
LEMMA TopExists ==
  ASSUME IInv, rows # <<>>
  PROVE  TopRow \in DOMAIN rows
<1> DEFINE Over(k) == {j \in DOMAIN rows : ~ UpTo(j, k)}
           F == {Over(k) : k \in DOMAIN rows}
<1>1. rows \in Seq(Row) /\ Len(rows) \in Nat /\ DOMAIN rows = 1..Len(rows) /\ 1 \in DOMAIN rows
  BY DEF IInv, ManagerTypes
<1>2. \A k \in DOMAIN rows : k \in Nat /\ rows[k].depth \in Nat
  <2> TAKE k \in DOMAIN rows
  <2>1. rows[k] \in Row /\ k \in 1..Len(rows)
    BY <1>1
  <2> QED
    BY <1>1, <2>1 DEF Row
<1>3. F \subseteq FiniteSubsetsOf(Nat)
  <2> SUFFICES ASSUME NEW k \in DOMAIN rows PROVE Over(k) \in FiniteSubsetsOf(Nat)
    OBVIOUS
  <2>1. IsFiniteSet(1..Len(rows))
    BY <1>1, FS_Interval
  <2>0. Over(k) \subseteq 1..Len(rows) /\ Over(k) \subseteq Nat
    BY <1>1, <1>2
  <2>2. IsFiniteSet(Over(k))
    BY <2>0, <2>1, FS_Subset
  <2> QED
    BY <2>0, <2>2 DEF FiniteSubsetsOf
<1>4. F # {}
  BY <1>1
<1> HIDE DEF F
<1>5. PICK u \in F : \A v \in F : ~ (<<v, u>> \in StrictSubsetOrdering(Nat))
  BY <1>3, <1>4, FS_StrictSubsetOrderingWellFounded, WFMin
<1>6. PICK k \in DOMAIN rows : u = Over(k)
  BY DEF F
<1>7. \A j \in DOMAIN rows : UpTo(j, k)
  <2> SUFFICES ASSUME NEW j \in DOMAIN rows, ~ UpTo(j, k) PROVE FALSE
    OBVIOUS
  <2>1. Over(j) \subseteq Over(k)
    BY <1>2 DEF UpTo
  <2>2. j \in Over(k) /\ j \notin Over(j)
    BY <1>2 DEF UpTo
  <2>3. Over(j) \in SUBSET Nat /\ Over(k) \in SUBSET Nat
    BY <1>2
  <2>4. Over(j) \in F
    BY DEF F
  <2> HIDE DEF Over
  <2>5. <<Over(j), Over(k)>> \in StrictSubsetOrdering(Nat)
    BY <2>1, <2>2, <2>3 DEF StrictSubsetOrdering
  <2> QED
    BY <1>5, <1>6, <2>4, <2>5
<1>8. \E i \in DOMAIN rows : \A j \in DOMAIN rows :
         rows[j].depth < rows[i].depth \/ (rows[j].depth = rows[i].depth /\ j <= i)
  BY <1>7 DEF UpTo
<1> QED
  BY <1>8 DEF TopRow

\* What is left of a sequence without its k-th entry.
Spliced(s, k) == SubSeq(s, 1, k - 1) \o SubSeq(s, k + 1, Len(s))

LEMMA Splicing ==
  ASSUME NEW S, NEW s \in Seq(S), NEW k \in DOMAIN s
  PROVE  /\ Spliced(s, k) \in Seq(S) /\ Len(Spliced(s, k)) = Len(s) - 1
         /\ \A j \in 1..(Len(s) - 1) : Spliced(s, k)[j] = IF j < k THEN s[j] ELSE s[j + 1]
<1>1. k \in 1..Len(s) /\ Len(s) \in Nat /\ 1 \in Int /\ k - 1 \in Int /\ k + 1 \in Int
  OBVIOUS
<1> DEFINE a == SubSeq(s, 1, k - 1)
           b == SubSeq(s, k + 1, Len(s))
<1>2. a \in Seq(S) /\ Len(a) = k - 1 /\ \A i \in 1..(k - 1) : a[i] = s[i]
  <2>1. \A i \in 1..(k - 1) : s[i] \in S
    BY <1>1
  <2> QED
    BY <1>1, <2>1, SubSeqProperties
<1>3. b \in Seq(S) /\ Len(b) = Len(s) - k /\ \A i \in 1..(Len(s) - k) : b[i] = s[k + i]
  <2>1. \A i \in (k + 1)..Len(s) : s[i] \in S
    BY <1>1
  <2> QED
    BY <1>1, <2>1, SubSeqProperties
<1> HIDE DEF a, b
<1>4. /\ a \o b \in Seq(S) /\ Len(a \o b) = Len(s) - 1
      /\ \A j \in 1..(Len(s) - 1) : (a \o b)[j] = IF j < k THEN a[j] ELSE b[j - (k - 1)]
  <2>1. /\ a \o b \in Seq(S) /\ Len(a \o b) = Len(a) + Len(b)
        /\ \A i \in 1..(Len(a) + Len(b)) :
              (a \o b)[i] = IF i <= Len(a) THEN a[i] ELSE b[i - Len(a)]
    BY <1>2, <1>3, ConcatProperties
  <2>2. Len(a) + Len(b) = Len(s) - 1 /\ Len(a) = k - 1
    BY <1>1, <1>2, <1>3
  <2>3. \A j \in 1..(Len(s) - 1) : j < k <=> j <= k - 1
    BY <1>1
  <2> QED
    BY <2>1, <2>2, <2>3
<1>5. \A j \in 1..(Len(s) - 1) : (a \o b)[j] = IF j < k THEN s[j] ELSE s[j + 1]
  <2> SUFFICES ASSUME NEW j \in 1..(Len(s) - 1)
               PROVE  (a \o b)[j] = IF j < k THEN s[j] ELSE s[j + 1]
    OBVIOUS
  <2>1. CASE j < k
    BY <1>1, <1>2, <1>4, <2>1
  <2>2. CASE ~ (j < k)
    <3>1. j - (k - 1) \in 1..(Len(s) - k) /\ k + (j - (k - 1)) = j + 1
      BY <1>1, <2>2
    <3> QED
      BY <1>3, <1>4, <2>2, <3>1
  <2> QED
    BY <2>1, <2>2
<1> QED
  BY <1>4, <1>5 DEF Spliced, a, b

\* What is left without one row is rows of the table, and those that were there.
LEMMA WithoutRowTyped ==
  ASSUME NEW S, rows \in Seq(S), NEW k \in DOMAIN rows
  PROVE  WithoutRow(k) \in Seq(S)
  BY Splicing DEF WithoutRow, Spliced

\* Of rows whose depths follow their places the last is the newest of the deepest.
LEMMA TopIsLast ==
  ASSUME IInv, DepthsFollow, lost \in 0..1, rows # <<>>
  PROVE  TopRow = Len(rows) /\ Len(rows) \in DOMAIN rows
<1>1. rows \in Seq(Row) /\ \A k \in DOMAIN rows : rows[k].depth \in (k - 1)..k
  BY DEF IInv, ManagerTypes, DepthsFollow
<1>2. Len(rows) \in DOMAIN rows /\ DOMAIN rows = 1..Len(rows) /\ Len(rows) \in Nat
  BY <1>1
<1> DEFINE P(k) == \A j \in DOMAIN rows : \/ rows[j].depth < rows[k].depth
                                          \/ rows[j].depth = rows[k].depth /\ j <= k
<1>3. P(Len(rows))
  <2> SUFFICES ASSUME NEW j \in DOMAIN rows, j # Len(rows)
               PROVE  rows[j].depth <= rows[Len(rows)].depth
    BY <1>1, <1>2
  <2>1. rows[j].depth \in (j - 1)..j /\ rows[Len(rows)].depth \in (Len(rows) - 1)..Len(rows)
    BY <1>1, <1>2
  <2> QED
    BY <1>2, <2>1
<1>4. \A k \in DOMAIN rows : P(k) => k = Len(rows)
  <2> SUFFICES ASSUME NEW k \in DOMAIN rows, P(k) PROVE k = Len(rows)
    OBVIOUS
  <2>1. P(Len(rows)) /\ rows[k].depth \in Int /\ rows[Len(rows)].depth \in Int
    BY <1>1, <1>2, <1>3
  <2>2. Len(rows) <= k
    BY <1>2, <2>1
  <2> QED
    BY <1>2, <2>2
<1>5. (CHOOSE k \in DOMAIN rows : P(k)) = Len(rows)
  <2> HIDE DEF P
  <2> QED
    BY <1>2, <1>3, <1>4
<1> QED
  BY <1>2, <1>5 DEF TopRow

\* A set of numbers that has a member has a least one.
LEMMA LeastNumber ==
    ASSUME NEW T, T \subseteq Nat, T # {}
    PROVE  \E x \in T : \A y \in T : x <= y
<1> DEFINE F == {0 .. x : x \in T}
<1>1. F \subseteq FiniteSubsetsOf(Nat)
  <2> SUFFICES ASSUME NEW x \in T PROVE 0 .. x \in FiniteSubsetsOf(Nat)
    OBVIOUS
  <2>1. IsFiniteSet(0 .. x)
    BY FS_Interval
  <2>2. 0 .. x \subseteq Nat
    BY x \in Nat
  <2> QED BY <2>1, <2>2 DEF FiniteSubsetsOf
<1>2. F # {}
  OBVIOUS
<1> HIDE DEF F
<1>3. PICK u \in F : \A v \in F : ~ (<<v, u>> \in StrictSubsetOrdering(Nat))
  BY <1>1, <1>2, FS_StrictSubsetOrderingWellFounded, WFMin
<1>4. PICK x \in T : u = 0 .. x
  BY DEF F
<1>5. \A y \in T : x <= y
  <2> SUFFICES ASSUME NEW y \in T, ~ x <= y PROVE FALSE
    OBVIOUS
  <2>1. x \in Nat /\ y \in Nat /\ y < x
    OBVIOUS
  <2>2. 0 .. y \subseteq 0 .. x /\ 0 .. y # 0 .. x
    <3>1. x \in 0 .. x /\ x \notin 0 .. y
      BY <2>1
    <3>2. 0 .. y \subseteq 0 .. x
      BY <2>1
    <3> QED BY <3>1, <3>2
  <2>3. 0 .. y \in F
    BY DEF F
  <2>4. 0 .. y \in SUBSET Nat /\ 0 .. x \in SUBSET Nat
    BY <2>1
  <2>5. <<0 .. y, 0 .. x>> \in StrictSubsetOrdering(Nat)
    BY <2>2, <2>4 DEF StrictSubsetOrdering
  <2> QED BY <1>3, <1>4, <2>3, <2>5
<1> QED BY <1>5

\* Of the rows s, those that kept have been picked in their order: f[k] is the k-th of them.
Picks(s, kept, m, f) ==
    /\ m \in 0..Len(s) /\ f \in [1..m -> DOMAIN s]
    /\ \A i, j \in 1..m : i < j => f[i] < f[j]
    /\ {f[k] : k \in 1..m} = kept
    /\ \A k \in 1..m : f[k] \in k..(k + (Len(s) - m))

Picked(s, m, f) == [k \in 1..m |-> s[f[k]]]

\* A cascade leaves rows of the table that were there, none of p's and all the others, in their
\* order, none of them further down than the number of rows that are gone.
LEMMA RowsWithoutTyped ==
  ASSUME NEW S, rows \in Seq(S), NEW p
  PROVE  /\ RowsWithout(p) \in Seq({r \in S : r.profile # p})
         /\ \E m, f : /\ Picks(rows, {k \in DOMAIN rows : rows[k].profile # p}, m, f)
                      /\ RowsWithout(p) = Picked(rows, m, f)
<1> DEFINE Others(i) == Cardinality({j \in 1..i : rows[j].profile # p})
           n == Others(Len(rows))
           at(k) == CHOOSE i \in DOMAIN rows : rows[i].profile # p /\ Others(i) = k
<1>1. DOMAIN rows = 1..Len(rows) /\ Len(rows) \in Nat
  OBVIOUS
<1>2. RowsWithout(p) = [k \in 1..n |-> rows[at(k)]]
  BY DEF RowsWithout
<1>3. \A i \in Nat : IsFiniteSet({j \in 1..i : rows[j].profile # p}) /\ Others(i) \in Nat
  <2> TAKE i \in Nat
  <2>1. IsFiniteSet(1..i)
    BY FS_Interval
  <2>2. IsFiniteSet({j \in 1..i : rows[j].profile # p})
    BY <2>1, FS_Subset
  <2> QED BY <2>2, FS_CardinalityType
<1>4. Others(0) = 0
  <2>1. {j \in 1..0 : rows[j].profile # p} = {}
    OBVIOUS
  <2> QED BY <2>1, FS_EmptySet
<1>5. \A i \in Nat \ {0} : Others(i) = IF rows[i].profile # p THEN Others(i - 1) + 1 ELSE Others(i - 1)
  <2> TAKE i \in Nat \ {0}
  <2> DEFINE T == {j \in 1..(i - 1) : rows[j].profile # p}
  <2>1. {j \in 1..i : rows[j].profile # p} = IF rows[i].profile # p THEN T \cup {i} ELSE T
    OBVIOUS
  <2>2. IsFiniteSet(T) /\ i \notin T
    BY <1>3
  <2>3. Cardinality(T \cup {i}) = Cardinality(T) + 1
    BY <2>2, FS_AddElement
  <2> QED BY <2>1, <2>3
<1>6. n \in Nat
  BY <1>1, <1>3
<1> HIDE DEF Others, n
<1>7. ASSUME NEW k \in 1..n
      PROVE  at(k) \in DOMAIN rows /\ rows[at(k)].profile # p /\ Others(at(k)) = k
  <2> DEFINE T == {i \in 0..Len(rows) : Others(i) >= k}
  <2>1. T \subseteq Nat /\ T # {}
    <3>1. Len(rows) \in T
      BY <1>1, <1>6 DEF n
    <3> QED BY <1>1, <3>1
  <2> HIDE DEF T
  <2>2. PICK i \in T : \A j \in T : i <= j
    BY <2>1, LeastNumber
  <2>3. i \in 0..Len(rows) /\ Others(i) >= k
    BY DEF T
  <2>4. i # 0
    BY <2>3, <1>4, <1>6
  <2>5. i - 1 \in 0..Len(rows) /\ i - 1 \in Nat /\ ~ i <= i - 1
    BY <2>3, <2>4, <1>1
  <2>6. Others(i - 1) < k
    <3>1. i - 1 \notin T
      BY <2>2, <2>5
    <3>2. Others(i - 1) \in Nat
      BY <2>5, <1>3 DEF Others
    <3> QED BY <3>1, <3>2, <2>5, <1>6 DEF T
  <2>7. Others(i) = IF rows[i].profile # p THEN Others(i - 1) + 1 ELSE Others(i - 1)
    BY <1>5, <2>3, <2>4
  <2>8. Others(i - 1) \in Nat
    BY <2>5, <1>3 DEF Others
  <2>9. rows[i].profile # p /\ Others(i) = k /\ i \in DOMAIN rows
    BY <2>3, <2>4, <2>6, <2>7, <2>8, <1>1, <1>6
  <2> QED BY <2>9
<1> HIDE DEF at
<1>8. \A k \in 1..n : rows[at(k)] \in {r \in S : r.profile # p}
  BY <1>1, <1>7
<1>9. RowsWithout(p) \in [1..n -> {r \in S : r.profile # p}]
  BY <1>2, <1>8
<1>10. ASSUME NEW i \in Nat, NEW j \in Nat, i <= j
       PROVE  Others(i) <= Others(j) /\ Others(j) <= Others(i) + (j - i)
  <2> DEFINE U(k) == {x \in 1..k : rows[x].profile # p}
  <2>1. U(i) \subseteq U(j) /\ U(j) \subseteq U(i) \cup ((i + 1)..j)
    BY <1>10
  <2>2. /\ IsFiniteSet(U(i)) /\ IsFiniteSet(U(j)) /\ IsFiniteSet((i + 1)..j)
        /\ Cardinality((i + 1)..j) = j - i
    <3>1. IsFiniteSet(U(i)) /\ IsFiniteSet(U(j))
      BY <1>3
    <3>2. /\ IsFiniteSet((i + 1)..j)
          /\ Cardinality((i + 1)..j) = IF i + 1 > j THEN 0 ELSE j - (i + 1) + 1
      <4>1. i + 1 \in Int /\ j \in Int
        OBVIOUS
      <4> QED
        BY <4>1, FS_Interval
    <3>3. (IF i + 1 > j THEN 0 ELSE j - (i + 1) + 1) = j - i
      BY <1>10
    <3> QED
      BY <3>1, <3>2, <3>3
  <2> HIDE DEF U
  <2>3. Cardinality(U(i)) <= Cardinality(U(j))
    BY <2>1, <2>2, FS_Subset
  <2>4. /\ IsFiniteSet(U(i) \cup ((i + 1)..j))
        /\ Cardinality(U(i) \cup ((i + 1)..j)) <= Cardinality(U(i)) + (j - i)
    <3>1. IsFiniteSet(U(i) \cap ((i + 1)..j))
      BY <2>2, FS_Subset
    <3>2. Cardinality(U(i) \cap ((i + 1)..j)) \in Nat /\ Cardinality(U(i)) \in Nat
      BY <2>2, <3>1, FS_CardinalityType
    <3>3. /\ IsFiniteSet(U(i) \cup ((i + 1)..j))
          /\ Cardinality(U(i) \cup ((i + 1)..j))
               = Cardinality(U(i)) + Cardinality((i + 1)..j) - Cardinality(U(i) \cap ((i + 1)..j))
      BY <2>2, FS_Union
    <3> QED
      BY <2>2, <3>2, <3>3
  <2>5. Cardinality(U(j)) <= Cardinality(U(i) \cup ((i + 1)..j))
    BY <2>1, <2>4, FS_Subset
  <2>6. Cardinality(U(i)) \in Nat /\ Cardinality(U(j)) \in Nat
        /\ Cardinality(U(i) \cup ((i + 1)..j)) \in Nat
    BY <2>2, <2>4, FS_CardinalityType
  <2>7. Cardinality(U(j)) <= Cardinality(U(i)) + (j - i)
    BY <1>10, <2>4, <2>5, <2>6
  <2> QED
    BY <2>3, <2>7 DEF Others, U
<1>11. \A i \in Nat : Others(i) \in Nat
  BY <1>3 DEF Others
<1> DEFINE f == [k \in 1..n |-> at(k)]
<1>12. n \in 0..Len(rows) /\ f \in [1..n -> DOMAIN rows]
  <2>1. Others(Len(rows)) <= Others(0) + (Len(rows) - 0)
    BY <1>1, <1>10
  <2> QED
    BY <1>1, <1>4, <1>6, <1>7, <2>1 DEF n
<1>13. \A i, j \in 1..n : i < j => f[i] < f[j]
  <2> SUFFICES ASSUME NEW i \in 1..n, NEW j \in 1..n, i < j, ~ (at(i) < at(j)) PROVE FALSE
    OBVIOUS
  <2>1. at(i) \in Nat /\ at(j) \in Nat /\ Others(at(i)) = i /\ Others(at(j)) = j
    BY <1>1, <1>7
  <2>2. Others(at(j)) <= Others(at(i))
    BY <1>10, <2>1
  <2> QED
    BY <1>6, <2>1, <2>2
<1>14. \A k \in 1..n : f[k] \in k..(k + (Len(rows) - n))
  <2> SUFFICES ASSUME NEW k \in 1..n PROVE at(k) \in k..(k + (Len(rows) - n))
    OBVIOUS
  <2>1. at(k) \in 1..Len(rows) /\ at(k) \in Nat /\ Others(at(k)) = k
    BY <1>1, <1>7
  <2>2. Others(at(k)) <= Others(0) + (at(k) - 0)
    BY <1>10, <2>1
  <2>3. n <= Others(at(k)) + (Len(rows) - at(k))
    BY <1>1, <1>10, <2>1 DEF n
  <2> QED
    BY <1>1, <1>4, <1>6, <2>1, <2>2, <2>3
<1>15. {f[k] : k \in 1..n} = {k \in DOMAIN rows : rows[k].profile # p}
  <2>1. \A k \in 1..n : f[k] \in {i \in DOMAIN rows : rows[i].profile # p}
    BY <1>7
  <2>2. ASSUME NEW i \in DOMAIN rows, rows[i].profile # p
        PROVE  \E k \in 1..n : f[k] = i
    <3>1. i \in Nat \ {0} /\ i - 1 \in Nat /\ Others(i) = Others(i - 1) + 1
      BY <1>1, <1>5, <2>2
    <3>2. Others(i) \in 1..n
      <4>1. Others(i) <= n
        BY <1>1, <1>10, <3>1 DEF n
      <4>2. Others(i) \in Nat /\ Others(i - 1) \in Nat
        BY <1>11, <3>1
      <4> QED
        BY <1>6, <3>1, <4>1, <4>2
    <3>3. at(Others(i)) \in Nat \ {0} /\ Others(at(Others(i))) = Others(i)
          /\ rows[at(Others(i))].profile # p /\ at(Others(i)) - 1 \in Nat
      BY <1>1, <1>7, <3>2
    <3>4. ~ (at(Others(i)) < i)
      <4>1. at(Others(i)) < i => Others(at(Others(i))) <= Others(i - 1)
        BY <1>10, <3>1, <3>3
      <4> QED
        BY <1>11, <3>1, <3>3, <4>1
    <3>5. ~ (i < at(Others(i)))
      <4> DEFINE j == at(Others(i))
      <4> HIDE DEF j
      <4>1. i < j => Others(i) <= Others(j - 1)
        BY <1>10, <3>1, <3>3 DEF j
      <4>2. Others(j) = Others(j - 1) + 1
        BY <1>5, <3>3 DEF j
      <4>3. Others(j) = Others(i) /\ Others(j - 1) \in Nat /\ Others(i) \in Nat
        BY <1>11, <3>1, <3>3 DEF j
      <4> QED
        BY <4>1, <4>2, <4>3 DEF j
    <3> QED
      BY <3>1, <3>2, <3>3, <3>4, <3>5
  <2> QED
    BY <2>1, <2>2
<1>16. RowsWithout(p) = [k \in 1..n |-> rows[f[k]]]
  BY <1>2
<1> HIDE DEF f
<1>17. Picks(rows, {k \in DOMAIN rows : rows[k].profile # p}, n, f)
  BY <1>12, <1>13, <1>14, <1>15 DEF Picks
<1>18. RowsWithout(p) = Picked(rows, n, f)
  BY <1>16 DEF Picked
<1>19. RowsWithout(p) \in Seq({r \in S : r.profile # p})
  BY <1>6, <1>9
<1> QED
  BY <1>17, <1>18, <1>19

-----------------------------------------------------------------------------
(* Steps that leave the vault and the saves alone *)

LEMMA Quiet ==
  ASSUME IInv, UNCHANGED <<vaultVars, forfeit>>
  PROVE  VaultTypes' /\ ParkInv' /\ Kept' = Kept
<1>1. UNCHANGED <<live, parked, meta, branch, head, work, tracked>>
  BY DEF vaultVars, gitVars, liveVars
<1>2. VaultTypes'
  BY <1>1 DEF IInv, VaultTypes
<1>3. ParkInv'
  BY <1>1 DEF IInv, ParkInv, History
<1>4. Kept' = Kept
  BY <1>1 DEF Kept, History
<1> QED
  BY <1>2, <1>3, <1>4

LEMMA IdleInv ==
  ASSUME pc' = "idle", cmd' = Idle
  PROVE  CommandInv' /\ LiveInv'
  BY DEF CommandInv, LiveInv, Capturing, Parking, Deploying

LEMMA IdleTyped ==
  Idle \in Command
  BY VaultAssumption DEF Idle, Command, Commands

\* A profile comes or goes, with its rows of the stack.
LEMMA CreateProfileInv ==
  ASSUME IInv, NEW p \in Profiles, CreateProfile(p)
  PROVE  IInv'
<1>1. /\ pc = "idle" /\ profiles' = profiles \cup {p}
      /\ UNCHANGED <<active, rows, pc, cmd, todo, vaultVars, watching, author, forfeit, crashes>>
  BY DEF CreateProfile, commandVars, worldVars
<1>2. cmd = Idle
  BY <1>1 DEF IInv, CommandInv
<1>3. ManagerTypes'
  BY <1>1 DEF IInv, ManagerTypes
<1> QED
  BY <1>1, <1>2, <1>3, Quiet, IdleInv DEF IInv

LEMMA DeleteProfileInv ==
  ASSUME IInv, NEW p \in Profiles, DeleteProfile(p)
  PROVE  IInv'
<1>1. /\ pc = "idle" /\ profiles' = profiles \ {p}
      /\ active' = IF active = p THEN None ELSE active
      /\ rows' = IF Remembered(p) THEN RowsWithout(p) ELSE rows
      /\ UNCHANGED <<pc, cmd, todo, vaultVars, watching, author, forfeit, crashes>>
  BY DEF DeleteProfile, Restack, commandVars
<1>2. cmd = Idle
  BY <1>1 DEF IInv, CommandInv
<1> DEFINE S == {r \in Row : r.profile \in profiles}
           T == {r \in S : r.profile # p}
<1>4. rows' \in Seq(T)
  <2>1. rows \in Seq(S)
    BY DEF IInv, ManagerTypes
  <2>2. CASE Remembered(p)
    <3> HIDE DEF S
    <3> QED
      BY <1>1, <2>1, <2>2, RowsWithoutTyped
  <2>3. CASE ~Remembered(p)
    BY <1>1, <2>1, <2>3 DEF Remembered
  <2> QED
    BY <2>2, <2>3
<1>5. rows' \in Seq(Row) /\ \A k \in DOMAIN rows' : rows'[k].profile \in profiles'
  BY <1>1, <1>4
<1>6. ManagerTypes'
  BY <1>1, <1>5 DEF IInv, ManagerTypes
<1> QED
  BY <1>1, <1>2, <1>6, Quiet, IdleInv DEF IInv

\* A command starts, and has changed nothing but a row of its own.
LEMMA Started ==
  ASSUME IInv, NEW op \in Commands \ {"idle"}, NEW label \in Labels \ {"idle"},
         NEW target \in Profiles, NEW out \in Profiles \cup {None}, NEW fp \in Prints,
         Start(op, label, target, out, fp)
  PROVE  /\ pc = "idle" /\ pc' = label /\ pc' \in Labels /\ todo' = {} /\ todo' \subseteq Files
         /\ cmd' \in Command /\ cmd'.op = op /\ cmd'.target = target /\ cmd'.out = out
         /\ cmd'.fp = fp
  BY DEF Start, Command

LEMMA ForkInv ==
  ASSUME IInv, NEW p \in Profiles, NEW q \in Profiles, Fork(p, q)
  PROVE  IInv'
<1>1. /\ p \in profiles /\ profiles' = profiles \cup {q} /\ Start("fork", "fork", q, p, NoFp)
      /\ UNCHANGED <<active, rows, vaultVars, watching, author, forfeit, crashes>>
  BY DEF Fork, worldVars
<1>2. /\ pc' = "fork" /\ todo' = {} /\ cmd' \in Command /\ cmd'.op = "fork"
      /\ cmd'.target = q /\ cmd'.out = p
  BY <1>1, Started, VaultAssumption DEF Commands, Labels
<1>3. ManagerTypes'
  BY <1>1, <1>2 DEF IInv, ManagerTypes, Labels
<1>4. CommandInv' /\ LiveInv'
  BY <1>1, <1>2 DEF CommandInv, LiveInv, Capturing, Parking, Deploying
<1> QED
  BY <1>1, <1>3, <1>4, Quiet DEF IInv

LEMMA ActivateInv ==
  ASSUME IInv, NEW p \in Profiles, Activate(p)
  PROVE  IInv'
<1>1. p \in profiles
      /\ UNCHANGED <<profiles, active, rows, vaultVars, watching, author, forfeit, crashes>>
  BY DEF Activate, dbVars, worldVars
<1>2. /\ NoFp \in Prints /\ Fingerprint[p] \in Prints /\ active \in Profiles \cup {None}
      /\ None \notin Profiles
  BY VaultAssumption, ManagerAssumption DEF IInv, ManagerTypes
<1>3. \E label \in {"setactive", "deploy", "capture"}, out \in Profiles \cup {None}, fp \in Prints :
        /\ Start("activate", label, p, out, fp)
        /\ label = "capture" => out \in profiles
        /\ label = "deploy" => live = Empty
  <2>1. CASE ~SaveDir
    BY <1>2, <2>1 DEF Activate
  <2>2. CASE SaveDir /\ active = None
    BY <1>2, <2>2 DEF Activate, Unadopted
  <2>3. CASE SaveDir /\ active # None
    BY <1>2, <2>3 DEF Activate, IInv, ManagerTypes
  <2> QED
    BY <2>1, <2>2, <2>3, ManagerAssumption
<1>4. PICK label \in {"setactive", "deploy", "capture"}, out \in Profiles \cup {None}, fp \in Prints :
        /\ Start("activate", label, p, out, fp)
        /\ label = "capture" => out \in profiles
        /\ label = "deploy" => live = Empty
  BY <1>3
<1>5. /\ pc' = label /\ todo' = {} /\ cmd' \in Command /\ cmd'.op = "activate"
      /\ cmd'.target = p /\ cmd'.out = out
  BY <1>4, Started DEF Commands, Labels
<1>6. ManagerTypes'
  BY <1>1, <1>5 DEF IInv, ManagerTypes, Labels
<1>7. CommandInv'
  BY <1>1, <1>4, <1>5 DEF CommandInv, Capturing, Parking, Deploying
<1>8. LiveInv'
  <2>1. live' = live
    BY <1>1 DEF vaultVars, liveVars
  <2> QED
    BY <1>4, <1>5, <2>1 DEF LiveInv, Capturing, Parking, Deploying, Empty
<1> QED
  BY <1>1, <1>6, <1>7, <1>8, Quiet DEF IInv

\* A command that starts where nothing is known of the live saves yet.
LEMMA StartedInv ==
  ASSUME IInv, NEW op \in Commands \ {"idle"}, NEW label \in {"push", "capture"},
         NEW p \in profiles, NEW out \in profiles, NEW fp \in Prints,
         Start(op, label, p, out, fp), UNCHANGED <<dbVars, vaultVars, worldVars>>,
         label = "push" => op = "try" /\ out = active,
         label = "capture" => op \in {"adopt", "capture"}
  PROVE  IInv'
<1>1. profiles \subseteq Profiles /\ None \notin Profiles
      /\ UNCHANGED <<profiles, active, rows, vaultVars, watching, author, forfeit, crashes>>
  BY ManagerAssumption DEF IInv, ManagerTypes, dbVars, worldVars
<1>2. /\ pc' = label /\ todo' = {} /\ cmd' \in Command /\ cmd'.op = op
      /\ cmd'.target = p /\ cmd'.out = out
  BY <1>1, Started DEF Labels
<1>3. ManagerTypes'
  BY <1>1, <1>2 DEF IInv, ManagerTypes, Labels
<1>4. CommandInv' /\ LiveInv'
  BY <1>1, <1>2 DEF CommandInv, LiveInv, Capturing, Parking, Deploying, Commands
<1> QED
  BY <1>1, <1>3, <1>4, Quiet DEF IInv

LEMMA TryInv ==
  ASSUME IInv, NEW p \in Profiles, Try(p)
  PROVE  IInv'
<1>1. active \in profiles /\ p \in profiles /\ Fingerprint[p] \in Prints
  BY ManagerAssumption DEF Try, IInv, ManagerTypes
<1> QED
  BY <1>1, StartedInv DEF Try, Commands

LEMMA AdoptInv ==
  ASSUME IInv, NEW p \in Profiles, Adopt(p)
  PROVE  IInv'
  BY StartedInv, VaultAssumption DEF Adopt, Commands

LEMMA SaveCaptureInv ==
  ASSUME IInv, NEW p \in Profiles, SaveCapture(p)
  PROVE  IInv'
  BY StartedInv, ManagerAssumption DEF SaveCapture, Commands

LEMMA PushInv ==
  ASSUME IInv, Push
  PROVE  IInv'
<1> DEFINE row == [profile |-> cmd.out, depth |-> Len(rows)]
<1>1. /\ pc = "push" /\ pc' \in {"capture", "setactive"} /\ cmd' = cmd /\ todo' = todo
      /\ rows' = Append(rows, row)
      /\ UNCHANGED <<profiles, active, vaultVars, watching, author, forfeit, crashes>>
  BY DEF Push, Step, worldVars
<1>2. cmd.op = "try" /\ cmd.out \in profiles /\ profiles \subseteq Profiles /\ cmd.target \in profiles
  BY <1>1 DEF IInv, CommandInv, ManagerTypes
<1>3. rows \in Seq(Row) /\ Len(rows) \in Nat
  BY DEF IInv, ManagerTypes
<1>4. row \in Row /\ row.profile = cmd.out /\ row.depth = Len(rows)
  BY <1>2, <1>3 DEF Row
<1> HIDE DEF row
<1>5. /\ rows' \in Seq(Row) /\ Len(rows') = Len(rows) + 1 /\ rows'[Len(rows) + 1] = row
      /\ \A k \in 1..Len(rows) : rows'[k] = rows[k]
  BY <1>1, <1>3, <1>4
<1>6. ManagerTypes'
  BY <1>1, <1>2, <1>3, <1>4, <1>5 DEF IInv, ManagerTypes, Labels
<1>7. CommandInv' /\ LiveInv'
  BY <1>1, <1>2 DEF CommandInv, LiveInv, Capturing, Parking, Deploying
<1> QED
  BY <1>1, <1>6, <1>7, Quiet DEF IInv

LEMMA RollbackInv ==
  ASSUME IInv, Rollback
  PROVE  IInv'
<1> DEFINE p == rows[TopRow].profile
           fp == IF active = None THEN NoFp ELSE Fingerprint[active]
<1>1. /\ rows # <<>> /\ Start("rollback", "current", p, None, fp) /\ rows' = WithoutRow(TopRow)
      /\ UNCHANGED <<profiles, active, vaultVars, watching, author, forfeit, crashes>>
  BY DEF Rollback, Restack
<1>2. p \in profiles /\ profiles \subseteq Profiles /\ fp \in Prints
  BY <1>1, TopExists, VaultAssumption, ManagerAssumption DEF IInv, ManagerTypes
<1>3. /\ pc' = "current" /\ todo' = {} /\ cmd' \in Command /\ cmd'.op = "rollback"
      /\ cmd'.target = p
  <2> HIDE DEF p, fp
  <2> QED
    BY <1>1, <1>2, Started DEF Commands, Labels
<1> HIDE DEF p, fp
<1>4. rows' \in Seq(Row) /\ \A k \in DOMAIN rows' : rows'[k].profile \in profiles
  <2> DEFINE S == {r \in Row : r.profile \in profiles}
  <2>1. rows \in Seq(S)
    BY DEF IInv, ManagerTypes
  <2> HIDE DEF S
  <2>2. rows' \in Seq(S)
    BY <1>1, <2>1, TopExists, WithoutRowTyped
  <2> QED
    BY <2>2 DEF S
<1>5. ManagerTypes'
  BY <1>1, <1>3, <1>4 DEF IInv, ManagerTypes, Labels
<1>6. CommandInv' /\ LiveInv'
  BY <1>1, <1>2, <1>3 DEF CommandInv, LiveInv, Capturing, Parking, Deploying
<1> QED
  BY <1>1, <1>5, <1>6, Quiet DEF IInv

LEMMA RollbackCurrentInv ==
  ASSUME IInv, RollbackCurrent
  PROVE  IInv'
<1>1. /\ pc = "current"
      /\ UNCHANGED <<profiles, active, rows, vaultVars, watching, author, forfeit, crashes>>
  BY DEF RollbackCurrent, End, dbVars, worldVars
<1>2. CASE active = None
  <2>1. pc' = "idle" /\ cmd' = Idle /\ todo' = {}
    BY <1>2 DEF RollbackCurrent, End
  <2>2. ManagerTypes'
    BY <1>1, <2>1, IdleTyped DEF IInv, ManagerTypes, Labels
  <2> QED
    BY <1>1, <2>1, <2>2, IdleInv, Quiet DEF IInv
<1>3. CASE active # None
  <2>1. /\ pc' \in {"capture", "setactive"} /\ cmd' = [cmd EXCEPT !.out = active] /\ todo' = todo
    BY <1>3 DEF RollbackCurrent
  <2>2. active \in profiles /\ profiles \subseteq Profiles /\ cmd \in Command
    BY <1>3 DEF IInv, ManagerTypes
  <2>3. cmd.op = "rollback" /\ cmd.target \in profiles
    BY <1>1 DEF IInv, CommandInv
  <2>4. /\ cmd' \in Command /\ cmd'.op = "rollback" /\ cmd'.target = cmd.target /\ cmd'.out = active
    BY <2>1, <2>2, <2>3 DEF Command
  <2>5. ManagerTypes'
    BY <1>1, <2>1, <2>4 DEF IInv, ManagerTypes, Labels
  <2>6. CommandInv' /\ LiveInv'
    BY <1>1, <2>1, <2>2, <2>3, <2>4 DEF CommandInv, LiveInv, Capturing, Parking, Deploying
  <2> QED
    BY <1>1, <2>5, <2>6, Quiet DEF IInv
<1> QED
  BY <1>2, <1>3

\* A command ends, with a profile of the table active or not.
LEMMA EndInv ==
  ASSUME IInv, NEW l \in Labels, End(l), active' \in profiles \cup {None},
         UNCHANGED <<profiles, rows, vaultVars, watching, author, forfeit>>,
         crashes' \in 0..MaxCrashes
  PROVE  IInv'
<1>1. pc' = "idle" /\ cmd' = Idle /\ todo' = {}
  BY DEF End
<1>2. ManagerTypes'
  BY <1>1, IdleTyped DEF IInv, ManagerTypes, Labels
<1> QED
  BY <1>1, <1>2, IdleInv, Quiet DEF IInv

LEMMA SetActiveInv ==
  ASSUME IInv, SetActive
  PROVE  IInv'
<1>1. pc = "setactive" /\ cmd.target \in profiles
  BY DEF SetActive, End, IInv, CommandInv
<1> QED
  BY <1>1, EndInv DEF SetActive, Labels, worldVars, IInv, ManagerTypes

LEMMA AdoptActiveInv ==
  ASSUME IInv, AdoptActive
  PROVE  IInv'
<1>1. pc = "adoptactive" /\ cmd.target \in profiles /\ active \in profiles \cup {None}
  BY DEF AdoptActive, End, IInv, CommandInv, ManagerTypes
<1> QED
  BY <1>1, EndInv DEF AdoptActive, Labels, worldVars, IInv, ManagerTypes

LEMMA CrashInv ==
  ASSUME IInv, Crash
  PROVE  IInv'
<1>1. pc \in Labels /\ crashes' \in 0..MaxCrashes /\ active \in profiles \cup {None}
  BY ManagerAssumption DEF Crash, IInv, ManagerTypes
<1> QED
  BY <1>1, EndInv DEF Crash, dbVars

LEMMA CommitExperimentInv ==
  ASSUME IInv, CommitExperiment
  PROVE  IInv'
<1>1. /\ pc = "idle" /\ rows' = <<>>
      /\ UNCHANGED <<profiles, active, pc, cmd, todo, vaultVars, watching, author, forfeit, crashes>>
  BY DEF CommitExperiment, Restack, commandVars
<1>2. cmd = Idle
  BY <1>1 DEF IInv, CommandInv
<1>3. ManagerTypes'
  BY <1>1 DEF IInv, ManagerTypes
<1> QED
  BY <1>1, <1>2, <1>3, IdleInv, Quiet DEF IInv

LEMMA WatchInv ==
  ASSUME IInv, WatchStart \/ WatchStop
  PROVE  IInv'
<1>1. /\ watching' \in {active, None}
      /\ UNCHANGED <<profiles, active, rows, pc, cmd, todo, vaultVars, author, forfeit, crashes>>
  BY DEF WatchStart, WatchStop, dbVars, commandVars
<1>2. ManagerTypes' /\ CommandInv'
  BY <1>1 DEF IInv, ManagerTypes, CommandInv
<1>3. LiveInv'
  BY <1>1 DEF IInv, LiveInv, History, vaultVars, gitVars, liveVars
<1> QED
  BY <1>1, <1>2, <1>3, Quiet DEF IInv

-----------------------------------------------------------------------------
(* Steps of the vault *)

\* Where a command is after a step, given what it had.
LEMMA Stepped ==
  ASSUME IInv, NEW from \in Labels, NEW to \in Labels, Step(from, to), UNCHANGED <<dbVars, worldVars>>
  PROVE  /\ pc = from /\ pc' = to
         /\ IF to = "idle" THEN cmd' = Idle ELSE cmd' = cmd
         /\ ManagerTypes'
         /\ UNCHANGED <<profiles, active, rows, forfeit, todo>>
<1>1. /\ pc = from /\ pc' = to /\ cmd' = IF to = "idle" THEN Idle ELSE cmd
      /\ UNCHANGED <<todo, profiles, active, rows, watching, author, forfeit, crashes>>
  BY DEF Step, dbVars, worldVars
<1>2. cmd' \in Command
  BY <1>1, IdleTyped DEF IInv, ManagerTypes
<1> QED
  BY <1>1, <1>2 DEF IInv, ManagerTypes

\* Branches that only grow keep what was parked, and all that is kept.
LEMMA GrownKeeps ==
  ASSUME IInv, Grown, UNCHANGED liveVars, forfeit \subseteq forfeit'
  PROVE  ParkInv' /\ Kept \subseteq Kept'
<1>1. UNCHANGED <<live, parked>>
  BY DEF liveVars
<1>2. ParkInv'
  BY <1>1, SlugBranch DEF IInv, ParkInv, Grown
<1>3. Kept \subseteq Kept'
  <2>1. UNION {History(b) : b \in Branches} \subseteq (UNION {History(b) : b \in Branches})'
    BY DEF Grown
  <2> QED
    BY <1>1, <2>1 DEF Kept
<1> QED
  BY <1>2, <1>3

LEMMA CaptureInv ==
  ASSUME IInv, Capture
  PROVE  IInv' /\ Kept \subseteq Kept'
<1>1. Step("capture", "copyin") /\ CheckoutBranch(cmd.out) /\ UNCHANGED <<dbVars, worldVars>>
  BY DEF Capture
<1>2. /\ pc = "capture" /\ pc' = "copyin" /\ cmd' = cmd /\ ManagerTypes'
      /\ UNCHANGED <<profiles, active, forfeit>>
  BY <1>1, Stepped DEF Labels
<1>3. cmd.out \in Profiles
  BY <1>2 DEF IInv, CommandInv, ManagerTypes, Capturing
<1>4. VaultTypes' /\ Grown /\ head' = Slug[cmd.out] /\ UNCHANGED liveVars
  BY <1>1, <1>3, CheckoutKeeps DEF IInv
<1>5. CommandInv'
  BY <1>2 DEF IInv, CommandInv, Capturing, Parking, Deploying
<1>6. LiveInv'
  BY <1>2, <1>4 DEF LiveInv, Capturing, Parking, Deploying
<1> QED
  BY <1>2, <1>4, <1>5, <1>6, GrownKeeps DEF IInv

\* What follows a capture: the live saves are those of the branch.
LEMMA AfterCaptureLabels ==
  ASSUME IInv, pc \in Capturing
  PROVE  /\ AfterCapture \in {"idle", "adoptactive", "resetpark"}
         /\ AfterCapture = "adoptactive" => cmd.op = "adopt"
         /\ AfterCapture = "resetpark" => cmd.op \in {"activate", "try", "rollback"}
  BY DEF AfterCapture, IInv, CommandInv

LEMMA CapturedInv ==
  ASSUME IInv, pc \in Capturing, Step(pc, AfterCapture), UNCHANGED <<dbVars, worldVars>>,
         VaultTypes', Grown, UNCHANGED liveVars,
         \A f \in Files : live[f] # 0 => live[f] \in forfeit \cup StampsOf(branch'[Slug[cmd.out]])
  PROVE  IInv' /\ Kept \subseteq Kept'
<1>1. /\ AfterCapture \in {"idle", "adoptactive", "resetpark"} /\ AfterCapture \in Labels
      /\ pc \in Labels
  BY AfterCaptureLabels DEF Labels, IInv, ManagerTypes
<1>2. /\ pc' = AfterCapture
      /\ IF AfterCapture = "idle" THEN cmd' = Idle ELSE cmd' = cmd
      /\ ManagerTypes' /\ UNCHANGED <<profiles, active, forfeit>>
  BY <1>1, Stepped
<1>3. ParkInv' /\ Kept \subseteq Kept'
  BY <1>2, GrownKeeps
<1>4. CASE AfterCapture = "idle"
  BY <1>2, <1>3, <1>4, IdleInv DEF IInv
<1>5. CASE AfterCapture # "idle"
  <2>1. CommandInv'
    BY <1>1, <1>2, <1>5, AfterCaptureLabels DEF IInv, CommandInv, Capturing, Parking, Deploying
  <2>2. LiveInv'
    BY <1>1, <1>2, <1>5 DEF LiveInv, Capturing, Parking, Deploying, liveVars, History
  <2> QED
    BY <1>2, <1>3, <2>1, <2>2 DEF IInv
<1> QED
  BY <1>4, <1>5

LEMMA CaptureCopyInv ==
  ASSUME IInv, CaptureCopy
  PROVE  IInv' /\ Kept \subseteq Kept'
<1>1. /\ Step("copyin", IF live = Empty THEN AfterCapture ELSE "stage")
      /\ CopyIn /\ UNCHANGED <<dbVars, worldVars>>
  BY DEF CaptureCopy
<1>2. pc = "copyin"
  BY <1>1 DEF Step
<1>3. /\ live \in Tree /\ work \in Tree /\ work' = Overlay(work, live)
      /\ UNCHANGED <<branch, head, tracked, liveVars>>
  BY <1>1 DEF CopyIn, IInv, VaultTypes
<1>4. VaultTypes' /\ Grown
  BY <1>3, OverlayTyped DEF IInv, VaultTypes, Grown, History, liveVars
<1>5. CASE live = Empty
  <2>1. \A f \in Files : live[f] = 0
    BY <1>5 DEF Empty
  <2>2. Step(pc, AfterCapture) /\ pc \in Capturing
    BY <1>1, <1>2, <1>5 DEF Capturing
  <2> QED
    BY <1>1, <1>3, <1>4, <2>1, <2>2, CapturedInv
<1>6. CASE live # Empty
  <2>1. /\ pc' = "stage" /\ cmd' = cmd /\ ManagerTypes'
        /\ UNCHANGED <<profiles, active, forfeit>>
    BY <1>1, <1>6, Stepped DEF Labels
  <2>2. CommandInv'
    BY <1>2, <2>1 DEF IInv, CommandInv, Capturing, Parking, Deploying
  <2>3. LiveInv'
    <3>1. head' = Slug[cmd'.out]
      BY <1>2, <1>3, <2>1 DEF IInv, LiveInv, Capturing
    <3>2. \A f \in Files : live'[f] # 0 => work'[f] = live'[f]
      BY <1>3, OverlayTyped DEF liveVars
    <3> QED
      BY <2>1, <3>1, <3>2 DEF LiveInv, Capturing, Parking, Deploying
  <2> QED
    BY <1>3, <1>4, <2>1, <2>2, <2>3, GrownKeeps DEF IInv
<1> QED
  BY <1>5, <1>6

LEMMA CaptureStageInv ==
  ASSUME IInv, CaptureStage
  PROVE  IInv' /\ Kept \subseteq Kept'
<1>1. Step("stage", "commit") /\ StageAll /\ UNCHANGED <<dbVars, worldVars>>
  BY DEF CaptureStage
<1>2. /\ pc = "stage" /\ pc' = "commit" /\ cmd' = cmd /\ ManagerTypes'
      /\ UNCHANGED <<profiles, active, forfeit>>
  BY <1>1, Stepped DEF Labels
<1>3. /\ tracked' = Names(work) /\ UNCHANGED <<branch, head, work, liveVars>>
  BY <1>1 DEF StageAll
<1>4. VaultTypes' /\ Grown
  BY <1>3, StampsTyped DEF IInv, VaultTypes, Grown, History, liveVars
<1>5. CommandInv'
  BY <1>2 DEF IInv, CommandInv, Capturing, Parking, Deploying
<1>6. LiveInv'
  BY <1>2, <1>3 DEF IInv, LiveInv, Capturing, Parking, Deploying, liveVars
<1> QED
  BY <1>2, <1>3, <1>4, <1>5, <1>6, GrownKeeps DEF IInv

LEMMA CaptureCommitInv ==
  ASSUME IInv, CaptureCommit
  PROVE  IInv' /\ Kept \subseteq Kept'
<1>1. Step("commit", AfterCapture) /\ CommitStaged(cmd.fp) /\ UNCHANGED <<dbVars, worldVars>>
  BY DEF CaptureCommit
<1>2. pc = "commit" /\ pc \in Capturing
  BY <1>1 DEF Step, Capturing
<1>3. cmd.fp \in Prints
  BY DEF IInv, ManagerTypes, Command
<1>4. /\ VaultTypes' /\ Grown /\ UNCHANGED <<work, head, liveVars>>
      /\ Stamps(work) \subseteq History(head)'
  BY <1>1, <1>3, CommitKeeps DEF IInv
<1>5. \A f \in Files : live[f] # 0 => live[f] \in forfeit \cup StampsOf(branch'[Slug[cmd.out]])
  <2>1. head = Slug[cmd.out] /\ head' = head
    BY <1>2, <1>4 DEF IInv, LiveInv, Capturing
  <2>2. Stamps(work) \subseteq StampsOf(branch'[Slug[cmd.out]])
    BY <1>4, <2>1 DEF History
  <2>3. \A f \in Files : live[f] # 0 => live[f] \in forfeit \/ work[f] = live[f]
    BY <1>2 DEF IInv, LiveInv
  <2>4. work \in Tree
    BY DEF IInv, VaultTypes
  <2> QED
    BY <2>2, <2>3, <2>4, StampsTyped
<1> QED
  BY <1>1, <1>2, <1>4, <1>5, CapturedInv

LEMMA DeployInv ==
  ASSUME IInv, Deploy
  PROVE  IInv' /\ Kept \subseteq Kept'
<1>1. Step("deploy", "clear") /\ CheckoutBranch(cmd.target) /\ UNCHANGED <<dbVars, worldVars>>
  BY DEF Deploy
<1>2. /\ pc = "deploy" /\ pc' = "clear" /\ cmd' = cmd /\ ManagerTypes'
      /\ UNCHANGED <<profiles, active, forfeit>>
  BY <1>1, Stepped DEF Labels
<1>3. cmd.target \in Profiles
  BY <1>2 DEF IInv, CommandInv, ManagerTypes
<1>4. VaultTypes' /\ Grown /\ UNCHANGED liveVars
  BY <1>1, <1>3, CheckoutKeeps DEF IInv
<1>5. CommandInv'
  BY <1>2 DEF IInv, CommandInv, Capturing, Parking, Deploying
<1>6. LiveInv'
  BY <1>2, <1>4 DEF IInv, LiveInv, Capturing, Parking, Deploying, liveVars
<1> QED
  BY <1>2, <1>4, <1>5, <1>6, GrownKeeps DEF IInv

LEMMA ForkSavesInv ==
  ASSUME IInv, ForkSaves
  PROVE  IInv' /\ Kept \subseteq Kept'
<1>1. /\ pc = "fork" /\ pc' = "idle" /\ cmd' = Idle /\ todo' = {}
      /\ ForkBranch(cmd.out, cmd.target)
      /\ UNCHANGED <<profiles, active, rows, watching, author, forfeit, crashes>>
  BY DEF ForkSaves, End, dbVars, worldVars
<1>2. cmd.out \in Profiles /\ cmd.target \in Profiles
  BY <1>1 DEF IInv, CommandInv, ManagerTypes
<1>3. VaultTypes' /\ Grown /\ UNCHANGED liveVars
  BY <1>1, <1>2, ForkKeeps DEF IInv
<1>4. ManagerTypes'
  BY <1>1, IdleTyped DEF IInv, ManagerTypes, Labels
<1> QED
  BY <1>1, <1>3, <1>4, IdleInv, GrownKeeps DEF IInv

LEMMA WatchCaptureInv ==
  ASSUME IInv, WatchCapture
  PROVE  IInv' /\ Kept \subseteq Kept'
<1>1. /\ pc = "idle" /\ watching # None /\ Captured(watching, Fingerprint[watching])
      /\ UNCHANGED <<profiles, active, rows, pc, cmd, todo, watching, author, forfeit, crashes>>
  BY DEF WatchCapture, dbVars, commandVars, worldVars
<1>2. watching \in Profiles /\ Fingerprint[watching] \in Prints
  BY <1>1, ManagerAssumption DEF IInv, ManagerTypes
<1>3. VaultTypes' /\ Grown /\ UNCHANGED liveVars
  BY <1>1, <1>2, CapturedKeeps DEF IInv
<1>4. ManagerTypes'
  BY <1>1 DEF IInv, ManagerTypes
<1>5. cmd' = Idle /\ pc' = "idle"
  BY <1>1 DEF IInv, CommandInv
<1> QED
  BY <1>1, <1>3, <1>4, <1>5, IdleInv, GrownKeeps DEF IInv

-----------------------------------------------------------------------------
(* Steps of the save directory *)

\* A parked directory goes when its saves are in the branch.
LEMMA KeptIs ==
  ASSUME NEW s
  PROVE  /\ s \in Kept <=> \/ s \in Stamps(live)
                           \/ \E p \in Profiles : s \in Stamps(parked[p])
                           \/ \E b \in Branches : s \in StampsOf(branch[b])
         /\ s \in Kept' <=> \/ s \in Stamps(live')
                            \/ \E p \in Profiles : s \in Stamps(parked'[p])
                            \/ \E b \in Branches : s \in StampsOf(branch'[b])
  BY DEF Kept, History

\* What is parked is in a branch already.
LEMMA ParkedKept ==
  ASSUME ParkInv, branch' = branch, NEW p \in Profiles, NEW s \in Stamps(parked[p]),
         s \notin forfeit
  PROVE  s \in Kept'
<1>1. s \in StampsOf(branch[Slug[p]]) /\ Slug[p] \in Branches
  BY SlugBranch DEF ParkInv, History
<1>2. \E b \in Branches : s \in StampsOf(branch'[b])
  BY <1>1
<1> QED
  BY <1>2, KeptIs

LEMMA ParkResetInv ==
  ASSUME IInv, ParkReset
  PROVE  IInv' /\ Kept \ forfeit \subseteq Kept'
<1>1. /\ pc = "resetpark" /\ pc' = "park" /\ cmd' = cmd /\ todo' = Names(live)
      /\ parked' = [parked EXCEPT ![cmd.out] = Empty] /\ meta' = TRUE
      /\ UNCHANGED <<live, branch, head, work, tracked>>
      /\ UNCHANGED <<profiles, active, rows, watching, author, forfeit, crashes>>
  BY DEF ParkReset, ResetPark, gitVars, dbVars, worldVars
<1>2. cmd.out \in Profiles /\ live \in Tree /\ parked \in [Profiles -> Tree]
  BY <1>1 DEF IInv, CommandInv, ManagerTypes, VaultTypes, Parking
<1>3. /\ parked' \in [Profiles -> Tree] /\ parked'[cmd.out] = Empty
      /\ \A p \in Profiles : p # cmd.out => parked'[p] = parked[p]
  BY <1>1, <1>2, EmptyTree
<1>4. VaultTypes'
  BY <1>1, <1>3 DEF IInv, VaultTypes
<1>5. ManagerTypes'
  BY <1>1, <1>2, StampsTyped DEF IInv, ManagerTypes, Labels
<1>6. CommandInv'
  BY <1>1 DEF IInv, CommandInv, Capturing, Parking, Deploying
<1>7. LiveInv'
  <2>1. \A f \in Files : live[f] # 0 => f \in Names(live)
    BY DEF Names
  <2> QED
    BY <1>1, <2>1 DEF IInv, LiveInv, Capturing, Parking, Deploying, History
<1>8. ParkInv'
  BY <1>1, <1>2, <1>3, EmptyTree DEF IInv, ParkInv, History
<1>9. Kept \ forfeit \subseteq Kept'
  <2> SUFFICES ASSUME NEW s \in Kept, s \notin forfeit PROVE s \in Kept'
    OBVIOUS
  <2>1. CASE s \in Stamps(live) \/ \E b \in Branches : s \in StampsOf(branch[b])
    BY <1>1, <2>1, KeptIs
  <2>2. ASSUME NEW p \in Profiles, s \in Stamps(parked[p]) PROVE s \in Kept'
    BY <1>1, <2>2, ParkedKept DEF IInv
  <2> QED
    BY <2>1, <2>2, KeptIs
<1> QED
  BY <1>4, <1>5, <1>6, <1>7, <1>8, <1>9 DEF IInv

\* A file is parked when the branch has it.
LEMMA ParkFileInv ==
  ASSUME IInv, NEW f \in todo, pc = "park", pc' = "park", cmd' = cmd, ParkFile(cmd.out, f),
         todo' = todo \ {f}, UNCHANGED <<dbVars, worldVars>>
  PROVE  /\ IInv' /\ Kept \ forfeit \subseteq Kept'
         /\ \A p \in Profiles :
              Stamps(parked'[p]) \ Stamps(parked[p]) \subseteq History(Slug[p]) \cup forfeit
<1> DEFINE t == [parked[cmd.out] EXCEPT ![f] = IF live[f] # 0 THEN live[f] ELSE parked[cmd.out][f]]
<1>1. /\ cmd.out \in Profiles /\ live \in Tree /\ parked \in [Profiles -> Tree]
      /\ todo \subseteq Files /\ f \in Files /\ parked[cmd.out] \in Tree
  BY DEF IInv, CommandInv, ManagerTypes, VaultTypes, Parking
<1>2. /\ parked' = [parked EXCEPT ![cmd.out] = t] /\ live' = [live EXCEPT ![f] = 0]
      /\ UNCHANGED <<meta, branch, head, work, tracked>>
      /\ UNCHANGED <<profiles, active, rows, watching, author, forfeit, crashes>>
  BY <1>1 DEF ParkFile, gitVars, dbVars, worldVars, Tree
<1>3. 0 \in Stamp /\ live \in [Files -> Stamp] /\ parked[cmd.out] \in [Files -> Stamp]
  BY <1>1, VaultAssumption DEF Stamp, Tree
<1>4. /\ t \in Tree /\ live' \in Tree
      /\ t[f] = IF live[f] # 0 THEN live[f] ELSE parked[cmd.out][f]
      /\ \A g \in Files : g # f => t[g] = parked[cmd.out][g]
      /\ live'[f] = 0 /\ \A g \in Files : g # f => live'[g] = live[g]
  BY <1>1, <1>2, <1>3 DEF Tree
<1> HIDE DEF t
<1>5. /\ parked' \in [Profiles -> Tree] /\ parked'[cmd.out] = t
      /\ \A p \in Profiles : p # cmd.out => parked'[p] = parked[p]
  BY <1>1, <1>2, <1>4
<1>6. live[f] # 0 => live[f] \in forfeit \cup History(Slug[cmd.out])
  BY <1>1 DEF IInv, LiveInv, Parking
<1>7. \A s \in Stamps(t) : s \in Stamps(parked[cmd.out]) \/ (s = live[f] /\ live[f] # 0)
  BY <1>1, <1>4, StampsTyped
<1>8. VaultTypes'
  BY <1>2, <1>4, <1>5 DEF IInv, VaultTypes
<1>9. ManagerTypes' /\ CommandInv'
  BY <1>2 DEF IInv, ManagerTypes, CommandInv
<1>10. LiveInv'
  BY <1>1, <1>2, <1>4 DEF IInv, LiveInv, Capturing, Parking, Deploying, History
<1>11. ParkInv'
  <2> SUFFICES ASSUME NEW p \in Profiles
               PROVE  Stamps(parked'[p]) \subseteq StampsOf(branch'[Slug[p]]) \cup forfeit'
    BY DEF ParkInv, History
  <2>1. Stamps(parked[p]) \subseteq StampsOf(branch[Slug[p]]) \cup forfeit
    BY DEF IInv, ParkInv, History
  <2>2. CASE p # cmd.out
    BY <1>2, <1>5, <2>1, <2>2
  <2>3. CASE p = cmd.out
    BY <1>2, <1>5, <1>6, <1>7, <2>1, <2>3 DEF History
  <2> QED
    BY <2>2, <2>3
<1>12. Kept \ forfeit \subseteq Kept'
  <2> SUFFICES ASSUME NEW s \in Kept, s \notin forfeit PROVE s \in Kept'
    OBVIOUS
  <2>1. CASE \E b \in Branches : s \in StampsOf(branch[b])
    BY <1>2, <2>1, KeptIs
  <2>2. ASSUME NEW p \in Profiles, s \in Stamps(parked[p]) PROVE s \in Kept'
    BY <1>2, <2>2, ParkedKept DEF IInv
  <2>3. CASE s \in Stamps(live)
    <3>1. PICK g \in Files : live[g] # 0 /\ live[g] = s
      BY <1>1, <2>3, StampsTyped
    <3>2. CASE g = f
      <4>1. t[f] = s /\ t[f] # 0
        BY <1>4, <3>1, <3>2
      <4>2. s \in Stamps(parked'[cmd.out])
        BY <1>1, <1>4, <1>5, <4>1, StampsTyped
      <4> QED
        BY <1>1, <4>2, KeptIs
    <3>3. CASE g # f
      <4>1. s \in Stamps(live')
        BY <1>4, <3>1, <3>3, StampsTyped
      <4> QED
        BY <4>1, KeptIs
    <3> QED
      BY <3>2, <3>3
  <2> QED
    BY <2>1, <2>2, <2>3, KeptIs
<1>13. \A p \in Profiles :
          Stamps(parked'[p]) \ Stamps(parked[p]) \subseteq History(Slug[p]) \cup forfeit
  BY <1>5, <1>6, <1>7
<1> QED
  BY <1>8, <1>9, <1>10, <1>11, <1>12, <1>13 DEF IInv

\* Parking is over when what is left was written meanwhile.
LEMMA ParkInvStep ==
  ASSUME IInv, Park
  PROVE  /\ IInv' /\ Kept \ forfeit \subseteq Kept'
         /\ \A p \in Profiles :
              Stamps(parked'[p]) \ Stamps(parked[p]) \subseteq History(Slug[p]) \cup forfeit
<1>1. pc = "park" /\ cmd' = cmd /\ UNCHANGED <<dbVars, worldVars>>
  BY DEF Park
<1>2. ASSUME NEW f \in todo, ParkFile(cmd.out, f), todo' = todo \ {f}, UNCHANGED pc
      PROVE  /\ IInv' /\ Kept \ forfeit \subseteq Kept'
             /\ \A p \in Profiles :
                  Stamps(parked'[p]) \ Stamps(parked[p]) \subseteq History(Slug[p]) \cup forfeit
  BY <1>1, <1>2, ParkFileInv
<1>3. CASE todo = {} /\ pc' = "deploy" /\ UNCHANGED <<todo, vaultVars>>
  <2>1. UNCHANGED <<profiles, active, rows, watching, author, forfeit, crashes, live, parked>>
    BY <1>1, <1>3 DEF dbVars, worldVars, vaultVars, liveVars
  <2>2. ManagerTypes'
    BY <1>1, <1>3, <2>1 DEF IInv, ManagerTypes, Labels
  <2>3. CommandInv'
    BY <1>1, <1>3, <2>1 DEF IInv, CommandInv, Capturing, Parking, Deploying
  <2>4. LiveInv'
    BY <1>1, <1>3, <2>1 DEF IInv, LiveInv, Capturing, Parking, Deploying
  <2> QED
    BY <1>3, <2>1, <2>2, <2>3, <2>4, Quiet DEF IInv
<1> QED
  BY <1>2, <1>3 DEF Park

\* What a clearing deletes, the game wrote while the command ran, or a restore gave up.
LEMMA ClearInv ==
  ASSUME IInv, Clear
  PROVE  IInv' /\ Kept \ forfeit \subseteq Kept'
<1>1. /\ pc = "clear" /\ pc' = "copyout" /\ cmd' = cmd /\ todo' = Names(work) /\ live' = Empty
      /\ UNCHANGED <<parked, meta, branch, head, work, tracked>>
      /\ UNCHANGED <<profiles, active, rows, watching, author, forfeit, crashes>>
  BY DEF Clear, ClearLive, gitVars, dbVars, worldVars
<1>2. VaultTypes'
  BY <1>1, EmptyTree DEF IInv, VaultTypes
<1>3. ManagerTypes'
  <2>1. todo' \subseteq Files
    BY <1>1, StampsTyped DEF IInv, VaultTypes
  <2> QED
    BY <1>1, <2>1 DEF IInv, ManagerTypes, Labels
<1>4. CommandInv'
  BY <1>1 DEF IInv, CommandInv, Capturing, Parking, Deploying
<1>5. LiveInv'
  <2>1. \A f \in Files : live'[f] = 0
    BY <1>1 DEF Empty
  <2>2. todo' \subseteq Files
    BY <1>3 DEF ManagerTypes
  <2> QED
    BY <1>1, <2>1, <2>2 DEF LiveInv, Capturing, Parking, Deploying
<1>6. ParkInv'
  BY <1>1 DEF IInv, ParkInv, History
<1>7. Stamps(live) \subseteq forfeit
  BY <1>1, StampsTyped DEF IInv, VaultTypes, LiveInv
<1>8. Kept \ forfeit \subseteq Kept'
  BY <1>1, <1>7 DEF Kept, History
<1> QED
  BY <1>2, <1>3, <1>4, <1>5, <1>6, <1>8 DEF IInv

LEMMA CopyOutFileInv ==
  ASSUME IInv, NEW f \in todo, pc = "copyout", CopyOutFile(f), todo' = todo \ {f},
         UNCHANGED <<pc, cmd>>, UNCHANGED <<dbVars, worldVars>>
  PROVE  IInv' /\ Kept \ forfeit \subseteq Kept'
<1>1. /\ live' = [live EXCEPT ![f] = work[f]]
      /\ UNCHANGED <<parked, meta, branch, head, work, tracked>>
      /\ UNCHANGED <<profiles, active, rows, watching, author, forfeit, crashes>>
  BY DEF CopyOutFile, gitVars, dbVars, worldVars
<1>2. live \in Tree /\ work \in Tree /\ f \in Files /\ todo \subseteq Files
  BY DEF IInv, VaultTypes, ManagerTypes
<1>3. live' \in Tree /\ \A g \in Files : g # f => live'[g] = live[g]
  BY <1>1, <1>2 DEF Tree
<1>4. VaultTypes'
  BY <1>1, <1>3 DEF IInv, VaultTypes
<1>5. ManagerTypes' /\ CommandInv'
  BY <1>1 DEF IInv, ManagerTypes, CommandInv
<1>6. LiveInv'
  BY <1>1, <1>2, <1>3 DEF IInv, LiveInv, Capturing, Parking, Deploying
<1>7. ParkInv'
  BY <1>1 DEF IInv, ParkInv, History
<1>8. Stamps(live) \ forfeit \subseteq Stamps(live')
  <2>1. live[f] # 0 => live[f] \in forfeit
    BY DEF IInv, LiveInv
  <2> SUFFICES ASSUME NEW s \in Stamps(live), s \notin forfeit PROVE s \in Stamps(live')
    OBVIOUS
  <2>2. PICK g \in Files : live[g] # 0 /\ live[g] = s
    BY <1>2, StampsTyped
  <2> QED
    BY <1>3, <2>1, <2>2, StampsTyped
<1>9. Kept \ forfeit \subseteq Kept'
  BY <1>1, <1>8 DEF Kept, History
<1> QED
  BY <1>4, <1>5, <1>6, <1>7, <1>9 DEF IInv

LEMMA CopyOutInv ==
  ASSUME IInv, CopyOut
  PROVE  IInv' /\ Kept \ forfeit \subseteq Kept'
<1>1. UNCHANGED <<dbVars, worldVars>>
  BY DEF CopyOut
<1>2. ASSUME NEW f \in todo, pc = "copyout", CopyOutFile(f), todo' = todo \ {f},
             UNCHANGED <<pc, cmd>>
      PROVE  IInv' /\ Kept \ forfeit \subseteq Kept'
  BY <1>1, <1>2, CopyOutFileInv
<1>3. CASE cmd.op = "restore" /\ End("copyout") /\ UNCHANGED vaultVars
  <2>1. /\ UNCHANGED <<profiles, active, rows, watching, author, forfeit, crashes>>
        /\ active' \in profiles \cup {None} /\ crashes' \in 0..MaxCrashes
    BY <1>1 DEF dbVars, worldVars, IInv, ManagerTypes
  <2> QED
    BY <1>3, <2>1, EndInv, Quiet DEF Labels
<1>4. CASE cmd.op # "restore" /\ Step("copyout", "setactive") /\ UNCHANGED vaultVars
  <2>1. /\ pc = "copyout" /\ pc' = "setactive" /\ cmd' = cmd /\ ManagerTypes'
        /\ UNCHANGED <<profiles, active, forfeit>>
    BY <1>1, <1>4, Stepped DEF Labels
  <2>2. CommandInv' /\ LiveInv'
    BY <1>4, <2>1 DEF IInv, CommandInv, LiveInv, Capturing, Parking, Deploying
  <2> QED
    BY <1>4, <2>1, <2>2, Quiet DEF IInv
<1> QED
  BY <1>2, <1>3, <1>4 DEF CopyOut

\* A restore gives up what it says, and nothing else.
LEMMA RestoreInv ==
  ASSUME IInv, NEW p \in Profiles, Restore(p)
  PROVE  IInv' /\ Kept \ forfeit' \subseteq Kept'
<1> DEFINE b == Slug[p]
<1>1. /\ p \in profiles /\ Start("restore", "clear", p, None, NoFp)
      /\ UNCHANGED <<profiles, active, rows, watching, author, crashes>>
  BY DEF Restore, dbVars
<1>2. b \in Branches /\ branch \in [Branches -> Seq(Commit)] /\ live \in Tree
  BY SlugBranch DEF IInv, VaultTypes
<1>3. PICK c \in Branches : \E k \in DOMAIN branch[c] :
         /\ ResetBranch(p, SubSeq(branch[c], 1, k))
         /\ forfeit' = forfeit \cup Stamps(live)
                         \cup (History(b) \ StampsOf(SubSeq(branch[c], 1, k)))
  BY <1>2 DEF Restore
<1>4. PICK k \in DOMAIN branch[c] :
         /\ ResetBranch(p, SubSeq(branch[c], 1, k))
         /\ forfeit' = forfeit \cup Stamps(live)
                         \cup (History(b) \ StampsOf(SubSeq(branch[c], 1, k)))
  BY <1>3
<1> DEFINE h == SubSeq(branch[c], 1, k)
           t == TipOf(h)
<1>5. h \in Seq(Commit) /\ h # <<>>
  <2>1. k \in Int /\ 1 \in Int /\ k >= 1 /\ \A i \in 1..k : branch[c][i] \in Commit
    BY <1>2, <1>4
  <2>2. h \in Seq(Commit) /\ Len(h) = k
    BY <2>1, SubSeqProperties
  <2> QED
    BY <2>1, <2>2
<1>6. t \in Tree /\ Materialized(t) \in Tree /\ Names(t) \subseteq Files
  BY <1>5, TipTyped, MaterializedTyped, StampsTyped DEF IInv
<1>7. /\ branch' = [branch EXCEPT ![b] = h] /\ head' = b /\ tracked' = Names(t)
      /\ work' = [f \in Files |-> IF t[f] # 0 \/ f \in Names(TipOf(Ensured(b)[b])) THEN t[f]
                                  ELSE Materialized(t)[f]]
      /\ UNCHANGED <<live, parked, meta>>
  BY <1>4 DEF ResetBranch, liveVars
<1>8. forfeit' = forfeit \cup Stamps(live) \cup (History(b) \ StampsOf(h))
  BY <1>4
<1> HIDE DEF h, t, b
<1>9. /\ branch' \in [Branches -> Seq(Commit)] /\ branch'[b] = h
      /\ \A d \in Branches : d # b => branch'[d] = branch[d]
  BY <1>2, <1>5, <1>7
<1>10. VaultTypes'
  <2>1. work' \in Tree
    BY <1>6, <1>7 DEF Tree
  <2> QED
    BY <1>2, <1>5, <1>6, <1>7, <1>9, <2>1 DEF IInv, VaultTypes
<1>11. /\ pc' = "clear" /\ todo' = {} /\ cmd' \in Command /\ cmd'.op = "restore"
       /\ cmd'.target = p
  BY <1>1, Started, VaultAssumption DEF Commands, Labels
<1>12. forfeit' \subseteq 1..MaxStamp
  <2>1. Stamps(live) \subseteq 1..MaxStamp /\ History(b) \subseteq 1..MaxStamp
    BY <1>2, StampsTyped, HistoryTyped DEF History
  <2> QED
    BY <1>8, <2>1 DEF IInv, ManagerTypes
<1>13. ManagerTypes'
  BY <1>1, <1>11, <1>12 DEF IInv, ManagerTypes, Labels
<1>14. CommandInv'
  BY <1>1, <1>11 DEF CommandInv, Capturing, Parking, Deploying
<1>15. LiveInv'
  <2>1. \A f \in Files : live'[f] # 0 => live'[f] \in forfeit'
    BY <1>2, <1>7, <1>8, StampsTyped
  <2> QED
    BY <1>11, <2>1 DEF LiveInv, Capturing, Parking, Deploying
<1>16. ASSUME NEW d \in Branches PROVE History(d) \subseteq StampsOf(branch'[d]) \cup forfeit'
  BY <1>8, <1>9 DEF History
<1>17. ParkInv'
  <2> SUFFICES ASSUME NEW q \in Profiles
               PROVE  Stamps(parked[q]) \subseteq StampsOf(branch'[Slug[q]]) \cup forfeit'
    BY <1>7 DEF ParkInv, History
  <2>1. Stamps(parked[q]) \subseteq History(Slug[q]) \cup forfeit
    BY DEF IInv, ParkInv
  <2> QED
    BY <1>8, <1>16, <2>1, SlugBranch
<1>18. Kept \ forfeit' \subseteq Kept'
  <2> SUFFICES ASSUME NEW s \in Kept, s \notin forfeit' PROVE s \in Kept'
    OBVIOUS
  <2>1. CASE \E d \in Branches : s \in StampsOf(branch[d])
    BY <1>16, <2>1, KeptIs DEF History
  <2> QED
    BY <1>7, <2>1, KeptIs
<1> QED
  BY <1>10, <1>13, <1>14, <1>15, <1>17, <1>18 DEF IInv

-----------------------------------------------------------------------------
(* The game *)

LEMMA GameWriteInv ==
  ASSUME IInv, NEW f \in Files, GameWrite(f)
  PROVE  IInv'
<1> DEFINE s == Len(author) + 1
<1>1. /\ s <= MaxStamp /\ live' = [live EXCEPT ![f] = s] /\ author' = Append(author, active)
      /\ forfeit' = IF pc = "idle" THEN forfeit ELSE forfeit \cup {s}
      /\ UNCHANGED <<branch, head, work, tracked, parked, meta, profiles, active, rows,
                     pc, cmd, todo, watching, crashes>>
  BY DEF GameWrite, gitVars, dbVars, commandVars
<1>2. /\ author \in Seq(Profiles \cup {None}) /\ active \in Profiles \cup {None}
      /\ live \in Tree /\ forfeit \subseteq 1..MaxStamp
  BY DEF IInv, ManagerTypes, VaultTypes
<1>3. s \in 1..MaxStamp
  BY <1>1, <1>2, VaultAssumption
<1>4. author' \in Seq(Profiles \cup {None}) /\ Len(author') = s
  BY <1>1, <1>2
<1> HIDE DEF s
<1>5. live' \in Tree /\ live'[f] = s /\ \A g \in Files : g # f => live'[g] = live[g]
  BY <1>1, <1>2, <1>3, VaultAssumption DEF Tree, Stamp
<1>6. VaultTypes'
  BY <1>1, <1>5 DEF IInv, VaultTypes
<1>7. ManagerTypes' /\ CommandInv'
  BY <1>1, <1>3, <1>4 DEF IInv, ManagerTypes, CommandInv
<1>8. forfeit \subseteq forfeit' /\ (pc # "idle" => s \in forfeit')
  BY <1>1
<1>9. LiveInv'
  <2>1. CASE pc = "idle"
    BY <1>1, <2>1 DEF LiveInv, Capturing, Parking, Deploying
  <2>2. CASE pc # "idle"
    <3>1. todo \subseteq Files
      BY DEF IInv, ManagerTypes
    <3> QED
      BY <1>1, <1>5, <1>8, <2>2, <3>1 DEF IInv, LiveInv, History
  <2> QED
    BY <2>1, <2>2
<1>10. ParkInv'
  BY <1>1, <1>8 DEF IInv, ParkInv, History
<1> QED
  BY <1>6, <1>7, <1>9, <1>10 DEF IInv

LEMMA GameDeleteInv ==
  ASSUME IInv, NEW f \in Files, GameDelete(f)
  PROVE  IInv'
<1>1. /\ live' = [live EXCEPT ![f] = 0]
      /\ UNCHANGED <<branch, head, work, tracked, parked, meta, profiles, active, rows,
                     pc, cmd, todo, watching, author, forfeit, crashes>>
  BY DEF GameDelete, gitVars, dbVars, commandVars, worldVars
<1>2. live' \in Tree /\ live'[f] = 0 /\ \A g \in Files : g # f => live'[g] = live[g]
  BY <1>1, VaultAssumption DEF IInv, VaultTypes, Tree, Stamp
<1>3. VaultTypes'
  BY <1>1, <1>2 DEF IInv, VaultTypes
<1>4. ManagerTypes' /\ CommandInv'
  BY <1>1 DEF IInv, ManagerTypes, CommandInv
<1>5. LiveInv'
  BY <1>1, <1>2 DEF IInv, LiveInv, History, ManagerTypes
<1>6. ParkInv'
  BY <1>1 DEF IInv, ParkInv, History
<1> QED
  BY <1>3, <1>4, <1>5, <1>6 DEF IInv

-----------------------------------------------------------------------------
(* Every step *)

LEMMA InitInv ==
  ASSUME Init
  PROVE  IInv
<1>1. /\ live = Empty /\ work = Empty /\ meta = FALSE /\ head = Main /\ tracked = {}
      /\ parked = [p \in Profiles |-> Empty]
      /\ branch = [b \in Branches |-> IF b = Main THEN <<[tree |-> Empty, fp |-> NoFp]>> ELSE <<>>]
      /\ profiles = Profiles /\ active = None /\ rows = <<>> /\ pc = "idle" /\ cmd = Idle
      /\ todo = {} /\ watching = None /\ author = <<>> /\ forfeit = {} /\ crashes = 0
  BY DEF Init, VaultInit
<1>2. [tree |-> Empty, fp |-> NoFp] \in Commit
  BY EmptyTree, VaultAssumption DEF Commit
<1>3. Main \in Branches
  BY DEF Branches
<1>4. branch \in [Branches -> Seq(Commit)] /\ branch[Main] # <<>>
  BY <1>1, <1>2, <1>3
<1>5. parked \in [Profiles -> Tree] /\ \A p \in Profiles : Stamps(parked[p]) = {}
  BY <1>1, EmptyTree
<1>6. VaultTypes
  BY <1>1, <1>3, <1>4, <1>5, EmptyTree DEF VaultTypes
<1>7. ManagerTypes
  BY <1>1, IdleTyped, VaultAssumption, ManagerAssumption DEF ManagerTypes, Labels
<1>8. CommandInv /\ LiveInv
  BY <1>1 DEF CommandInv, LiveInv, Capturing, Parking, Deploying
<1>9. ParkInv
  BY <1>5 DEF ParkInv
<1> QED
  BY <1>6, <1>7, <1>8, <1>9 DEF IInv

\* Steps that leave saves and branches as they are.
QuietStep ==
    \/ \E p \in Profiles : CreateProfile(p) \/ DeleteProfile(p) \/ Activate(p) \/ Try(p)
                           \/ Adopt(p) \/ SaveCapture(p)
    \/ \E p, new \in Profiles : Fork(p, new)
    \/ Push \/ Rollback \/ RollbackCurrent \/ SetActive \/ CommitExperiment \/ AdoptActive
    \/ WatchStart \/ WatchStop \/ Crash

\* Steps that add to branches, or move saves about the live directory.
VaultStep ==
    \/ ForkSaves \/ Capture \/ CaptureCopy \/ CaptureStage \/ CaptureCommit
    \/ ParkReset \/ Park \/ Deploy \/ Clear \/ CopyOut \/ WatchCapture

LEMMA QuietInv ==
  ASSUME IInv, QuietStep
  PROVE  IInv' /\ UNCHANGED <<vaultVars, forfeit>>
<1>1. IInv'
  BY CreateProfileInv, DeleteProfileInv, ActivateInv, TryInv, AdoptInv, SaveCaptureInv, ForkInv,
     PushInv, RollbackInv, RollbackCurrentInv, SetActiveInv, CommitExperimentInv, AdoptActiveInv,
     WatchInv, CrashInv DEF QuietStep
<1>2. UNCHANGED <<vaultVars, forfeit>>
  <2>1. ASSUME NEW p \in Profiles, CreateProfile(p) \/ DeleteProfile(p) \/ Activate(p)
        PROVE  UNCHANGED <<vaultVars, forfeit>>
    BY <2>1 DEF CreateProfile, DeleteProfile, Restack, Activate, worldVars
  <2>2. ASSUME NEW p \in Profiles, Try(p) \/ Adopt(p) \/ SaveCapture(p)
        PROVE  UNCHANGED <<vaultVars, forfeit>>
    BY <2>2 DEF Try, Adopt, SaveCapture, worldVars
  <2>3. ASSUME NEW p \in Profiles, NEW q \in Profiles, Fork(p, q)
        PROVE  UNCHANGED <<vaultVars, forfeit>>
    BY <2>3 DEF Fork, worldVars
  <2>4. CASE Push \/ Rollback \/ RollbackCurrent \/ SetActive \/ CommitExperiment \/ AdoptActive
    BY <2>4 DEF Push, Rollback, RollbackCurrent, SetActive, CommitExperiment, AdoptActive, Restack,
                worldVars
  <2>5. CASE WatchStart \/ WatchStop \/ Crash
    BY <2>5 DEF WatchStart, WatchStop, Crash
  <2> QED
    BY <2>1, <2>2, <2>3, <2>4, <2>5 DEF QuietStep
<1> QED
  BY <1>1, <1>2

LEMMA VaultStepInv ==
  ASSUME IInv, VaultStep
  PROVE  IInv' /\ forfeit' = forfeit /\ Kept \ forfeit' \subseteq Kept'
<1>1. forfeit' = forfeit
  BY DEF VaultStep, ForkSaves, Capture, CaptureCopy, CaptureStage, CaptureCommit, ParkReset, Park,
         Deploy, Clear, CopyOut, WatchCapture, worldVars
<1>2. CASE ForkSaves \/ Capture \/ CaptureCopy \/ CaptureStage \/ CaptureCommit \/ Deploy
           \/ WatchCapture
  <2>1. IInv' /\ Kept \subseteq Kept'
    BY <1>2, ForkSavesInv, CaptureInv, CaptureCopyInv, CaptureStageInv, CaptureCommitInv, DeployInv,
       WatchCaptureInv
  <2> QED
    BY <1>1, <2>1
<1>3. CASE ParkReset \/ Park \/ Clear \/ CopyOut
  <2>1. IInv' /\ Kept \ forfeit \subseteq Kept'
    BY <1>3, ParkResetInv, ParkInvStep, ClearInv, CopyOutInv
  <2> QED
    BY <1>1, <2>1
<1> QED
  BY <1>2, <1>3 DEF VaultStep

LEMMA Steps ==
  ASSUME [Next]_vars
  PROVE  \/ QuietStep \/ VaultStep \/ UNCHANGED vars
         \/ \E p \in Profiles : Restore(p)
         \/ \E f \in Files : GameWrite(f) \/ GameDelete(f)
  BY DEF Next, ModdeStep, GameStep, QuietStep, VaultStep

LEMMA NextInv ==
  ASSUME IInv, [Next]_vars
  PROVE  IInv'
<1>1. CASE UNCHANGED vars
  <2>1. UNCHANGED <<vaultVars, profiles, active, rows, pc, cmd, todo, watching, author, forfeit, crashes>>
    BY <1>1 DEF vars, dbVars, commandVars, worldVars
  <2>2. ManagerTypes' /\ CommandInv'
    BY <2>1 DEF IInv, ManagerTypes, CommandInv
  <2>3. LiveInv'
    BY <2>1 DEF IInv, LiveInv, History, vaultVars, gitVars, liveVars
  <2> QED
    BY <2>1, <2>2, <2>3, Quiet DEF IInv
<1> QED
  BY <1>1, Steps, QuietInv, VaultStepInv, RestoreInv, GameWriteInv, GameDeleteInv

LEMMA Invariance ==
  Spec => []IInv
<1>1. Init => IInv
  BY InitInv
<1>2. IInv /\ [Next]_vars => IInv'
  BY NextInv
<1> QED
  BY <1>1, <1>2, PTL DEF Spec

\* The depths of the stack follow the places of its rows.
StackInv == lost \in 0..2 /\ DepthsFollow

\* What a stack that becomes r leaves behind.
LEMMA Restacked ==
  ASSUME StackInv, NEW r, NEW taken \in Nat, Restack(r, taken)
  PROVE  /\ rows' = r /\ lost' \in 0..2 /\ (r = <<>> => DepthsFollow')
         /\ r # <<>> => (lost' <= 1 => lost + taken <= 1 /\ lost' = lost + taken)
<1>1. /\ rows' = r /\ lost' = IF r = <<>> THEN 0 ELSE IF lost + taken <= 1 THEN lost + taken ELSE 2
  BY DEF Restack
<1>2. lost \in 0..2
  BY DEF StackInv
<1> QED
  BY <1>1, <1>2 DEF DepthsFollow

LEMMA PushFollows ==
  ASSUME IInv, StackInv, Push
  PROVE  StackInv'
<1>1. rows \in Seq(Row) /\ Len(rows) \in Nat
  BY DEF IInv, ManagerTypes
<1> DEFINE row == [profile |-> cmd.out, depth |-> Len(rows)]
<1>2. cmd.out \in Profiles
  BY DEF Push, Step, IInv, CommandInv, ManagerTypes
<1>3. rows' = Append(rows, row) /\ row \in Row /\ row.depth = Len(rows) /\ lost' = lost
  BY <1>1, <1>2 DEF Push, Row, worldVars
<1> HIDE DEF row
<1>4. /\ DOMAIN rows' = 1..(Len(rows) + 1) /\ rows'[Len(rows) + 1] = row
      /\ \A k \in 1..Len(rows) : rows'[k] = rows[k]
  BY <1>1, <1>3
<1>5. ASSUME lost <= 1, NEW k \in 1..(Len(rows) + 1)
      PROVE  rows'[k].depth \in (k - 1)..(k - 1 + lost)
  <2>1. CASE k = Len(rows) + 1
    BY <1>1, <1>3, <1>4, <2>1 DEF StackInv
  <2>2. CASE k # Len(rows) + 1
    <3>1. k \in 1..Len(rows) /\ k \in DOMAIN rows
      BY <1>1, <2>2
    <3> QED
      BY <1>4, <1>5, <3>1 DEF StackInv, DepthsFollow
  <2> QED
    BY <2>1, <2>2
<1> QED
  BY <1>3, <1>4, <1>5 DEF StackInv, DepthsFollow

LEMMA RollbackFollows ==
  ASSUME IInv, StackInv, Rollback
  PROVE  StackInv'
<1>1. rows # <<>> /\ Restack(WithoutRow(TopRow), 0) /\ rows \in Seq(Row) /\ TopRow \in DOMAIN rows
  BY TopExists DEF Rollback, IInv, ManagerTypes
<1> DEFINE r == WithoutRow(TopRow)
<1>2. /\ r \in Seq(Row) /\ Len(r) = Len(rows) - 1
      /\ \A j \in 1..(Len(rows) - 1) : r[j] = IF j < TopRow THEN rows[j] ELSE rows[j + 1]
  BY <1>1, Splicing DEF WithoutRow, Spliced
<1> HIDE DEF r
<1>3. /\ rows' = r /\ lost' \in 0..2 /\ (r = <<>> => DepthsFollow')
      /\ r # <<>> => (lost' <= 1 => lost + 0 <= 1 /\ lost' = lost + 0)
  BY <1>1, Restacked DEF r
<1>4. ASSUME lost' <= 1, r # <<>>, NEW k \in DOMAIN r
      PROVE  rows'[k].depth \in (k - 1)..(k - 1 + lost')
  <2>1. lost \in 0..1 /\ lost' = lost
    BY <1>3, <1>4 DEF StackInv
  <2>2. TopRow = Len(rows)
    BY <1>1, <2>1, TopIsLast DEF StackInv
  <2>3. k \in 1..(Len(rows) - 1) /\ k \in DOMAIN rows /\ k < Len(rows)
    BY <1>1, <1>2
  <2>4. rows'[k] = rows[k]
    BY <1>2, <1>3, <2>2, <2>3
  <2> QED
    BY <2>1, <2>3, <2>4 DEF StackInv, DepthsFollow
<1>5. DepthsFollow'
  BY <1>3, <1>4 DEF DepthsFollow
<1> QED
  BY <1>3, <1>5 DEF StackInv

\* What a deletion leaves of the rows.
LEMMA Cascade ==
  ASSUME IInv, NEW p \in Profiles, DeleteProfile(p)
  PROVE  \E m, f : /\ Picks(rows, {k \in DOMAIN rows : rows[k].profile # p}, m, f)
                  /\ Restack(Picked(rows, m, f), Len(rows) - m)
<1>1. rows \in Seq(Row) /\ Len(rows) \in Nat /\ DOMAIN rows = 1..Len(rows)
  BY DEF IInv, ManagerTypes
<1> DEFINE left == IF Remembered(p) THEN RowsWithout(p) ELSE rows
<1>2. Restack(left, Len(rows) - Len(left))
  BY DEF DeleteProfile
<1>3. \E m, f : /\ Picks(rows, {k \in DOMAIN rows : rows[k].profile # p}, m, f)
               /\ left = Picked(rows, m, f)
  <2>1. CASE Remembered(p)
    BY <1>1, <2>1, RowsWithoutTyped
  <2>2. CASE ~ Remembered(p)
    <3> DEFINE f == [k \in 1..Len(rows) |-> k]
    <3>1. {f[k] : k \in 1..Len(rows)} = {k \in DOMAIN rows : rows[k].profile # p}
      BY <1>1, <2>2 DEF Remembered
    <3>2. Picks(rows, {k \in DOMAIN rows : rows[k].profile # p}, Len(rows), f)
      BY <1>1, <3>1 DEF Picks
    <3>3. rows = Picked(rows, Len(rows), f)
      BY <1>1 DEF Picked
    <3> HIDE DEF f
    <3> QED
      BY <2>2, <3>2, <3>3
  <2> QED
    BY <2>1, <2>2
<1> HIDE DEF left
<1>4. PICK m, f : /\ Picks(rows, {k \in DOMAIN rows : rows[k].profile # p}, m, f)
                  /\ left = Picked(rows, m, f)
  BY <1>3
<1>5. Len(left) = m
  <2>1. m \in Nat /\ DOMAIN left = 1..m
    BY <1>1, <1>4 DEF Picks, Picked
  <2> QED
    BY <2>1, <1>4 DEF Picked
<1> QED
  BY <1>2, <1>4, <1>5

LEMMA DeleteFollows ==
  ASSUME IInv, StackInv, NEW p \in Profiles, DeleteProfile(p)
  PROVE  StackInv'
<1>1. rows \in Seq(Row) /\ Len(rows) \in Nat /\ DOMAIN rows = 1..Len(rows)
      /\ \A k \in DOMAIN rows : rows[k].depth \in Nat
  <2>1. rows \in Seq(Row)
    BY DEF IInv, ManagerTypes
  <2>2. \A k \in DOMAIN rows : rows[k] \in Row
    BY <2>1
  <2> QED
    BY <2>1, <2>2 DEF Row
<1>2. PICK m, f : /\ Picks(rows, {k \in DOMAIN rows : rows[k].profile # p}, m, f)
                  /\ Restack(Picked(rows, m, f), Len(rows) - m)
  BY Cascade
<1> DEFINE r == Picked(rows, m, f)
<1>3. m \in 0..Len(rows) /\ Len(rows) - m \in Nat
  BY <1>1, <1>2 DEF Picks
<1>4. \A k \in 1..m : f[k] \in DOMAIN rows /\ f[k] \in k..(k + (Len(rows) - m))
  BY <1>2 DEF Picks
<1>5. DOMAIN r = 1..m /\ \A k \in 1..m : r[k] = rows[f[k]]
  BY DEF Picked
<1> HIDE DEF r
<1>6. /\ rows' = r /\ lost' \in 0..2 /\ (r = <<>> => DepthsFollow')
      /\ r # <<>> => (lost' <= 1 => /\ lost + (Len(rows) - m) <= 1
                                    /\ lost' = lost + (Len(rows) - m))
  BY <1>2, <1>3, Restacked DEF r
<1>7. ASSUME lost' <= 1, r # <<>>, NEW k \in 1..m
      PROVE  rows'[k].depth \in (k - 1)..(k - 1 + lost')
  <2> DEFINE gone == Len(rows) - m
  <2>1. lost \in 0..1 /\ lost' = lost + gone
    BY <1>3, <1>6, <1>7 DEF StackInv
  <2>2. f[k] \in DOMAIN rows /\ f[k] \in Nat /\ k <= f[k] /\ f[k] <= k + gone
    BY <1>1, <1>4
  <2>3. rows[f[k]].depth \in (f[k] - 1)..(f[k] - 1 + lost)
    BY <2>1, <2>2 DEF StackInv, DepthsFollow
  <2>4. rows'[k] = rows[f[k]]
    BY <1>5, <1>6
  <2> QED
    BY <1>3, <2>1, <2>2, <2>3, <2>4
<1>8. DepthsFollow'
  BY <1>5, <1>6, <1>7 DEF DepthsFollow
<1> QED
  BY <1>6, <1>8 DEF StackInv

LEMMA NextFollows ==
  ASSUME IInv, StackInv, [Next]_vars
  PROVE  StackInv'
<1>2. CASE UNCHANGED <<rows, lost>>
  BY <1>2 DEF StackInv, DepthsFollow
<1>3. CASE Push
  BY <1>3, PushFollows
<1>4. CASE Rollback
  BY <1>4, RollbackFollows
<1>5. CASE CommitExperiment
  BY <1>5, Restacked DEF CommitExperiment, StackInv
<1>6. ASSUME NEW p \in Profiles, DeleteProfile(p) PROVE StackInv'
  BY <1>6, DeleteFollows
<1>7. ASSUME NEW p \in Profiles,
             CreateProfile(p) \/ Activate(p) \/ Try(p) \/ Adopt(p) \/ SaveCapture(p) \/ Restore(p)
      PROVE  UNCHANGED <<rows, lost>>
  BY <1>7 DEF CreateProfile, Activate, Try, Adopt, SaveCapture, Restore, dbVars, worldVars
<1>8. ASSUME NEW p \in Profiles, NEW q \in Profiles, Fork(p, q) PROVE UNCHANGED <<rows, lost>>
  BY <1>8 DEF Fork, worldVars
<1>9. ASSUME RollbackCurrent \/ SetActive \/ AdoptActive \/ WatchStart \/ WatchStop \/ Crash
      PROVE  UNCHANGED <<rows, lost>>
  BY <1>9 DEF RollbackCurrent, SetActive, AdoptActive, WatchStart, WatchStop, Crash, dbVars, worldVars
<1>10. ASSUME VaultStep PROVE UNCHANGED <<rows, lost>>
  BY <1>10 DEF VaultStep, ForkSaves, Capture, CaptureCopy, CaptureStage, CaptureCommit, ParkReset,
               Park, Deploy, Clear, CopyOut, WatchCapture, dbVars, worldVars
<1>11. ASSUME NEW f \in Files, GameWrite(f) \/ GameDelete(f) PROVE UNCHANGED <<rows, lost>>
  BY <1>11 DEF GameWrite, GameDelete, dbVars, worldVars
<1>12. ASSUME UNCHANGED vars PROVE UNCHANGED <<rows, lost>>
  BY <1>12 DEF vars, dbVars, worldVars
<1> QED
  BY <1>2, <1>3, <1>4, <1>5, <1>6, <1>7, <1>8, <1>9, <1>10, <1>11, <1>12, Steps DEF QuietStep

LEMMA StackInvariance ==
  Spec => []StackInv
<1>1. Init => StackInv
  BY DEF Init, StackInv, DepthsFollow
<1>2. IInv /\ StackInv /\ [Next]_vars => StackInv'
  BY NextFollows
<1> QED
  BY <1>1, <1>2, Invariance, PTL DEF Spec

-----------------------------------------------------------------------------
(* The theorems *)

\* In every reachable state each variable holds a value of its kind; in particular the active
\* profile and those of the stack are rows of the profiles table (the foreign keys of
\* active_profiles and experiment_stack).
THEOREM TypeCorrect ==
  Spec => []TypeOK
<1>1. IInv /\ StackInv => TypeOK
  <2> SUFFICES ASSUME IInv, StackInv PROVE TypeOK
    OBVIOUS
  <2>1. \A k \in DOMAIN rows : rows[k] \in Row
    BY DEF IInv, ManagerTypes
  <2>2. \A s \in DOMAIN author : author[s] \in Profiles \cup {None}
    BY DEF IInv, ManagerTypes
  <2>3. \A b \in Branches : \A k \in DOMAIN branch[b] : branch[b][k] \in Commit
    BY DEF IInv, VaultTypes
  <2>4. DOMAIN branch = Branches
    BY DEF IInv, VaultTypes
  <2>5. VaultTypeOK
    BY <2>3, <2>4 DEF IInv, VaultTypes, VaultTypeOK
  <2> QED
    BY <2>1, <2>2, <2>5 DEF IInv, ManagerTypes, StackInv, TypeOK
<1> QED
  BY <1>1, Invariance, StackInvariance, PTL

\* Whatever profiles are deleted, as long as they took at most one row of the stack since it was
\* empty, the depths grow with the rows, repeating one at most: what makes the number of rows a
\* depth that none of them exceeds (push_experiment, and the foreign key of experiment_stack).
THEOREM DepthsFollowRows ==
  Spec => []DepthsFollow
<1>1. StackInv => DepthsFollow
  BY DEF StackInv
<1> QED
  BY <1>1, StackInvariance, PTL

\* No step of a command, of the watcher or of a failure loses a save, for any number of profiles,
\* files, crashes and writes of the game in between (SaveManager::capture, park_active_saves,
\* deploy_with_fingerprint).
THEOREM NothingIsLost ==
  Spec => NothingLost
<1>1. IInv /\ [Next]_vars => [ModdeStep \/ Crash => Kept \ forfeit' \subseteq Kept']_vars
  <2> SUFFICES ASSUME IInv, ModdeStep \/ Crash
               PROVE  Kept \ forfeit' \subseteq Kept'
    OBVIOUS
  <2>1. QuietStep \/ VaultStep \/ \E p \in Profiles : Restore(p)
    BY DEF ModdeStep, QuietStep, VaultStep
  <2>2. CASE QuietStep
    BY <2>2, QuietInv, Quiet
  <2> QED
    BY <2>1, <2>2, VaultStepInv, RestoreInv
<1> QED
  BY <1>1, Invariance, PTL DEF Spec, NothingLost

\* A save is parked only when the branch of its profile has it, or the game wrote it while the
\* command ran (park_active_saves after capture_with_fingerprint).
THEOREM ParkedAreCommitted ==
  Spec => ParkedIsCommitted
<1>1. IInv /\ [Next]_vars =>
        [\A p \in Profiles : Stamps(parked'[p]) \ Stamps(parked[p])
            \subseteq History(Slug[p]) \cup forfeit]_vars
  <2> SUFFICES ASSUME IInv, [Next]_vars
               PROVE  \A p \in Profiles : Stamps(parked'[p]) \ Stamps(parked[p])
                        \subseteq History(Slug[p]) \cup forfeit
    OBVIOUS
  <2>1. CASE parked' = parked
    BY <2>1
  <2>2. CASE Park
    BY <2>2, ParkInvStep
  <2>3. CASE ParkReset
    <3>1. cmd.out \in Profiles /\ parked \in [Profiles -> Tree]
      BY <2>3 DEF ParkReset, IInv, CommandInv, ManagerTypes, VaultTypes, Parking
    <3>2. \A p \in Profiles : parked'[p] = IF p = cmd.out THEN Empty ELSE parked[p]
      BY <2>3, <3>1 DEF ParkReset, ResetPark
    <3> QED
      BY <3>2, EmptyTree
  <2>4. CASE VaultStep /\ ~Park /\ ~ParkReset
    <3>1. parked' = parked
      BY <2>4 DEF VaultStep, ForkSaves, ForkBranch, Capture, CheckoutBranch, CaptureCopy, CopyIn,
                  CaptureStage, StageAll, CaptureCommit, CommitStaged, Deploy, Clear, ClearLive,
                  CopyOut, CopyOutFile, WatchCapture, Captured, liveVars, vaultVars
    <3> QED
      BY <3>1
  <2>5. CASE QuietStep \/ UNCHANGED vars
    <3>1. parked' = parked
      BY <2>5, QuietInv DEF vars, vaultVars, liveVars
    <3> QED
      BY <3>1
  <2>6. ASSUME NEW p \in Profiles, Restore(p) PROVE parked' = parked
    BY <2>6 DEF Restore, ResetBranch, liveVars
  <2>7. ASSUME NEW f \in Files, GameWrite(f) \/ GameDelete(f) PROVE parked' = parked
    BY <2>7 DEF GameWrite, GameDelete
  <2> QED
    BY <2>1, <2>2, <2>3, <2>4, <2>5, <2>6, <2>7, Steps
<1> QED
  BY <1>1, Invariance, PTL DEF Spec, ParkedIsCommitted

-----------------------------------------------------------------------------
(* The experiment stack is a stack *)

Stack == [k \in DOMAIN rows |-> rows[k].profile]
Due   == IF cmd.op = "rollback" THEN cmd.target ELSE None

LEMMA StackTyped ==
  ASSUME IInv
  PROVE  /\ Stack \in Seq(Profiles) /\ Len(Stack) = Len(rows) /\ DOMAIN Stack = DOMAIN rows
         /\ \A k \in DOMAIN rows : Stack[k] = rows[k].profile
<1>1. rows \in Seq(Row) /\ Len(rows) \in Nat /\ DOMAIN rows = 1..Len(rows)
  BY DEF IInv, ManagerTypes
<1>2. \A k \in 1..Len(rows) : rows[k].profile \in Profiles
  <2>1. \A k \in 1..Len(rows) : rows[k] \in Row
    BY <1>1
  <2> QED
    BY <2>1 DEF Row
<1>3. Stack = [k \in 1..Len(rows) |-> rows[k].profile]
  BY <1>1 DEF Stack
<1>4. Stack \in Seq(Profiles)
  BY <1>1, <1>2, <1>3
<1>5. Len(Stack) = Len(rows)
  BY <1>1, <1>3
<1> QED
  BY <1>1, <1>3, <1>4, <1>5

\* What is due while a command runs.
LEMMA DueIs ==
  ASSUME IInv
  PROVE  /\ pc = "idle" => Due = None
         /\ pc # "idle" => (Due # None <=> cmd.op = "rollback")
<1>1. pc = "idle" => cmd.op # "rollback"
  BY DEF IInv, CommandInv, Idle
<1>2. pc # "idle" => cmd.target \in Profiles
  BY DEF IInv, CommandInv, ManagerTypes
<1> QED
  BY <1>1, <1>2, ManagerAssumption DEF Due

\* The stack becomes s, and taken of its entries went with their profile.
Leaves(s, taken) ==
    Stack' = s /\ lost' = IF s = <<>> THEN 0 ELSE IF lost + taken <= 1 THEN lost + taken ELSE 2

\* What a step does to the abstract stack, given what it does to the rows and the command.
Moves ==
    \/ active' = active /\ Stack' = Stack /\ Due' = Due /\ lost' = lost
    \/ /\ active # None /\ Stack' = Append(Stack, active) /\ active' = active /\ Due' = Due
       /\ lost' = lost
    \/ /\ Due = None /\ active' = active
       /\ \E k \in DOMAIN Stack : /\ lost <= 1 => k = Len(Stack)
                                 /\ Due' = Stack[k] /\ Leaves(Spliced(Stack, k), 0)
    \/ Due # None /\ active' = Due /\ Due' = None /\ Stack' = Stack /\ lost' = lost
    \/ Due # None /\ Due' = None /\ active' = active /\ Stack' = Stack /\ lost' = lost
    \/ Due = None /\ Due' = None /\ Leaves(<<>>, 0) /\ active' = active
    \/ \E p \in Profiles : /\ Due = None /\ Due' = None /\ active' = p
                           /\ Stack' = Stack /\ lost' = lost
    \/ \E p \in Profiles : /\ Due = None /\ Due' = None
                           /\ active' = IF active = p THEN None ELSE active
                           /\ \E m, f : /\ Picks(Stack, {k \in DOMAIN Stack : Stack[k] # p}, m, f)
                                        /\ Leaves(Picked(Stack, m, f), Len(Stack) - m)

LEMMA MovesAreLifo ==
  ASSUME Moves
  PROVE  [Experiments!LifoNext]_<<active, [k \in DOMAIN rows |-> rows[k].profile],
                                  IF cmd.op = "rollback" THEN cmd.target ELSE None, lost>>
<1> USE DEF Stack, Due, Leaves, Experiments!LifoNext, Experiments!Leaves
<1>1. CASE active' = active /\ Stack' = Stack /\ Due' = Due /\ lost' = lost
  BY <1>1
<1>2. CASE /\ active # None /\ Stack' = Append(Stack, active) /\ active' = active /\ Due' = Due
           /\ lost' = lost
  BY <1>2 DEF Experiments!Remember
<1>3. CASE /\ Due = None /\ active' = active
           /\ \E k \in DOMAIN Stack : /\ lost <= 1 => k = Len(Stack)
                                     /\ Due' = Stack[k] /\ Leaves(Spliced(Stack, k), 0)
  BY <1>3 DEF Experiments!TakeBack, Spliced
<1>4. CASE Due # None /\ active' = Due /\ Due' = None /\ Stack' = Stack /\ lost' = lost
  BY <1>4 DEF Experiments!Return
<1>5. CASE Due # None /\ Due' = None /\ active' = active /\ Stack' = Stack /\ lost' = lost
  BY <1>5 DEF Experiments!Abandon
<1>6. CASE Due = None /\ Due' = None /\ Leaves(<<>>, 0) /\ active' = active
  BY <1>6 DEF Experiments!ForgetAll
<1>7. CASE \E p \in Profiles : /\ Due = None /\ Due' = None /\ active' = p
                              /\ Stack' = Stack /\ lost' = lost
  BY <1>7 DEF Experiments!Become
<1>8. ASSUME NEW p \in Profiles, Due = None, Due' = None,
             active' = IF active = p THEN None ELSE active,
             NEW m, NEW f, Picks(Stack, {k \in DOMAIN Stack : Stack[k] # p}, m, f),
             Leaves(Picked(Stack, m, f), Len(Stack) - m)
      PROVE  Experiments!Forget(p)
  <2>1. Experiments!Leaves([i \in 1..m |-> Stack[f[i]]], Len(Stack) - m)
    BY <1>8 DEF Picked
  <2>2. /\ m \in 0..Len(Stack) /\ f \in [1..m -> DOMAIN Stack]
        /\ \A i, j \in 1..m : i < j => f[i] < f[j]
        /\ {f[i] : i \in 1..m} = {k \in DOMAIN Stack : Stack[k] # p}
    BY <1>8 DEF Picks
  <2> HIDE DEF Experiments!Leaves
  <2> QED
    BY <1>8, <2>1, <2>2 DEF Experiments!Forget
<1> QED
  BY <1>1, <1>2, <1>3, <1>4, <1>5, <1>6, <1>7, <1>8 DEF Moves

LEMMA SameStack ==
  ASSUME UNCHANGED <<rows, active, lost>>, Due' = Due
  PROVE  Moves
<1>1. Stack' = Stack
  BY DEF Stack
<1> QED
  BY <1>1 DEF Moves

\* The profiles of rows are none when the rows are.
LEMMA NoRows ==
  ASSUME NEW r \in Seq(Row)
  PROVE  [k \in DOMAIN r |-> r[k].profile] = <<>> <=> r = <<>>
<1>1. DOMAIN r = {} <=> r = <<>>
  OBVIOUS
<1>2. [k \in DOMAIN r |-> r[k].profile] = <<>> <=> DOMAIN r = {}
  BY DOMAIN [k \in DOMAIN r |-> r[k].profile] = DOMAIN r, DOMAIN <<>> = {}
<1> QED
  BY <1>1, <1>2

\* A command that is no rollback starts, moves on, or ends: nothing is due before or after.
LEMMA NothingDue ==
  ASSUME IInv, cmd' = cmd \/ (pc = "idle" /\ cmd'.op # "rollback")
                          \/ (pc # "idle" /\ cmd.op # "rollback" /\ cmd' = Idle)
  PROVE  Due' = Due
<1>1. CASE cmd' = cmd
  BY <1>1 DEF Due
<1>2. CASE pc = "idle" /\ cmd'.op # "rollback"
  BY <1>2, DueIs DEF Due
<1>3. CASE pc # "idle" /\ cmd.op # "rollback" /\ cmd' = Idle
  BY <1>3, DueIs DEF Due, Idle
<1> QED
  BY <1>1, <1>2, <1>3

LEMMA PushMoves ==
  ASSUME IInv, Push
  PROVE  Moves
<1> DEFINE row == [profile |-> active, depth |-> Len(rows)]
<1>1. /\ pc = "push" /\ cmd' = cmd /\ active' = active /\ lost' = lost
      /\ rows' = Append(rows, [profile |-> cmd.out, depth |-> Len(rows)])
  BY DEF Push, Step, worldVars
<1>2. cmd.out = active /\ active # None /\ rows \in Seq(Row) /\ active \in Profiles
  BY <1>1 DEF IInv, CommandInv, ManagerTypes
<1>3. rows' = Append(rows, row) /\ row.profile = active /\ row \in Row
  BY <1>1, <1>2 DEF Row
<1> HIDE DEF row
<1>4. /\ rows' \in Seq(Row) /\ Len(rows') = Len(rows) + 1 /\ rows'[Len(rows) + 1] = row
      /\ \A k \in 1..Len(rows) : rows'[k] = rows[k]
  BY <1>2, <1>3
<1>5. Stack' = [k \in 1..(Len(rows) + 1) |-> rows'[k].profile]
  BY <1>2, <1>4 DEF Stack
<1>6. Stack' = Append(Stack, active)
  <2> DEFINE a == Append(Stack, active)
             n == Len(rows) + 1
  <2>1. /\ a \in Seq(Profiles) /\ Len(a) = n /\ n \in Nat /\ a[n] = active
        /\ \A k \in 1..Len(rows) : a[k] = rows[k].profile
    BY <1>2, StackTyped
  <2>2. \A k \in 1..n : rows'[k].profile = a[k]
    BY <1>2, <1>3, <1>4, <2>1
  <2> HIDE DEF a, n
  <2>3. a \in [1..n -> Profiles]
    BY <2>1
  <2>4. a = [k \in 1..n |-> a[k]]
    BY <2>3
  <2>5. Stack' = [k \in 1..n |-> rows'[k].profile]
    BY <1>5 DEF n
  <2>6. Stack' = a
    BY <2>2, <2>4, <2>5
  <2> QED
    BY <2>6 DEF a
<1>7. Due' = Due
  BY <1>1 DEF Due
<1> QED
  BY <1>1, <1>2, <1>6, <1>7 DEF Moves

LEMMA RollbackMoves ==
  ASSUME IInv, StackInv, Rollback
  PROVE  Moves
<1> DEFINE p == rows[TopRow].profile
           fp == IF active = None THEN NoFp ELSE Fingerprint[active]
<1>1. /\ rows # <<>> /\ Start("rollback", "current", p, None, fp)
      /\ Restack(WithoutRow(TopRow), 0) /\ active' = active
  BY DEF Rollback
<1>2. pc = "idle" /\ cmd' = [op |-> "rollback", target |-> p, out |-> None, fp |-> fp]
  BY <1>1 DEF Start
<1>3. Due = None /\ Due' = p
  BY <1>2, DueIs DEF Due
<1>4. rows \in Seq(Row) /\ TopRow \in DOMAIN rows /\ (lost <= 1 => TopRow = Len(rows))
  BY <1>1, TopExists, TopIsLast DEF StackInv, IInv, ManagerTypes
<1>5. Due' = Stack[TopRow] /\ TopRow \in DOMAIN Stack /\ (lost <= 1 => TopRow = Len(Stack))
  BY <1>3, <1>4, StackTyped
<1> HIDE DEF p, fp
<1> DEFINE r == Spliced(rows, TopRow)
           t == Spliced(Stack, TopRow)
           n == Len(rows) - 1
<1>6. /\ r \in Seq(Row) /\ Len(r) = n
      /\ \A j \in 1..n : r[j] = IF j < TopRow THEN rows[j] ELSE rows[j + 1]
  BY <1>4, Splicing
<1>7. /\ t \in Seq(Profiles) /\ Len(t) = n
      /\ \A j \in 1..n : t[j] = IF j < TopRow THEN Stack[j] ELSE Stack[j + 1]
  BY <1>5, StackTyped, Splicing
<1>8. /\ rows' = r /\ lost' = IF r = <<>> THEN 0 ELSE IF lost + 0 <= 1 THEN lost + 0 ELSE 2
  BY <1>1 DEF Restack, WithoutRow, Spliced
<1> HIDE DEF r, t
<1>9. Stack' = t
  <2>1. n \in Nat /\ DOMAIN rows = 1..(n + 1)
    BY <1>4
  <2>2. \A j \in 1..n : r[j].profile = t[j]
    <3> SUFFICES ASSUME NEW j \in 1..n PROVE r[j].profile = t[j]
      OBVIOUS
    <3>1. j \in DOMAIN rows /\ j + 1 \in DOMAIN rows
      BY <2>1
    <3> QED
      BY <1>6, <1>7, <3>1, StackTyped
  <2> HIDE DEF n
  <2>3. DOMAIN r = 1..n /\ DOMAIN t = 1..n
    BY <1>6, <1>7
  <2>4. t = [j \in 1..n |-> t[j]]
    BY <1>7, <2>3
  <2>5. Stack' = [j \in 1..n |-> r[j].profile]
    BY <1>8, <2>3 DEF Stack
  <2> QED
    BY <2>2, <2>4, <2>5
<1>10. t = <<>> <=> r = <<>>
  BY <1>6, <1>8, <1>9, NoRows DEF Stack
<1>11. Leaves(t, 0)
  BY <1>8, <1>9, <1>10 DEF Leaves
<1> QED
  BY <1>1, <1>3, <1>5, <1>11 DEF Moves, t

\* The steps that make a profile active, give a rollback up, or forget.
LEMMA EndMoves ==
  ASSUME IInv, SetActive \/ AdoptActive \/ Crash \/ CommitExperiment
  PROVE  Moves
<1>1. CASE SetActive
  <2>1. /\ pc = "setactive" /\ cmd' = Idle /\ active' = cmd.target /\ rows' = rows
        /\ cmd.target \in Profiles /\ lost' = lost
    BY <1>1 DEF SetActive, End, IInv, CommandInv, ManagerTypes, worldVars
  <2>2. Stack' = Stack /\ Due' = None
    BY <2>1 DEF Stack, Due, Idle
  <2>3. CASE cmd.op = "rollback"
    BY <2>1, <2>2, <2>3, DueIs DEF Moves, Due
  <2>4. CASE cmd.op # "rollback"
    BY <2>1, <2>2, <2>4, DueIs DEF Moves
  <2> QED
    BY <2>3, <2>4
<1>2. CASE AdoptActive
  <2>1. /\ pc = "adoptactive" /\ cmd' = Idle /\ rows' = rows /\ cmd.op = "adopt"
        /\ active' = IF active = None THEN cmd.target ELSE active
        /\ cmd.target \in Profiles /\ lost' = lost
    BY <1>2 DEF AdoptActive, End, IInv, CommandInv, ManagerTypes, worldVars
  <2>2. Stack' = Stack /\ Due' = None /\ Due = None
    BY <2>1, DueIs DEF Stack, Due, Idle
  <2> QED
    BY <2>1, <2>2 DEF Moves
<1>3. CASE Crash
  <2>1. pc # "idle" /\ cmd' = Idle /\ rows' = rows /\ active' = active /\ lost' = lost
    BY <1>3 DEF Crash, End, dbVars
  <2>2. Stack' = Stack /\ Due' = None
    BY <2>1 DEF Stack, Due, Idle
  <2> QED
    BY <2>1, <2>2 DEF Moves
<1>4. CASE CommitExperiment
  <2>1. pc = "idle" /\ cmd' = cmd /\ rows' = <<>> /\ active' = active /\ lost' = 0
    BY <1>4 DEF CommitExperiment, Restack, commandVars
  <2>2. Leaves(<<>>, 0)
    BY <2>1 DEF Stack, Leaves
  <2>3. Due = None /\ Due' = None
    BY <2>1, DueIs DEF Due
  <2> QED
    BY <2>1, <2>2, <2>3 DEF Moves
<1> QED
  BY <1>1, <1>2, <1>3, <1>4

\* A deletion forgets a profile, and keeps the others in their order.
LEMMA DeleteMoves ==
  ASSUME IInv, NEW p \in Profiles, DeleteProfile(p)
  PROVE  Moves
<1>1. pc = "idle" /\ cmd' = cmd /\ active' = IF active = p THEN None ELSE active
  BY DEF DeleteProfile, commandVars
<1>2. Due = None /\ Due' = None
  BY <1>1, DueIs DEF Due
<1>3. PICK m, f : /\ Picks(rows, {k \in DOMAIN rows : rows[k].profile # p}, m, f)
                  /\ Restack(Picked(rows, m, f), Len(rows) - m)
  BY Cascade
<1>4. rows \in Seq(Row) /\ m \in Nat /\ \A k \in 1..m : f[k] \in DOMAIN rows
  BY <1>3 DEF Picks, IInv, ManagerTypes
<1>5. Picks(Stack, {k \in DOMAIN Stack : Stack[k] # p}, m, f)
  <2>1. {k \in DOMAIN Stack : Stack[k] # p} = {k \in DOMAIN rows : rows[k].profile # p}
    BY StackTyped
  <2>2. DOMAIN Stack = DOMAIN rows /\ Len(Stack) = Len(rows)
    BY StackTyped
  <2> QED
    BY <1>3, <2>1, <2>2 DEF Picks
<1> DEFINE r == Picked(rows, m, f)
           t == Picked(Stack, m, f)
<1>6. r \in Seq(Row) /\ DOMAIN r = 1..m
  <2>1. r \in [1..m -> Row]
    BY <1>4 DEF Picked
  <2> QED
    BY <1>4, <2>1
<1>7. t = [k \in DOMAIN r |-> r[k].profile]
  <2>1. \A k \in 1..m : r[k].profile = Stack[f[k]]
    BY <1>4, StackTyped DEF Picked
  <2>2. t = [k \in 1..m |-> Stack[f[k]]]
    BY DEF Picked
  <2> HIDE DEF r, t
  <2> QED
    BY <1>6, <2>1, <2>2
<1>8. rows' = r /\ lost' = IF r = <<>> THEN 0 ELSE IF lost + (Len(rows) - m) <= 1
                                                 THEN lost + (Len(rows) - m) ELSE 2
  BY <1>3 DEF Restack
<1> HIDE DEF r
<1>9. t = <<>> <=> r = <<>>
  BY <1>6, <1>7, NoRows
<1>10. Stack' = t
  BY <1>7, <1>8 DEF Stack
<1>11. Leaves(t, Len(Stack) - m)
  <2>1. Len(Stack) = Len(rows)
    BY StackTyped
  <2> HIDE DEF t
  <2> QED
    BY <1>8, <1>9, <1>10, <2>1 DEF Leaves
<1> QED
  BY <1>1, <1>2, <1>5, <1>11 DEF Moves

LEMMA RollbackCurrentMoves ==
  ASSUME IInv, RollbackCurrent
  PROVE  Moves
<1>1. /\ pc = "current" /\ rows' = rows /\ active' = active /\ cmd.op = "rollback"
      /\ lost' = lost
  BY DEF RollbackCurrent, End, dbVars, worldVars, IInv, CommandInv
<1>2. Stack' = Stack
  BY <1>1 DEF Stack
<1>3. CASE active = None
  <2>1. cmd' = Idle
    BY <1>3 DEF RollbackCurrent, End
  <2>2. Due' = None /\ Due # None
    BY <1>1, <2>1, DueIs DEF Due, Idle
  <2> QED
    BY <1>1, <1>2, <2>2 DEF Moves
<1>4. CASE active # None
  <2>1. cmd' = [cmd EXCEPT !.out = active] /\ cmd \in Command
    BY <1>4 DEF RollbackCurrent, IInv, ManagerTypes
  <2>2. cmd'.op = cmd.op /\ cmd'.target = cmd.target
    BY <2>1 DEF Command
  <2>3. Due' = Due
    BY <2>2 DEF Due
  <2> QED
    BY <1>1, <2>3, SameStack
<1> QED
  BY <1>3, <1>4

\* The other steps neither touch the stack nor change who is active.
LEMMA StartMoves ==
  ASSUME IInv, NEW op \in Commands, NEW label, NEW target, NEW out, NEW fp,
         Start(op, label, target, out, fp), op # "rollback", UNCHANGED <<rows, active, lost>>
  PROVE  Moves
<1>1. pc = "idle" /\ cmd'.op = op
  BY DEF Start
<1> QED
  BY <1>1, NothingDue, SameStack

LEMMA VaultMoves ==
  ASSUME IInv, VaultStep
  PROVE  Moves
<1>1. UNCHANGED <<rows, active, lost>>
  BY DEF VaultStep, ForkSaves, Capture, CaptureCopy, CaptureStage, CaptureCommit, ParkReset, Park,
         Deploy, Clear, CopyOut, WatchCapture, dbVars, worldVars
<1>2. CASE ForkSaves
  BY <1>1, <1>2, NothingDue, SameStack DEF ForkSaves, End, IInv, CommandInv
<1>3. CASE Capture \/ CaptureStage \/ Deploy \/ ParkReset \/ Park \/ Clear \/ WatchCapture
  BY <1>1, <1>3, NothingDue, SameStack
     DEF Capture, CaptureStage, Deploy, ParkReset, Park, Clear, WatchCapture, Step, commandVars
<1>4. CASE CaptureCopy \/ CaptureCommit
  <2>1. pc \in Capturing /\ pc # "idle"
    BY <1>4 DEF CaptureCopy, CaptureCommit, Step, Capturing
  <2>2. AfterCapture = "idle" => cmd.op # "rollback"
    BY DEF AfterCapture
  <2>3. cmd' = cmd \/ (cmd.op # "rollback" /\ cmd' = Idle)
    BY <1>4, <2>2 DEF CaptureCopy, CaptureCommit, Step
  <2> QED
    BY <1>1, <2>1, <2>3, NothingDue, SameStack
<1>5. CASE CopyOut
  <2>1. pc = "copyout" /\ (cmd' = cmd \/ (cmd.op # "rollback" /\ cmd' = Idle))
    BY <1>5 DEF CopyOut, Step, End
  <2> QED
    BY <1>1, <2>1, NothingDue, SameStack
<1> QED
  BY <1>2, <1>3, <1>4, <1>5 DEF VaultStep

LEMMA QuietMoves ==
  ASSUME IInv, StackInv, QuietStep
  PROVE  Moves
<1>1. ASSUME NEW p \in Profiles, CreateProfile(p) PROVE Moves
  BY <1>1, NothingDue, SameStack DEF CreateProfile, commandVars, worldVars
<1>2. ASSUME NEW p \in Profiles, Activate(p) PROVE Moves
  BY <1>2, StartMoves DEF Activate, dbVars, Commands, worldVars
<1>3. ASSUME NEW p \in Profiles, Try(p) \/ Adopt(p) \/ SaveCapture(p) PROVE Moves
  BY <1>3, StartMoves DEF Try, Adopt, SaveCapture, dbVars, Commands, worldVars
<1>4. ASSUME NEW p \in Profiles, NEW q \in Profiles, Fork(p, q) PROVE Moves
  BY <1>4, StartMoves DEF Fork, Commands, worldVars
<1>5. CASE WatchStart \/ WatchStop
  BY <1>5, NothingDue, SameStack DEF WatchStart, WatchStop, dbVars, commandVars, worldVars
<1> QED
  BY <1>1, <1>2, <1>3, <1>4, <1>5, DeleteMoves, PushMoves, RollbackMoves, RollbackCurrentMoves,
     EndMoves DEF QuietStep

\* The experiment stack implements the abstract one: a rollback makes active the profile that was
\* active when the last experiment began that was neither committed nor rolled back, whatever
\* commands, failures, captures and deletions of profiles come in between, those of remembered
\* ones included, as long as deletions took at most one row since the stack was last empty; after
\* more it makes active some profile that is remembered (push_experiment, pop_experiment and
\* rollback_with_fingerprint implement LifoStack).
THEOREM StackIsLifo ==
  Spec => RollbackIsLifo
<1>1. Init => Experiments!LifoInit
  <2>1. Init => rows = <<>> /\ active = None /\ cmd = Idle /\ lost = 0
    BY DEF Init
  <2> QED
    BY <2>1 DEF Experiments!LifoInit, Idle
<1>2. ASSUME IInv, StackInv, [Next]_vars
      PROVE  [Experiments!LifoNext]_<<active, [k \in DOMAIN rows |-> rows[k].profile],
                                      IF cmd.op = "rollback" THEN cmd.target ELSE None, lost>>
  <2>1. CASE UNCHANGED vars
    BY <1>2, <2>1, NothingDue, SameStack, MovesAreLifo DEF vars, dbVars, commandVars, worldVars
  <2>2. ASSUME NEW p \in Profiles, Restore(p) PROVE Moves
    BY <1>2, <2>2, StartMoves DEF Restore, dbVars, Commands, worldVars
  <2>3. ASSUME NEW f \in Files, GameWrite(f) \/ GameDelete(f) PROVE Moves
    BY <1>2, <2>3, NothingDue, SameStack DEF GameWrite, GameDelete, dbVars, commandVars, worldVars
  <2> QED
    BY <1>2, <2>1, <2>2, <2>3, QuietMoves, VaultMoves, MovesAreLifo, Steps
<1> QED
  BY <1>1, <1>2, Invariance, StackInvariance, PTL DEF Spec, RollbackIsLifo, Experiments!Lifo

-----------------------------------------------------------------------------
(* Whose saves the game finds, when no command failed and save commands    *)
(* name the active profile                                                 *)

\* Every live save is p's, or given up.
Owned(p) ==
    \A f \in Files : live[f] # 0 =>
        \/ live[f] \in forfeit \cup History(Slug[p])
        \/ live[f] \in DOMAIN author /\ author[live[f]] = p

\* The live saves are in p's branch, or given up.
InBranch(p) == \A f \in Files : live[f] # 0 => live[f] \in forfeit \cup History(Slug[p])

\* Git knows every file of the working tree, so that a checkout leaves its own files only.
WorkKnown == Names(work) \subseteq tracked \cup Names(Tip(head))

\* The steps of a command that leaves the saves alone.
WithoutSaves == {"idle", "push", "current", "fork", "setactive"}

\* What a swap knows of the profile it comes from and of the one it goes to.
SwapInv ==
    /\ active # None /\ pc \notin {"copyout", "setactive"} => Owned(active)
    /\ cmd.op = "adopt" => cmd.out = cmd.target
    /\ cmd.op = "restore" => active = cmd.target
    /\ pc # "stage" => WorkKnown
    /\ pc \in {"clear", "copyout"} => head = Slug[cmd.target] /\ work = Tip(head)
    /\ pc = "copyout" => \A f \in Files : live[f] # 0 => live[f] \in forfeit \/ work[f] = live[f]
    /\ pc \in {"setactive", "adoptactive"} => InBranch(cmd.target)
    /\ SaveDir \/ (live = Empty /\ pc \in WithoutSaves)

OwnerInv == crashes = 0 => SwapInv

\* Files go, branches grow: what is left is still p's.
LEMMA StillOwned ==
  ASSUME NEW p \in Profiles, Grown, UNCHANGED <<author, forfeit>>,
         \A f \in Files : live'[f] # 0 => live'[f] = live[f]
  PROVE  (Owned(p) => Owned(p)') /\ (InBranch(p) => InBranch(p)')
<1>1. History(Slug[p]) \subseteq History(Slug[p])'
  BY SlugBranch DEF Grown
<1> QED
  BY <1>1 DEF Owned, InBranch

\* A checkout leaves the branch's own files in the working tree.
LEMMA CheckoutSettles ==
  ASSUME VaultTypes, WorkKnown, NEW p \in Profiles, CheckoutBranch(p)
  PROVE  work' = Tip(head)' /\ head' = Slug[p] /\ WorkKnown'
<1> DEFINE b == Slug[p]
           t == TipOf(Ensured(b)[b])
<1>1. /\ branch' = Ensured(b) /\ head' = b /\ work' = Materialized(t) /\ tracked' = Names(t)
  BY DEF CheckoutBranch, CheckoutTree
<1>2. t \in Tree
  BY SlugBranch, EnsuredTyped, TipTyped
<1>3. Tip(head)' = t
  BY <1>1 DEF Tip
<1> HIDE DEF t, b
<1>4. Materialized(t) = t
  <2>1. \A f \in Files : Materialized(t)[f] = t[f]
    <3> SUFFICES ASSUME NEW f \in Files PROVE Materialized(t)[f] = t[f]
      OBVIOUS
    <3>1. f \in tracked \cup Names(Tip(head)) \/ work[f] = 0
      BY DEF WorkKnown, Names
    <3> QED
      BY <3>1 DEF Materialized
  <2>2. Materialized(t) \in Tree
    BY <1>2, MaterializedTyped
  <2> QED
    BY <1>2, <2>1, <2>2 DEF Tree
<1>5. WorkKnown'
  BY <1>1, <1>4 DEF WorkKnown
<1> QED
  BY <1>1, <1>3, <1>4, <1>5 DEF b

\* Nothing that is said of the saves changes.
LEMMA SameSaves ==
  ASSUME UNCHANGED <<vaultVars, author, forfeit>>
  PROVE  /\ UNCHANGED <<live, work, head>> /\ Tip(head)' = Tip(head) /\ WorkKnown' = WorkKnown
         /\ \A p : Owned(p)' = Owned(p) /\ InBranch(p)' = InBranch(p)
<1>1. UNCHANGED <<live, branch, head, work, tracked>>
  BY DEF vaultVars, gitVars, liveVars
<1>2. Tip(head)' = Tip(head) /\ \A p : History(Slug[p])' = History(Slug[p])
  BY <1>1 DEF Tip, History
<1>3. WorkKnown' = WorkKnown
  BY <1>1, <1>2 DEF WorkKnown
<1>4. \A p : Owned(p)' = Owned(p) /\ InBranch(p)' = InBranch(p)
  BY <1>1, <1>2 DEF Owned, InBranch
<1> QED
  BY <1>1, <1>2, <1>3, <1>4

LEMMA SameSwap ==
  ASSUME SwapInv, UNCHANGED <<vaultVars, author, forfeit, active, pc, cmd>>
  PROVE  SwapInv'
  BY SameSaves DEF SwapInv, WithoutSaves

\* Before a swap: nothing has been done to the saves.
LEMMA QuietSwap ==
  ASSUME SwapInv, UNCHANGED <<vaultVars, author, forfeit>>, active' \in {active, None},
         pc \in {"idle", "push", "current"},
         pc' \in {"idle", "push", "current", "capture", "deploy", "fork", "setactive"},
         pc' = "setactive" => ~ SaveDir, pc' \in {"capture", "deploy"} => SaveDir,
         cmd'.op = "adopt" => cmd'.out = cmd'.target, cmd'.op # "restore"
  PROVE  SwapInv'
<1>1. /\ UNCHANGED <<live, work, head>> /\ WorkKnown'
      /\ \A p : Owned(p)' = Owned(p) /\ InBranch(p)' = InBranch(p)
  BY SameSaves DEF SwapInv, WithoutSaves
<1>2. pc' = "setactive" => \A f \in Files : live[f] = 0
  BY DEF SwapInv, WithoutSaves, Empty
<1>3. pc' = "setactive" => InBranch(cmd'.target)
  BY <1>2 DEF InBranch
<1> QED
  BY <1>1, <1>3 DEF SwapInv, WithoutSaves

LEMMA IdleOps == Idle.op = "idle" /\ Idle.out = None /\ Idle.target = None
  BY DEF Idle

\* The commands as they start.
LEMMA StartsSwap ==
  ASSUME IInv, SwapInv, NEW p \in Profiles,
         \/ CreateProfile(p) \/ DeleteProfile(p) \/ Activate(p) \/ Try(p)
         \/ Adopt(p) \/ SaveCapture(p) \/ \E q \in Profiles : Fork(q, p)
  PROVE  SwapInv'
<1>1. CASE CreateProfile(p) \/ DeleteProfile(p)
  <2>1. /\ UNCHANGED <<vaultVars, author, forfeit, pc, cmd>> /\ active' \in {active, None}
        /\ pc = "idle"
    BY <1>1 DEF CreateProfile, DeleteProfile, Restack, commandVars, worldVars
  <2>2. cmd = Idle
    BY <2>1 DEF IInv, CommandInv
  <2> QED
    BY <2>1, <2>2, IdleOps, QuietSwap
<1>2. CASE Activate(p)
  <2>1. \E label \in {"setactive", "deploy", "capture"} : \E out, fp :
          /\ Start("activate", label, p, out, fp) /\ (label = "setactive" <=> ~ SaveDir)
    BY <1>2 DEF Activate
  <2>2. /\ pc = "idle" /\ pc' \in {"setactive", "deploy", "capture"} /\ cmd'.op = "activate"
        /\ (pc' = "setactive" <=> ~ SaveDir)
    BY <2>1 DEF Start
  <2>3. UNCHANGED <<vaultVars, author, forfeit, active>>
    BY <1>2 DEF Activate, dbVars, worldVars
  <2> QED
    BY <2>2, <2>3, QuietSwap
<1>3. CASE Try(p) \/ SaveCapture(p) \/ \E q \in Profiles : Fork(q, p)
  <2>1. /\ pc = "idle" /\ pc' \in {"push", "capture", "fork"} /\ cmd'.op \in {"try", "capture", "fork"}
        /\ (pc' = "capture" => SaveDir)
    BY <1>3 DEF Try, SaveCapture, Fork, Start
  <2>2. UNCHANGED <<vaultVars, author, forfeit, active>>
    BY <1>3 DEF Try, SaveCapture, Fork, dbVars, worldVars
  <2> QED
    BY <2>1, <2>2, QuietSwap
<1>4. CASE Adopt(p)
  <2>1. SaveDir /\ pc = "idle" /\ pc' = "capture" /\ cmd'.op = "adopt" /\ cmd'.out = p /\ cmd'.target = p
    BY <1>4 DEF Adopt, Start
  <2>2. UNCHANGED <<vaultVars, author, forfeit, active>>
    BY <1>4 DEF Adopt, dbVars, worldVars
  <2> QED
    BY <2>1, <2>2, QuietSwap
<1> QED
  BY <1>1, <1>2, <1>3, <1>4

\* The steps on the tables, but for the one that makes a profile active.
LEMMA TablesSwap ==
  ASSUME IInv, SwapInv, Push \/ Rollback \/ RollbackCurrent \/ CommitExperiment
  PROVE  SwapInv'
<1>1. UNCHANGED <<vaultVars, author, forfeit, active>>
  BY DEF Push, Rollback, RollbackCurrent, CommitExperiment, Restack, dbVars, worldVars
<1>2. CASE Push
  <2>1. /\ pc = "push" /\ pc' \in {"capture", "setactive"} /\ (pc' = "setactive" <=> ~ SaveDir)
        /\ cmd' = cmd
    BY <1>2 DEF Push, Step
  <2>2. cmd.op = "try"
    BY <2>1 DEF IInv, CommandInv
  <2> QED
    BY <1>1, <2>1, <2>2, QuietSwap
<1>3. CASE Rollback
  <2>1. pc = "idle" /\ pc' = "current" /\ cmd'.op = "rollback"
    BY <1>3 DEF Rollback, Start
  <2> QED
    BY <1>1, <2>1, QuietSwap
<1>4. CASE RollbackCurrent
  <2>1. pc = "current" /\ cmd \in Command
    BY <1>4 DEF RollbackCurrent, End, IInv, ManagerTypes
  <2>2. cmd.op = "rollback"
    BY <2>1 DEF IInv, CommandInv
  <2>3. CASE active = None
    <3>1. pc' = "idle" /\ cmd' = Idle
      BY <1>4, <2>3 DEF RollbackCurrent, End
    <3> QED
      BY <1>1, <2>1, <3>1, IdleOps, QuietSwap
  <2>4. CASE active # None
    <3>1. /\ pc' \in {"capture", "setactive"} /\ (pc' = "setactive" <=> ~ SaveDir)
          /\ cmd' = [cmd EXCEPT !.out = active]
      BY <1>4, <2>4 DEF RollbackCurrent
    <3>2. cmd'.op = "rollback"
      BY <2>1, <2>2, <3>1 DEF Command
    <3> QED
      BY <1>1, <2>1, <3>1, <3>2, QuietSwap
  <2> QED
    BY <2>3, <2>4
<1>5. CASE CommitExperiment
  <2>1. pc = "idle" /\ pc' = "idle" /\ cmd' = cmd
    BY <1>5 DEF CommitExperiment, commandVars
  <2>2. cmd = Idle
    BY <2>1 DEF IInv, CommandInv
  <2> QED
    BY <1>1, <2>1, <2>2, IdleOps, QuietSwap
<1> QED
  BY <1>2, <1>3, <1>4, <1>5

\* The profile that becomes active is the one whose saves were put there.
LEMMA ActiveSwap ==
  ASSUME IInv, SwapInv, SetActive \/ AdoptActive
  PROVE  SwapInv'
<1>1. /\ pc \in {"setactive", "adoptactive"} /\ pc' = "idle" /\ cmd' = Idle
      /\ UNCHANGED <<vaultVars, author, forfeit>>
      /\ active' = cmd.target \/ (pc = "adoptactive" /\ active # None /\ active' = active)
  BY DEF SetActive, AdoptActive, End, worldVars
<1>2. /\ UNCHANGED <<live, work, head>> /\ WorkKnown'
      /\ \A p : Owned(p)' = Owned(p) /\ InBranch(p)' = InBranch(p)
  BY <1>1, SameSaves DEF SwapInv, WithoutSaves
<1>3. Owned(active')
  <2>1. CASE active' = cmd.target
    <3>1. InBranch(cmd.target)
      BY <1>1 DEF SwapInv, WithoutSaves
    <3> QED
      BY <2>1, <3>1 DEF InBranch, Owned
  <2>2. CASE pc = "adoptactive" /\ active # None /\ active' = active
    BY <2>2 DEF SwapInv, WithoutSaves
  <2> QED
    BY <1>1, <2>1, <2>2
<1>4. Owned(active)'
  BY <1>2, <1>3
<1> QED
  BY <1>1, <1>2, <1>4, IdleOps DEF SwapInv, WithoutSaves

\* A step after which the same profile is active, no more is live and branches have grown.
LEMMA CalmSwap ==
  ASSUME IInv, IInv', SwapInv, Grown, UNCHANGED <<author, forfeit, active>>,
         \A f \in Files : live'[f] # 0 => live'[f] = live[f],
         pc \notin {"copyout", "setactive"}
  PROVE  active' # None => Owned(active)'
<1> SUFFICES ASSUME active # None PROVE Owned(active)'
  OBVIOUS
<1>1. active \in Profiles /\ Owned(active)
  BY DEF IInv, ManagerTypes, SwapInv
<1>2. \A p \in Profiles : Owned(p) => Owned(p)'
  BY StillOwned
<1>3. \A p \in Profiles : p = active => Owned(p)' = Owned(active)'
  OBVIOUS
<1> QED
  BY <1>1, <1>2, <1>3

LEMMA StepsTo ==
  ASSUME NEW from, NEW to, Step(from, to), UNCHANGED <<dbVars, worldVars>>
  PROVE  /\ pc = from /\ pc' = to /\ cmd' = (IF to = "idle" THEN Idle ELSE cmd)
         /\ UNCHANGED <<author, forfeit, active>>
  BY DEF Step, dbVars, worldVars

LEMMA CaptureSwap ==
  ASSUME IInv, SwapInv, Capture
  PROVE  SwapInv'
<1>1. /\ pc = "capture" /\ pc' = "copyin" /\ cmd' = cmd /\ CheckoutBranch(cmd.out)
      /\ UNCHANGED <<author, forfeit, active>>
  BY StepsTo DEF Capture
<1>2. cmd.out \in Profiles
  BY <1>1 DEF IInv, CommandInv, ManagerTypes, Capturing
<1>3. WorkKnown' /\ Grown /\ UNCHANGED live
  BY <1>1, <1>2, CheckoutSettles, CheckoutKeeps DEF IInv, SwapInv, liveVars
<1>4. active' # None => Owned(active)'
  BY <1>1, <1>3, CaptureInv, CalmSwap DEF SwapInv, WithoutSaves
<1> QED
  BY <1>1, <1>3, <1>4 DEF SwapInv, WithoutSaves

\* Where a capture leads to.
LEMMA AfterSwap ==
  ASSUME IInv, SwapInv, pc \in Capturing, pc' = AfterCapture, NEW p, p = cmd.out,
         cmd' = (IF AfterCapture = "idle" THEN Idle ELSE cmd), UNCHANGED active,
         active' # None => Owned(active)', WorkKnown', UNCHANGED live,
         InBranch(p)'
  PROVE  SwapInv'
<1>0. SaveDir
  BY DEF SwapInv, WithoutSaves, Capturing
<1>1. /\ AfterCapture \in {"idle", "adoptactive", "resetpark"}
      /\ AfterCapture = "adoptactive" => cmd.op = "adopt"
  BY AfterCaptureLabels
<1>2. CASE AfterCapture = "idle"
  BY <1>0, <1>1, <1>2, IdleOps DEF SwapInv, WithoutSaves
<1>3. CASE AfterCapture # "idle"
  <2>1. cmd' = cmd
    BY <1>3
  <2>2. AfterCapture = "adoptactive" => p = cmd'.target
    BY <1>1, <2>1 DEF SwapInv, WithoutSaves
  <2>3. AfterCapture = "adoptactive" => InBranch(cmd.target)'
    BY <2>2
  <2> QED
    BY <1>0, <1>1, <1>3, <2>1, <2>3 DEF SwapInv, WithoutSaves
<1> QED
  BY <1>2, <1>3

LEMMA CaptureCopySwap ==
  ASSUME IInv, SwapInv, CaptureCopy
  PROVE  SwapInv'
<1>1. /\ pc = "copyin" /\ pc' = (IF live = Empty THEN AfterCapture ELSE "stage")
      /\ cmd' = (IF pc' = "idle" THEN Idle ELSE cmd)
      /\ UNCHANGED <<author, forfeit, active>>
  BY StepsTo DEF CaptureCopy
<1>2. /\ work' = Overlay(work, live) /\ UNCHANGED <<branch, head, tracked, live>>
      /\ live \in Tree /\ work \in Tree
  BY DEF CaptureCopy, CopyIn, liveVars, IInv, VaultTypes
<1>3. Grown
  BY <1>2 DEF Grown, History
<1>4. active' # None => Owned(active)'
  BY <1>1, <1>2, <1>3, CaptureCopyInv, CalmSwap DEF SwapInv, WithoutSaves
<1>5. CASE live = Empty
  <2>1. \A f \in Files : live[f] = 0
    BY <1>5 DEF Empty
  <2>2. WorkKnown'
    <3>1. \A f \in Files : work'[f] = work[f]
      BY <1>2, <2>1 DEF Overlay
    <3>2. Names(work') = Names(work) /\ Tip(head)' = Tip(head)
      BY <1>2, <3>1 DEF Names, Tip
    <3> QED
      BY <1>1, <1>2, <3>2 DEF SwapInv, WithoutSaves, WorkKnown
  <2>3. \A p : InBranch(p)'
    BY <1>2, <2>1 DEF InBranch
  <2> QED
    BY <1>1, <1>2, <1>4, <1>5, <2>2, <2>3, AfterSwap DEF Capturing
<1>6. CASE live # Empty
  BY <1>1, <1>2, <1>4, <1>6 DEF SwapInv, WithoutSaves
<1> QED
  BY <1>5, <1>6

LEMMA CaptureStageSwap ==
  ASSUME IInv, SwapInv, CaptureStage
  PROVE  SwapInv'
<1>1. /\ pc = "stage" /\ pc' = "commit" /\ cmd' = cmd /\ UNCHANGED <<author, forfeit, active>>
  BY StepsTo DEF CaptureStage
<1>2. tracked' = Names(work) /\ UNCHANGED <<branch, head, work, live>>
  BY DEF CaptureStage, StageAll, liveVars
<1>3. Grown /\ WorkKnown'
  BY <1>2 DEF Grown, History, WorkKnown
<1>4. active' # None => Owned(active)'
  BY <1>1, <1>2, <1>3, CaptureStageInv, CalmSwap DEF SwapInv, WithoutSaves
<1> QED
  BY <1>1, <1>2, <1>3, <1>4 DEF SwapInv, WithoutSaves

LEMMA CaptureCommitSwap ==
  ASSUME IInv, SwapInv, CaptureCommit
  PROVE  SwapInv'
<1>1. /\ pc = "commit" /\ pc' = AfterCapture /\ cmd' = (IF AfterCapture = "idle" THEN Idle ELSE cmd)
      /\ CommitStaged(cmd.fp) /\ UNCHANGED <<author, forfeit, active>>
  BY StepsTo DEF CaptureCommit
<1>2. cmd.fp \in Prints
  BY DEF IInv, ManagerTypes, Command
<1>3. /\ Grown /\ UNCHANGED <<work, head, live>>
      /\ Stamps(work) \subseteq History(head)'
  BY <1>1, <1>2, CommitKeeps DEF IInv, liveVars
<1>4. active' # None => Owned(active)'
  BY <1>1, <1>3, CaptureCommitInv, CalmSwap DEF SwapInv, WithoutSaves
<1>5. WorkKnown'
  <2>1. WorkKnown /\ tracked' = tracked
    BY <1>1 DEF SwapInv, WithoutSaves, CommitStaged
  <2>2. CASE branch' = branch
    BY <1>3, <2>1, <2>2 DEF WorkKnown, Tip
  <2>3. CASE branch' # branch
    <3> DEFINE c == [tree |-> work, fp |-> cmd.fp]
    <3>1. branch' = [branch EXCEPT ![head] = Append(branch[head], c)]
      BY <1>1, <2>3 DEF CommitStaged
    <3>2. c.tree = work /\ c \in Commit
      BY <1>2 DEF Commit, IInv, VaultTypes
    <3> HIDE DEF c
    <3>3. branch[head] \in Seq(Commit) /\ branch'[head] = Append(branch[head], c)
      BY <3>1 DEF IInv, VaultTypes
    <3>4. Tip(head)' = work
      BY <1>3, <3>2, <3>3 DEF Tip, TipOf
    <3> QED
      BY <1>3, <3>4 DEF WorkKnown
  <2> QED
    BY <2>2, <2>3
<1>6. PICK p : p = cmd.out
  OBVIOUS
<1>7. InBranch(p)'
  <2>1. head = Slug[p]
    BY <1>1, <1>6 DEF IInv, LiveInv, Capturing
  <2>2. \A f \in Files : live[f] # 0 => live[f] \in forfeit \/ work[f] = live[f]
    BY <1>1 DEF IInv, LiveInv
  <2>3. \A f \in Files : work[f] # 0 => work[f] \in History(head)'
    BY <1>3, StampsTyped DEF IInv, VaultTypes
  <2>4. \A f \in Files : live[f] # 0 => live[f] \in forfeit \cup History(head)'
    BY <2>2, <2>3
  <2>5. History(head)' = History(Slug[p])'
    BY <1>3, <2>1
  <2> QED
    BY <1>1, <1>3, <2>4, <2>5 DEF InBranch
<1> QED
  BY <1>1, <1>3, <1>4, <1>5, <1>6, <1>7, AfterSwap DEF Capturing

LEMMA ForkSavesSwap ==
  ASSUME IInv, SwapInv, ForkSaves
  PROVE  SwapInv'
<1>1. /\ pc = "fork" /\ pc' = "idle" /\ cmd' = Idle /\ ForkBranch(cmd.out, cmd.target)
      /\ UNCHANGED <<author, forfeit, active>>
  BY DEF ForkSaves, End, dbVars, worldVars
<1>2. cmd.out \in Profiles /\ cmd.target \in Profiles
  BY <1>1 DEF IInv, CommandInv, ManagerTypes
<1>3. Grown /\ UNCHANGED live
  BY <1>1, <1>2, ForkKeeps DEF IInv, liveVars
<1>4. active' # None => Owned(active)'
  BY <1>1, <1>3, ForkSavesInv, CalmSwap DEF SwapInv, WithoutSaves
<1>5. WorkKnown'
  <2> DEFINE base == Ensured(Slug[cmd.out])
  <2>1. /\ branch' = IF base[Slug[cmd.target]] = <<>>
                     THEN [base EXCEPT ![Slug[cmd.target]] = base[Slug[cmd.out]]] ELSE base
        /\ UNCHANGED <<head, work, tracked>>
    BY <1>1 DEF ForkBranch, ForkPossible
  <2>2. head \in Branches /\ branch[head] # <<>> /\ Slug[cmd.out] \in Branches
    BY <1>2, SlugBranch DEF IInv, VaultTypes
  <2>3. base[head] = branch[head] /\ base \in [Branches -> Seq(Commit)]
    BY <2>2, EnsuredTyped DEF IInv
  <2> HIDE DEF base
  <2>4. branch'[head] = branch[head]
    BY <2>1, <2>2, <2>3
  <2>5. Tip(head)' = Tip(head)
    BY <2>1, <2>4 DEF Tip
  <2>6. WorkKnown
    BY <1>1 DEF SwapInv, WithoutSaves
  <2> QED
    BY <2>1, <2>5, <2>6 DEF WorkKnown
<1> QED
  BY <1>1, <1>3, <1>4, <1>5, IdleOps DEF SwapInv, WithoutSaves

LEMMA WatchCaptureSwap ==
  ASSUME IInv, SwapInv, WatchCapture
  PROVE  SwapInv'
<1>1. /\ pc = "idle" /\ watching # None /\ live # Empty
      /\ Captured(watching, Fingerprint[watching])
      /\ UNCHANGED <<author, forfeit, active, pc, cmd>>
  BY DEF WatchCapture, dbVars, commandVars, worldVars
<1>2. watching \in Profiles /\ Fingerprint[watching] \in Prints
  BY <1>1, ManagerAssumption DEF IInv, ManagerTypes
<1>3. Grown /\ UNCHANGED live
  BY <1>1, <1>2, CapturedKeeps DEF IInv, liveVars
<1>4. active' # None => Owned(active)'
  BY <1>1, <1>3, WatchCaptureInv, CalmSwap DEF SwapInv, WithoutSaves
<1>5. WorkKnown'
  <2>1. tracked' = Names(work')
    BY <1>1 DEF Captured
  <2> QED
    BY <2>1 DEF WorkKnown
<1>6. cmd = Idle
  BY <1>1 DEF IInv, CommandInv
<1> QED
  BY <1>1, <1>3, <1>4, <1>5, <1>6, IdleOps DEF SwapInv, WithoutSaves

\* Nothing changes in the vault, and nothing appears among the live saves.
LEMMA SameVault ==
  ASSUME UNCHANGED gitVars
  PROVE  Grown /\ WorkKnown' = WorkKnown /\ Tip(head)' = Tip(head) /\ UNCHANGED <<head, work>>
<1>1. UNCHANGED <<branch, head, work, tracked>>
  BY DEF gitVars
<1>2. Tip(head)' = Tip(head)
  BY <1>1 DEF Tip
<1> QED
  BY <1>1, <1>2 DEF Grown, History, WorkKnown

LEMMA ParkSwap ==
  ASSUME IInv, SwapInv, ParkReset \/ Park
  PROVE  SwapInv'
<1>1. /\ pc \in {"resetpark", "park"} /\ pc' \in {"park", "deploy"} /\ cmd' = cmd
      /\ UNCHANGED <<author, forfeit, active>> /\ UNCHANGED gitVars
  BY DEF ParkReset, ResetPark, Park, ParkFile, vaultVars, dbVars, worldVars
<1>2. IInv'
  BY ParkResetInv, ParkInvStep
<1>3. \A f \in Files : live'[f] # 0 => live'[f] = live[f]
  <2>1. UNCHANGED live \/ \E f : live' = [live EXCEPT ![f] = 0]
    BY DEF ParkReset, ResetPark, Park, ParkFile, vaultVars, liveVars
  <2> QED
    BY <2>1 DEF IInv, VaultTypes, Tree
<1>4. SaveDir
  BY <1>1 DEF SwapInv, WithoutSaves
<1>5. active' # None => Owned(active)'
  BY <1>1, <1>2, <1>3, SameVault, CalmSwap
<1> QED
  BY <1>1, <1>4, <1>5, SameVault DEF SwapInv, WithoutSaves

LEMMA DeploySwap ==
  ASSUME IInv, SwapInv, Deploy
  PROVE  SwapInv'
<1>1. /\ pc = "deploy" /\ pc' = "clear" /\ cmd' = cmd /\ CheckoutBranch(cmd.target)
      /\ UNCHANGED <<author, forfeit, active>>
  BY StepsTo DEF Deploy
<1>2. cmd.target \in Profiles
  BY <1>1 DEF IInv, CommandInv, ManagerTypes
<1>3. /\ WorkKnown' /\ Grown /\ UNCHANGED live /\ work' = Tip(head)' /\ head' = Slug[cmd.target]
  BY <1>1, <1>2, CheckoutSettles, CheckoutKeeps DEF IInv, SwapInv, liveVars
<1>4. active' # None => Owned(active)'
  BY <1>1, <1>3, DeployInv, CalmSwap DEF SwapInv, WithoutSaves
<1> QED
  BY <1>1, <1>3, <1>4 DEF SwapInv, WithoutSaves

LEMMA ClearSwap ==
  ASSUME IInv, SwapInv, Clear
  PROVE  SwapInv'
<1>1. /\ pc = "clear" /\ pc' = "copyout" /\ cmd' = cmd /\ live' = Empty
      /\ UNCHANGED <<author, forfeit, active>> /\ UNCHANGED gitVars
  BY DEF Clear, ClearLive, dbVars, worldVars
<1>2. \A f \in Files : live'[f] = 0
  BY <1>1 DEF Empty
<1> QED
  BY <1>1, <1>2, SameVault DEF SwapInv, WithoutSaves

\* What was copied out is in the branch it comes from.
LEMMA CopyOutSwap ==
  ASSUME IInv, SwapInv, CopyOut
  PROVE  SwapInv'
<1>1. /\ pc = "copyout" /\ UNCHANGED <<author, forfeit, active>> /\ UNCHANGED gitVars
  BY DEF CopyOut, End, Step, CopyOutFile, vaultVars, dbVars, worldVars
<1>2. ASSUME NEW f \in todo, CopyOutFile(f), UNCHANGED <<pc, cmd>>
      PROVE  SwapInv'
  <2>1. live' = [live EXCEPT ![f] = work[f]] /\ f \in Files /\ live \in Tree
    BY <1>2 DEF CopyOutFile, IInv, ManagerTypes, VaultTypes
  <2>2. \A g \in Files : live'[g] = IF g = f THEN work[f] ELSE live[g]
    BY <2>1 DEF Tree
  <2>3. SaveDir
    BY <1>1 DEF SwapInv, WithoutSaves
  <2> QED
    BY <1>1, <1>2, <2>2, <2>3, SameVault DEF SwapInv, WithoutSaves
<1>3. CASE UNCHANGED vaultVars /\ (IF cmd.op = "restore" THEN End("copyout") ELSE Step("copyout", "setactive"))
  <2>1. \A f \in Files : live[f] # 0 => live[f] \in forfeit \/ work[f] = live[f]
    BY <1>1 DEF SwapInv, WithoutSaves
  <2>2. \A f \in Files : work[f] # 0 => work[f] \in History(Slug[cmd.target])
    <3>1. work = TipOf(branch[head]) /\ head = Slug[cmd.target]
      BY <1>1 DEF SwapInv, WithoutSaves, Tip
    <3>2. branch[head] \in Seq(Commit) /\ branch[head] # <<>> /\ work \in Tree
      BY DEF IInv, VaultTypes
    <3>3. Stamps(work) \subseteq StampsOf(branch[head])
      BY <3>1, <3>2, TipTyped
    <3> QED
      BY <3>1, <3>2, <3>3, StampsTyped DEF History
  <2>3. InBranch(cmd.target)
    BY <2>1, <2>2 DEF InBranch
  <2>4. /\ UNCHANGED <<live, work, head>> /\ WorkKnown'
        /\ \A p : Owned(p)' = Owned(p) /\ InBranch(p)' = InBranch(p)
    BY <1>1, <1>3, SameSaves DEF SwapInv, WithoutSaves
  <2>5. CASE cmd.op = "restore"
    <3>1. pc' = "idle" /\ cmd' = Idle
      BY <1>3, <2>5 DEF End
    <3>2. active = cmd.target
      BY <2>5 DEF SwapInv, WithoutSaves
    <3>3. Owned(active')
      BY <1>1, <2>3, <3>2 DEF InBranch, Owned
    <3>4. Owned(active)'
      BY <2>4, <3>3
    <3> QED
      BY <1>1, <2>4, <3>1, <3>4, IdleOps DEF SwapInv, WithoutSaves
  <2>6. CASE cmd.op # "restore"
    <3>1. pc' = "setactive" /\ cmd' = cmd
      BY <1>3, <2>6 DEF Step
    <3>2. InBranch(cmd'.target)
      BY <2>3, <3>1
    <3>3. InBranch(cmd.target)'
      BY <2>4, <3>2
    <3> QED
      BY <1>1, <2>4, <2>6, <3>1, <3>3 DEF SwapInv, WithoutSaves
  <2> QED
    BY <2>5, <2>6
<1> QED
  BY <1>2, <1>3 DEF CopyOut

\* A restore gives the live saves up.
LEMMA RestoreSwap ==
  ASSUME CrossProfile = FALSE, IInv, SwapInv, NEW p \in Profiles, Restore(p)
  PROVE  SwapInv'
<1> DEFINE b == Slug[p]
<1>1. /\ SaveDir /\ active = p /\ Start("restore", "clear", p, None, NoFp) /\ UNCHANGED active
  BY DEF Restore, dbVars
<1>2. pc = "idle" /\ pc' = "clear" /\ cmd' = [op |-> "restore", target |-> p, out |-> None, fp |-> NoFp]
  BY <1>1 DEF Start
<1>3. PICK k \in DOMAIN branch[b] :
         /\ ResetBranch(p, SubSeq(branch[b], 1, k))
         /\ forfeit' = forfeit \cup Stamps(live)
                         \cup (History(b) \ StampsOf(SubSeq(branch[b], 1, k)))
  BY DEF Restore
<1> DEFINE h == SubSeq(branch[b], 1, k)
           t == TipOf(h)
<1>4. b \in Branches /\ branch \in [Branches -> Seq(Commit)] /\ live \in Tree
  BY SlugBranch DEF IInv, VaultTypes
<1>5. h \in Seq(Commit) /\ h # <<>>
  <2>1. k \in Int /\ 1 \in Int /\ k >= 1 /\ \A i \in 1..k : branch[b][i] \in Commit
    BY <1>3, <1>4
  <2>2. h \in Seq(Commit) /\ Len(h) = k
    BY <2>1, SubSeqProperties
  <2> QED
    BY <2>1, <2>2
<1>6. t \in Tree
  BY <1>5, TipTyped
<1>7. /\ branch' = [branch EXCEPT ![b] = h] /\ head' = b /\ tracked' = Names(t)
      /\ work' = [f \in Files |-> IF t[f] # 0 \/ f \in Names(TipOf(Ensured(b)[b])) THEN t[f]
                                  ELSE Materialized(t)[f]]
      /\ UNCHANGED live
  BY <1>3 DEF ResetBranch, liveVars
<1>8. Stamps(live) \subseteq forfeit'
  BY <1>3
<1> HIDE DEF h, t, b
<1>9. Tip(head)' = t
  BY <1>4, <1>7 DEF Tip, t
<1>10. work' = t
  <2>1. \A f \in Files : work'[f] = t[f]
    <3> SUFFICES ASSUME NEW f \in Files PROVE work'[f] = t[f]
      OBVIOUS
    <3>1. f \in tracked \cup Names(Tip(head)) \/ work[f] = 0
      BY <1>2 DEF SwapInv, WorkKnown, Names
    <3>2. t[f] = 0 => Materialized(t)[f] = t[f]
      BY <3>1 DEF Materialized
    <3> QED
      BY <1>7, <3>2
  <2>2. t = [f \in Files |-> t[f]]
    BY <1>6 DEF Tree
  <2>3. work' = [f \in Files |-> work'[f]]
    BY <1>7
  <2> QED
    BY <2>1, <2>2, <2>3
<1>11. WorkKnown'
  BY <1>7, <1>10 DEF WorkKnown
<1>12. Owned(active)'
  <2>1. \A f \in Files : live'[f] # 0 => live'[f] \in forfeit'
    BY <1>4, <1>7, <1>8, StampsTyped
  <2> QED
    BY <2>1 DEF Owned
<1>13. head' = Slug[p]
  BY <1>7 DEF b
<1>14. cmd'.op = "restore" /\ cmd'.target = p
  BY <1>2
<1> QED
  BY <1>1, <1>2, <1>7, <1>9, <1>10, <1>11, <1>12, <1>13, <1>14 DEF SwapInv, WithoutSaves

\* What the game writes is the active profile's, or given up while a command runs.
LEMMA GameWriteSwap ==
  ASSUME IInv, SwapInv, NEW f \in Files, GameWrite(f)
  PROVE  SwapInv'
<1> DEFINE s == Len(author) + 1
<1>1. /\ SaveDir /\ live' = [live EXCEPT ![f] = s] /\ author' = Append(author, active)
      /\ forfeit' = IF pc = "idle" THEN forfeit ELSE forfeit \cup {s}
      /\ UNCHANGED <<gitVars, active, pc, cmd>>
  BY DEF GameWrite, dbVars, commandVars
<1>2. author \in Seq(Profiles \cup {None}) /\ active \in Profiles \cup {None} /\ live \in Tree
  BY DEF IInv, ManagerTypes, VaultTypes
<1>3. /\ s \in DOMAIN author' /\ author'[s] = active
      /\ \A a \in DOMAIN author : a \in DOMAIN author' /\ author'[a] = author[a]
  BY <1>1, <1>2
<1> HIDE DEF s
<1>4. live'[f] = s /\ \A g \in Files : g # f => live'[g] = live[g]
  BY <1>1, <1>2 DEF Tree
<1>5. forfeit \subseteq forfeit' /\ (pc # "idle" => s \in forfeit')
  BY <1>1
<1>6. /\ UNCHANGED <<head, work>> /\ WorkKnown' = WorkKnown /\ Tip(head)' = Tip(head)
  BY <1>1, SameVault
<1>7. \A p : History(Slug[p])' = History(Slug[p])
  BY <1>1 DEF gitVars, History
<1>8. active # None /\ Owned(active) => Owned(active)'
  <2> SUFFICES ASSUME Owned(active), NEW g \in Files, live'[g] # 0
               PROVE  \/ live'[g] \in forfeit' \cup History(Slug[active])'
                      \/ live'[g] \in DOMAIN author' /\ author'[live'[g]] = active
    BY <1>1 DEF Owned
  <2>1. CASE g = f
    BY <1>3, <1>4, <2>1
  <2>2. CASE g # f
    <3>1. live'[g] = live[g]
      BY <1>4, <2>2
    <3>2. live[g] \in forfeit \cup History(Slug[active])
            \/ (live[g] \in DOMAIN author /\ author[live[g]] = active)
      BY <3>1 DEF Owned
    <3>3. live[g] \in forfeit => live'[g] \in forfeit'
      BY <1>5, <3>1
    <3>4. live[g] \in History(Slug[active]) => live'[g] \in History(Slug[active])'
      BY <1>1, <1>7, <3>1
    <3>5. live[g] \in DOMAIN author => live'[g] \in DOMAIN author' /\ author'[live'[g]] = author[live[g]]
      BY <1>3, <3>1
    <3> QED
      BY <3>2, <3>3, <3>4, <3>5
  <2> QED
    BY <2>1, <2>2
<1>9. \A p : pc # "idle" /\ InBranch(p) => InBranch(p)'
  BY <1>4, <1>5, <1>7 DEF InBranch
<1>10. pc = "copyout" => \A g \in Files : live'[g] # 0 => live'[g] \in forfeit' \/ work'[g] = live'[g]
  BY <1>4, <1>5, <1>6 DEF SwapInv
<1>11. pc \in {"setactive", "adoptactive"} => InBranch(cmd.target)'
  <2>1. PICK p : p = cmd.target
    OBVIOUS
  <2>2. pc \in {"setactive", "adoptactive"} => InBranch(p)'
    BY <1>9, <2>1 DEF SwapInv
  <2> QED
    BY <1>1, <2>1, <2>2
<1> QED
  BY <1>1, <1>6, <1>8, <1>10, <1>11 DEF SwapInv

LEMMA GameDeleteSwap ==
  ASSUME IInv, SwapInv, NEW f \in Files, GameDelete(f)
  PROVE  SwapInv'
<1>1. /\ SaveDir /\ live' = [live EXCEPT ![f] = 0]
      /\ UNCHANGED <<gitVars, active, pc, cmd, author, forfeit>>
  BY DEF GameDelete, dbVars, commandVars, worldVars
<1>2. \A g \in Files : live'[g] # 0 => live'[g] = live[g]
  BY <1>1 DEF IInv, VaultTypes, Tree
<1>3. /\ Grown /\ UNCHANGED <<head, work>> /\ WorkKnown' = WorkKnown /\ Tip(head)' = Tip(head)
  BY <1>1, SameVault
<1>4. \A p : (Owned(p) => Owned(p)') /\ (InBranch(p) => InBranch(p)')
  <2>1. \A p : History(Slug[p])' = History(Slug[p])
    BY <1>1 DEF gitVars, History
  <2> QED
    BY <1>1, <1>2, <2>1 DEF Owned, InBranch
<1>5. active # None /\ Owned(active) => Owned(active)'
  <2>1. PICK p : p = active
    OBVIOUS
  <2> QED
    BY <1>1, <1>4, <2>1
<1>6. InBranch(cmd.target) => InBranch(cmd.target)'
  <2>1. PICK p : p = cmd.target
    OBVIOUS
  <2> QED
    BY <1>1, <1>4, <2>1
<1>7. pc = "copyout" => \A g \in Files : live'[g] # 0 => live'[g] \in forfeit' \/ work'[g] = live'[g]
  BY <1>1, <1>2, <1>3 DEF SwapInv
<1> QED
  BY <1>1, <1>3, <1>5, <1>6, <1>7 DEF SwapInv

LEMMA InitSwap ==
  ASSUME Init
  PROVE  SwapInv
<1>1. /\ live = Empty /\ work = Empty /\ active = None /\ pc = "idle" /\ cmd = Idle
  BY DEF Init, VaultInit
<1>2. Names(work) = {}
  BY <1>1, EmptyTree
<1> QED
  BY <1>1, <1>2, IdleOps DEF SwapInv, WithoutSaves, WorkKnown

\* Only a crash is counted.
LEMMA CrashesCount ==
  ASSUME IInv, [Next]_vars
  PROVE  crashes' = crashes \/ (Crash /\ crashes' # 0)
<1>1. ASSUME NEW p \in Profiles,
             CreateProfile(p) \/ DeleteProfile(p) \/ Activate(p) \/ Try(p) \/ Adopt(p)
             \/ SaveCapture(p) \/ Restore(p)
      PROVE  crashes' = crashes
  BY <1>1 DEF CreateProfile, DeleteProfile, Restack, Activate, Try, Adopt, SaveCapture, Restore,
             worldVars
<1>2. ASSUME NEW p \in Profiles, NEW q \in Profiles, Fork(p, q) PROVE crashes' = crashes
  BY <1>2 DEF Fork, worldVars
<1>3. CASE Push \/ Rollback \/ RollbackCurrent \/ SetActive \/ CommitExperiment \/ AdoptActive
           \/ WatchStart \/ WatchStop
  BY <1>3 DEF Push, Rollback, RollbackCurrent, SetActive, CommitExperiment, AdoptActive, WatchStart,
              WatchStop, Restack, worldVars
<1>4. CASE VaultStep
  BY <1>4 DEF VaultStep, ForkSaves, Capture, CaptureCopy, CaptureStage, CaptureCommit, ParkReset,
              Park, Deploy, Clear, CopyOut, WatchCapture, worldVars
<1>5. CASE Crash
  <2>1. crashes' = crashes + 1 /\ crashes \in 0..MaxCrashes
    BY <1>5 DEF Crash, IInv, ManagerTypes
  <2> QED
    BY <1>5, <2>1, ManagerAssumption
<1>6. ASSUME NEW f \in Files, GameWrite(f) \/ GameDelete(f) PROVE crashes' = crashes
  BY <1>6 DEF GameWrite, GameDelete, worldVars
<1>7. CASE UNCHANGED vars
  BY <1>7 DEF vars, worldVars
<1> QED
  BY <1>1, <1>2, <1>3, <1>4, <1>5, <1>6, <1>7, Steps DEF QuietStep

LEMMA NextOwner ==
  ASSUME CrossProfile = FALSE, IInv, OwnerInv, [Next]_vars
  PROVE  OwnerInv'
<1> SUFFICES ASSUME crashes' = 0 PROVE SwapInv'
  BY DEF OwnerInv
<1>1. ~ Crash \/ crashes' = crashes
  BY CrashesCount
<1>2. crashes = 0 /\ SwapInv /\ (QuietStep => ~ Crash)
  <2>1. crashes' = crashes
    BY CrashesCount
  <2>2. Crash => crashes' # crashes
    BY ManagerAssumption DEF Crash, IInv, ManagerTypes
  <2> QED
    BY <2>1, <2>2 DEF OwnerInv
<1>3. CASE QuietStep
  <2>1. CASE WatchStart \/ WatchStop
    BY <1>2, <2>1, SameSwap DEF WatchStart, WatchStop, dbVars, commandVars
  <2> QED
    BY <1>2, <1>3, <2>1, StartsSwap, TablesSwap, ActiveSwap DEF QuietStep
<1>4. CASE VaultStep
  BY <1>2, <1>4, ForkSavesSwap, CaptureSwap, CaptureCopySwap, CaptureStageSwap, CaptureCommitSwap,
     ParkSwap, DeploySwap, ClearSwap, CopyOutSwap, WatchCaptureSwap DEF VaultStep
<1>5. CASE UNCHANGED vars
  BY <1>2, <1>5, SameSwap DEF vars, dbVars, commandVars, worldVars
<1> QED
  BY <1>2, <1>3, <1>4, <1>5, RestoreSwap, GameWriteSwap, GameDeleteSwap, Steps

\* While no command has failed and save commands name the active profile, the saves the game finds
\* between commands are those of the active profile, in its branch or written while it was active,
\* however profiles are swapped, forked, adopted, restored and watched (SaveManager's
\* activate_with_fingerprint and restore).
THEOREM LiveAreActives ==
  ASSUME CrossProfile = FALSE
  PROVE  Spec => []LiveIsActives
<1>1. Init => OwnerInv
  BY InitSwap DEF OwnerInv
<1>2. IInv /\ OwnerInv /\ [Next]_vars => OwnerInv'
  BY NextOwner
<1>3. IInv /\ OwnerInv => LiveIsActives
  <2> SUFFICES ASSUME IInv, SwapInv, pc = "idle", active # None, NEW s \in Stamps(live) \ forfeit
               PROVE  s \in History(Slug[active]) \/ author[s] = active
    BY DEF OwnerInv, LiveIsActives
  <2>1. Owned(active)
    BY DEF SwapInv
  <2>2. PICK f \in Files : live[f] # 0 /\ live[f] = s
    BY StampsTyped DEF IInv, VaultTypes
  <2> QED
    BY <2>1, <2>2 DEF Owned
<1> QED
  BY <1>1, <1>2, <1>3, Invariance, PTL DEF Spec
=============================================================================
