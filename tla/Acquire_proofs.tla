---------------------------- MODULE Acquire_proofs ----------------------------
(***************************************************************************)
(* Theorems about Acquire for any archives, names, junk, commands and      *)
(* changes by others, whichever archives have one name.                    *)
(*                                                                         *)
(* What lies under a name and what the store has linked to it are the same *)
(* contents. So what fills a download fills what was emptied when it was   *)
(* opened, what is completed was junk in the store too, and only what      *)
(* opens a download or copies over an entry can take an archive away.      *)
(***************************************************************************)
EXTENDS Acquire, TLAPS

DiskTypes ==
    /\ folder \in [Names -> Contents \cup {None}]
    /\ store \in [Archives -> Contents \cup {None}]
    /\ link \in [Archives -> Names \cup Archives] /\ spoilt \subseteq Archives

\* What is linked is what is stored.
DiskInv ==
    \A a \in Archives : link[a] \in Names => store[a] # None /\ store[a] = folder[link[a]]

Importing == {"hash", "place", "verify"}

\* The command is at the archive called current.
Working ==
    \/ pc \in {"nexus", "form", "login", "page", "receive", "rename", "move", "fill", "stream"}
    \/ pc \in Importing
    \/ pc \in {"poll", "look", "judge"} /\ ~controller

ControlInv ==
    /\ Working => current \in asked
    /\ pc \in {"judge"} \cup Importing => file \in Names
    /\ pc \in {"place", "verify"} => match \in Archives
    /\ pc = "wait" => controller

\* What a command is filling was emptied by it.
FillInv == \A n \in Names : Written(n) => folder[n] = Torn

\* What was imported is there, or was written over since.
Accounted(a) == store[a] = a \/ a \in spoilt

ResultInv == \A a \in Archives : results[a] \in Good /\ took[a] = a => Accounted(a)

IInv == TypeOK /\ DiskInv /\ ControlInv /\ FillInv /\ ResultInv

\* How a step may take away what is whole.
Kept ==
    \A a \in Archives : store[a] = a /\ store'[a] # a =>
        \/ pc \in {"form", "nexus"} /\ link[a] \in {NameOf[current], TempOf[current]}
        \/ pc = "place" /\ link[a] = link[match]

\* What was accounted for is so still.
Marked == \A a \in Archives : Accounted(a) => Accounted(a)'
-----------------------------------------------------------------------------
(* Files *)

\* A file written in place: the entries of the store that are that file change with it
\* (direct.rs: write_verified_bytes, common.rs: stream_to_file_verified, import.rs).
LEMMA WritingFile ==
    ASSUME TypeOK, DiskInv, NEW f \in Names \cup Archives, NEW c \in Contents, WriteFile(f, c)
    PROVE  /\ DiskTypes' /\ DiskInv' /\ Marked
           /\ \A a \in Archives : link[a] # f => store'[a] = store[a]
           /\ \A n \in Names : n # f => folder'[n] = folder[n]
           /\ f \in Names => folder'[f] = c
<1>. USE DEF WriteFile
<1>1. DiskTypes'
  BY DEF TypeOK, DiskTypes
<1>2. /\ \A a \in Archives : link[a] # f => store'[a] = store[a]
      /\ \A n \in Names : n # f => folder'[n] = folder[n]
      /\ f \in Names => folder'[f] = c
  OBVIOUS
<1>3. DiskInv'
  BY AcquireAssumption DEF TypeOK, DiskInv
<1>4. Marked
  BY DEF TypeOK, Marked, Accounted
<1>. QED
  BY <1>1, <1>2, <1>3, <1>4

\* The file a removed download was is one of the store's own.
LEMMA OwnIsArchive ==
    ASSUME NEW n \in Names, NEW a \in Archives, link[a] = n PROVE Own(n) \in Archives
  BY DEF Own

\* A download removed or renamed over: the store keeps what it had.
LEMMA Replacing ==
    ASSUME TypeOK, DiskInv, NEW n \in Names, NEW c \in Contents \cup {None}, Replace(n, c)
    PROVE  /\ DiskTypes' /\ DiskInv' /\ Marked /\ store' = store
           /\ \A m \in Names : m # n => folder'[m] = folder[m]
<1>. USE DEF Replace
<1>1. \A a \in Archives : link'[a] = IF link[a] = n THEN Own(n) ELSE link[a]
  OBVIOUS
<1>2. DiskTypes' /\ store' = store /\ \A m \in Names : m # n => folder'[m] = folder[m]
  BY <1>1, OwnIsArchive DEF TypeOK, DiskTypes
<1>3. DiskInv'
  <2>. SUFFICES ASSUME NEW a \in Archives, link'[a] \in Names
                PROVE  store'[a] # None /\ store'[a] = folder'[link'[a]]
    BY DEF DiskInv
  <2>1. link[a] # n /\ link'[a] = link[a]
    BY <1>1, OwnIsArchive, AcquireAssumption
  <2>. QED
    BY <1>2, <2>1 DEF DiskInv
<1>4. Marked
  BY DEF Marked, Accounted
<1>. QED
  BY <1>2, <1>3, <1>4

\* A download renamed within the folder: its other names stay names of it.
LEMMA Moving ==
    ASSUME TypeOK, DiskInv, NEW from \in Names, NEW to \in Names, folder[from] # None,
           Move(from, to)
    PROVE  DiskTypes' /\ DiskInv' /\ Marked /\ store' = store
<1>. USE DEF Move
<1>1. \A a \in Archives : link'[a] = IF link[a] = from THEN to
                                     ELSE IF link[a] = to THEN Own(to) ELSE link[a]
  OBVIOUS
<1>2. DiskTypes' /\ store' = store
  BY <1>1, OwnIsArchive DEF TypeOK, DiskTypes
<1>3. DiskInv'
  <2>. SUFFICES ASSUME NEW a \in Archives, link'[a] \in Names
                PROVE  store'[a] # None /\ store'[a] = folder'[link'[a]]
    BY DEF DiskInv
  <2>1. CASE link[a] = from
    BY <1>1, <1>2, <2>1 DEF DiskInv
  <2>2. CASE link[a] # from
    <3>1. link[a] # to /\ link'[a] = link[a]
      BY <1>1, <2>2, OwnIsArchive, AcquireAssumption
    <3>. QED
      BY <1>2, <2>2, <3>1 DEF DiskInv
  <2>. QED
    BY <2>1, <2>2
<1>4. Marked
  BY DEF Marked, Accounted
<1>. QED
  BY <1>2, <1>3, <1>4

-----------------------------------------------------------------------------
(* Steps: one lemma each, in which what the file operations do is done with first *)

\* A step that leaves the files alone.
LEMMA Files == ASSUME IInv, UNCHANGED disk PROVE DiskTypes' /\ DiskInv' /\ Kept /\ Marked
  BY DEF IInv, TypeOK, DiskTypes, DiskInv, Kept, Marked, Accounted, disk

\* Steps that move from one attempt, wait or poll to the next.
LEMMA TriedKeeps == ASSUME IInv, Tried PROVE IInv' /\ Kept
<1>. USE DEF IInv, Tried, disk, task, watch, bounds
<1>1. DiskTypes' /\ DiskInv' /\ Kept /\ Marked
  BY Files
<1>2. TypeOK'
  BY <1>1 DEF TypeOK, DiskTypes
<1>3. ControlInv' /\ FillInv' /\ ResultInv'
  BY DEF ControlInv, FillInv, ResultInv, Accounted, Written, Working, Importing
<1>. QED
  BY <1>1, <1>2, <1>3

LEMMA LoginKeeps == ASSUME IInv, Login PROVE IInv' /\ Kept
<1>. USE DEF IInv, Login, AskBrowser, Report, disk, task, watch, bounds
<1>1. DiskTypes' /\ DiskInv' /\ Kept /\ Marked
  BY Files
<1>2. TypeOK'
  BY <1>1 DEF TypeOK, DiskTypes, Status, ControlInv, Working
<1>3. ControlInv' /\ FillInv' /\ ResultInv'
  BY DEF ControlInv, FillInv, ResultInv, Accounted, Written, Working, Importing, TypeOK, Good
<1>. QED
  BY <1>1, <1>2, <1>3

LEMMA PageKeeps == ASSUME IInv, Page PROVE IInv' /\ Kept
<1>. USE DEF IInv, Page, AskBrowser, disk, task, watch, bounds
<1>1. DiskTypes' /\ DiskInv' /\ Kept /\ Marked
  BY Files
<1>2. TypeOK'
  BY <1>1 DEF TypeOK, DiskTypes, ControlInv, Working
<1>3. ControlInv' /\ FillInv' /\ ResultInv'
  BY DEF ControlInv, FillInv, ResultInv, Accounted, Written, Working, Importing
<1>. QED
  BY <1>1, <1>2, <1>3

LEMMA TimeOutKeeps == ASSUME IInv, TimeOut PROVE IInv' /\ Kept
<1>. USE DEF IInv, TimeOut, GiveUp, TimeAll, WaitReturns, Report, disk, task, watch, bounds
<1>1. DiskTypes' /\ DiskInv' /\ Kept /\ Marked
  BY Files
<1>2. TypeOK'
  BY <1>1 DEF TypeOK, DiskTypes, NoneSeen, Status
<1>3. ControlInv' /\ FillInv' /\ ResultInv'
  BY DEF ControlInv, FillInv, ResultInv, Accounted, Written, Working, Importing, TypeOK, Good
<1>. QED
  BY <1>1, <1>2, <1>3

LEMMA ListKeeps == ASSUME IInv, List PROVE IInv' /\ Kept
<1>. USE DEF IInv, List, disk, task, watch, bounds
<1>1. DiskTypes' /\ DiskInv' /\ Kept /\ Marked
  BY Files
<1>2. TypeOK'
  BY <1>1 DEF TypeOK, DiskTypes
<1>3. ControlInv' /\ FillInv' /\ ResultInv'
  BY DEF ControlInv, FillInv, ResultInv, Accounted, Written, Working, Importing
<1>. QED
  BY <1>1, <1>2, <1>3

LEMMA LookedKeeps == ASSUME IInv, Looked PROVE IInv' /\ Kept
<1>. USE DEF IInv, Looked, disk, task, watch, bounds
<1>1. DiskTypes' /\ DiskInv' /\ Kept /\ Marked
  BY Files
<1>2. TypeOK'
  BY <1>1 DEF TypeOK, DiskTypes
<1>3. ControlInv' /\ FillInv' /\ ResultInv'
  BY DEF ControlInv, FillInv, ResultInv, Accounted, Written, Working, Importing
<1>. QED
  BY <1>1, <1>2, <1>3

LEMMA WaitKeeps == ASSUME IInv, Wait PROVE IInv' /\ Kept
<1>. USE DEF IInv, Wait, TimeAll, disk, task, watch, bounds
<1>1. DiskTypes' /\ DiskInv' /\ Kept /\ Marked
  BY Files
<1>2. TypeOK'
  BY <1>1 DEF TypeOK, DiskTypes, Status
<1>3. ControlInv' /\ FillInv' /\ ResultInv'
  BY DEF ControlInv, FillInv, ResultInv, Accounted, Written, Working, Importing, TypeOK, Good
<1>. QED
  BY <1>1, <1>2, <1>3

LEMMA ExpireKeeps == ASSUME IInv, Expire PROVE IInv' /\ Kept
<1>. USE DEF IInv, Expire, Watching, disk, task, watch, bounds
<1>1. DiskTypes' /\ DiskInv' /\ Kept /\ Marked
  BY Files
<1>2. TypeOK'
  BY <1>1 DEF TypeOK, DiskTypes
<1>3. ControlInv' /\ FillInv' /\ ResultInv'
  BY DEF ControlInv, FillInv, ResultInv, Accounted, Written, Working, Importing
<1>. QED
  BY <1>1, <1>2, <1>3

LEMMA TakeKeeps == ASSUME IInv, NEW a \in Archives, Take(a) PROVE IInv' /\ Kept
<1>. USE DEF IInv, Take, disk, task, watch, bounds
<1>1. DiskTypes' /\ DiskInv' /\ Kept /\ Marked
  BY Files
<1>2. TypeOK'
  BY <1>1, AcquireAssumption DEF TypeOK, DiskTypes
<1>3. ControlInv' /\ FillInv' /\ ResultInv'
  BY AcquireAssumption DEF TypeOK, ControlInv, FillInv, ResultInv, Accounted, Written, Working, Importing
<1>. QED
  BY <1>1, <1>2, <1>3

\* A candidate is made anew, passed over, or remembered as hashed.
LEMMA LookKeeps == ASSUME IInv, NEW n \in Names, Look(n) PROVE IInv' /\ Kept
<1>. USE DEF IInv, Look, NewCandidate, disk, task, watch, bounds
<1>1. DiskTypes' /\ DiskInv' /\ Kept /\ Marked
  BY Files
<1>2. TypeOK'
  <2>1. seen' \in [Names -> Candidate \cup {None}]
    <3>1. folder[n] # None => Length[folder[n]] \in Nat
      BY AcquireAssumption DEF TypeOK
    <3>2. seen[n] # None => [seen[n] EXCEPT !.hashed = TRUE] \in Candidate
      BY DEF TypeOK, Candidate
    <3>3. NewCandidate(n) \in Candidate \/ folder[n] = None
      BY <3>1 DEF Candidate
    <3>. HIDE DEF NewCandidate
    <3>. QED
      BY <3>2, <3>3 DEF TypeOK
  <2>. QED
    BY <1>1, <2>1 DEF TypeOK, DiskTypes
<1>3. ControlInv' /\ FillInv' /\ ResultInv'
  BY DEF TypeOK, ControlInv, FillInv, ResultInv, Accounted, Written, Working, Importing
<1>. QED
  BY <1>1, <1>2, <1>3

LEMMA RipenKeeps == ASSUME IInv, NEW n \in Names, Ripen(n) PROVE IInv' /\ Kept
<1>. USE DEF IInv, Ripen, disk, task, watch, bounds
<1>1. DiskTypes' /\ DiskInv' /\ Kept /\ Marked
  BY Files
<1>2. TypeOK'
  <2>1. seen' \in [Names -> Candidate \cup {None}]
    <3>1. [seen[n] EXCEPT !.ripe = TRUE] \in Candidate
      BY DEF TypeOK, Candidate
    <3>. QED
      BY <3>1 DEF TypeOK
  <2>. QED
    BY <1>1, <2>1 DEF TypeOK, DiskTypes
<1>3. ControlInv' /\ FillInv' /\ ResultInv'
  BY DEF TypeOK, ControlInv, FillInv, ResultInv, Accounted, Written, Working, Importing
<1>. QED
  BY <1>1, <1>2, <1>3

\* A command that ends with an error keeps nothing but the files.
LEMMA EndedKeeps ==
    ASSUME IInv, Ended, DiskTypes', DiskInv', runs' \in Nat, deaths' \in Nat, saves' \in Nat
    PROVE  IInv'
<1>. USE DEF IInv, Ended
<1>1. None \notin Good
  BY AcquireAssumption DEF Status
<1>2. TypeOK'
  BY DEF TypeOK, DiskTypes, NoneSeen
<1>3. ControlInv' /\ FillInv'
  BY DEF ControlInv, FillInv, Written, Working, Importing
<1>4. ResultInv'
  BY <1>1 DEF TypeOK, ResultInv
<1>. QED
  BY <1>2, <1>3, <1>4

\* An error, and a death.
LEMMA FailKeeps == ASSUME IInv, Fail PROVE IInv' /\ Kept
  BY EndedKeeps, Files DEF Fail, IInv, TypeOK, bounds

LEMMA DieKeeps == ASSUME IInv, Die PROVE IInv' /\ Kept
  BY EndedKeeps, Files DEF Die, IInv, TypeOK

\* A command begins with no results, and fills nothing yet.
LEMMA BeginKeeps ==
    ASSUME IInv, NEW b \in BOOLEAN, NEW x \in BOOLEAN, Begin(b, x)
    PROVE  IInv' /\ Kept
<1>. USE DEF IInv, Begin, Missing, disk, task, watch, bounds
<1>0. None \notin Good
  BY AcquireAssumption DEF Status
<1>1. DiskTypes' /\ DiskInv' /\ Kept /\ Marked
  BY Files
<1>2. TypeOK'
  BY <1>1 DEF TypeOK, DiskTypes
<1>3. ControlInv' /\ FillInv'
  BY DEF ControlInv, FillInv, Written, Working, Importing
<1>4. ResultInv'
  BY <1>0 DEF TypeOK, ResultInv
<1>. QED
  BY <1>1, <1>2, <1>3, <1>4

LEMMA VanishedKeeps == ASSUME IInv, Vanished PROVE IInv' /\ Kept
<1>. USE DEF IInv, Vanished, GiveUp, TimeAll, WaitReturns, Report, disk, task, watch, bounds
<1>1. DiskTypes' /\ DiskInv' /\ Kept /\ Marked
  BY Files
<1>2. TypeOK'
  <2>1. results' \in [Archives -> Status \cup {None}]
    BY DEF TypeOK, Status
  <2>. QED
    BY <1>1, <2>1 DEF TypeOK, DiskTypes, NoneSeen
<1>3. ControlInv' /\ FillInv'
  BY DEF ControlInv, FillInv, Written, Working, Importing
<1>4. ResultInv'
  BY DEF TypeOK, ResultInv, Accounted, Good
<1>. QED
  BY <1>1, <1>2, <1>3, <1>4

\* What is found is waited for, and so was asked for.
LEMMA FoundKeeps == ASSUME IInv, Found PROVE IInv' /\ Kept
<1>. USE DEF IInv, Found, Wanted, WaitReturns, disk, task, watch, bounds
<1>1. DiskTypes' /\ DiskInv' /\ Kept /\ Marked
  BY Files
<1>2. folder[file] \in asked /\ file \in Names
  BY DEF TypeOK, ControlInv, Working
<1>3. TypeOK'
  BY <1>1, <1>2 DEF TypeOK, DiskTypes, NoneSeen
<1>4. ControlInv' /\ FillInv' /\ ResultInv'
  BY <1>2 DEF ControlInv, FillInv, ResultInv, Accounted, Written, Working, Importing
<1>. QED
  BY <1>1, <1>3, <1>4

LEMMA UnwantedKeeps == ASSUME IInv, Unwanted PROVE IInv' /\ Kept
<1>. USE DEF IInv, Unwanted, disk, task, watch, bounds
<1>1. DiskTypes' /\ DiskInv' /\ Kept /\ Marked
  BY Files
<1>2. TypeOK'
  BY <1>1 DEF TypeOK, DiskTypes
<1>3. ControlInv' /\ FillInv' /\ ResultInv'
  BY DEF ControlInv, FillInv, ResultInv, Accounted, Written, Working, Importing
<1>. QED
  BY <1>1, <1>2, <1>3

LEMMA DiscardKeeps == ASSUME IInv, NEW n \in Names, Discard(n) PROVE IInv' /\ Kept
<1>. USE DEF IInv, Discard, Other, task, watch
<1>1. /\ DiskTypes' /\ DiskInv' /\ Marked /\ store' = store
      /\ \A m \in Names : m # n => folder'[m] = folder[m]
  BY Replacing
<1>2. TypeOK'
  BY <1>1 DEF TypeOK, DiskTypes
<1>3. FillInv'
  BY <1>1 DEF FillInv, Written
<1>4. ControlInv' /\ ResultInv' /\ Kept
  BY <1>1 DEF ControlInv, ResultInv, Marked, Kept, Working, Importing
<1>. QED
  BY <1>1, <1>2, <1>3, <1>4

\* The names an attempt writes to.
LEMMA NamesOfCurrent ==
    ASSUME IInv, Working
    PROVE  current \in Contents /\ NameOf[current] \in Names /\ TempOf[current] \in Names
  BY AcquireAssumption DEF IInv, TypeOK, ControlInv, Contents

\* A browser is asked for an archive that was tried.
LEMMA Asking ==
    ASSUME IInv, pc \in {"form", "login", "page"}, AskBrowser, UNCHANGED <<disk, bounds>>
    PROVE  IInv' /\ Kept
<1>. USE DEF IInv, AskBrowser, disk, task, watch, bounds
<1>1. DiskTypes' /\ DiskInv' /\ Kept /\ Marked
  BY Files
<1>2. TypeOK'
  BY <1>1 DEF TypeOK, DiskTypes, ControlInv, Working
<1>3. ControlInv' /\ FillInv' /\ ResultInv'
  BY DEF ControlInv, FillInv, ResultInv, Accounted, Written, Working, Importing
<1>. QED
  BY <1>1, <1>2, <1>3

\* The next step of the same attempt.
LEMMA Going ==
    ASSUME IInv, Working, pc \notin Importing,
           pc' \in {"form", "receive", "rename", "move", "fill", "stream"},
           UNCHANGED <<task, watch, bounds>>, DiskTypes', DiskInv', Marked, FillInv'
    PROVE  IInv'
<1>. USE DEF IInv, task, watch, bounds
<1>1. TypeOK'
  BY DEF TypeOK, DiskTypes
<1>2. ControlInv'
  BY DEF ControlInv, Working, Importing
<1>3. ResultInv'
  BY DEF TypeOK, ResultInv, Marked
<1>. QED
  BY <1>1, <1>2, <1>3

\* What was fetched is handed to the import.
LEMMA Handing ==
    ASSUME IInv, pc \in {"move", "fill", "stream"}, NEW by \in {"form", "nexus"},
           Downloaded(by), DiskTypes', DiskInv', Marked
    PROVE  IInv'
<1>. USE DEF IInv, Downloaded, task, bounds
<1>1. Working /\ NameOf[current] \in Names
  BY NamesOfCurrent DEF Working
<1>2. TypeOK'
  BY <1>1 DEF TypeOK, DiskTypes
<1>3. ControlInv' /\ FillInv'
  BY <1>1 DEF ControlInv, FillInv, Written, Working, Importing
<1>4. ResultInv'
  BY DEF TypeOK, ResultInv, Marked
<1>. QED
  BY <1>2, <1>3, <1>4

\* What is filled was emptied, in the store too: nothing whole is lost.
LEMMA Filling ==
    ASSUME IInv, NEW n \in Names, folder[n] = Torn, NEW c \in Contents, WriteInPlace(n, c)
    PROVE  DiskTypes' /\ DiskInv' /\ Marked /\ Kept
<1>1. DiskTypes' /\ DiskInv' /\ Marked /\ \A a \in Archives : link[a] # n => store'[a] = store[a]
  BY WritingFile DEF IInv, WriteInPlace
<1>2. \A a \in Archives : link[a] = n => store[a] # a
  BY AcquireAssumption DEF IInv, DiskInv
<1>. QED
  BY <1>1, <1>2 DEF Kept

\* The attempts, by how they leave the download folder.
LEMMA FormKeeps == ASSUME IInv, Form PROVE IInv' /\ Kept
<1>. USE DEF Form
<1>0. Working /\ Torn \in Contents
  BY AcquireAssumption DEF Working, Contents
<1>1. CASE Fail
  BY <1>1, FailKeeps
<1>2. CASE AskBrowser /\ UNCHANGED disk
  BY <1>2, Asking
<1>3. CASE /\ WriteInPlace(TempOf[current], Torn)
           /\ pc' = "receive" /\ UNCHANGED <<task, watch>>
  <2>1. /\ DiskTypes' /\ DiskInv' /\ Marked /\ folder'[TempOf[current]] = Torn
        /\ \A a \in Archives : link[a] # TempOf[current] => store'[a] = store[a]
    BY <1>0, <1>3, NamesOfCurrent, WritingFile DEF IInv, WriteInPlace
  <2>2. FillInv' /\ Kept
    BY <1>3, <2>1 DEF FillInv, Written, Kept, task
  <2>. QED
    BY <1>0, <1>3, <2>1, <2>2, Going DEF Importing
<1>4. CASE WriteInPlace(NameOf[current], Torn) /\ pc' = "fill" /\ UNCHANGED <<task, watch>>
  <2>1. /\ DiskTypes' /\ DiskInv' /\ Marked /\ folder'[NameOf[current]] = Torn
        /\ \A a \in Archives : link[a] # NameOf[current] => store'[a] = store[a]
    BY <1>0, <1>4, NamesOfCurrent, WritingFile DEF IInv, WriteInPlace
  <2>2. FillInv' /\ Kept
    BY <1>4, <2>1 DEF FillInv, Written, Kept, task
  <2>. QED
    BY <1>0, <1>4, <2>1, <2>2, Going DEF Importing
<1>. QED
  BY <1>1, <1>2, <1>3, <1>4

LEMMA ReceiveKeeps == ASSUME IInv, Receive PROVE IInv' /\ Kept
<1>. USE DEF Receive
<1>0. Working /\ folder[TempOf[current]] = Torn
  BY NamesOfCurrent DEF Working, IInv, FillInv, Written
<1>1. CASE Fail
  BY <1>1, FailKeeps
<1>2. CASE Replace(TempOf[current], None) /\ pc' = "form" /\ UNCHANGED <<task, watch>>
  <2>1. DiskTypes' /\ DiskInv' /\ Marked /\ store' = store
    BY <1>0, <1>2, NamesOfCurrent, Replacing DEF IInv
  <2>2. FillInv' /\ Kept
    BY <1>2, <2>1 DEF FillInv, Written, Kept
  <2>. QED
    BY <1>0, <1>2, <2>1, <2>2, Going DEF Importing
<1>3. CASE /\ WriteInPlace(TempOf[current], current)
           /\ pc' = "rename" /\ UNCHANGED <<task, watch>>
  <2>1. DiskTypes' /\ DiskInv' /\ Marked /\ Kept
    BY <1>0, <1>3, NamesOfCurrent, Filling
  <2>2. FillInv'
    BY <1>3 DEF FillInv, Written
  <2>. QED
    BY <1>0, <1>3, <2>1, <2>2, Going DEF Importing
<1>. QED
  BY <1>1, <1>2, <1>3

LEMMA RenameKeeps == ASSUME IInv, Rename PROVE IInv' /\ Kept
<1>. USE DEF Rename
<1>1. Working
  BY DEF Working
<1>2. DiskTypes' /\ DiskInv' /\ Marked /\ store' = store
  BY <1>1, NamesOfCurrent, Replacing DEF IInv
<1>3. FillInv' /\ Kept
  BY <1>2 DEF FillInv, Written, Kept
<1>. QED
  BY <1>1, <1>2, <1>3, Going DEF Importing

LEMMA MoveToNameKeeps == ASSUME IInv, MoveToName PROVE IInv' /\ Kept
<1>. USE DEF MoveToName
<1>1. CASE folder[TempOf[current]] = None /\ Fail
  BY <1>1, FailKeeps
<1>2. CASE /\ folder[TempOf[current]] # None
           /\ Move(TempOf[current], NameOf[current]) /\ Downloaded("form")
  <2>1. DiskTypes' /\ DiskInv' /\ Marked /\ store' = store
    BY <1>2, NamesOfCurrent, Moving DEF IInv, Working
  <2>. QED
    BY <1>2, <2>1, Handing DEF Kept
<1>. QED
  BY <1>1, <1>2

LEMMA FillKeeps == ASSUME IInv, Fill PROVE IInv' /\ Kept
<1>. USE DEF Fill
<1>1. CASE Fail
  BY <1>1, FailKeeps
<1>2. CASE WriteInPlace(NameOf[current], current) /\ Downloaded("form")
  <2>1. Working /\ folder[NameOf[current]] = Torn
    BY NamesOfCurrent DEF Working, IInv, FillInv, Written
  <2>. QED
    BY <1>2, <2>1, NamesOfCurrent, Filling, Handing
<1>. QED
  BY <1>1, <1>2

\* A Nexus archive that was not had is reported, or waited for with the others.
LEMMA Refusing ==
    ASSUME IInv, pc \in {"nexus", "stream", "hash"}, NEW s \in Status \ Good, Refused(s),
           UNCHANGED <<mismatched, expired, seen, paths, bounds>>,
           file' \in {file, None}, match' \in {match, None}, caller' \in {caller, None},
           DiskTypes', DiskInv', Marked
    PROVE  IInv'
<1>. USE DEF IInv, Refused, Report, bounds
<1>1. TypeOK'
  BY DEF TypeOK, DiskTypes, ControlInv, Working, Importing
<1>2. ControlInv' /\ FillInv'
  BY DEF ControlInv, FillInv, Written, Working, Importing
<1>3. ResultInv'
  BY DEF TypeOK, ResultInv, Marked
<1>. QED
  BY <1>1, <1>2, <1>3

LEMMA NexusKeeps == ASSUME IInv, Nexus PROVE IInv' /\ Kept
<1>. USE DEF Nexus
<1>0. Working /\ Torn \in Contents
  BY AcquireAssumption DEF Working, Contents
<1>1. CASE Refused("refused") /\ UNCHANGED <<disk, watch>>
  <2>1. "refused" \in Status \ Good
    BY DEF Status, Good
  <2>. QED
    BY <1>1, <2>1, Files, Refusing DEF disk, watch
<1>2. CASE WriteInPlace(NameOf[current], Torn) /\ pc' = "stream" /\ UNCHANGED <<task, watch>>
  <2>1. /\ DiskTypes' /\ DiskInv' /\ Marked /\ folder'[NameOf[current]] = Torn
        /\ \A a \in Archives : link[a] # NameOf[current] => store'[a] = store[a]
    BY <1>0, <1>2, NamesOfCurrent, WritingFile DEF IInv, WriteInPlace
  <2>2. FillInv' /\ Kept
    BY <1>2, <2>1 DEF FillInv, Written, Kept, task
  <2>. QED
    BY <1>0, <1>2, <2>1, <2>2, Going DEF Importing
<1>. QED
  BY <1>1, <1>2

LEMMA StreamKeeps == ASSUME IInv, Stream PROVE IInv' /\ Kept
<1>. USE DEF Stream
<1>0. "mismatched" \in Status \ Good
  BY DEF Status, Good
<1>1. Working /\ folder[NameOf[current]] = Torn
  BY NamesOfCurrent DEF Working, IInv, FillInv, Written
<1>2. CASE WriteInPlace(NameOf[current], current) /\ Downloaded("nexus")
  BY <1>1, <1>2, NamesOfCurrent, Filling, Handing
<1>3. CASE Refused("mismatched") /\ UNCHANGED <<disk, watch, bounds>>
  BY <1>0, <1>3, Files, Refusing DEF disk, watch
<1>4. CASE Replace(NameOf[current], None) /\ Refused("mismatched") /\ UNCHANGED <<watch, bounds>>
  <2>1. DiskTypes' /\ DiskInv' /\ Marked /\ store' = store
    BY <1>1, <1>4, NamesOfCurrent, Replacing DEF IInv
  <2>. QED
    BY <1>0, <1>4, <2>1, Refusing DEF Kept, watch
<1>. QED
  BY <1>2, <1>3, <1>4

\* A result that says the archive was acquired, by that archive, is given when the store has it.
LEMMA Reporting ==
    ASSUME IInv, pc \in {"hash", "verify"}, NEW s \in Status, NEW found \in Archives \cup {None},
           s \in Good => found \in Archives /\ store[found] = found,
           NEW next \in {"next", "wait"}, next = "wait" => controller,
           Report(current, s, found, next),
           UNCHANGED <<disk, paths, seen, mismatched, expired, bounds>>,
           file' = None, match' = None, caller' = None
    PROVE  IInv' /\ Kept
<1>. USE DEF IInv, Report, disk, bounds
<1>1. DiskTypes' /\ DiskInv' /\ Kept /\ Marked
  BY Files
<1>2. TypeOK'
  BY <1>1 DEF TypeOK, DiskTypes
<1>3. ControlInv' /\ FillInv'
  BY DEF ControlInv, FillInv, Written, Working, Importing
<1>4. ResultInv'
  BY DEF TypeOK, ResultInv, Accounted
<1>. QED
  BY <1>1, <1>2, <1>3, <1>4

\* An import that came to an end is what it is reported as (acquire.rs: import_acquired_archive).
LEMMA Finishing ==
    ASSUME IInv, pc \in {"hash", "verify"}, NEW s \in {"imported", "alreadyPresent", "mismatched"},
           NEW found \in Archives \cup {None},
           s \in Good => found \in Archives /\ store[found] = found, pc = "verify" => s \in Good,
           Finish(s, found), UNCHANGED bounds
    PROVE  IInv' /\ Kept
<1>. USE DEF Finish
<1>0. s \in Status /\ "directResolved" \in Status
  BY DEF Status, Good
<1>1. CASE /\ caller = "form"
           /\ Report(current, IF s \in Good THEN "directResolved" ELSE s, found, "next")
  <2>. DEFINE t == IF s \in Good THEN "directResolved" ELSE s
  <2>1. t \in Status /\ (t \in Good => found \in Archives /\ store[found] = found)
    BY <1>0 DEF Good
  <2>. HIDE DEF t
  <2>. QED
    BY <1>1, <2>1, Reporting DEF t
<1>2. CASE caller = "nexus" /\ s \in Good /\ Report(current, s, found, "next")
  BY <1>0, <1>2, Reporting
<1>3. CASE caller = "nexus" /\ s \notin Good /\ Refused(s)
  BY <1>0, <1>3, Files, Refusing DEF disk
<1>4. CASE caller = "watch" /\ Report(current, s, found, IF controller THEN "wait" ELSE "next")
  <2>1. controller \in BOOLEAN
    BY DEF IInv, TypeOK
  <2>2. CASE controller
    BY <1>0, <1>4, <2>2, Reporting
  <2>3. CASE ~controller
    BY <1>0, <1>4, <2>3, Reporting
  <2>. QED
    BY <2>1, <2>2, <2>3
<1>. QED
  BY <1>1, <1>2, <1>3, <1>4

LEMMA HashKeeps == ASSUME IInv, Hash PROVE IInv' /\ Kept
<1>. USE DEF Hash
<1>1. CASE folder[file] = None /\ Fail
  BY <1>1, FailKeeps
<1>2. CASE folder[file] \in Junk /\ Finish("mismatched", None)
  <2>1. "mismatched" \notin Good
    BY DEF Good
  <2>. QED
    BY <1>2, <2>1, Finishing
<1>3. CASE /\ folder[file] \in Archives /\ store[folder[file]] = folder[file]
           /\ Finish("alreadyPresent", folder[file])
  BY <1>3, Finishing
<1>4. CASE /\ folder[file] \in Archives /\ store[folder[file]] # folder[file]
           /\ match' = folder[file] /\ pc' = "place"
           /\ UNCHANGED <<disk, task, file, caller, paths, seen, mismatched, expired>>
  <2>. USE DEF IInv, disk, task, bounds
  <2>1. DiskTypes' /\ DiskInv' /\ Kept /\ Marked
    BY <1>4, Files
  <2>2. TypeOK'
    BY <1>4, <2>1 DEF TypeOK, DiskTypes
  <2>3. ControlInv' /\ FillInv' /\ ResultInv'
    BY <1>4 DEF ControlInv, FillInv, ResultInv, Accounted, Written, Working, Importing
  <2>. QED
    BY <2>1, <2>2, <2>3
<1>. QED
  BY <1>1, <1>2, <1>3, <1>4

\* The file of an entry is linked where there was none, and copied over what there was.
LEMMA PlaceKeeps == ASSUME IInv, Place PROVE IInv' /\ Kept
<1>. USE DEF Place
<1>1. file \in Names /\ match \in Archives /\ link[match] \in Names \cup Archives
  BY DEF IInv, TypeOK, ControlInv, Importing
<1>2. CASE folder[file] = None /\ Fail
  BY <1>2, FailKeeps
<1>3. CASE /\ folder[file] # None /\ store[match] = None
           /\ store' = [store EXCEPT ![match] = folder[file]]
           /\ link' = [link EXCEPT ![match] = file]
           /\ pc' = "verify" /\ UNCHANGED <<folder, spoilt, task, watch>>
  <2>. USE DEF IInv, task, watch, bounds
  <2>1. match # None
    BY <1>1, AcquireAssumption DEF Contents
  <2>2. DiskTypes' /\ Kept /\ Marked
    BY <1>1, <1>3, <2>1 DEF TypeOK, DiskTypes, Kept, Marked, Accounted
  <2>3. DiskInv'
    BY <1>1, <1>3 DEF TypeOK, DiskInv
  <2>4. TypeOK'
    BY <1>3, <2>2 DEF TypeOK, DiskTypes
  <2>5. ControlInv' /\ FillInv'
    BY <1>1, <1>3 DEF ControlInv, FillInv, Written, Working, Importing
  <2>6. ResultInv'
    BY <1>3, <2>2 DEF ResultInv, Marked
  <2>. QED
    BY <2>2, <2>3, <2>4, <2>5, <2>6
<1>4. CASE /\ folder[file] # None
           /\ CopyOver(match, folder[file])
           /\ pc' = "verify" /\ UNCHANGED <<task, watch>>
  <2>. USE DEF IInv, task, watch, bounds
  <2>1. folder[file] \in Contents
    BY <1>1, <1>4 DEF TypeOK
  <2>2. /\ DiskTypes' /\ DiskInv' /\ Marked
        /\ \A a \in Archives : link[a] # link[match] => store'[a] = store[a]
    BY <1>1, <1>4, <2>1, WritingFile DEF CopyOver
  <2>3. TypeOK'
    BY <1>4, <2>2 DEF TypeOK, DiskTypes
  <2>4. ControlInv' /\ FillInv'
    BY <1>1, <1>4 DEF ControlInv, FillInv, Written, Working, Importing
  <2>5. ResultInv' /\ Kept
    BY <1>4, <2>2 DEF ResultInv, Marked, Kept
  <2>. QED
    BY <2>2, <2>3, <2>4, <2>5
<1>5. CASE folder[file] # None /\ CopyOver(match, Torn) /\ Ended
  <2>1. /\ DiskTypes' /\ DiskInv'
        /\ \A a \in Archives : link[a] # link[match] => store'[a] = store[a]
    BY <1>1, <1>5, WritingFile, AcquireAssumption DEF IInv, CopyOver, Contents
  <2>2. Kept
    BY <2>1 DEF Kept
  <2>. QED
    BY <1>5, <2>1, <2>2, EndedKeeps DEF IInv, TypeOK, bounds
<1>. QED
  BY <1>2, <1>3, <1>4, <1>5

\* An import is reported when the entry was read back.
LEMMA VerifyKeeps == ASSUME IInv, Verify PROVE IInv' /\ Kept
<1>. USE DEF Verify
<1>1. match \in Archives
  BY DEF IInv, ControlInv
<1>2. CASE store[match] = match /\ Finish("imported", match)
  BY <1>1, <1>2, Finishing DEF Good
<1>3. CASE store[match] # match /\ Fail
  BY <1>3, FailKeeps
<1>. QED
  BY <1>2, <1>3

\* Everybody else. What they save had no name there, so a command is not filling it.
LEMMA SaveKeeps ==
    ASSUME IInv, NEW n \in Names, NEW c \in Contents, Save(n, c)
    PROVE  IInv' /\ Kept
<1>. USE DEF IInv, Save, Other, task, watch
<1>1. /\ DiskTypes' /\ DiskInv' /\ Marked /\ store' = store
      /\ \A m \in Names : m # n => folder'[m] = folder[m]
  BY Replacing
<1>2. TypeOK'
  BY <1>1 DEF TypeOK, DiskTypes
<1>3. FillInv'
  BY <1>1, AcquireAssumption DEF FillInv, Written, Contents
<1>4. ControlInv' /\ ResultInv' /\ Kept
  BY <1>1 DEF ControlInv, ResultInv, Marked, Kept, Working, Importing
<1>. QED
  BY <1>1, <1>2, <1>3, <1>4

\* What is completed was junk: nothing whole is written over.
LEMMA CompleteKeeps ==
    ASSUME IInv, NEW n \in Names, NEW c \in Contents, Complete(n, c)
    PROVE  IInv' /\ Kept
<1>. USE DEF IInv, Complete, Other, task, watch
<1>1. /\ DiskTypes' /\ DiskInv' /\ Marked
      /\ \A a \in Archives : link[a] # n => store'[a] = store[a]
      /\ \A m \in Names : m # n => folder'[m] = folder[m]
  BY WritingFile DEF WriteInPlace
<1>2. TypeOK'
  BY <1>1 DEF TypeOK, DiskTypes
<1>3. FillInv'
  BY <1>1, AcquireAssumption DEF FillInv, Written
<1>4. \A a \in Archives : link[a] = n => store[a] # a
  BY AcquireAssumption DEF DiskInv
<1>5. ControlInv' /\ ResultInv' /\ Kept
  BY <1>1, <1>4 DEF ControlInv, ResultInv, Marked, Kept, Working, Importing
<1>. QED
  BY <1>1, <1>2, <1>3, <1>5

\* Another import writes only where nothing whole is, and nothing linked.
LEMMA ElsewhereKeeps ==
    ASSUME IInv, NEW a \in Archives, NEW c \in {a, Torn}, ImportElsewhere(a, c)
    PROVE  IInv' /\ Kept
<1>. USE DEF IInv, ImportElsewhere, Other, task, watch
<1>1. c \in Contents /\ a \notin Names
  BY AcquireAssumption DEF Contents
<1>2. /\ DiskTypes' /\ DiskInv' /\ Marked
      /\ \A b \in Archives : link[b] # a => store'[b] = store[b]
      /\ \A m \in Names : folder'[m] = folder[m]
  BY <1>1, WritingFile DEF CopyOver
<1>3. TypeOK'
  BY <1>2 DEF TypeOK, DiskTypes
<1>4. FillInv'
  BY <1>2 DEF FillInv, Written
<1>5. \A b \in Archives : link[b] = a => store[b] # b
  OBVIOUS
<1>6. ControlInv' /\ ResultInv' /\ Kept
  BY <1>2, <1>5 DEF ControlInv, ResultInv, Marked, Kept, Working, Importing
<1>. QED
  BY <1>2, <1>3, <1>4, <1>6

-----------------------------------------------------------------------------
(* Theorems *)

LEMMA InitInv == Init => IInv
<1>. SUFFICES ASSUME Init PROVE IInv
  OBVIOUS
<1>. USE DEF Init
<1>1. None \notin Good
  BY AcquireAssumption DEF Status
<1>2. TypeOK
  BY DEF TypeOK, NoneSeen
<1>3. DiskInv
  BY AcquireAssumption DEF DiskInv
<1>4. ControlInv /\ FillInv /\ ResultInv
  BY <1>1 DEF ControlInv, FillInv, Written, ResultInv, Working, Importing
<1>. QED
  BY <1>2, <1>3, <1>4 DEF IInv

LEMMA StepKeeps == ASSUME IInv, Step PROVE IInv' /\ Kept
  BY TakeKeeps, TriedKeeps, LoginKeeps, PageKeeps, FormKeeps, ReceiveKeeps, RenameKeeps,
     MoveToNameKeeps, FillKeeps, NexusKeeps, StreamKeeps, HashKeeps, PlaceKeeps, VerifyKeeps,
     WaitKeeps, TimeOutKeeps, ListKeeps, LookedKeeps, VanishedKeeps, FoundKeeps, UnwantedKeeps,
     LookKeeps DEF Step

LEMMA NextKeeps == ASSUME IInv, [Next]_vars PROVE IInv' /\ [Kept]_vars
<1>1. CASE Next
  BY <1>1, StepKeeps, BeginKeeps, DieKeeps, ExpireKeeps, RipenKeeps, DiscardKeeps, SaveKeeps,
     CompleteKeeps, ElsewhereKeeps DEF Next
<1>2. CASE UNCHANGED vars
  BY <1>2 DEF vars, disk, task, watch, bounds, IInv, TypeOK, DiskInv, ControlInv, FillInv,
     Written, ResultInv, Accounted, Working, Importing
<1>. QED
  BY <1>1, <1>2

\* What is linked, filled and reported agrees with the files at every moment.
THEOREM Invariance == Spec => []IInv
<1>1. IInv /\ [Next]_vars => IInv'
  BY NextKeeps
<1>. QED
  BY <1>1, InitInv, PTL DEF Spec

\* Every variable has its type, for any archives, names and commands.
THEOREM TypeCorrect == Spec => []TypeOK
<1>1. IInv => TypeOK
  BY DEF IInv
<1>. QED
  BY <1>1, Invariance, PTL

\* Whichever archives have one name, an archive that the store has whole is lost only when a
\* download is opened in place under a name it is linked to, or when an import copies over an
\* entry that is the same file (common.rs, direct.rs, import.rs).
THEOREM WholeStaysWhole == Spec => WholeStays
<1>1. IInv /\ [Next]_vars =>
        [\A a \in Archives : store[a] = a /\ store'[a] # a =>
            \/ pc \in {"form", "nexus"} /\ link[a] \in {NameOf[current], TempOf[current]}
            \/ pc = "place" /\ link[a] = link[match]]_vars
  BY NextKeeps DEF Kept
<1>. QED
  BY <1>1, Invariance, PTL DEF Spec, WholeStays

\* An installation that goes on after its acquisition has every archive that was acquired as
\* itself and not written over since (install/mod.rs).
THEOREM FrontloadComplete == Spec => []FrontloadIsComplete
<1>1. IInv => FrontloadIsComplete
  BY DEF IInv, TypeOK, ResultInv, Accounted, FrontloadIsComplete
<1>. QED
  BY <1>1, Invariance, PTL

=============================================================================
