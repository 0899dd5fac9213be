------------------------------- MODULE Acquire -------------------------------
(***************************************************************************)
(* The assisted acquisition of the archives of a Wabbajack list that the   *)
(* store lacks (crates/modde-sources/src/wabbajack/acquire*, import.rs,    *)
(* crates/modde-cli/src/commands/wabbajack/acquire). A command tries each  *)
(* archive by itself (a form on a file host, the Nexus API) and then       *)
(* watches a folder for what the user's browser brings. A download that    *)
(* matches is linked into the store: the two names are one file, and what  *)
(* is later written to the one in place is written to the other. Nothing   *)
(* keeps two archives of a list from having one name.                      *)
(***************************************************************************)
EXTENDS Naturals

CONSTANTS
    Archives,
    OnNexus,        \* the archives that come from Nexus; the others are manual
    Hosts,          \* where the URL of a manual archive may lead
    Names,          \* the names that are looked at, those of partial downloads (*.part, ...) are not
    NameOf,         \* NameOf[a]: the name the list gives archive a
    TempOf,         \* TempOf[a]: that name with the extension modde-direct-part
    Junk,           \* contents that are no archive of the list
    Torn,           \* the junk that is the beginning of a file modde is writing
    Partial,        \* the junk that somebody else is still writing
    Discarded,      \* the contents the user may remove
    Carries,        \* Carries[n]: what others may save under name n
    Length,         \* Length[c]: how long a file with contents c is
    None,
    MaxRuns, MaxDeaths, MaxSaves    \* bounds: commands, their deaths, changes by others

Contents == Archives \cup Junk

Good == {"imported", "alreadyPresent", "directResolved"}
Status == Good \cup {"refused", "mismatched", "dnsUnresolved", "timedOut"}
Candidate == [len : Nat, ripe : BOOLEAN, hashed : BOOLEAN]

ASSUME AcquireAssumption ==
    /\ OnNexus \subseteq Archives
    /\ Hosts \subseteq {"form", "login", "page"}
    /\ NameOf \in [Archives -> Names] /\ TempOf \in [Archives -> Names]
    /\ Names \cap Archives = {}
    /\ Torn \in Junk /\ Partial \subseteq Junk \ {Torn} /\ Archives \cap Junk = {}
    /\ Discarded \subseteq Contents
    /\ Carries \in [Names -> SUBSET (Contents \ {Torn})]
    /\ Length \in [Contents -> Nat]
    /\ None \notin Contents \cup Names \cup Candidate \cup Status
    /\ MaxRuns \in Nat /\ MaxDeaths \in Nat /\ MaxSaves \in Nat

VARIABLES
    folder,         \* folder[n]: the download of that name
    store,          \* store[a]: what lies under a's hash
    link,           \* link[a]: the file that is: a download, by its name, or one of the store's own,
                    \* by one of the archives it is
    spoilt,         \* the archives that were whole in the store and were written over there
    pc,
    controller,     \* this command watches for all of them together
    asked,          \* the archives that were missing when it began
    todo,           \* those it has yet to try by itself
    pending,        \* those the controller waits for
    current,        \* the archive it is at
    file, match,    \* the download it looks at, the archive that download is
    caller,         \* who imports it: "form", "nexus" or "watch"
    paths,          \* downloads of this poll yet to be looked at
    seen,           \* seen[n]: the candidate of that name
    mismatched,     \* a download of the right name was something else
    expired,        \* the deadline has passed
    results,        \* results[a]: how it ended
    took,           \* took[a]: the archive that was imported for it
    runs, deaths, saves

disk == <<folder, store, link, spoilt>>
task == <<controller, asked, todo, pending, current, results, took>>
watch == <<file, match, caller, paths, seen, mismatched, expired>>
bounds == <<runs, deaths, saves>>
vars == <<disk, pc, task, watch, bounds>>

NoneSeen == [n \in Names |-> None]
Wanted == IF controller THEN pending ELSE {current}

-----------------------------------------------------------------------------
(* Files *)

\* The file f has contents c, in the folder and in the store.
WriteFile(f, c) ==
    /\ folder' = [n \in Names |-> IF n = f THEN c ELSE folder[n]]
    /\ store' = [a \in Archives |-> IF link[a] = f THEN c ELSE store[a]]
    /\ spoilt' = spoilt \cup {a \in Archives : link[a] = f /\ store[a] = a /\ c # a}
    /\ UNCHANGED link

\* tokio::fs::write, File::create: the file keeps its other names.
WriteInPlace(n, c) == WriteFile(n, c)

\* fs::copy over what the store has.
CopyOver(a, c) == WriteFile(link[a], c)

\* A download that has lost its name is one of the store's own.
Own(n) == CHOOSE a \in Archives : link[a] = n

\* A removal, or a file renamed to it: the old one lives on under its other names.
Replace(n, c) ==
    /\ folder' = [folder EXCEPT ![n] = c]
    /\ link' = [a \in Archives |-> IF link[a] = n THEN Own(n) ELSE link[a]]
    /\ UNCHANGED <<store, spoilt>>

\* A rename within the folder.
Move(from, to) ==
    /\ folder' = [n \in Names |-> IF n = to THEN folder[from]
                                  ELSE IF n = from THEN None ELSE folder[n]]
    /\ link' = [a \in Archives |-> IF link[a] = from THEN to
                                   ELSE IF link[a] = to THEN Own(to) ELSE link[a]]
    /\ UNCHANGED <<store, spoilt>>

-----------------------------------------------------------------------------
(* A command *)

Init ==
    /\ folder = [n \in Names |-> None]
    /\ store = [a \in Archives |-> None] /\ link = [a \in Archives |-> a] /\ spoilt = {}
    /\ pc = "idle" /\ controller = FALSE
    /\ asked = {} /\ todo = {} /\ pending = {} /\ current = None
    /\ file = None /\ match = None /\ caller = None /\ paths = {} /\ seen = NoneSeen
    /\ mismatched = FALSE /\ expired = FALSE
    /\ results = [a \in Archives |-> None] /\ took = results
    /\ runs = 0 /\ deaths = 0 /\ saves = 0

\* missing_archives: by path alone.
Missing(withNexus) == {a \in Archives : store[a] = None /\ (a \in OnNexus => withNexus)}

\* A mutant: what the last command waited for is not forgotten.
BeginKeeping(browser, withNexus) ==
    /\ pc \in {"idle", "done"} /\ runs < MaxRuns
    /\ runs' = runs + 1
    /\ pc' = "next" /\ controller' = browser
    /\ asked' = Missing(withNexus) /\ todo' = asked' /\ current' = None
    /\ results' = [a \in Archives |-> None] /\ took' = results'
    /\ UNCHANGED <<disk, watch, pending, deaths, saves>>

Begin(browser, withNexus) ==
    /\ pc \in {"idle", "done"} /\ runs < MaxRuns
    /\ runs' = runs + 1
    /\ pc' = "next" /\ controller' = browser
    /\ asked' = Missing(withNexus) /\ todo' = asked' /\ pending' = {} /\ current' = None
    /\ results' = [a \in Archives |-> None] /\ took' = results'
    /\ UNCHANGED <<disk, watch, deaths, saves>>

\* The command ends with an error, or is killed.
Ended ==
    /\ pc' = "idle"
    /\ controller' = FALSE /\ asked' = {} /\ todo' = {} /\ pending' = {} /\ current' = None
    /\ results' = [a \in Archives |-> None] /\ took' = results'
    /\ file' = None /\ match' = None /\ caller' = None /\ paths' = {} /\ seen' = NoneSeen
    /\ mismatched' = FALSE /\ expired' = FALSE

Fail == Ended /\ UNCHANGED <<disk, bounds>>

Die ==
    /\ pc \notin {"idle", "done"} /\ deaths < MaxDeaths
    /\ deaths' = deaths + 1
    /\ Ended /\ UNCHANGED <<disk, runs, saves>>

\* A wait is over; the next one finds its candidates anew.
WaitReturns == seen' = NoneSeen /\ paths' = {} /\ mismatched' = FALSE

\* One archive is done with; the next one.
Report(a, s, found, next) ==
    /\ results' = [results EXCEPT ![a] = s] /\ took' = [took EXCEPT ![a] = found] /\ pc' = next
    /\ UNCHANGED <<controller, asked, todo, pending, current>>

\* It takes the user: at once, or together with the others when all were tried.
AskBrowser ==
    \/ /\ controller
       /\ pending' = pending \cup {current} /\ pc' = "next"
       /\ UNCHANGED <<watch, controller, asked, todo, current, results, took>>
    \/ /\ ~controller
       /\ pc' = "poll"
       /\ UNCHANGED <<watch, task>>

Take(a) ==
    /\ pc = "next" /\ a \in todo
    /\ current' = a /\ todo' = todo \ {a}
    /\ pc' \in IF a \in OnNexus THEN {"nexus"} ELSE Hosts
    /\ UNCHANGED <<disk, watch, controller, asked, pending, results, took, bounds>>

\* All were tried.
Tried ==
    /\ pc = "next" /\ todo = {}
    /\ pc' = IF controller /\ pending # {} THEN "wait" ELSE "done"
    /\ UNCHANGED <<disk, task, watch, bounds>>

-----------------------------------------------------------------------------
(* Trying by itself *)

\* A host whose pages have to be logged in to.
Login ==
    /\ pc = "login" /\ UNCHANGED <<disk, bounds>>
    /\ \/ /\ Report(current, "dnsUnresolved", None, "next")
          /\ UNCHANGED watch
       \/ AskBrowser

Page == pc = "page" /\ AskBrowser /\ UNCHANGED <<disk, bounds>>

\* resolve_manual_http_flow: a page fails, none has the archive, one streams something to the
\* temporary name, or the answer to a form is it.
Form ==
    /\ pc = "form" /\ UNCHANGED bounds
    /\ \/ Fail
       \/ AskBrowser /\ UNCHANGED disk
       \/ /\ WriteInPlace(TempOf[current], Torn)
          /\ pc' = "receive" /\ UNCHANGED <<task, watch>>
       \/ /\ WriteInPlace(NameOf[current], Torn)
          /\ pc' = "fill" /\ UNCHANGED <<task, watch>>

\* stream_response_to_verified_path: it breaks off, was something else (and the pages are gone on
\* with), or is all there.
Receive ==
    /\ pc = "receive" /\ UNCHANGED bounds
    /\ \/ Fail
       \/ /\ Replace(TempOf[current], None)
          /\ pc' = "form" /\ UNCHANGED <<task, watch>>
       \/ /\ WriteInPlace(TempOf[current], current)
          /\ pc' = "rename" /\ UNCHANGED <<task, watch>>

Downloaded(by) ==
    /\ file' = NameOf[current] /\ caller' = by /\ pc' = "hash"
    /\ UNCHANGED <<task, match, paths, seen, mismatched, expired, bounds>>

\* A mutant: what has the final name is emptied instead of removed.
RenameEmptied ==
    /\ pc = "rename" /\ UNCHANGED bounds
    /\ WriteInPlace(NameOf[current], Torn)
    /\ pc' = "move" /\ UNCHANGED <<task, watch>>

\* Its end: what has the final name is removed, then the stream is renamed to it.
Rename ==
    /\ pc = "rename" /\ UNCHANGED bounds
    /\ Replace(NameOf[current], None)
    /\ pc' = "move" /\ UNCHANGED <<task, watch>>

MoveToName ==
    /\ pc = "move"
    /\ \/ folder[TempOf[current]] = None /\ Fail
       \/ /\ folder[TempOf[current]] # None
          /\ Move(TempOf[current], NameOf[current]) /\ Downloaded("form")

\* write_verified_bytes.
Fill ==
    /\ pc = "fill"
    /\ \/ Fail
       \/ WriteInPlace(NameOf[current], current) /\ Downloaded("form")

\* What the command makes of a Nexus archive it did not get.
Refused(s) ==
    \/ /\ controller
       /\ pending' = pending \cup {current} /\ pc' = "next"
       /\ UNCHANGED <<controller, asked, todo, current, results, took>>
    \/ /\ ~controller
       /\ Report(current, s, None, "next")

\* No directive, no credentials, no link, an HTTP error; or the download is opened in place.
Nexus ==
    /\ pc = "nexus" /\ UNCHANGED bounds
    /\ \/ Refused("refused") /\ UNCHANGED <<disk, watch>>
       \/ /\ WriteInPlace(NameOf[current], Torn)
          /\ pc' = "stream" /\ UNCHANGED <<task, watch>>

\* stream_to_file_verified: it is all there, it broke off, or it was something else.
Stream ==
    /\ pc = "stream"
    /\ \/ WriteInPlace(NameOf[current], current) /\ Downloaded("nexus")
       \/ Refused("mismatched") /\ UNCHANGED <<disk, watch, bounds>>
       \/ Replace(NameOf[current], None) /\ Refused("mismatched") /\ UNCHANGED <<watch, bounds>>

-----------------------------------------------------------------------------
(* Importing *)

\* How the caller takes the result of import_acquired_archive: as that of the archive it is at,
\* whichever it found.
Finish(s, found) ==
    /\ file' = None /\ match' = None /\ caller' = None
    /\ UNCHANGED <<disk, paths, seen, mismatched, expired>>
    /\ \/ /\ caller = "form"
          /\ Report(current, IF s \in Good THEN "directResolved" ELSE s, found, "next")
       \/ caller = "nexus" /\ s \in Good /\ Report(current, s, found, "next")
       \/ caller = "nexus" /\ s \notin Good /\ Refused(s)
       \/ caller = "watch" /\ Report(current, s, found, IF controller THEN "wait" ELSE "next")

\* import_archives hashes the file again, and looks for any archive of the list it is.
Hash ==
    /\ pc = "hash" /\ UNCHANGED bounds
    /\ \/ folder[file] = None /\ Fail
       \/ folder[file] \in Junk /\ Finish("mismatched", None)
       \/ /\ folder[file] \in Archives /\ store[folder[file]] = folder[file]
          /\ Finish("alreadyPresent", folder[file])
       \/ /\ folder[file] \in Archives /\ store[folder[file]] # folder[file]
          /\ match' = folder[file] /\ pc' = "place"
          /\ UNCHANGED <<disk, task, file, caller, paths, seen, mismatched, expired>>

\* It is linked if there is nothing yet, and copied if that fails.
Place ==
    /\ pc = "place" /\ UNCHANGED bounds
    /\ \/ folder[file] = None /\ Fail
       \/ /\ folder[file] # None /\ store[match] = None
          /\ store' = [store EXCEPT ![match] = folder[file]]
          /\ link' = [link EXCEPT ![match] = file]
          /\ pc' = "verify" /\ UNCHANGED <<folder, spoilt, task, watch>>
       \/ /\ folder[file] # None
          /\ CopyOver(match, folder[file])
          /\ pc' = "verify" /\ UNCHANGED <<task, watch>>
       \/ /\ folder[file] # None
          /\ CopyOver(match, Torn) /\ Ended

\* A mutant: what was linked is not verified.
VerifyNothing == pc = "verify" /\ Finish("imported", match) /\ UNCHANGED bounds

Verify ==
    /\ pc = "verify" /\ UNCHANGED bounds
    /\ \/ store[match] = match /\ Finish("imported", match)
       \/ store[match] # match /\ Fail

-----------------------------------------------------------------------------
(* Watching the folder *)

\* What still waits when the controller gives up.
TimeAll ==
    /\ results' = [a \in Archives |-> IF a \in pending THEN "timedOut" ELSE results[a]]
    /\ pc' = "done" /\ expired' = FALSE
    /\ UNCHANGED <<controller, asked, todo, pending, current, took>>

\* The loop of acquire_missing_with_browser_controller
Wait ==
    /\ pc = "wait" /\ UNCHANGED <<disk, file, match, caller, paths, seen, mismatched, bounds>>
    /\ \/ pending = {} /\ pc' = "done" /\ expired' = FALSE /\ UNCHANGED task
       \/ pending # {} /\ expired /\ TimeAll
       \/ pending # {} /\ ~expired /\ pc' = "poll" /\ UNCHANGED <<task, expired>>

\* The wait ends without a match.
GiveUp(s) ==
    /\ WaitReturns /\ file' = None
    /\ UNCHANGED <<disk, match, caller, bounds>>
    /\ \/ controller /\ TimeAll
       \/ ~controller /\ Report(current, s, None, "next") /\ expired' = FALSE

TimeOut ==
    /\ pc = "poll" /\ expired
    /\ GiveUp(IF mismatched THEN "mismatched" ELSE "timedOut")

\* list_download_candidates: candidates that are gone are forgotten.
List ==
    /\ pc = "poll" /\ ~expired
    /\ paths' = {n \in Names : folder[n] # None}
    /\ seen' = [n \in Names |-> IF n \in paths' THEN seen[n] ELSE None]
    /\ pc' = "look"
    /\ UNCHANGED <<disk, task, file, match, caller, mismatched, expired, bounds>>

Looked == pc = "look" /\ paths = {} /\ pc' = "poll" /\ UNCHANGED <<disk, task, watch, bounds>>

\* A mutant: that it was hashed is remembered when the length has changed.
NewCandidateHashed(n) ==
    [len |-> Length[folder[n]], ripe |-> FALSE, hashed |-> seen[n] # None /\ seen[n].hashed]

\* A download seen first, or of another length than before.
NewCandidate(n) == [len |-> Length[folder[n]], ripe |-> FALSE, hashed |-> FALSE]

\* A file whose length has been the same for a while is hashed, once.
Look(n) ==
    /\ pc = "look" /\ n \in paths
    /\ paths' = paths \ {n}
    /\ \/ /\ folder[n] = None
          /\ UNCHANGED <<pc, seen, file>>
       \/ /\ folder[n] # None
          /\ \/ seen[n] = None
             \/ seen[n] # None /\ seen[n].len # Length[folder[n]]
          /\ seen' = [seen EXCEPT ![n] = NewCandidate(n)]
          /\ UNCHANGED <<pc, file>>
       \/ /\ folder[n] # None /\ seen[n] # None
          /\ seen[n].len = Length[folder[n]]
          /\ \/ /\ ~seen[n].ripe \/ seen[n].hashed
                /\ UNCHANGED <<pc, seen, file>>
             \/ /\ seen[n].ripe /\ ~seen[n].hashed
                /\ seen' = [seen EXCEPT ![n].hashed = TRUE]
                /\ file' = n /\ pc' = "judge"
    /\ UNCHANGED <<disk, task, match, caller, mismatched, expired, bounds>>

\* The hash is read from the file as it is by then.
Vanished == pc = "judge" /\ folder[file] = None /\ GiveUp("timedOut")

\* The controller takes a match off its list before it imports it.
Found ==
    /\ pc = "judge" /\ folder[file] \in Wanted
    /\ current' = folder[file] /\ pending' = pending \ {folder[file]}
    /\ caller' = "watch" /\ pc' = "hash" /\ WaitReturns
    /\ expired' = (controller /\ expired)
    /\ UNCHANGED <<disk, controller, asked, todo, results, took, file, match, bounds>>

Unwanted ==
    /\ pc = "judge" /\ folder[file] \notin Wanted \cup {None}
    /\ mismatched' = (mismatched \/ \E a \in Wanted : NameOf[a] = file)
    /\ file' = None /\ pc' = "look"
    /\ UNCHANGED <<disk, task, match, caller, paths, seen, expired, bounds>>

-----------------------------------------------------------------------------
(* Time, the browser and the user *)

\* A candidate's length has been the same for STABLE_FOR.
Ripen(n) ==
    /\ seen[n] # None /\ ~seen[n].ripe
    /\ seen' = [seen EXCEPT ![n].ripe = TRUE]
    /\ UNCHANGED <<disk, pc, task, file, match, caller, paths, mismatched, expired, bounds>>

Watching == pc \in {"wait", "poll", "look", "judge"}

Expire ==
    /\ Watching /\ ~expired
    /\ expired' = TRUE
    /\ UNCHANGED <<disk, pc, task, file, match, caller, paths, seen, mismatched, bounds>>

Other == saves < MaxSaves /\ saves' = saves + 1 /\ UNCHANGED <<pc, task, watch, runs, deaths>>

\* A file gets its final name, whole or not.
Save(n, c) == Other /\ folder[n] = None /\ c \in Carries[n] /\ Replace(n, c)

\* One that was not whole is.
Complete(n, c) ==
    Other /\ folder[n] \in Partial /\ c \in Carries[n] \ Partial /\ WriteInPlace(n, c)

\* The file a command is filling; to remove it then is to remove it when it is filled.
Written(n) ==
    \/ pc \in {"fill", "stream"} /\ n = NameOf[current]
    \/ pc = "receive" /\ n = TempOf[current]

Discard(n) == Other /\ folder[n] \in Discarded /\ ~Written(n) /\ Replace(n, None)

\* import_archives in another terminal, where the store has nothing whole and no linked file.
ImportElsewhere(a, c) ==
    /\ Other /\ store[a] # a /\ {b \in Archives : link[b] = link[a]} = {a} /\ link[a] = a
    /\ CopyOver(a, c)

-----------------------------------------------------------------------------

Step ==
    \/ \E a \in Archives : Take(a)
    \/ Tried \/ Login \/ Page \/ Form \/ Receive \/ Rename \/ MoveToName \/ Fill \/ Nexus \/ Stream
    \/ Hash \/ Place \/ Verify
    \/ Wait \/ TimeOut \/ List \/ Looked \/ Vanished \/ Found \/ Unwanted
    \/ \E n \in Names : Look(n)

Next ==
    \/ \E b, x \in BOOLEAN : Begin(b, x)
    \/ Step \/ Die \/ Expire
    \/ \E n \in Names : Ripen(n) \/ Discard(n)
    \/ \E n \in Names, c \in Contents : Save(n, c) \/ Complete(n, c)
    \/ \E a \in Archives : \E c \in {a, Torn} : ImportElsewhere(a, c)

Spec == Init /\ [][Next]_vars

\* A command keeps running once begun, and time passes; the deadline may be far.
FairSpec == Spec /\ WF_vars(Step) /\ \A n \in Names : WF_vars(Ripen(n))

-----------------------------------------------------------------------------
(* Properties *)

\* Every variable has its type.
TypeOK ==
    /\ folder \in [Names -> Contents \cup {None}]
    /\ store \in [Archives -> Contents \cup {None}]
    /\ link \in [Archives -> Names \cup Archives] /\ spoilt \subseteq Archives
    /\ pc \in {"idle", "next", "nexus", "form", "login", "page", "receive", "rename", "move", "fill",
               "stream", "hash", "place", "verify", "wait", "poll", "look", "judge", "done"}
    /\ controller \in BOOLEAN /\ mismatched \in BOOLEAN /\ expired \in BOOLEAN
    /\ asked \subseteq Archives /\ todo \subseteq asked /\ pending \subseteq asked
    /\ current \in Archives \cup {None} /\ match \in Archives \cup {None}
    /\ file \in Names \cup {None} /\ caller \in {"form", "nexus", "watch", None}
    /\ paths \subseteq Names
    /\ seen \in [Names -> Candidate \cup {None}]
    /\ results \in [Archives -> Status \cup {None}]
    /\ took \in [Archives -> Archives \cup {None}]
    /\ runs \in Nat /\ deaths \in Nat /\ saves \in Nat

\* An archive the store has whole is lost in two ways only, as linked files are one: a download is
\* opened in place under the name it is linked to (common.rs:52, direct.rs:337, direct.rs:389), or
\* a copy goes over an entry that is the same file since (import.rs:89). Nothing that is renamed,
\* removed, filled or completed by anybody, and no command that dies, spoils it.
WholeStays ==
    [][\A a \in Archives : store[a] = a /\ store'[a] # a =>
          \/ pc \in {"form", "nexus"} /\ link[a] \in {NameOf[current], TempOf[current]}
          \/ pc = "place" /\ link[a] = link[match]]_vars

\* Whatever happens to the downloads: not so, for two archives of one name.
WholeAlwaysStays == [][\A a \in Archives : store[a] = a => store'[a] = a]_vars

\* When a command reports every archive it was asked for as acquired, by that very archive, the
\* store has every one of them whole, but for one written over since through a link, and an
\* installation may go on (install/mod.rs:110-141).
FrontloadIsComplete ==
    pc = "done" /\ (\A a \in asked : results[a] \in Good /\ took[a] = a) =>
        \A a \in asked : store[a] = a \/ a \in spoilt

\* Whatever was imported and written over: not so.
ReportIsTrue ==
    pc = "done" /\ (\A a \in asked : results[a] \in Good) => \A a \in asked : store[a] = a

\* Archive a is waited for.
Awaited(a) ==
    \/ Watching /\ a \in Wanted
    \/ pc \in {"hash", "place", "verify"} /\ caller = "watch" /\ a \in pending

Waiting == \E a \in Archives : Awaited(a)

\* Other contents of the length of archive a were hashed under that name, and are not again.
Stale(n, a) ==
    /\ seen[n] # None /\ seen[n].hashed /\ seen[n].len = Length[a]
    /\ ~(pc = "judge" /\ file = n)

\* A wait does not go on for ever: it ends when its deadline has passed, and when the archive it is
\* for comes to lie in the folder and stays, unless other contents of its length were hashed there
\* in this wait (acquire.rs:212-257).
WaitEnds ==
    /\ Waiting /\ expired ~> ~Waiting
    /\ \A a \in Archives, n \in Names :
          Awaited(a) /\ ~Stale(n, a) /\ [](folder[n] = a) ~> ~Awaited(a)

\* Whatever was hashed there: not so.
WaitAlwaysEnds ==
    \A a \in Archives, n \in Names : Awaited(a) /\ [](folder[n] = a) ~> ~Awaited(a)
=============================================================================
