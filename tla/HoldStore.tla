----------------------------- MODULE HoldStore -----------------------------
(***************************************************************************)
(* The store of holds: a list in memory, and a file that is written whole  *)
(* to one side and renamed over the last one before anybody is answered.   *)
(* The store's mutex is held from the change in memory to the answer, so   *)
(* nobody reads the list in between.  The process may die between any two  *)
(* of these steps, and a write or a rename may fail.                       *)
(***************************************************************************)
EXTENDS Naturals

CONSTANTS
  Holds,       \* the holds that may be written; newID never repeats an ID
  Nothing,     \* no request under way
  MaxCrashes   \* bound on how often the process dies

Requests == [hold : Holds, keep : BOOLEAN]

ASSUME StoreAssumption ==
  /\ Nothing \notin Requests
  /\ MaxCrashes \in Nat

VARIABLES
  mem,      \* the holds in memory
  disk,     \* what holds.json contains
  tmp,      \* what holds.json.tmp contains
  at,       \* "idle" | "saving" | "written" | "renamed" | "down"
  asked,    \* the request under way, [hold, keep], or Nothing
  said,     \* how the last request was answered: "ok", "error" or "none" yet
  before,   \* the holds readers saw last: nobody reads while a request runs
  used,     \* the IDs given out
  crashes   \* times the process died, against MaxCrashes

vars == <<mem, disk, tmp, at, asked, said, before, used, crashes>>

\* A file, and whether it was written to its end; no file reads as no holds.
Files == [whole : BOOLEAN, holds : SUBSET Holds]
Whole(list) == [whole |-> TRUE, holds |-> list]
Torn == [whole |-> FALSE, holds |-> {}]

TypeOK ==
  /\ mem \subseteq Holds /\ before \subseteq Holds
  /\ disk \in Files /\ tmp \in Files
  /\ at \in {"idle", "saving", "written", "renamed", "down"}
  /\ asked \in Requests \union {Nothing}
  /\ said \in {"none", "ok", "error"}
  /\ used \subseteq Holds
  /\ crashes \in 0..MaxCrashes

Init ==
  /\ mem = {} /\ before = {} /\ used = {}
  /\ disk = Whole({}) /\ tmp = Whole({})
  /\ at = "down" /\ asked = Nothing /\ said = "none" /\ crashes = 0

-----------------------------------------------------------------------------
\* The process starts and reads the file, if it can be read.
Open ==
  /\ at = "down" /\ disk.whole
  /\ mem' = disk.holds /\ before' = disk.holds
  /\ at' = "idle"
  /\ UNCHANGED <<disk, tmp, asked, said, used, crashes>>

\* Take and Release up to save: the list in memory changes first.
Change(h, keep) ==
  /\ at = "idle"
  /\ mem' = IF keep THEN mem \union {h} ELSE mem \ {h}
  /\ asked' = [hold |-> h, keep |-> keep] /\ at' = "saving" /\ said' = "none"
  /\ UNCHANGED <<disk, tmp, before, crashes>>

Take(h) == h \notin used /\ used' = used \union {h} /\ Change(h, TRUE)
Release(h) == h \in mem /\ Change(h, FALSE) /\ UNCHANGED used

\* ErrNotFound: nothing in memory has this ID, and the file is not looked at.
ReleaseUnknown(h) == at = "idle" /\ h \notin mem /\ UNCHANGED vars

\* The request ends, in success or with the error save returned.
Answer(how) ==
  /\ at' = "idle" /\ asked' = Nothing /\ said' = how /\ before' = mem
  /\ UNCHANGED <<mem, used, crashes>>

\* save: os.WriteFile to one side, which may fail having written a part.
WriteInPlace ==
  /\ at = "saving"
  /\ \/ disk' = Whole(mem) /\ UNCHANGED tmp /\ at' = "written"
        /\ UNCHANGED <<mem, asked, said, before, used, crashes>>
     \/ disk' = Torn /\ UNCHANGED tmp /\ Answer("error")
Write ==
  /\ at = "saving"
  /\ \/ tmp' = Whole(mem) /\ at' = "written" /\ UNCHANGED <<mem, asked, said, before, used, crashes>>
     \/ tmp' \in {tmp, Torn} /\ Answer("error")
  /\ UNCHANGED disk

\* save: os.Rename over the last file, all of it or nothing.
RenameUnchecked ==
  /\ at = "written"
  /\ \/ disk' = tmp /\ tmp' = Whole({})
     \/ UNCHANGED <<disk, tmp>>
  /\ at' = "renamed"
  /\ UNCHANGED <<mem, asked, said, before, used, crashes>>
Rename ==
  /\ at = "written"
  /\ \/ disk' = tmp /\ tmp' = Whole({}) /\ at' = "renamed"
        /\ UNCHANGED <<mem, asked, said, before, used, crashes>>
     \/ UNCHANGED <<disk, tmp>> /\ Answer("error")

\* Take or Release returns without an error.
Succeed == at = "renamed" /\ Answer("ok") /\ UNCHANGED <<disk, tmp>>

\* The process dies; a file being written is left as far as it got.
Crash ==
  /\ at # "down" /\ crashes < MaxCrashes /\ crashes' = crashes + 1
  /\ at' = "down" /\ asked' = Nothing /\ said' = "none"
  /\ tmp' \in IF at = "saving" THEN {tmp, Torn} ELSE {tmp}
  /\ mem' = {}
  /\ UNCHANGED <<disk, before, used>>

Next ==
  \/ Open \/ Write \/ Rename \/ Succeed \/ Crash
  \/ \E h \in Holds : Take(h) \/ Release(h) \/ ReleaseUnknown(h)

Spec == Init /\ [][Next]_vars

-----------------------------------------------------------------------------
\* The file can always be read: whenever the process dies, holds.json is one
\* that some request wrote to its end, so the watchman starts again.
FileIsWhole == disk.whole

\* The store keeps the promise of the book, across failed writes and restarts:
\* in doubt is what memory and file disagree on, and what is being asked.
InDoubt == (before \ disk.holds) \union (disk.holds \ before)
           \union (IF asked = Nothing THEN {} ELSE {asked.hold})
Book == INSTANCE HoldBook WITH book <- before, wish <- asked, doubt <- InDoubt
KeepsTheBook == Book!Spec
=============================================================================
