----------------------------- MODULE HoldProofs -----------------------------
(***************************************************************************)
(* The store of holds keeps the promise of the book, for any set of holds  *)
(* and any number of crashes.                                              *)
(***************************************************************************)
EXTENDS HoldStore, TLAPS

\* Memory as the request under way leaves it.
Changed == IF asked.keep THEN before \union {asked.hold} ELSE before \ {asked.hold}

\* What is true between the steps of a request: the list in memory is the
\* changed one, the file to one side is a whole copy of it before the rename,
\* and the file itself is whole at all times.
StoreInv ==
  /\ TypeOK
  /\ disk.whole
  /\ at = "idle" => before = mem
  /\ at \in {"idle", "down"} => asked = Nothing
  /\ at \in {"saving", "written", "renamed"} => asked \in Requests /\ mem = Changed
  /\ at = "written" => tmp = Whole(mem)
  /\ at = "renamed" => disk = Whole(mem)

LEMMA StoreInit == Init => StoreInv
  BY StoreAssumption DEF Init, StoreInv, TypeOK, Files, Whole

\* Files are whole copies of a list, or torn.
LEMMA FilesTyped == Torn \in Files /\ \A list \in SUBSET Holds : Whole(list) \in Files
  BY DEF Files, Torn, Whole

LEMMA StoreStep == StoreInv /\ [Next]_vars => StoreInv'
<1> SUFFICES ASSUME StoreInv, [Next]_vars PROVE StoreInv'
  OBVIOUS
<1> USE DEF StoreInv, TypeOK
<1>1. CASE Open
  BY <1>1 DEF Open, Files
<1>2. CASE Write
  <2>1. tmp' \in Files
    <3>1. tmp' \in {Whole(mem), tmp, Torn}
      BY <1>2 DEF Write
    <3> QED BY <3>1, FilesTyped
  <2>2. CASE tmp' = Whole(mem) /\ at' = "written" /\ UNCHANGED <<mem, asked, said, before, used, crashes>>
    BY <1>2, <2>1, <2>2 DEF Write, Changed
  <2>3. CASE Answer("error")
    BY <1>2, <2>1, <2>3 DEF Write, Answer
  <2> QED BY <1>2, <2>2, <2>3 DEF Write
<1>3. CASE Rename
  <2>1. CASE disk' = tmp /\ tmp' = Whole({}) /\ at' = "renamed"
             /\ UNCHANGED <<mem, asked, said, before, used, crashes>>
    <3>1. tmp' \in Files /\ disk' = Whole(mem) /\ disk'.whole
      BY <1>3, <2>1 DEF Rename, Files, Whole
    <3> QED BY <1>3, <2>1, <3>1 DEF Rename, Changed
  <2>2. CASE UNCHANGED <<disk, tmp>> /\ Answer("error")
    BY <2>2 DEF Answer
  <2> QED BY <1>3, <2>1, <2>2 DEF Rename
<1>4. CASE Succeed
  BY <1>4 DEF Succeed, Answer
<1>5. CASE Crash
  <2>1. tmp' \in Files
    <3>1. tmp' \in {tmp, Torn}
      BY <1>5 DEF Crash
    <3> QED BY <3>1, FilesTyped
  <2>2. crashes' \in 0..MaxCrashes
    BY <1>5, StoreAssumption DEF Crash
  <2> QED BY <1>5, <2>1, <2>2 DEF Crash
<1>6. ASSUME NEW h \in Holds, Take(h) \/ Release(h) PROVE StoreInv'
  <2>1. PICK keep \in BOOLEAN : Change(h, keep) /\ used' \subseteq Holds
    BY <1>6 DEF Take, Release
  <2>2. asked' = [hold |-> h, keep |-> keep] /\ asked' \in Requests
    BY <2>1 DEF Change, Requests
  <2>3. mem' = Changed'
    BY <2>1, <2>2 DEF Change, Changed
  <2> QED BY <2>1, <2>2, <2>3 DEF Change
<1>7. ASSUME NEW h \in Holds, ReleaseUnknown(h) PROVE StoreInv'
  BY <1>7 DEF ReleaseUnknown, vars, Changed
<1>8. CASE UNCHANGED vars
  BY <1>8 DEF vars, Changed
<1> QED BY <1>1, <1>2, <1>3, <1>4, <1>5, <1>6, <1>7, <1>8 DEF Next

\* The file can be read whenever the process dies: a failed or interrupted
\* write only ever tears the copy to one side.
THEOREM AlwaysReadable == Spec => []FileIsWhole
<1>1. StoreInv => FileIsWhole
  BY DEF StoreInv, FileIsWhole
<1> QED BY <1>1, StoreInit, StoreStep, PTL DEF Spec

-----------------------------------------------------------------------------
LEMMA BookInit == Init => Book!Init
  BY DEF Init, Book!Init, InDoubt, Whole

\* Each step of the store is a step of the book, or one nobody can see.
LEMMA BookStep == StoreInv /\ [Next]_vars => [Book!Next]_Book!vars
<1> SUFFICES ASSUME StoreInv, [Next]_vars PROVE [Book!Next]_Book!vars
  OBVIOUS
<1>1. CASE Open
  <2>1. before' = disk.holds /\ disk' = disk /\ asked = Nothing /\ asked' = Nothing
        /\ said' = said
    BY <1>1 DEF Open, StoreInv
  <2>2. InDoubt = (before \ disk.holds) \union (disk.holds \ before) /\ InDoubt' = {}
    BY <2>1 DEF InDoubt
  <2>3. before' = (before \ InDoubt) \union (disk.holds \intersect InDoubt)
    BY <2>1, <2>2
  <2>4. Book!Restart
    BY <2>1, <2>2, <2>3 DEF Book!Restart
  <2> QED BY <2>4 DEF Book!Next
<1>2. ASSUME at \in {"saving", "written"}, Answer("error"), disk' = disk PROVE Book!Failed
  <2>1. asked \in Requests /\ mem = Changed /\ before' = mem /\ asked' = Nothing
        /\ said' = "error"
    BY <1>2 DEF StoreInv, Answer
  <2>2. asked # Nothing
    BY <2>1, StoreAssumption
  <2>3. before' = IF asked.keep THEN before \union {asked.hold} ELSE before \ {asked.hold}
    BY <2>1 DEF Changed
  <2>4. InDoubt' \in {InDoubt, InDoubt \ {asked.hold}}
    <3>1. InDoubt = (before \ disk.holds) \union (disk.holds \ before) \union {asked.hold}
      BY <2>2 DEF InDoubt
    <3>2. InDoubt' = (before' \ disk.holds) \union (disk.holds \ before')
      BY <1>2, <2>1 DEF InDoubt
    <3>3. CASE asked.hold \in InDoubt'
      <4>1. InDoubt' = InDoubt
        BY <2>3, <3>1, <3>2, <3>3
      <4> QED BY <4>1
    <3>4. CASE asked.hold \notin InDoubt'
      <4>1. InDoubt' = InDoubt \ {asked.hold}
        BY <2>3, <3>1, <3>2, <3>4
      <4> QED BY <4>1
    <3> QED BY <3>3, <3>4
  <2> QED BY <2>1, <2>2, <2>3, <2>4 DEF Book!Failed
<1>3. CASE Write
  <2>1. CASE UNCHANGED <<mem, asked, said, before, used, crashes>>
    BY <1>3, <2>1 DEF Write, Book!vars, InDoubt
  <2> QED BY <1>2, <1>3, <2>1 DEF Write, Book!Next
<1>4. CASE Rename
  <2>1. CASE disk' = tmp /\ UNCHANGED <<mem, asked, said, before, used, crashes>>
    <3>1. disk'.holds = mem /\ mem = Changed /\ asked \in Requests /\ asked # Nothing
      BY <1>4, <2>1, StoreAssumption DEF Rename, StoreInv, Whole
    <3>2. InDoubt' \subseteq {asked.hold} /\ asked.hold \in InDoubt
      BY <2>1, <3>1 DEF InDoubt, Changed
    <3>3. InDoubt' \in SUBSET InDoubt
      BY <3>2
    <3>4. Book!Settle
      BY <2>1, <3>3 DEF Book!Settle
    <3> QED BY <3>4 DEF Book!Next
  <2> QED BY <1>2, <1>4, <2>1 DEF Rename, Book!Next
<1>5. CASE Succeed
  <2>1. asked \in Requests /\ asked # Nothing /\ mem = Changed /\ disk = Whole(mem)
        /\ before' = mem /\ asked' = Nothing /\ said' = "ok" /\ disk' = disk
    BY <1>5, StoreAssumption DEF Succeed, Answer, StoreInv
  <2>2. InDoubt \subseteq {asked.hold} /\ InDoubt' = {}
    BY <2>1 DEF InDoubt, Changed, Whole
  <2>3. Book!Granted
    BY <2>1, <2>2 DEF Book!Granted, Changed
  <2> QED BY <2>3 DEF Book!Next
<1>6. CASE Crash
  <2>1. InDoubt' \in SUBSET InDoubt
    BY <1>6 DEF Crash, InDoubt
  <2>2. Book!Die
    BY <1>6, <2>1 DEF Crash, Book!Die
  <2> QED BY <2>2 DEF Book!Next
<1>7. ASSUME NEW h \in Holds, NEW keep \in BOOLEAN, Change(h, keep) PROVE Book!Ask(h, keep)
  <2>1. asked = Nothing /\ asked' = [hold |-> h, keep |-> keep] /\ said' = "none"
        /\ UNCHANGED <<disk, before>>
    BY <1>7 DEF Change, StoreInv
  <2>2. asked' # Nothing /\ asked'.hold = h
    BY <2>1, StoreAssumption DEF Requests
  <2>3. InDoubt' = InDoubt \union {h}
    BY <2>1, <2>2 DEF InDoubt
  <2> QED BY <2>1, <2>3 DEF Book!Ask
<1>8. ASSUME NEW h \in Holds, Take(h) \/ Release(h) PROVE Book!Next
  BY <1>7, <1>8 DEF Take, Release, Book!Next
<1>9. ASSUME UNCHANGED vars PROVE UNCHANGED Book!vars
  BY <1>9 DEF vars, Book!vars, InDoubt
<1> QED BY <1>1, <1>3, <1>4, <1>5, <1>6, <1>8, <1>9 DEF Next, ReleaseUnknown

\* The promise of the book: a hold that was acknowledged is in force until
\* somebody asks to lift it, and one acknowledged as lifted never comes back,
\* however often writes fail and the watchman dies.
THEOREM PromiseKept == Spec => KeepsTheBook
  BY StoreInit, StoreStep, BookInit, BookStep, PTL DEF Spec, KeepsTheBook, Book!Spec

=============================================================================
