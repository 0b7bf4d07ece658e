----------------------------- MODULE DoorProofs -----------------------------
(***************************************************************************)
(* What an answer of the door means, for any hosts, any controls and any   *)
(* requests.                                                               *)
(***************************************************************************)
EXTENDS Door, TLAPS

\* The search goes on only past hosts that could not be reached, and stops at
\* the first that could; hosts are found in no state but those they may be in.
SearchInv ==
  /\ \A i \in DOMAIN tried : tried[i].cond \in Conditions \union {"off"}
  /\ \A i \in DOMAIN tried : Reached(tried[i].cond) => i = Len(tried) /\ ahead = << >>
  /\ ahead # << >> => result = "asking"

\* What was answered is what the last host tried came back with.
ReadInv ==
  result \notin {"asking", "unknown"} =>
    /\ tried # << >> /\ Reached(Last(tried).cond)
    /\ result = Judge(req.verb, Exit(Last(tried).cond))

DoorInv == TypeOK /\ SearchInv /\ ReadInv

-----------------------------------------------------------------------------
LEMMA LastOf ==
  ASSUME NEW S, NEW s \in Seq(S), s # << >>
  PROVE  Len(s) \in DOMAIN s /\ Last(s) = s[Len(s)] /\ Last(s) \in S
BY DEF Last

LEMMA RouteTyped == ASSUME NEW n PROVE Route(n) \in Seq(Hosts \union {n})
<1>1. Controls \in Seq(Hosts \union {n}) /\ <<n>> \in Seq(Hosts \union {n})
  BY DoorAssumption
<1> QED BY <1>1 DEF Route

LEMMA JudgeTyped ==
  ASSUME NEW r \in Requests, NEW c \in AllConditions, Reached(c)
  PROVE  Judge(r.verb, Exit(c)) \in Results(r.verb)
<1>1. r.verb \in Questions \union Actions
  BY DoorAssumption
<1> QED BY <1>1 DEF Judge, Results, CannotRun, Questions, Actions

LEMMA DoorInit == Init => DoorInv
<1> SUFFICES ASSUME Init PROVE DoorInv
  OBVIOUS
<1>1. req \in Requests /\ ahead = Route(req.node) /\ tried = << >> /\ result = "asking"
  BY DEF Init
<1>2. TypeOK
  BY <1>1, RouteTyped DEF TypeOK
<1>3. DOMAIN tried = {}
  BY <1>1
<1>4. SearchInv /\ ReadInv
  BY <1>1, <1>3 DEF SearchInv, ReadInv
<1> QED BY <1>2, <1>4 DEF DoorInv

LEMMA TryKeeps == ASSUME DoorInv, Try PROVE DoorInv'
<1> DEFINE n == Len(tried)
           tries == [host : Hosts \union {req.node}, cond : AllConditions]
<1>1. PICK c \in AllConditions :
        /\ tried' = Append(tried, [host |-> Head(ahead), cond |-> c])
        /\ ahead' = AheadAfter(c) /\ c \in Conditions \union {"off"}
  BY DoorAssumption DEF Try, AllConditions
<1> DEFINE try == [host |-> Head(ahead), cond |-> c]
<1>2. /\ ahead \in Seq(Hosts \union {req.node}) /\ ahead # << >>
      /\ tried \in Seq(tries) /\ result = "asking" /\ req' = req /\ result' = result
      /\ req \in Requests
  BY DEF DoorInv, TypeOK, Try
<1>3. try \in tries
  BY <1>2
<1>4. try.cond = c
  OBVIOUS
<1> HIDE DEF try, tries
<1>5. /\ DOMAIN tried = 1..n /\ n \in Nat
      /\ DOMAIN tried' = 1..(n + 1) /\ Len(tried') = n + 1 /\ tried' \in Seq(tries)
      /\ tried'[n + 1] = try /\ \A i \in 1..n : tried'[i] = tried[i]
  BY <1>1, <1>2, <1>3 DEF try
<1>6. ahead' \in Seq(Hosts \union {req.node})
  BY <1>1, <1>2 DEF AheadAfter
<1>7. TypeOK'
  BY <1>2, <1>5, <1>6 DEF TypeOK, tries
<1>8. SearchInv'
  <2>1. \A i \in 1..n : ~Reached(tried[i].cond)
    BY <1>2, <1>5 DEF DoorInv, SearchInv
  <2>2. Reached(c) => ahead' = << >>
    BY <1>1 DEF AheadAfter
  <2>3. ASSUME NEW i \in 1..(n + 1), Reached(tried'[i].cond)
        PROVE  i = n + 1 /\ ahead' = << >>
    <3>1. i = n + 1
      BY <1>5, <2>1, <2>3
    <3> QED BY <1>4, <1>5, <2>2, <2>3, <3>1
  <2>4. ASSUME NEW i \in 1..(n + 1) PROVE tried'[i].cond \in Conditions \union {"off"}
    BY <1>1, <1>4, <1>5 DEF DoorInv, SearchInv
  <2> QED BY <1>2, <1>5, <2>3, <2>4 DEF SearchInv
<1>9. ReadInv'
  BY <1>2 DEF ReadInv
<1> QED BY <1>7, <1>8, <1>9 DEF DoorInv

LEMMA ReadKeeps == ASSUME DoorInv, Read PROVE DoorInv'
<1>1. /\ req' = req /\ ahead' = ahead /\ tried' = tried /\ ahead = << >>
      /\ req \in Requests
      /\ tried \in Seq([host : Hosts \union {req.node}, cond : AllConditions])
  BY DEF Read, DoorInv, TypeOK
<1>2. CASE tried # << >> /\ Reached(Last(tried).cond)
  <2>1. result' = Judge(req.verb, Exit(Last(tried).cond))
    BY <1>2 DEF Read
  <2>2. Last(tried) \in [host : Hosts \union {req.node}, cond : AllConditions]
    BY <1>1, <1>2, LastOf
  <2>3. result' \in Results(req.verb)
    <3>1. Last(tried).cond \in AllConditions
      BY <2>2
    <3> QED BY <1>1, <1>2, <2>1, <3>1, JudgeTyped
  <2> QED BY <1>1, <1>2, <2>1, <2>3 DEF DoorInv, TypeOK, SearchInv, ReadInv
<1>3. CASE ~(tried # << >> /\ Reached(Last(tried).cond))
  <2>1. result' = "unknown"
    BY <1>3 DEF Read
  <2> QED BY <1>1, <2>1 DEF DoorInv, TypeOK, SearchInv, ReadInv, Results
<1> QED BY <1>2, <1>3

LEMMA SendKeeps == ASSUME DoorInv, NEW r \in Requests, Send(r) PROVE DoorInv'
<1>1. req' = r /\ ahead' = Route(r.node) /\ tried' = << >> /\ result' = "asking"
  BY DEF Send
<1>2. TypeOK'
  BY <1>1, RouteTyped DEF TypeOK
<1>3. DOMAIN tried' = {}
  BY <1>1
<1>4. SearchInv' /\ ReadInv'
  BY <1>1, <1>3 DEF SearchInv, ReadInv
<1> QED BY <1>2, <1>4 DEF DoorInv

LEMMA DoorStep == DoorInv /\ [Next]_vars => DoorInv'
<1> SUFFICES ASSUME DoorInv, [Next]_vars PROVE DoorInv'
  OBVIOUS
<1>1. CASE UNCHANGED vars
  BY <1>1 DEF vars, DoorInv, TypeOK, SearchInv, ReadInv
<1> QED BY <1>1, TryKeeps, ReadKeeps, SendKeeps DEF Next

LEMMA DoorAlways == Spec => []DoorInv
BY DoorInit, DoorStep, PTL DEF Spec

-----------------------------------------------------------------------------
\* A question and an action never get each other's kind of result, and nothing
\* is tried but the hosts the request is for.
THEOREM DoorTyped == Spec => []TypeOK
<1>1. DoorInv => TypeOK
  BY DEF DoorInv
<1> QED BY <1>1, DoorAlways, PTL

\* Once a host has let us know how the command ended, no other is sent it,
\* however many controls there are.
THEOREM AnsweredOnce == Spec => []OneAnswer
<1>1. DoorInv => OneAnswer
  BY DEF DoorInv, SearchInv, OneAnswer
<1> QED BY <1>1, DoorAlways, PTL

\* The end of the last host tried, when it was reached.
LEMMA LastEnd ==
  ASSUME DoorInv, result \notin {"asking", "unknown"}
  PROVE  /\ Last(tried).cond \in AllConditions /\ Reached(Last(tried).cond)
         /\ Last(tried).cond \in Conditions \union {"off"}
         /\ result = Judge(req.verb, Exit(Last(tried).cond))
         /\ req.verb \in Questions \union Actions
<1>1. tried \in Seq([host : Hosts \union {req.node}, cond : AllConditions]) /\ tried # << >>
  BY DEF DoorInv, TypeOK, ReadInv
<1>2. /\ Last(tried) = tried[Len(tried)] /\ Len(tried) \in DOMAIN tried
      /\ Last(tried) \in [host : Hosts \union {req.node}, cond : AllConditions]
  BY <1>1, LastOf
<1>3. Last(tried).cond \in AllConditions
  BY <1>2
<1> QED BY <1>2, <1>3, DoorAssumption DEF DoorInv, TypeOK, SearchInv, ReadInv

\* An action reported done was carried out by the last host tried, and one
\* reported refused was not.
THEOREM DoneIsDone == Spec => []DoneMeansDone
<1>1. DoorInv => DoneMeansDone
  BY LastEnd DEF DoneMeansDone, Judge, Exit, CannotRun, AllConditions, Reached, Questions, Actions
<1> QED BY <1>1, DoorAlways, PTL

\* Where every node holds a table with an entry for each question, a no comes
\* from a command that ran.
THEOREM NoIsAsked == "denied" \notin Conditions => (Spec => []NoMeansAsked)
<1> SUFFICES ASSUME "denied" \notin Conditions PROVE Spec => []NoMeansAsked
  OBVIOUS
<1>1. DoorInv => NoMeansAsked
  BY LastEnd DEF NoMeansAsked, Judge, Exit, CannotRun, AllConditions, Reached, Questions, Actions
<1> QED BY <1>1, DoorAlways, PTL
=============================================================================
