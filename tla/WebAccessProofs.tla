--------------------------- MODULE WebAccessProofs ---------------------------
(***************************************************************************)
(* The safety properties of WebAccess, for any number of handlers,         *)
(* addresses, links and sessions, any burst and any size of the limiter's  *)
(* table.                                                                  *)
(***************************************************************************)
EXTENDS WebAccess, FiniteSetTheorems, TLAPS

Requests == [at : Places, who : Persons \cup {Nobody},
             link : Links \cup {NoLink}, again : BOOLEAN, tracked : BOOLEAN]

\* Requests that hold a token of the bucket of p.
Reserving(p) == {h \in Handlers : proc[h].tracked /\ proc[h].who = p}

\* The link was deleted, or its deletion was tried and failed.
Consumed(k) == links[k].state = "gone" \/ k \in kept

\* What a request's place says of the person and the link it carries.
WellFormed(q) ==
    /\ q.at \in Asking => q.who \in Persons
    /\ q.at \in PastCheck \cup {"enqueue"} => q.link \in Links
    /\ q.tracked => q.at \in {"lookup", "createLink"}

\* A reservation is of a bucket in use, and a link is consumed before it
\* opens a session: who comes back with a link that did can only have found
\* it again because its deletion failed.
Rightful(q) ==
    /\ q.tracked => q.who \in known \ idle
    /\ q.at = "load" /\ q.again => q.link \in used
    /\ q.at \in {"consume", "issue"} /\ q.again => q.link \in kept
    /\ q.at = "issue" => Consumed(q.link)

Sound(q) == q \in Requests /\ WellFormed(q) /\ Rightful(q)

HandlersOK == /\ proc \in [Handlers -> Requests]
              /\ \A h \in Handlers : Sound(proc[h])

\* The tables links, magic links and sessions, and their history.
RowsOK ==
    /\ links \in [Links -> [state : LinkStates, who : Persons \cup {Nobody}]]
    /\ sessions \in [Sessions -> Persons \cup {Nobody}]
    /\ mailed \subseteq Links /\ used \subseteq Links /\ kept \subseteq Links
    /\ \A k \in used : Consumed(k)

\* The switch: all who are past the check while it is off are known, and so
\* are the sessions they open once the others were ended.
LockOK ==
    /\ login \in BOOLEAN /\ ended \in BOOLEAN
    /\ inFlight \subseteq Handlers /\ late \subseteq Sessions
    /\ ~login => \A h \in Handlers : proc[h].at \in PastCheck => h \in inFlight
    /\ LockdownHolds

\* The limiter: a bucket not in use is full, and no token is spent twice.
LimiterOK ==
    /\ idle \subseteq known /\ known \subseteq Persons
    /\ tokens \in [Persons -> 0 .. Burst]
    /\ sent \in [Persons -> Nat] /\ refills \in [Persons -> 0 .. MaxRefills]
    /\ untracked \subseteq Persons
    /\ \A p \in Persons : p \notin known \ idle => tokens[p] = Burst
    /\ \A p \in Persons \ untracked :
          sent[p] + Cardinality(Reserving(p)) + tokens[p]
              <= Burst + refills[p]

BoundsOK == toggles \in 0 .. MaxToggles /\ faults \in 0 .. MaxFaults

IInv == RowsOK /\ LockOK /\ LimiterOK /\ BoundsOK /\ HandlersOK
-----------------------------------------------------------------------------
\* Counting handlers.
LEMMA Counts ==
  ASSUME NEW S \in SUBSET Handlers
  PROVE  /\ Cardinality(S) \in Nat
         /\ \A T \in SUBSET S : Cardinality(T) <= Cardinality(S)
         /\ \A h \in S : Cardinality(S \ {h}) = Cardinality(S) - 1
         /\ \A h \in Handlers \ S : Cardinality(S \cup {h}) = Cardinality(S) + 1
  <1>1. IsFiniteSet(S)
    BY WebAssumption, FS_Subset
  <1> QED
    BY <1>1, FS_Subset, FS_CardinalityType, FS_AddElement, FS_RemoveElement

\* No handlers, no rows, an empty limiter.
LEMMA InitIInv == Init => IInv
  <1> SUFFICES ASSUME Init PROVE IInv
    OBVIOUS
  <1> USE WebAssumption DEF Init
  <1>1. RowsOK
    BY DEF RowsOK, Row, LinkStates
  <1>2. LockOK
    BY DEF LockOK, LockdownHolds, Idle, Request, PastCheck
  <1>3. \A p \in Persons : Reserving(p) = {}
    BY DEF Reserving, Idle, Request
  <1>4. LimiterOK
    BY <1>3, FS_EmptySet DEF LimiterOK
  <1>5. BoundsOK
    BY DEF BoundsOK
  <1>6. HandlersOK
    BY DEF HandlersOK, Sound, Requests, WellFormed, Rightful, Idle, Request,
           Places, Asking, PastCheck
  <1> QED
    BY <1>1, <1>2, <1>4, <1>5, <1>6 DEF IInv

\* The steps of a handler.
Acts(h) == \/ Step(h)
           \/ \E p \in Persons : Ask(h, p)
           \/ \E k \in Links : Follow(h, k)

\* Only a handler's own step moves it, but for a restart.
LEMMA OthersStay ==
  ASSUME HandlersOK, NEW h \in Handlers, Acts(h), NEW g \in Handlers \ {h}
  PROVE  proc'[g] = proc[g]
  BY DEF HandlersOK, Acts, Step, Reserve, Lookup, CreateMagicLink, Enqueue,
         LoadLink, DropExpired, Consume, CreateSession, DisableLogin,
         EndSessions, Fail, Ask, Follow, Start, Done, Goto

LEMMA Moves ==
  ASSUME [Next]_vars
  PROVE  UNCHANGED proc \/ Restart \/ \E h \in Handlers : Acts(h)
  BY DEF Next, Acts, Refill, Rest, ExpireLink, EndSession, EnableLogin,
         SweepLinks, vars

\* What is consumed stays so, and who is in the table of links too.
LEMMA RowsStay ==
  ASSUME IInv, [Next]_vars
  PROVE  RowsOK' /\ \A k \in Links : Consumed(k) => Consumed(k)'
  <1> USE DEF IInv, RowsOK, Consumed, rows, spent, LinkStates
  <1>f. \A h \in Handlers : Sound(proc[h])
    BY DEF HandlersOK
  <1>1. ASSUME NEW h \in Handlers, CreateMagicLink(h)
        PROVE  RowsOK' /\ \A k \in Links : Consumed(k) => Consumed(k)'
    <2>1. proc[h].who \in Persons
      BY <1>1, <1>f DEF CreateMagicLink, At, Sound, WellFormed, Asking
    <2> QED
      BY <1>1, <2>1 DEF CreateMagicLink, Row
  <1>2. ASSUME NEW h \in Handlers, Enqueue(h)
        PROVE  RowsOK' /\ \A k \in Links : Consumed(k) => Consumed(k)'
    BY <1>2, <1>f DEF Enqueue, At, Sound, WellFormed
  <1>3. ASSUME NEW h \in Handlers, DropExpired(h) \/ Consume(h)
        PROVE  RowsOK' /\ \A k \in Links : Consumed(k) => Consumed(k)'
    BY <1>3, <1>f DEF DropExpired, Consume, DeleteMagicLink, At
  <1>4. ASSUME NEW h \in Handlers, CreateSession(h)
        PROVE  RowsOK' /\ \A k \in Links : Consumed(k) => Consumed(k)'
    <2>1. /\ proc[h].link \in Links /\ Consumed(proc[h].link)
          /\ proc[h].who \in Persons \cup {Nobody}
      BY <1>4, <1>f DEF CreateSession, At, Sound, WellFormed, Rightful,
                        PastCheck, Requests
    <2> QED
      BY <1>4, <2>1 DEF CreateSession
  <1>5. ASSUME NEW h \in Handlers, EndSessions(h)
        PROVE  RowsOK' /\ \A k \in Links : Consumed(k) => Consumed(k)'
    BY <1>5 DEF EndSessions
  <1>6. ASSUME NEW h \in Handlers, Fail(h)
        PROVE  RowsOK' /\ \A k \in Links : Consumed(k) => Consumed(k)'
    BY <1>6, <1>f DEF Fail, At, Sound, WellFormed, PastCheck
  <1>7. ASSUME NEW s \in Sessions, EndSession(s)
        PROVE  RowsOK' /\ \A k \in Links : Consumed(k) => Consumed(k)'
    BY <1>7 DEF EndSession
  <1>8. ASSUME NEW k \in Links, ExpireLink(k)
        PROVE  RowsOK' /\ \A j \in Links : Consumed(j) => Consumed(j)'
    BY <1>8 DEF ExpireLink
  <1>9. ASSUME SweepLinks
        PROVE  RowsOK' /\ \A k \in Links : Consumed(k) => Consumed(k)'
    BY <1>9 DEF SweepLinks
  <1>10. CASE UNCHANGED <<rows, spent>>
    BY <1>10
  <1> QED
    BY <1>1, <1>2, <1>3, <1>4, <1>5, <1>6, <1>7, <1>8, <1>9, <1>10
    DEF Next, Step, Reserve, Lookup, LoadLink, DisableLogin, Ask, Follow,
        Refill, Rest, EnableLogin, Restart, vars

\* The switch and the sessions: who passes the check passes it while the
\* login is on, and disable login notes all who have.
LEMMA LockStays == ASSUME IInv, [Next]_vars PROVE LockOK'
  <1> USE DEF lock, PastCheck
  <1>f. /\ \A h \in Handlers : Sound(proc[h])
        /\ HandlersOK /\ proc \in [Handlers -> Requests] /\ LockOK
        /\ sessions \in [Sessions -> Persons \cup {Nobody}]
    BY DEF IInv, HandlersOK, RowsOK
  <1> DEFINE Noted == ~login' => \A h \in Handlers :
                         proc'[h].at \in PastCheck => h \in inFlight'
  <1>a. ASSUME NEW h \in Handlers, Acts(h), login' = login,
               inFlight \ {h} \subseteq inFlight',
               proc'[h].at \in PastCheck /\ ~login => h \in inFlight'
        PROVE  Noted
    BY <1>a, <1>f, OthersStay DEF LockOK
  <1>b. ASSUME NEW h \in Handlers, Acts(h), UNCHANGED <<lock, sessions>>,
               proc'[h].at \in PastCheck
                  => login \/ proc[h].at \in PastCheck
        PROVE  LockOK'
    <2>1. Noted
      BY <1>a, <1>b, <1>f DEF LockOK
    <2> QED
      BY <1>b, <1>f, <2>1 DEF LockOK, LockdownHolds
  <1>c. ASSUME NEW h \in Handlers, Acts(h), Done(h), Leave(h),
               UNCHANGED <<login, ended, late, sessions>>
        PROVE  LockOK'
    <2>1. proc'[h].at \notin PastCheck
      BY <1>c, <1>f DEF Done, Idle, Request
    <2>2. Noted
      BY <1>a, <1>c, <2>1 DEF Leave
    <2> QED
      BY <1>c, <1>f, <2>2 DEF LockOK, LockdownHolds, Leave
  <1> HIDE DEF Noted
  <1>1. ASSUME NEW h \in Handlers, NEW p \in Persons, Ask(h, p)
        PROVE  LockOK'
    BY <1>1, <1>b, <1>f DEF Ask, Acts, Start, Request, rows
  <1>2. ASSUME NEW h \in Handlers, NEW k \in Links, Follow(h, k)
        PROVE  LockOK'
    BY <1>2, <1>b, <1>f DEF Follow, Acts, Start, Request, rows
  <1>3. ASSUME NEW h \in Handlers,
               Reserve(h) \/ Lookup(h) \/ CreateMagicLink(h) \/ Enqueue(h)
        PROVE  LockOK'
    <2>1. UNCHANGED <<lock, sessions>>
      BY <1>3 DEF Reserve, Lookup, CreateMagicLink, Enqueue, rows
    <2>2. proc'[h].at \notin PastCheck
      <3>1. Reserve(h) => proc'[h].at \in {"idle", "lookup"}
        BY <1>f DEF Reserve, Done, Goto, Idle, Request, Requests
      <3>2. Lookup(h) => proc'[h].at \in {"idle", "createLink"}
        BY <1>f DEF Lookup, Done, Goto, Idle, Request, Requests
      <3>3. CreateMagicLink(h) => proc'[h].at = "enqueue"
        BY <1>f DEF CreateMagicLink, Requests
      <3>4. Enqueue(h) => proc'[h].at = "idle"
        BY <1>f DEF Enqueue, Done, Idle, Request
      <3> QED
        BY <1>3, <3>1, <3>2, <3>3, <3>4
    <2> QED
      BY <1>3, <1>b, <2>1, <2>2 DEF Acts, Step
  <1>4. ASSUME NEW h \in Handlers, LoadLink(h) PROVE LockOK'
    <2>1. CASE Done(h) /\ Leave(h)
      BY <1>4, <1>c, <2>1 DEF LoadLink, Acts, Step, rows
    <2>2. CASE UNCHANGED inFlight
      BY <1>4, <1>b, <2>2 DEF LoadLink, Acts, Step, rows, At
    <2> QED
      BY <1>4, <2>1, <2>2 DEF LoadLink
  <1>5. ASSUME NEW h \in Handlers, DropExpired(h) PROVE LockOK'
    BY <1>5, <1>c DEF DropExpired, Acts, Step
  <1>6. ASSUME NEW h \in Handlers, Consume(h) PROVE LockOK'
    BY <1>6, <1>b DEF Consume, Acts, Step, At
  <1>7. ASSUME NEW h \in Handlers, CreateSession(h) PROVE LockOK'
    <2>1. Noted
      <3>1. proc'[h].at \notin PastCheck
        BY <1>7, <1>f DEF CreateSession, Done, Idle, Request
      <3> QED
        BY <1>7, <1>a, <3>1 DEF CreateSession, Leave, Acts, Step
    <2>2. PICK s \in Sessions :
            /\ sessions' = [sessions EXCEPT ![s] = proc[h].who]
            /\ late' = IF ~login /\ h \in inFlight THEN late \cup {s} ELSE late
      BY <1>7 DEF CreateSession
    <2>3. ~login => h \in inFlight
      BY <1>7, <1>f DEF CreateSession, At, LockOK
    <2>4. LockdownHolds'
      BY <1>7, <1>f, <2>2, <2>3 DEF CreateSession, LockOK, LockdownHolds
    <2> QED
      BY <1>7, <1>f, <2>1, <2>2, <2>4
      DEF CreateSession, Leave, LockOK, Noted
  <1>8. ASSUME NEW h \in Handlers, DisableLogin(h) PROVE LockOK'
    <2>1. proc'[h].at \notin PastCheck
      BY <1>8, <1>f DEF DisableLogin, Start, Request
    <2>2. \A g \in Handlers \ {h} : proc'[g] = proc[g]
      BY <1>8, <1>f, OthersStay DEF Acts, Step
    <2>3. \A g \in Handlers : proc'[g].at \in PastCheck => g \in inFlight'
      BY <1>8, <1>f, <2>1, <2>2 DEF DisableLogin, LockOK
    <2>4. UNCHANGED <<sessions, late>> /\ (ended' => ended /\ ~login)
      BY <1>8 DEF DisableLogin, rows
    <2> QED
      BY <1>8, <1>f, <2>3, <2>4 DEF DisableLogin, LockOK, LockdownHolds
  <1>9. ASSUME NEW h \in Handlers, EndSessions(h) PROVE LockOK'
    <2>1. proc'[h].at \notin PastCheck
      BY <1>9, <1>f DEF EndSessions, Done, Idle, Request
    <2>2. Noted
      BY <1>9, <1>a, <2>1 DEF EndSessions, Acts, Step
    <2> QED
      BY <1>9, <1>f, <2>2 DEF EndSessions, LockOK, LockdownHolds, Noted
  <1>10. ASSUME NEW h \in Handlers, Fail(h) PROVE LockOK'
    <2>1. CASE Done(h) /\ Leave(h)
      BY <1>10, <1>c, <2>1 DEF Fail, Acts, Step, rows
    <2>2. CASE At(h, "consume") /\ UNCHANGED inFlight
      BY <1>10, <1>b, <2>2 DEF Fail, Acts, Step, rows, At
    <2> QED
      BY <1>10, <2>1, <2>2 DEF Fail
  <1>11. ASSUME NEW s \in Sessions, EndSession(s) PROVE LockOK'
    BY <1>11, <1>f DEF EndSession, LockOK, LockdownHolds
  <1>12. ASSUME EnableLogin PROVE LockOK'
    BY <1>12, <1>f DEF EnableLogin, LockOK, LockdownHolds
  <1>13. ASSUME Restart PROVE LockOK'
    BY <1>13, <1>f DEF Restart, rows, LockOK, LockdownHolds, At, Idle, Request
  <1>14. CASE UNCHANGED <<lock, sessions, proc>>
    BY <1>14, <1>f DEF LockOK, LockdownHolds
  <1> QED
    BY <1>1, <1>2, <1>3, <1>4, <1>5, <1>6, <1>7, <1>8, <1>9, <1>10, <1>11,
       <1>12, <1>13, <1>14
    DEF Next, Step, Refill, Rest, ExpireLink, SweepLinks, rows, vars

\* The limiter: a token moves from the bucket to a reservation and from there
\* to a link that is sent, or back.
LEMMA LimiterStays == ASSUME IInv, [Next]_vars PROVE LimiterOK'
  <1> USE WebAssumption DEF limiter, tallies
  <1>f. /\ \A h \in Handlers : Sound(proc[h])
        /\ HandlersOK /\ proc \in [Handlers -> Requests] /\ LimiterOK
    BY DEF IInv, HandlersOK
  <1>g. /\ \A p : Reserving(p) \in SUBSET Handlers
        /\ \A p : Reserving(p)' \in SUBSET Handlers
    BY DEF Reserving
  <1>h. /\ \A p : Cardinality(Reserving(p)) \in Nat
        /\ \A p : Cardinality(Reserving(p)') \in Nat
    BY <1>g, Counts
  <1> DEFINE Fewer == \A p \in Persons : Reserving(p)' \subseteq Reserving(p)
  <1>a. ASSUME Fewer
        PROVE  \A p \in Persons :
                  Cardinality(Reserving(p)') <= Cardinality(Reserving(p))
    BY <1>a, <1>g, Counts
  <1>b. ASSUME Fewer, UNCHANGED <<limiter, tallies>>
        PROVE  LimiterOK'
    BY <1>a, <1>b, <1>f, <1>h DEF LimiterOK
  <1>c. ASSUME NEW h \in Handlers, Acts(h),
               proc'[h].tracked =>
                  proc[h].tracked /\ proc'[h].who = proc[h].who
        PROVE  Fewer
    BY <1>c, <1>f, OthersStay DEF Reserving
  <1>d. ASSUME NEW h \in Handlers, Acts(h), Done(h), Cancel(h),
               UNCHANGED <<known, idle, refills, tallies>>
        PROVE  LimiterOK'
    <2>1. ~proc'[h].tracked
      BY <1>d, <1>f DEF Done, Idle, Request
    <2>2. CASE UNCHANGED tokens
      BY <1>b, <1>c, <1>d, <2>1, <2>2
    <2>3. CASE /\ proc[h].tracked /\ tokens[proc[h].who] < Burst
               /\ tokens' = [tokens EXCEPT ![proc[h].who] = @ + 1]
      <3> DEFINE p == proc[h].who
      <3>1. p \in known \ idle /\ h \in Reserving(p) /\ p \in Persons
        BY <1>f, <2>3 DEF Sound, Rightful, Reserving, LimiterOK
      <3>2. \A q \in Persons : Reserving(q)' \subseteq Reserving(q) \ {h}
        BY <1>d, <1>f, <2>1, OthersStay DEF Reserving
      <3>3. ASSUME NEW q \in Persons
            PROVE  Cardinality(Reserving(q)') <= Cardinality(Reserving(q))
        BY <1>g, <3>2, Counts
      <3>4. ASSUME NEW q \in Persons, q = p
            PROVE  Cardinality(Reserving(q)') + 1 <= Cardinality(Reserving(q))
        <4>1. Cardinality(Reserving(q) \ {h}) = Cardinality(Reserving(q)) - 1
          BY <1>g, <3>1, <3>4, Counts
        <4>2. Cardinality(Reserving(q)') <= Cardinality(Reserving(q) \ {h})
          <5>1. Reserving(q) \ {h} \in SUBSET Handlers
            BY <1>g
          <5> QED
            BY <3>2, <5>1, Counts
        <4> QED
          BY <1>h, <4>1, <4>2
      <3>5. ASSUME NEW q \in Persons \ untracked'
            PROVE  sent'[q] + Cardinality(Reserving(q)') + tokens'[q]
                      <= Burst + refills'[q]
        <4>1. CASE q = p
          BY <1>d, <1>f, <1>h, <2>3, <3>4, <4>1 DEF LimiterOK
        <4>2. CASE q # p
          BY <1>d, <1>f, <1>h, <2>3, <3>3, <4>2 DEF LimiterOK
        <4> QED
          BY <4>1, <4>2
      <3> QED
        BY <1>d, <1>f, <2>3, <3>1, <3>5 DEF LimiterOK
    <2> QED
      BY <1>d, <2>2, <2>3 DEF Cancel
  <1>1. ASSUME NEW h \in Handlers, Reserve(h) PROVE LimiterOK'
    <2> DEFINE p == proc[h].who
    <2>1. p \in Persons /\ ~proc[h].tracked
      BY <1>1, <1>f DEF Reserve, At, Sound, WellFormed, Asking
    <2>2. UNCHANGED <<refills, tallies>> /\ Acts(h)
      BY <1>1 DEF Reserve, Acts, Step
    <2>3. CASE /\ known' = known \cup {p} /\ idle' = idle \ {p}
               /\ tokens[p] > 0
               /\ tokens' = [tokens EXCEPT ![p] = @ - 1]
               /\ proc' = [proc EXCEPT ![h].at = "lookup",
                                       ![h].tracked = TRUE]
      <3>1. proc'[h].who = p
        BY <1>f, <2>3 DEF Requests
      <3>2. \A q \in Persons : Reserving(q)' \subseteq
                                 Reserving(q) \cup (IF q = p THEN {h} ELSE {})
        BY <1>f, <2>2, <3>1, OthersStay DEF Reserving
      <3>3. ASSUME NEW q \in Persons, q # p
            PROVE  Cardinality(Reserving(q)') <= Cardinality(Reserving(q))
        <4>1. Reserving(q)' \in SUBSET Reserving(q)
          BY <3>2, <3>3
        <4> QED
          BY <1>g, <4>1, Counts
      <3>4. ASSUME NEW q \in Persons, q = p
            PROVE  Cardinality(Reserving(q)') <= Cardinality(Reserving(q)) + 1
        <4>1. Reserving(q) \cup {h} \in SUBSET Handlers /\ h \notin Reserving(q)
          BY <1>g, <2>1 DEF Reserving
        <4>2. Reserving(q)' \in SUBSET (Reserving(q) \cup {h})
          BY <3>2, <3>4
        <4>3. Cardinality(Reserving(q) \cup {h}) = Cardinality(Reserving(q)) + 1
          BY <1>g, <4>1, Counts
        <4>4. Cardinality(Reserving(q)') <= Cardinality(Reserving(q) \cup {h})
          BY <4>1, <4>2, Counts
        <4> QED
          BY <4>3, <4>4
      <3>5. ASSUME NEW q \in Persons \ untracked'
            PROVE  sent'[q] + Cardinality(Reserving(q)') + tokens'[q]
                      <= Burst + refills'[q]
        <4>1. CASE q = p
          BY <1>f, <1>h, <2>2, <2>3, <3>4, <4>1 DEF LimiterOK
        <4>2. CASE q # p
          BY <1>f, <1>h, <2>2, <2>3, <3>3, <4>2 DEF LimiterOK
        <4> QED
          BY <4>1, <4>2
      <3> QED
        BY <1>f, <2>1, <2>2, <2>3, <3>5 DEF LimiterOK
    <2>4. CASE /\ known' = known \cup {p} /\ idle' = idle \ {p}
               /\ tokens[p] = 0 /\ Done(h) /\ UNCHANGED tokens
      <3>1. ~proc'[h].tracked
        BY <1>f, <2>4 DEF Done, Idle, Request
      <3>2. \A q \in Persons :
               Cardinality(Reserving(q)') <= Cardinality(Reserving(q))
        BY <1>a, <1>c, <2>2, <3>1
      <3> QED
        BY <1>f, <1>h, <2>1, <2>2, <2>4, <3>2 DEF LimiterOK
    <2>5. CASE /\ known' = known \ idle /\ idle' = idle \ idle
               /\ tokens' = [q \in Persons |->
                               IF q \in idle THEN Burst ELSE tokens[q]]
               /\ Goto(h, "lookup")
      <3>1. ~proc'[h].tracked
        BY <1>f, <2>1, <2>5 DEF Goto, Requests
      <3>2. \A q \in Persons :
               Cardinality(Reserving(q)') <= Cardinality(Reserving(q))
        BY <1>a, <1>c, <2>2, <3>1
      <3>3. \A q \in Persons : tokens'[q] = tokens[q]
        BY <1>f, <2>5 DEF LimiterOK
      <3>4. tokens' \in [Persons -> 0 .. Burst]
        BY <1>f, <2>5 DEF LimiterOK
      <3> QED
        BY <1>f, <1>h, <2>1, <2>2, <2>5, <3>2, <3>3, <3>4 DEF LimiterOK
    <2> QED
      BY <1>1, <2>3, <2>4, <2>5 DEF Reserve, Stale
  <1>2. ASSUME NEW h \in Handlers, Lookup(h) PROVE LimiterOK'
    <2>1. Acts(h) /\ UNCHANGED <<known, idle, refills, tallies>>
      BY <1>2 DEF Lookup, Acts, Step
    <2>2. CASE Done(h) /\ Cancel(h)
      BY <1>d, <2>1, <2>2
    <2>3. CASE Goto(h, "createLink") /\ UNCHANGED tokens
      <3>1. /\ proc'[h].tracked = proc[h].tracked
            /\ proc'[h].who = proc[h].who
        BY <1>f, <2>3 DEF Goto, Requests
      <3> QED
        BY <1>b, <1>c, <2>1, <2>3, <3>1
    <2> QED
      BY <1>2, <2>2, <2>3 DEF Lookup
  <1>3. ASSUME NEW h \in Handlers, CreateMagicLink(h) PROVE LimiterOK'
    <2> DEFINE p == proc[h].who
    <2>1. /\ p \in Persons /\ Acts(h) /\ UNCHANGED limiter
          /\ sent' = [sent EXCEPT ![p] = @ + 1]
          /\ untracked' = IF proc[h].tracked THEN untracked
                          ELSE untracked \cup {p}
      BY <1>3, <1>f
      DEF CreateMagicLink, At, Sound, WellFormed, Asking, Acts, Step
    <2>2. ~proc'[h].tracked
      BY <1>3, <1>f DEF CreateMagicLink, Requests
    <2>3. \A q \in Persons : Reserving(q)' \subseteq Reserving(q) \ {h}
      BY <1>f, <2>1, <2>2, OthersStay DEF Reserving
    <2>4. ASSUME NEW q \in Persons
          PROVE  Cardinality(Reserving(q)') <= Cardinality(Reserving(q))
      BY <1>g, <2>3, Counts
    <2>5. ASSUME NEW q \in Persons, q = p, proc[h].tracked
          PROVE  Cardinality(Reserving(q)') + 1 <= Cardinality(Reserving(q))
      <3>1. h \in Reserving(q) /\ Reserving(q) \ {h} \in SUBSET Handlers
        BY <1>g, <2>5 DEF Reserving
      <3>2. Cardinality(Reserving(q) \ {h}) = Cardinality(Reserving(q)) - 1
        BY <1>g, <3>1, Counts
      <3>3. Cardinality(Reserving(q)') <= Cardinality(Reserving(q) \ {h})
        BY <2>3, <3>1, Counts
      <3> QED
        BY <1>h, <3>2, <3>3
    <2>6. ASSUME NEW q \in Persons \ untracked'
          PROVE  sent'[q] + Cardinality(Reserving(q)') + tokens'[q]
                    <= Burst + refills'[q]
      <3>1. CASE q = p
        BY <1>f, <1>h, <2>1, <2>5, <3>1 DEF LimiterOK
      <3>2. CASE q # p
        BY <1>f, <1>h, <2>1, <2>4, <3>2 DEF LimiterOK
      <3> QED
        BY <3>1, <3>2
    <2> QED
      BY <1>f, <2>1, <2>6 DEF LimiterOK
  <1>4. ASSUME NEW h \in Handlers, Fail(h) PROVE LimiterOK'
    <2>1. Acts(h) /\ UNCHANGED <<known, idle, refills, tallies>>
      BY <1>4 DEF Fail, Acts, Step
    <2>2. CASE Done(h) /\ Cancel(h)
      BY <1>d, <2>1, <2>2
    <2>3. CASE (Done(h) \/ Goto(h, "issue")) /\ UNCHANGED tokens
      <3>1. proc'[h].tracked => /\ proc[h].tracked
                                /\ proc'[h].who = proc[h].who
        BY <1>f, <2>3 DEF Goto, Done, Idle, Request, Requests
      <3> QED
        BY <1>b, <1>c, <2>1, <2>3, <3>1
    <2> QED
      BY <1>4, <2>2, <2>3 DEF Fail
  <1>5. ASSUME NEW h \in Handlers,
               \/ Enqueue(h) \/ LoadLink(h) \/ DropExpired(h) \/ Consume(h)
               \/ CreateSession(h) \/ DisableLogin(h) \/ EndSessions(h)
               \/ \E p \in Persons : Ask(h, p)
               \/ \E k \in Links : Follow(h, k)
        PROVE  LimiterOK'
    <2>1. Acts(h) /\ UNCHANGED <<limiter, tallies>>
      BY <1>5 DEF Acts, Step, Enqueue, LoadLink, DropExpired, Consume,
                  CreateSession, DisableLogin, EndSessions, Ask, Follow
    <2>2. ~proc'[h].tracked
      <3>1. Done(h) => ~proc'[h].tracked
        BY <1>f DEF Done, Idle, Request
      <3>2. ASSUME NEW q, Start(h, q), ~q.tracked PROVE ~proc'[h].tracked
        BY <1>f, <3>2 DEF Start
      <3>3. (\E p \in Persons : Ask(h, p)) => ~proc'[h].tracked
        BY <3>2 DEF Ask, Request
      <3>4. (\E k \in Links : Follow(h, k)) => ~proc'[h].tracked
        BY <3>2 DEF Follow, Request
      <3>5. DisableLogin(h) => ~proc'[h].tracked
        BY <3>2 DEF DisableLogin, Request
      <3>6. LoadLink(h) \/ Consume(h) => ~proc'[h].tracked
        <4>1. At(h, "load") \/ At(h, "consume") => ~proc[h].tracked
          BY <1>f DEF At, Sound, WellFormed
        <4> QED
          BY <1>f, <3>1, <4>1 DEF LoadLink, Consume, Goto, Requests
      <3> QED
        BY <1>5, <3>1, <3>3, <3>4, <3>5, <3>6
        DEF Enqueue, DropExpired, CreateSession, EndSessions
    <2> QED
      BY <1>b, <1>c, <2>1, <2>2
  <1>6. ASSUME NEW p \in Persons, Refill(p) PROVE LimiterOK'
    <2>1. \A q \in Persons : Reserving(q)' = Reserving(q)
      BY <1>6 DEF Refill, Reserving
    <2> QED
      BY <1>6, <1>f, <1>h, <2>1 DEF Refill, LimiterOK
  <1>7. ASSUME NEW p \in Persons, Rest(p) PROVE LimiterOK'
    <2>1. \A q \in Persons : Reserving(q)' = Reserving(q)
      BY <1>7 DEF Rest, Reserving
    <2> QED
      BY <1>7, <1>f, <1>h, <2>1 DEF Rest, LimiterOK
  <1>8. ASSUME Restart PROVE LimiterOK'
    <2>1. \A h \in Handlers : ~proc'[h].tracked
      BY <1>8, <1>f DEF Restart, At, Sound, WellFormed, Idle, Request
    <2>2. \A q \in Persons : Reserving(q)' = {}
      BY <2>1 DEF Reserving
    <2>3. \A q \in Persons : Cardinality(Reserving(q)') = 0
      BY <2>2, FS_EmptySet
    <2> QED
      BY <1>8, <1>f, <2>3 DEF Restart, LimiterOK
  <1>9. CASE UNCHANGED <<limiter, tallies, proc>>
    <2>1. Fewer
      BY <1>9 DEF Reserving
    <2> QED
      BY <1>9, <1>b, <2>1
  <1> HIDE DEF Fewer
  <1> QED
    BY <1>1, <1>2, <1>3, <1>4, <1>5, <1>6, <1>7, <1>8, <1>9
    DEF Next, Step, ExpireLink, EndSession, EnableLogin, SweepLinks, vars

\* What a handler relies on is not taken from it: a bucket is only forgotten
\* when nobody holds a token of it, and links stay used, kept and consumed.
LEMMA SoundStays ==
  ASSUME IInv, [Next]_vars, NEW h \in Handlers, proc'[h] = proc[h],
         ~Restart
  PROVE  Sound(proc[h])'
  <1>f. /\ Sound(proc[h]) /\ HandlersOK /\ LimiterOK
    BY DEF IInv, HandlersOK
  <1>1. used \subseteq used' /\ kept \subseteq kept'
    BY DEF Next, Step, Reserve, Lookup, CreateMagicLink, Enqueue, LoadLink,
           DropExpired, Consume, CreateSession, DisableLogin, EndSessions,
           Fail, Ask, Follow, Refill, Rest, ExpireLink, EndSession,
           EnableLogin, SweepLinks, vars, spent
  <1>2. proc[h].tracked => proc[h].who \in (known \ idle)'
    <2> SUFFICES ASSUME proc[h].tracked
                 PROVE  proc[h].who \in (known \ idle)'
      OBVIOUS
    <2>1. proc[h].who \in known \ idle
      BY <1>f DEF Sound, Rightful
    <2>2. ASSUME NEW g \in Handlers, Reserve(g)
          PROVE  proc[h].who \in (known \ idle)'
      BY <2>1, <2>2 DEF Reserve, Stale
    <2>3. ASSUME NEW p \in Persons, Rest(p)
          PROVE  proc[h].who \in (known \ idle)'
      BY <2>1, <2>3 DEF Rest
    <2>4. CASE UNCHANGED <<known, idle>>
      BY <2>1, <2>4
    <2> QED
      BY <2>2, <2>3, <2>4
      DEF Next, Step, Lookup, CreateMagicLink, Enqueue, LoadLink, DropExpired,
          Consume, CreateSession, DisableLogin, EndSessions, Fail, Ask,
          Follow, Refill, ExpireLink, EndSession, EnableLogin, SweepLinks,
          vars, limiter
  <1>3. proc[h].at = "issue" =>
           Consumed(proc[h].link) /\ Consumed(proc[h].link)'
    <2>1. proc[h].at = "issue" =>
             proc[h].link \in Links /\ Consumed(proc[h].link)
      BY <1>f DEF Sound, WellFormed, Rightful, PastCheck
    <2>2. \A k \in Links : Consumed(k) => Consumed(k)'
      BY RowsStay
    <2>3. \A k \in Links : proc[h].link = k /\ Consumed(k)'
                              => Consumed(proc[h].link)'
      BY DEF Consumed
    <2> QED
      BY <2>1, <2>2, <2>3
  <1> QED
    BY <1>f, <1>1, <1>2, <1>3
    DEF Sound, WellFormed, Rightful, Requests

\* A handler with nothing to do is sound.
LEMMA IdleSound ==
  ASSUME NEW h \in Handlers, proc'[h] = Idle PROVE Sound(proc[h])'
  BY DEF Sound, Requests, WellFormed, Rightful, Idle, Request, Places, Asking,
         PastCheck

\* The steps of a handler take it to a sound place.
LEMMA ActsSound ==
  ASSUME IInv, [Next]_vars, NEW h \in Handlers, Acts(h)
  PROVE  Sound(proc[h])'
  <1>f. /\ Sound(proc[h]) /\ proc[h] \in Requests
        /\ proc \in [Handlers -> Requests] /\ LimiterOK /\ RowsOK
    BY DEF IInv, HandlersOK, Sound
  <1>a. Done(h) => Sound(proc[h])'
    BY <1>f, IdleSound DEF Done
  <1>1. ASSUME NEW p \in Persons, Ask(h, p) PROVE Sound(proc[h])'
    <2>1. proc'[h] = Request("reserve", p, NoLink, FALSE)
      BY <1>1, <1>f DEF Ask, Start
    <2> QED
      BY <2>1 DEF Request, Sound, Requests, WellFormed, Rightful, Places,
                  Asking, PastCheck
  <1>2. ASSUME NEW k \in Links, Follow(h, k) PROVE Sound(proc[h])'
    <2>1. proc'[h] = Request("load", Nobody, k, k \in used) /\ used' = used
      BY <1>2, <1>f DEF Follow, Start, spent
    <2>2. proc'[h] \in Requests
      BY <2>1 DEF Request, Requests, Places, PastCheck
    <2>3. /\ proc'[h].at = "load" /\ proc'[h].link = k
          /\ ~proc'[h].tracked /\ (proc'[h].again => k \in used')
      <3> DEFINE again == k \in used
      <3>1. proc'[h] = Request("load", Nobody, k, again)
        BY <2>1
      <3>2. again \in BOOLEAN /\ (again => k \in used')
        BY <2>1
      <3> HIDE DEF again
      <3>3. /\ proc'[h].at = "load" /\ proc'[h].link = k
            /\ ~proc'[h].tracked /\ proc'[h].again = again
        BY <3>1, <3>2 DEF Request
      <3> QED
        BY <3>2, <3>3, Zenon
    <2> QED
      BY <2>2, <2>3 DEF Sound, Requests, WellFormed, Rightful, Asking,
                        PastCheck
  <1>3. ASSUME Reserve(h) PROVE Sound(proc[h])'
    <2> DEFINE p == proc[h].who
    <2>1. p \in Persons /\ ~proc[h].tracked /\ "lookup" \in Places
      BY <1>3, <1>f DEF Reserve, At, Sound, WellFormed, Asking, Places
    <2>2. CASE /\ known' = known \cup {p} /\ idle' = idle \ {p}
               /\ proc' = [proc EXCEPT ![h].at = "lookup",
                                       ![h].tracked = TRUE]
      <3>1. /\ proc'[h].at = "lookup" /\ proc'[h].who = p
            /\ proc'[h].tracked = TRUE
        BY <1>f, <2>2 DEF Requests
      <3>2. [proc[h] EXCEPT !.at = "lookup", !.tracked = TRUE] \in Requests
        BY <1>f, <2>1 DEF Requests
      <3>3. proc'[h] \in Requests
        BY <1>f, <2>2, <3>2
      <3> QED
        BY <2>1, <2>2, <3>1, <3>3
        DEF Sound, Requests, WellFormed, Rightful, Asking, PastCheck
    <2>3. CASE Goto(h, "lookup")
      <3>1. proc'[h] = [proc[h] EXCEPT !.at = "lookup"]
        BY <1>f, <2>3 DEF Goto
      <3> QED
        BY <1>f, <2>1, <3>1
        DEF Sound, Requests, WellFormed, Rightful, Asking, PastCheck
    <2> QED
      BY <1>3, <1>a, <2>2, <2>3 DEF Reserve
  <1>4. ASSUME Lookup(h) PROVE Sound(proc[h])'
    <2>1. CASE Goto(h, "createLink")
      <3>1. proc'[h] = [proc[h] EXCEPT !.at = "createLink"]
        BY <1>f, <2>1 DEF Goto
      <3> QED
        BY <1>4, <1>f, <3>1
        DEF Lookup, At, Sound, Requests, WellFormed, Rightful, Asking,
            PastCheck, Places
    <2> QED
      BY <1>4, <1>a, <2>1 DEF Lookup
  <1>5. ASSUME CreateMagicLink(h) PROVE Sound(proc[h])'
    <2>1. PICK k \in Links :
            proc' = [proc EXCEPT ![h].at = "enqueue", ![h].link = k,
                                 ![h].tracked = FALSE]
      BY <1>5 DEF CreateMagicLink
    <2>2. /\ proc'[h].at = "enqueue" /\ proc'[h].link = k
          /\ ~proc'[h].tracked /\ proc'[h].who = proc[h].who
      BY <1>f, <2>1 DEF Requests
    <2>3. [proc[h] EXCEPT !.at = "enqueue", !.link = k, !.tracked = FALSE]
             \in Requests
      <3>1. "enqueue" \in Places
        BY DEF Places, Asking
      <3> QED
        BY <1>f, <3>1 DEF Requests
    <2>4. proc'[h] \in Requests
      BY <1>f, <2>1, <2>3
    <2> QED
      BY <1>5, <1>f, <2>2, <2>4
      DEF CreateMagicLink, At, Sound, Requests, WellFormed, Rightful, Asking,
          PastCheck
  <1>6. ASSUME LoadLink(h) PROVE Sound(proc[h])'
    <2> DEFINE k == proc[h].link
    <2>1. /\ k \in Links /\ ~proc[h].tracked
          /\ proc[h].again => k \in used
          /\ kept' = kept
      BY <1>6, <1>f DEF LoadLink, At, Sound, WellFormed, Rightful, PastCheck,
                        spent
    <2>2. CASE Goto(h, "drop")
      <3>1. proc'[h] = [proc[h] EXCEPT !.at = "drop"]
        BY <1>f, <2>2 DEF Goto
      <3> QED
        BY <1>f, <2>1, <3>1
        DEF Sound, Requests, WellFormed, Rightful, Asking, PastCheck, Places
    <2>3. CASE /\ links[k].state = "live"
               /\ proc' = [proc EXCEPT ![h].at = "consume",
                                       ![h].who = links[k].who]
      <3>1. links[k].who \in Persons \cup {Nobody} /\ "consume" \in Places
        BY <1>f, <2>1 DEF RowsOK, Places, PastCheck
      <3>2. /\ proc'[h].at = "consume" /\ proc'[h].link = k
            /\ ~proc'[h].tracked /\ proc'[h].again = proc[h].again
        BY <1>f, <2>1, <2>3 DEF Requests
      <3>3. [proc[h] EXCEPT !.at = "consume", !.who = links[k].who]
               \in Requests
        BY <1>f, <3>1 DEF Requests
      <3>4. proc'[h] \in Requests
        BY <1>f, <2>3, <3>3
      <3>5. proc[h].again => k \in kept
        BY <1>f, <2>1, <2>3 DEF RowsOK, Consumed
      <3> QED
        BY <2>1, <3>2, <3>4, <3>5
        DEF Sound, Requests, WellFormed, Rightful, Asking, PastCheck
    <2> QED
      BY <1>6, <1>a, <2>2, <2>3 DEF LoadLink
  <1>7. ASSUME Goto(h, "issue"), At(h, "consume"), kept \subseteq kept',
               links'[proc[h].link].state = "gone" \/ proc[h].link \in kept'
        PROVE  Sound(proc[h])'
    <2>1. proc'[h] = [proc[h] EXCEPT !.at = "issue"]
      BY <1>7, <1>f DEF Goto
    <2>2. /\ proc'[h] \in Requests /\ proc'[h].at = "issue"
          /\ proc'[h].link = proc[h].link /\ proc'[h].again = proc[h].again
          /\ proc'[h].tracked = proc[h].tracked
      BY <1>f, <2>1 DEF Requests, Places, PastCheck
    <2> QED
      BY <1>7, <1>f, <2>2
      DEF At, Sound, Requests, WellFormed, Rightful, Asking, PastCheck,
          Consumed
  <1>8. ASSUME Consume(h) PROVE Sound(proc[h])'
    <2>1. proc[h].link \in Links
      BY <1>8, <1>f DEF Consume, At, Sound, WellFormed, PastCheck
    <2>2. links'[proc[h].link].state = "gone"
      BY <1>8, <1>f, <2>1 DEF Consume, DeleteMagicLink, RowsOK
    <2> QED
      BY <1>7, <1>8, <2>2 DEF Consume, spent
  <1>9. ASSUME DisableLogin(h) PROVE Sound(proc[h])'
    <2>1. proc'[h] = Request("endSessions", Nobody, NoLink, FALSE)
      BY <1>9, <1>f DEF DisableLogin, Start
    <2> QED
      BY <2>1 DEF Request, Sound, Requests, WellFormed, Rightful, Places,
                  Asking, PastCheck
  <1>10. ASSUME Fail(h) PROVE Sound(proc[h])'
    BY <1>7, <1>10, <1>a DEF Fail
  <1> QED
    BY <1>1, <1>2, <1>3, <1>4, <1>5, <1>6, <1>8, <1>9, <1>10, <1>a
    DEF Acts, Step, Enqueue, DropExpired, CreateSession, EndSessions

\* Every step keeps the handlers sound, and with them the whole invariant.
LEMMA NextIInv == IInv /\ [Next]_vars => IInv'
  <1> SUFFICES ASSUME IInv, [Next]_vars PROVE IInv'
    OBVIOUS
  <1>f. /\ \A h \in Handlers : Sound(proc[h])
        /\ HandlersOK /\ proc \in [Handlers -> Requests]
    BY DEF IInv, HandlersOK
  <1>1. HandlersOK'
    <2>1. CASE Restart
      <3>1. ASSUME NEW h \in Handlers PROVE Sound(proc[h])'
        <4>1. CASE proc'[h] = Idle
          BY <4>1, IdleSound
        <4>2. CASE At(h, "endSessions") /\ proc'[h] = proc[h]
          BY <1>f, <4>2 DEF At, Sound, WellFormed, Rightful, Requests, Asking,
                            PastCheck
        <4> QED
          BY <2>1, <4>1, <4>2 DEF Restart
      <3>2. proc' = [h \in Handlers |-> proc'[h]]
        BY <2>1 DEF Restart
      <3> QED
        BY <3>1, <3>2 DEF HandlersOK, Sound, Requests
    <2>2. CASE UNCHANGED proc /\ ~Restart
      BY <1>f, <2>2, SoundStays DEF HandlersOK, Requests
    <2>3. ASSUME NEW h \in Handlers, Acts(h), ~Restart PROVE HandlersOK'
      <3>1. ASSUME NEW g \in Handlers PROVE Sound(proc[g])'
        BY <1>f, <2>3, OthersStay, SoundStays, ActsSound
      <3>2. proc' = [g \in Handlers |-> proc'[g]]
        BY <1>f, <2>3
        DEF Acts, Step, Reserve, Lookup, CreateMagicLink, Enqueue, LoadLink,
            DropExpired, Consume, CreateSession, DisableLogin, EndSessions,
            Fail, Ask, Follow, Start, Done, Goto
      <3> QED
        BY <3>1, <3>2 DEF HandlersOK, Sound, Requests
    <2> QED
      BY <2>1, <2>2, <2>3, Moves
  <1>2. BoundsOK'
    <2>0. BoundsOK
      BY DEF IInv
    <2>1. CASE UNCHANGED bounds
      BY <2>0, <2>1 DEF BoundsOK, bounds
    <2>2. CASE EnableLogin \/ Restart
      BY <2>0, <2>2, WebAssumption DEF BoundsOK, EnableLogin, Restart
    <2>3. ASSUME NEW h \in Handlers, DisableLogin(h) \/ Fail(h)
          PROVE  BoundsOK'
      <3>1. \/ toggles < MaxToggles /\ toggles' = toggles + 1
               /\ faults' = faults
            \/ faults < MaxFaults /\ faults' = faults + 1
               /\ toggles' = toggles
        BY <2>3 DEF DisableLogin, Fail
      <3> QED
        BY <2>0, <3>1, WebAssumption DEF BoundsOK
    <2> QED
      BY <2>1, <2>2, <2>3
      DEF Next, Step, Reserve, Lookup, CreateMagicLink, Enqueue, LoadLink,
          DropExpired, Consume, CreateSession, EndSessions, Ask, Follow,
          Refill, Rest, ExpireLink, EndSession, SweepLinks, vars
  <1> QED
    BY <1>1, <1>2, RowsStay, LockStays, LimiterStays DEF IInv

\* The inductive invariant holds throughout.
LEMMA AlwaysIInv == Spec => []IInv
  BY InitIInv, NextIInv, PTL DEF Spec
-----------------------------------------------------------------------------
\* Tables, limiter and requests stay well-formed; an address that has no
\* bucket counts as one with a full one.
THEOREM TypeCorrect == Spec => []WTypeOK
  <1>1. IInv => WTypeOK
    BY DEF IInv, RowsOK, LockOK, LimiterOK, BoundsOK, HandlersOK, Requests,
           WTypeOK
  <1> QED
    BY <1>1, AlwaysIInv, PTL

\* disable login ends every session but those of requests that had passed the
\* check before it wrote the switch (cmdSetWebToggle, handleVerify).
THEOREM LockdownHoldsAlways == Spec => []LockdownHolds
  <1>1. IInv => LockdownHolds
    BY DEF IInv, LockOK
  <1> QED
    BY <1>1, AlwaysIInv, PTL

\* Only a failed deletion or a request under way at the same time lets a link
\* sign in twice (handleVerify).
THEOREM SpentLinkIsSpentHolds == Spec => []SpentLinkIsSpent
  <1>1. IInv => SpentLinkIsSpent
    BY DEF IInv, HandlersOK, Sound, Rightful, SpentLinkIsSpent, At
  <1> QED
    BY <1>1, AlwaysIInv, PTL

\* Forgetting buckets, cancelling reservations and refilling never let an
\* address be sent more links than Burst and the refills allow (reserve,
\* sweepLocked).
THEOREM CapKeptHolds == Spec => []CapKept
  <1>1. ASSUME IInv, NEW p \in Persons \ untracked
        PROVE  sent[p] <= Burst + refills[p]
    <2>1. Cardinality(Reserving(p)) \in Nat
      BY Counts DEF Reserving
    <2> QED
      BY <1>1, <2>1, WebAssumption DEF IInv, LimiterOK
  <1>2. IInv => CapKept
    BY <1>1 DEF CapKept
  <1> QED
    BY <1>2, AlwaysIInv, PTL
=============================================================================
