------------------------ MODULE OutboundQueueProofs -------------------------
(***************************************************************************)
(* Theorems about OutboundQueue, for every set of rows and lists and every *)
(* retry limit.  None of them needs fairness.                              *)
(***************************************************************************)
EXTENDS OutboundQueue, TLAPS

Busy == {"send", "failed", "giveUp", "remove"}

Settled(m) == m \in relayed \/ m \in abandoned \/ HasNotice(m)

\* Rows never issued carry no history.
Untouched ==
    \A i \in Ids \ used : /\ attempts[i] = 0 /\ retries[i] = 0
                          /\ reportOf[i] = None

\* A row waiting to be claimed has been tried as often as its column says.
Waiting ==
    \A i \in rows \ claimed :
        attempts[i] = retries[i] /\ ~Settled(i) /\ i # cur

\* What the worker knows of the row in its hands.
InHand ==
    /\ pc \in Busy =>
          /\ cur \in used
          /\ cur \in rows => cur \in claimed /\ retries[cur] = curRetries
          /\ cur \notin rows => cur \in withdrawn
    /\ pc \notin Busy => cur = None
    /\ pc = "send" => attempts[cur] = curRetries /\ ~Settled(cur)
    /\ pc = "failed" => attempts[cur] = curRetries + 1 /\ ~Settled(cur)
    /\ pc = "giveUp" => attempts[cur] = MaxRetries /\ ~Settled(cur)
    /\ pc = "remove" =>
          \/ cur \in relayed
          \/ attempts[cur] = MaxRetries /\ (cur \in abandoned \/ HasNotice(cur))

\* Giving up without a notice is final, and only a fault denies a poster one.
Abandonment ==
    \A m \in abandoned : /\ attempts[m] = MaxRetries
                         /\ m \notin relayed /\ ~HasNotice(m)
                         /\ m \in posted => m \in stranded

NotWithdrawn == rows \cap withdrawn = {}

IInv == /\ QTypeOK
        /\ Untouched
        /\ Waiting
        /\ InHand
        /\ Abandonment
        /\ NotWithdrawn
        /\ AttemptsBounded
        /\ NoticesAreFinal
        /\ NothingVanishes
-----------------------------------------------------------------------------
\* The empty table of a first start satisfies the inductive invariant.
LEMMA InitIInv == Init => IInv
  BY QueueAssumption
  DEF Init, IInv, QTypeOK, PCs, Untouched, Waiting, InHand, Busy, Abandonment,
      NotWithdrawn, AttemptsBounded, NoticesAreFinal, NothingVanishes

\* Every step of the daemon, the operator and the worker, faults included,
\* keeps the inductive invariant: one step of the proof per action.
LEMMA NextIInv == IInv /\ [Next]_vars => IInv'
  <1> SUFFICES ASSUME IInv, [Next]_vars PROVE IInv'
    OBVIOUS
  <1> USE QueueAssumption
      DEF IInv, QTypeOK, PCs, Untouched, Waiting, InHand, Busy, Settled,
          HasNotice, Abandonment, NotWithdrawn, AttemptsBounded,
          NoticesAreFinal, NothingVanishes, vars, table, worker, history
  <1>1. ASSUME BeginBatch PROVE IInv'
    BY <1>1 DEF BeginBatch
  <1>2. ASSUME EndBatch PROVE IInv'
    BY <1>2 DEF EndBatch
  <1>3. ASSUME ClaimFails PROVE IInv'
    BY <1>3 DEF ClaimFails, Fault
  <1>4. ASSUME NEW i \in Ids, ClaimNextQueued(i) PROVE IInv'
    BY <1>4 DEF ClaimNextQueued, Claimable
  <1>5. ASSUME SendSucceeds PROVE IInv'
    BY <1>5 DEF SendSucceeds, Attempt
  <1>6. ASSUME SendFails PROVE IInv'
    BY <1>6 DEF SendFails, Attempt
  <1>7. ASSUME RequeueWithBackoff PROVE IInv'
    <2> USE <1>7 DEF RequeueWithBackoff
    <2>1. cur \in rows => retries[cur] + 1 \in 0 .. MaxRetries - 1
      BY DEF GivesUp
    <2>2. retries' \in [Ids -> 0 .. MaxRetries - 1]
      BY <2>1
    <2>3. claimed' \subseteq rows
      BY ZenonT(60)
    <2>4. ASSUME NEW i \in notDue' PROVE i \in rows
      <3>1. i \in notDue \/ i = cur
        OBVIOUS
      <3>2. i = cur => i \in rows \/ i \in notDue
        OBVIOUS
      <3> QED
        BY <3>1, <3>2
    <2>5. rows' = rows /\ batch' \subseteq used
      OBVIOUS
    <2>6. QTypeOK'
      BY <2>2, <2>3, <2>4, <2>5
    <2> QED
      BY <2>1, <2>6
  <1>8. ASSUME RequeueFails PROVE IInv'
    BY <1>8 DEF RequeueFails, GivesUp, Fault
  <1>9. ASSUME StartGivingUp PROVE IInv'
    BY <1>9 DEF StartGivingUp, GivesUp
  <1>10. ASSUME BounceFails PROVE IInv'
    BY <1>10 DEF BounceFails, Fault
  <1>11. ASSUME Drop PROVE IInv'
    BY <1>11 DEF Drop
  <1>12. ASSUME NEW n \in Ids, BounceToPoster(n) PROVE IInv'
    BY <1>12 DEF BounceToPoster, Insert, Fresh
  <1>13. ASSUME MarkQueuedSent PROVE IInv'
    BY <1>13 DEF MarkQueuedSent, Delete
  <1>14. ASSUME RemoveFails PROVE IInv'
    BY <1>14 DEF RemoveFails, Fault
  <1>15. ASSUME NEW n \in Ids, NEW l \in Lists, NEW isPost \in BOOLEAN,
                Enqueue(n, l, isPost)
         PROVE  IInv'
    BY <1>15 DEF Enqueue, Insert, Fresh
  <1>16. ASSUME NEW i \in Ids, DiscardQueued(i) PROVE IInv'
    BY <1>16 DEF DiscardQueued, Withdraw, Delete
  <1>17. ASSUME NEW l \in Lists, DeleteList(l) PROVE IInv'
    BY ZenonT(60), <1>17 DEF DeleteList, Withdraw, Delete
  <1>18. ASSUME Crash PROVE IInv'
    BY <1>18 DEF Crash, Fault
  <1>19. ASSUME NEW i \in Ids, Elapse(i) PROVE IInv'
    BY <1>19 DEF Elapse
  <1>20. ASSUME UNCHANGED vars PROVE IInv'
    BY <1>20
  <1> HIDE DEF IInv, vars
  <1>21. WorkerNext => IInv'
    BY <1>1, <1>2, <1>3, <1>4, <1>5, <1>6, <1>7, <1>8, <1>9, <1>10, <1>11,
       <1>12, <1>13, <1>14
    DEF WorkerNext
  <1>22. Environment => IInv'
    BY <1>15, <1>16, <1>17, <1>18 DEF Environment
  <1> QED
    BY <1>19, <1>20, <1>21, <1>22 DEF Next

\* The inductive invariant holds throughout.
LEMMA AlwaysIInv == Spec => []IInv
  BY InitIInv, NextIInv, PTL DEF Spec
-----------------------------------------------------------------------------
\* The table and the worker stay well-formed: a row never carries as many
\* retries as the cap, and only existing rows are claimed or backing off.
THEOREM TypeCorrect == Spec => []QTypeOK
  <1>1. IInv => QTypeOK
    BY DEF IInv
  <1> QED
    BY <1>1, AlwaysIInv, PTL

\* For every retry limit, no row is attempted more often than the limit
\* (worker.go:75), through failing requeues, crashes and restarts.
THEOREM AttemptsBoundedHolds == Spec => []AttemptsBounded
  <1>1. IInv => AttemptsBounded
    BY DEF IInv
  <1> QED
    BY <1>1, AlwaysIInv, PTL

\* A poster gets at most one failure notice per recipient, only once all
\* attempts failed, never for a row for which Send returned nil, and never a
\* notice about a notice (giveUp).
THEOREM NoticesAreFinalHolds == Spec => []NoticesAreFinal
  <1>1. IInv => NoticesAreFinal
    BY DEF IInv
  <1> QED
    BY <1>1, AlwaysIInv, PTL

\* A row that left the table was relayed, withdrawn or used up its attempts,
\* and a post that used them up left a notice unless queueing it failed.
THEOREM NothingVanishesHolds == Spec => []NothingVanishes
  <1>1. IInv => NothingVanishes
    BY DEF IInv
  <1> QED
    BY <1>1, AlwaysIInv, PTL

\* Once Send has returned nil for a row, the row is never handed to Send
\* again, whatever fails between that and its removal (attempt,
\* ClaimNextQueued).  A message the MTA took before QUIT failed is another
\* matter: Send returned an error, and the row is tried again (smtp.go:117).
THEOREM NeverResentHolds == Spec => NeverResent
  <1>1. IInv /\ [Next]_vars
           => [\A m \in relayed : attempts'[m] = attempts[m]]_vars
    <2> SUFFICES ASSUME IInv, Next, NEW m \in relayed
                 PROVE  attempts'[m] = attempts[m]
      OBVIOUS
    <2> USE DEF IInv, QTypeOK, InHand, Busy, Settled
    <2>1. CASE SendSucceeds
      BY <2>1 DEF SendSucceeds, Attempt
    <2>2. CASE SendFails
      BY <2>2 DEF SendFails, Attempt
    <2>3. CASE ~(SendSucceeds \/ SendFails)
      BY <2>3
      DEF Next, WorkerNext, Environment, history, BeginBatch, EndBatch,
         ClaimFails, ClaimNextQueued, RequeueWithBackoff, RequeueFails,
         StartGivingUp, BounceFails, Drop, BounceToPoster, MarkQueuedSent,
         RemoveFails, Enqueue, DiscardQueued, DeleteList, Withdraw, Crash,
         Elapse
    <2> QED
      BY <2>1, <2>2, <2>3
  <1> QED
    BY <1>1, AlwaysIInv, PTL DEF Spec, NeverResent
-----------------------------------------------------------------------------
\* The refinement mapping, named.
FateMap == [m \in Ids |-> FateOf(m)]
HandMap == IF pc \in {"send", "failed", "giveUp"} THEN cur ELSE None

\* The step is invisible in MailFate.
Unmoved == FateMap' = FateMap /\ posted' = posted /\ HandMap' = HandMap

\* An empty table is a state in which no message was submitted.
LEMMA FateInitially == Init => Fate!FateInit
  BY DEF Init, Fate!FateInit, FateOf, HasNotice

\* Every step of the queue maps to a step of MailFate or leaves fates alone.
LEMMA FateStep == IInv /\ [Next]_vars => [Fate!FateNext]_(Fate!fateVars)
  <1> SUFFICES ASSUME IInv, [Next]_vars PROVE Fate!FateNext \/ Unmoved
    BY DEF Fate!fateVars, Unmoved, FateMap, HandMap
  <1> USE QueueAssumption DEF IInv, QTypeOK, PCs, Untouched, Waiting, InHand,
          Busy, Settled, Abandonment, NotWithdrawn, vars, table, worker,
          history
  <1>1. ASSUME BeginBatch PROVE Unmoved
    BY <1>1 DEF BeginBatch, FateOf, HasNotice, FateMap, HandMap, Unmoved
  <1>2. ASSUME EndBatch PROVE Unmoved
    BY <1>2 DEF EndBatch, FateOf, HasNotice, FateMap, HandMap, Unmoved
  <1>3. ASSUME ClaimFails PROVE Unmoved
    BY <1>3 DEF ClaimFails, FateOf, HasNotice, FateMap, HandMap, Unmoved
  <1>4. ASSUME StartGivingUp PROVE Unmoved
    BY <1>4 DEF StartGivingUp, FateOf, HasNotice, FateMap, HandMap, Unmoved
  <1>5. ASSUME SendFails PROVE Unmoved
    BY <1>5
    DEF SendFails, Attempt, FateOf, HasNotice, FateMap, HandMap, Unmoved
  <1>6. ASSUME MarkQueuedSent PROVE Unmoved
    BY <1>6
    DEF MarkQueuedSent, Delete, FateOf, HasNotice, FateMap, HandMap, Unmoved
  <1>7. ASSUME RemoveFails PROVE Unmoved
    BY <1>7 DEF RemoveFails, FateOf, HasNotice, FateMap, HandMap, Unmoved
  <1>8. ASSUME NEW i \in Ids, Elapse(i) PROVE Unmoved
    BY <1>8 DEF Elapse, FateOf, HasNotice, FateMap, HandMap, Unmoved
  <1>9. CASE UNCHANGED vars
    BY <1>9 DEF FateOf, HasNotice, FateMap, HandMap, Unmoved
  <1>10. ASSUME RequeueWithBackoff PROVE Fate!PutBack \/ Unmoved
    BY <1>10
    DEF RequeueWithBackoff, Fate!PutBack, FateOf, HasNotice, FateMap, HandMap,
        Unmoved
  <1>11. ASSUME RequeueFails PROVE Fate!PutBack \/ Unmoved
    BY <1>11
    DEF RequeueFails, Fate!PutBack, FateOf, HasNotice, FateMap, HandMap,
        Unmoved
  <1>12. ASSUME Crash PROVE Fate!PutBack \/ Unmoved
    BY <1>12
    DEF Crash, Fate!PutBack, FateOf, HasNotice, FateMap, HandMap, Unmoved
  <1>13. ASSUME NEW i \in Ids, ClaimNextQueued(i) PROVE Fate!Take(i)
    BY <1>13
    DEF ClaimNextQueued, Claimable, Fate!Take, FateOf, HasNotice, FateMap,
        HandMap, Unmoved
  <1>14. ASSUME SendSucceeds PROVE Fate!Relay(cur)
    <2>1. \A m \in Ids : FateOf(m)' = IF m = cur THEN "relayed" ELSE FateOf(m)
      BY <1>14 DEF SendSucceeds, Attempt, FateOf, HasNotice
    <2>2. FateMap' = [FateMap EXCEPT ![cur] = "relayed"]
      BY <2>1 DEF FateMap
    <2>3. HandMap' = None /\ HandMap = cur
      BY <1>14 DEF SendSucceeds, Attempt, HandMap
    <2> QED
      BY <1>14, <2>2, <2>3
      DEF SendSucceeds, Attempt, Fate!Relay, FateMap, HandMap
  <1>15. ASSUME BounceFails PROVE Fate!Drop(cur)
    <2>1. \A m \in Ids : FateOf(m)' = IF m = cur THEN "dropped" ELSE FateOf(m)
      BY <1>15 DEF BounceFails, FateOf, HasNotice
    <2>2. FateMap' = [FateMap EXCEPT ![cur] = "dropped"]
      BY <2>1 DEF FateMap
    <2>3. HandMap' = None /\ HandMap = cur
      BY <1>15 DEF BounceFails, HandMap
    <2> QED
      BY <1>15, <2>2, <2>3 DEF BounceFails, Fate!Drop, FateMap, HandMap
  <1>16. ASSUME Drop PROVE Fate!Drop(cur)
    <2>1. \A m \in Ids : FateOf(m)' = IF m = cur THEN "dropped" ELSE FateOf(m)
      BY <1>16 DEF Drop, FateOf, HasNotice
    <2>2. FateMap' = [FateMap EXCEPT ![cur] = "dropped"]
      BY <2>1 DEF FateMap
    <2>3. HandMap' = None /\ HandMap = cur
      BY <1>16 DEF Drop, HandMap
    <2> QED
      BY <1>16, <2>2, <2>3 DEF Drop, Fate!Drop, FateMap, HandMap
  <1>17. ASSUME NEW n \in Ids, BounceToPoster(n) PROVE Fate!Bounce(cur, n)
    <2> USE <1>17 DEF BounceToPoster, Insert, Fresh
    <2>1. n # cur /\ cur \in used /\ n \notin used
      OBVIOUS
    <2>2. \A m \in Ids : HasNotice(m)' <=> HasNotice(m) \/ m = cur
      BY <2>1 DEF HasNotice
    <2>3. ~HasNotice(n) /\ n \notin relayed \cup abandoned \cup withdrawn
      BY DEF HasNotice, NoticesAreFinal
    <2>4. cur \notin relayed
      OBVIOUS
    <2>5. \A m \in Ids : FateOf(m)' = IF m = n THEN "pending"
                                 ELSE IF m = cur THEN "bounced" ELSE FateOf(m)
      BY <2>1, <2>2, <2>3, <2>4 DEF FateOf
    <2>6. FateMap' = [FateMap EXCEPT ![cur] = "bounced", ![n] = "pending"]
      BY <2>5 DEF FateMap
    <2>7. FateMap[n] = "unborn" /\ HandMap' = None /\ HandMap = cur
      BY <2>1 DEF FateMap, FateOf, HandMap
    <2> QED
      BY <2>6, <2>7 DEF Fate!Bounce, FateMap, HandMap
  <1>18. ASSUME NEW n \in Ids, NEW l \in Lists, NEW isPost \in BOOLEAN,
               Enqueue(n, l, isPost)
        PROVE  Fate!Submit(n)
    <2>0. \A m \in Ids : HasNotice(m)' <=> HasNotice(m)
      BY <1>18 DEF Enqueue, Insert, Fresh, HasNotice
    <2>9. ~HasNotice(n) /\ n \notin relayed \cup abandoned \cup withdrawn
      BY <1>18 DEF Enqueue, Insert, Fresh, HasNotice, NoticesAreFinal
    <2>1. \A m \in Ids : FateOf(m)' = IF m = n THEN "pending" ELSE FateOf(m)
      BY <1>18, <2>0, <2>9 DEF Enqueue, Insert, Fresh, FateOf
    <2>2. FateMap' = [FateMap EXCEPT ![n] = "pending"]
      BY <2>1 DEF FateMap
    <2>3. FateMap[n] = "unborn" /\ HandMap' = HandMap
      BY <1>18 DEF Enqueue, Insert, Fresh, FateMap, FateOf, HandMap
    <2> QED
      BY <1>18, <2>2, <2>3 DEF Enqueue, Insert, Fate!Submit, FateMap, HandMap
  <1>19. ASSUME NEW S \in SUBSET rows, Withdraw(S)
        PROVE  \E T \in SUBSET Ids : Fate!Withdraw(T)
    <2> DEFINE T == {m \in S : FateOf(m) = "pending"}
    <2>1. \A m \in Ids : FateOf(m)' = IF m \in T THEN "withdrawn" ELSE FateOf(m)
      BY <1>19 DEF Withdraw, Delete, FateOf, HasNotice
    <2>2. HandMap' = HandMap /\ posted' = posted /\ T \in SUBSET Ids
      BY <1>19 DEF Withdraw, Delete, HandMap
    <2>3. FateMap' = [m \in Ids |-> IF m \in T THEN "withdrawn" ELSE FateMap[m]]
      BY <2>1 DEF FateMap
    <2>4. \A m \in T : FateMap[m] = "pending"
      BY DEF FateMap
    <2>5. Fate!Withdraw(T)
      BY <2>2, <2>3, <2>4 DEF Fate!Withdraw, FateMap, HandMap
    <2> QED
      BY <2>2, <2>5
  <1>20. ASSUME NEW i \in Ids, DiscardQueued(i)
         PROVE  \E S \in SUBSET rows : Withdraw(S)
    BY <1>20 DEF DiscardQueued
  <1>21. ASSUME NEW l \in Lists, DeleteList(l)
         PROVE  \E S \in SUBSET rows : Withdraw(S)
    BY <1>21 DEF DeleteList
  <1>22. ASSUME \/ SendSucceeds \/ BounceFails \/ Drop
                \/ \E n \in Ids : BounceToPoster(n)
         PROVE  Fate!FateNext
    <2>1. cur \in Ids
      BY <1>22 DEF SendSucceeds, BounceFails, Drop, BounceToPoster
    <2> QED
      BY <1>13, <1>14, <1>15, <1>16, <1>17, <1>22, <2>1 DEF Fate!FateNext
  <1>23. CASE WorkerNext
    BY <1>1, <1>2, <1>3, <1>4, <1>5, <1>6, <1>7, <1>8, <1>9, <1>10, <1>11,
       <1>12, <1>13, <1>14, <1>15, <1>16, <1>17, <1>18, <1>19, <1>22, <1>23
    DEF WorkerNext, Fate!FateNext
  <1>24. CASE Environment
    BY <1>1, <1>2, <1>3, <1>4, <1>5, <1>6, <1>7, <1>8, <1>9, <1>10, <1>11,
       <1>12, <1>13, <1>14, <1>15, <1>16, <1>17, <1>18, <1>19, <1>20, <1>21,
       <1>24
    DEF Environment, Fate!FateNext
  <1> QED
    BY <1>1, <1>2, <1>3, <1>4, <1>5, <1>6, <1>7, <1>8, <1>9, <1>10, <1>11,
       <1>12, <1>13, <1>14, <1>15, <1>16, <1>17, <1>18, <1>19, <1>23, <1>24
    DEF Next

\* The queue implements MailFate: at most one final fate per message, with
\* the insertion of a notice as the moment its post counts as bounced.
THEOREM QueueImplementsMailFate == Spec => ImplementsMailFate
  BY AlwaysIInv, FateInitially, FateStep, PTL
  DEF Spec, ImplementsMailFate, Fate!FateSpec
=============================================================================
