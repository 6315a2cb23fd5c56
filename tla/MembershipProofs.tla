--------------------------- MODULE MembershipProofs ---------------------------
(***************************************************************************)
(* The safety properties of Membership, for any number of addresses,       *)
(* handlers and tokens and any threshold.                                  *)
(***************************************************************************)
EXTENDS Membership, TLAPS

Requested == [at : Places, m : Members \cup {None}, row : 0 .. MaxRows,
              token : Tokens \cup {None}, policy : Policies]

\* An owner agreed to the row, or bounces disabled it before.
Cleared(i) == i \in endorsed \cup viaBounce

\* The row may be disabled: enough bounces are on record, or it was re-enabled
\* while somebody was about to disable it.
MayDisable(i) == bounced[i] >= Threshold \/ i \in overtaken

\* The places of handleConfirm, and those of a handler that sees to a new row.
Confirming == {"find", "policy", "confirm", "forget"}
Seeing     == {"token", "mail", "activate"}

\* The handler owns its row: no other member's subscription has that id.
Owns(h) ==
    /\ proc[h].row \in 0 .. lastId
    /\ \A m \in Members :
          proc[h].row # 0 /\ Row(m) = proc[h].row => m = proc[h].m

\* What a handler's place says of what it carries.
Carries(h) ==
    LET q == proc[h] IN
    /\ q.at = "idle" => q = Idle
    /\ q.at # "idle" => q.m \in Members
    /\ q.at \in {"join", "find"} => q.row = 0
    /\ q.at \notin {"idle", "join", "find"} => q.row # 0
    /\ q.at \in {"join", "token"} => q.token = None
    /\ q.at = "reenable" => Cleared(q.row)
    /\ q.at = "disable" /\ StillThere(h) => MayDisable(q.row)

\* Who is about to mail a token is the only one to know it, and a token that
\* is being confirmed is for the member whose request is confirmed, or gone.
TokenOK(h) ==
    LET q == proc[h] IN
    /\ q.at = "mail" =>
          /\ q.token \in Tokens \ mailed /\ tokenOf[q.token] = q.m
          /\ \A g \in Handlers \ {h} : proc[g].token # q.token
    /\ q.at \in Confirming =>
          q.token \in Tokens /\ tokenOf[q.token] \in {q.m, None}

\* A mailed token that no confirmation will use up without confirming m.
Usable(t, m) ==
    /\ t \in mailed /\ tokenOf[t] = m
    /\ \A h \in Handlers : proc[h].token = t =>
          /\ proc[h].at # "forget"
          /\ proc[h].at \in {"policy", "confirm"} => proc[h].row = Row(m)

Confirmable(m) ==
    \/ \E t \in Tokens : Usable(t, m)
    \/ \E h \in Handlers : proc[h].at \in Seeing /\ proc[h].row = Row(m)
    \/ Row(m) \in orphaned

\* The row of m: it exists if it has an id, it is nobody else's, mail goes to
\* it and bounces disabled it only for a cause.
RowOK(m) ==
    /\ \/ sub[m] = NoRow
       \/ sub[m].id \in 1 .. lastId /\ sub[m].status # "none"
    /\ \A n \in Members \ {m} : Row(m) # 0 => Row(n) # Row(m)
    /\ sub[m].status \in {"active", "disabled"} => Cleared(Row(m))
    /\ Row(m) # 0 => sub[m].bounces <= bounced[Row(m)]
    /\ sub[m].status = "disabled" => MayDisable(Row(m))

TablesOK ==
    /\ policy \in Policies
    /\ sub \in [Members -> [id : 0 .. MaxRows, status : Statuses,
                            bounces : Nat]]
    /\ tokenOf \in [Tokens -> Members \cup {None}]
    /\ mailed \subseteq Tokens
    /\ inTransit \in [Members -> Nat]
    /\ lastId \in 0 .. MaxRows /\ posts \in 0 .. MaxPosts
    /\ faults \in 0 .. MaxFaults /\ changes \in 0 .. MaxChanges
    /\ endorsed \subseteq 1 .. lastId /\ viaBounce \subseteq 1 .. lastId
    /\ bounced \in [RowIds -> Nat]
    /\ orphaned \subseteq 1 .. lastId /\ overtaken \subseteq 1 .. lastId

IInv ==
    /\ TablesOK
    /\ proc \in [Handlers -> Requested]
    /\ \A m \in Members : RowOK(m)
    /\ \A h \in Handlers : Owns(h) /\ Carries(h)
    /\ \A h \in Handlers : TokenOK(h)
    /\ \A m \in Members : sub[m].status = "pending" => Confirmable(m)
-----------------------------------------------------------------------------
\* A new list has no rows, no tokens and nobody at work.
LEMMA InitIInv == Init => IInv
  <1> SUFFICES ASSUME Init PROVE IInv
    OBVIOUS
  <1> USE MembershipAssumption DEF Init
  <1>1. TablesOK
    BY DEF TablesOK, NoRow, Statuses, RowIds
  <1>2. proc \in [Handlers -> Requested]
    BY DEF Requested, Idle, Places, Policies
  <1>3. \A m \in Members : RowOK(m) /\ sub[m].status = "none"
    BY DEF RowOK, NoRow, Row
  <1>4. \A h \in Handlers : Owns(h) /\ Carries(h) /\ TokenOK(h)
    BY DEF Owns, Carries, TokenOK, Confirming, Idle
  <1> QED
    BY <1>1, <1>2, <1>3, <1>4 DEF IInv

\* The steps of a handler.
Acts(h) == \/ Step(h) \/ Stop(h)
           \/ \E m \in Members : Requests(h, m)
           \/ \E t \in Tokens : ConfirmStart(h, t)

\* No handler moves another.
LEMMA OthersStay ==
  ASSUME proc \in [Handlers -> Requested], NEW h \in Handlers, Acts(h),
         NEW g \in Handlers \ {h}
  PROVE  proc'[g] = proc[g]
  <1>1. CASE Step(h)
    BY <1>1 DEF Step, SubscribeCreate, SubscribeAgain, SubscribeRefused,
                CreateConfirmationToken, EnqueueConfirmation, ConfirmFind,
                ConfirmPolicy, ConfirmSubscription, DeleteConfirmationToken,
                IncrementBounceCount, CheckThreshold, Disable,
                ReenableSubscription, ActivateAdded, ApproveSubscription,
                RejectSubscription, Goto, Done
  <1>2. CASE Stop(h)
    BY <1>2 DEF Stop, Done
  <1>3. ASSUME NEW m \in Members, Requests(h, m) PROVE proc'[g] = proc[g]
    BY <1>3 DEF Requests, SubscribeStart, BounceArrives, ReEnableStart,
                AddMember, ApproveStart, RejectStart
  <1>4. ASSUME NEW t \in Tokens, ConfirmStart(h, t) PROVE proc'[g] = proc[g]
    BY <1>4 DEF ConfirmStart
  <1> QED
    BY <1>1, <1>2, <1>3, <1>4 DEF Acts

\* Every step but those of a handler leaves the handlers alone.
LEMMA Moves ==
  ASSUME [Next]_vars PROVE UNCHANGED proc \/ \E h \in Handlers : Acts(h)
  BY DEF Next, Acts, ResetBounceCount, Unsubscribe, DeliverPost, CommandReply,
         EnqueueUnderVERP, SetPolicy, vars

\* A row that a request creates.
Created(m) ==
    /\ Row(m) = 0 /\ lastId < MaxRows /\ lastId' = lastId + 1
    /\ sub'[m] = [id |-> lastId + 1, status |-> "pending", bounces |-> 0]
    /\ \A n \in Members \ {m} : sub'[n] = sub[n]

\* What an update or a deletion leaves of the row of m.
Updated(m) ==
    \/ sub'[m] = NoRow
    \/ /\ Row(m)' = Row(m) /\ Row(m) # 0
       /\ sub'[m].status = "pending" => sub[m].status = "pending"
       /\ sub'[m].status # "none"

\* Rows come into being with a fresh id; any other step keeps or removes
\* them, and none makes a request pending again.
LEMMA RowsMove ==
  ASSUME IInv, [Next]_vars
  PROVE  /\ \/ /\ lastId' = lastId
               /\ \A m \in Members : Updated(m) \/ sub'[m] = sub[m]
            \/ \E m \in Members : Created(m)
         /\ endorsed \subseteq endorsed' /\ viaBounce \subseteq viaBounce'
         /\ orphaned \subseteq orphaned'
  <1> USE DEF table, world, bounds, history, IInv, TablesOK
  <1> DEFINE Goal ==
        /\ \/ /\ lastId' = lastId
              /\ \A m \in Members : Updated(m) \/ sub'[m] = sub[m]
           \/ \E m \in Members : Created(m)
        /\ endorsed \subseteq endorsed' /\ viaBounce \subseteq viaBounce'
        /\ orphaned \subseteq orphaned'
  <1>a. ASSUME NEW h \in Handlers PROVE Carries(h)
    OBVIOUS
  <1>b. \A m \in Members : RowOK(m)
    OBVIOUS
  <1>c. ASSUME NEW h \in Handlers, NEW s \in Statuses \ {"none", "pending"},
               SetSubscriptionStatus(h, s), proc[h].row # 0,
               proc[h].m \in Members
        PROVE  \A m \in Members : Updated(m) \/ sub'[m] = sub[m]
    BY <1>c DEF SetSubscriptionStatus, StillThere, Updated, Row
  <1>1. ASSUME NEW m \in Members, CreateSubscription(m) PROVE Created(m)
    BY <1>1 DEF CreateSubscription, Created, Row
  <1>2. ASSUME NEW m \in Members, DeleteSubscription(m)
        PROVE  \A n \in Members : Updated(n) \/ sub'[n] = sub[n]
    BY <1>2 DEF DeleteSubscription, Updated
  <1>3. ASSUME NEW h \in Handlers, SubscribeCreate(h) PROVE Goal
    BY <1>1, <1>3, <1>a DEF SubscribeCreate, Carries, At
  <1>4. ASSUME NEW h \in Handlers, ConfirmSubscription(h) PROVE Goal
    BY <1>4, <1>a, <1>c
    DEF ConfirmSubscription, ConfirmTarget, Carries, At, Statuses, Endorse
  <1>5. ASSUME NEW h \in Handlers, IncrementBounceCount(h) PROVE Goal
    <2>1. \A m \in Members : Updated(m) \/ sub'[m] = sub[m]
      BY <1>5, <1>a, <1>b
      DEF IncrementBounceCount, Carries, At, StillThere, Updated, RowOK, Row,
          NoRow
    <2> QED
      BY <1>5, <2>1 DEF IncrementBounceCount
  <1>6. ASSUME NEW h \in Handlers, Disable(h) PROVE Goal
    BY <1>6, <1>a, <1>c DEF Disable, Carries, At, Statuses
  <1>7. ASSUME NEW h \in Handlers, ReenableSubscription(h) PROVE Goal
    <2>1. \A m \in Members : Updated(m) \/ sub'[m] = sub[m]
      BY <1>7, <1>a
      DEF ReenableSubscription, Carries, At, StillThere, Updated, Row
    <2> QED
      BY <1>7, <2>1 DEF ReenableSubscription
  <1>8. ASSUME NEW h \in Handlers, ActivateAdded(h) \/ ApproveSubscription(h)
        PROVE  Goal
    BY <1>8, <1>a, <1>c
    DEF ActivateAdded, ApproveSubscription, Carries, At, Statuses, Endorse
  <1>9. ASSUME NEW h \in Handlers, RejectSubscription(h) PROVE Goal
    BY <1>2, <1>9, <1>a DEF RejectSubscription, Carries, At
  <1>10. ASSUME NEW h \in Handlers, NEW m \in Members, AddMember(h, m)
         PROVE  Goal
    BY <1>1, <1>10 DEF AddMember
  <1>11. ASSUME NEW m \in Members, ResetBounceCount(m) PROVE Goal
    <2>1. \A n \in Members : Updated(n) \/ sub'[n] = sub[n]
      BY <1>11, <1>b DEF ResetBounceCount, Updated, RowOK, Row, NoRow
    <2> QED
      BY <1>11, <2>1 DEF ResetBounceCount
  <1>12. ASSUME NEW m \in Members, Unsubscribe(m) PROVE Goal
    BY <1>2, <1>12 DEF Unsubscribe
  <1>13. ASSUME UNCHANGED <<sub, lastId, endorsed, viaBounce>>,
                orphaned \subseteq orphaned'
         PROVE  Goal
    BY <1>13
  <1> HIDE DEF Goal
  <1>14. ASSUME NEW h \in Handlers, Step(h) PROVE Goal
    BY <1>3, <1>4, <1>5, <1>6, <1>7, <1>8, <1>9, <1>13, <1>14
    DEF Step, SubscribeAgain, SubscribeRefused, CreateConfirmationToken,
        EnqueueConfirmation, ConfirmFind, ConfirmPolicy,
        DeleteConfirmationToken, CheckThreshold
  <1>15. ASSUME NEW h \in Handlers, NEW m \in Members, Requests(h, m)
         PROVE  Goal
    BY <1>10, <1>13, <1>15 DEF Requests, SubscribeStart, BounceArrives,
                               ReEnableStart, ApproveStart, RejectStart
  <1>16. ASSUME NEW h \in Handlers, Stop(h) PROVE Goal
    BY <1>13, <1>16 DEF Stop
  <1>17. ASSUME NEW h \in Handlers, NEW t \in Tokens, ConfirmStart(h, t)
         PROVE  Goal
    BY <1>13, <1>17 DEF ConfirmStart
  <1>18. ASSUME NEW m \in Members, DeliverPost(m) \/ CommandReply(m)
         PROVE  Goal
    BY <1>13, <1>18 DEF DeliverPost, CommandReply, EnqueueUnderVERP
  <1>19. ASSUME NEW p \in Policies, SetPolicy(p) PROVE Goal
    BY <1>13, <1>19 DEF SetPolicy
  <1>20. ASSUME UNCHANGED vars PROVE Goal
    <2>1. UNCHANGED <<sub, lastId, endorsed, viaBounce, orphaned>>
      BY <1>20 DEF vars
    <2> QED
      BY <1>13, <2>1
  <1> HIDE DEF IInv, TablesOK
  <1>21. Goal
    BY <1>11, <1>12, <1>14, <1>15, <1>16, <1>17, <1>18, <1>19, <1>20 DEF Next
  <1> QED
    BY <1>21 DEF Goal

\* The handlers stay well-formed.
LEMMA HandlersStay ==
  ASSUME IInv, [Next]_vars PROVE proc' \in [Handlers -> Requested]
  <1>f. proc \in [Handlers -> Requested] /\ TablesOK
    BY DEF IInv
  <1>a. ASSUME NEW h \in Handlers, NEW q \in Requested,
               proc' = [proc EXCEPT ![h] = q]
        PROVE  proc' \in [Handlers -> Requested]
    BY <1>a, <1>f
  <1>b. \A h \in Handlers : Done(h) => proc' \in [Handlers -> Requested]
    <2>1. Idle \in Requested
      BY MembershipAssumption DEF Idle, Requested, Places, Policies
    <2> QED
      BY <1>a, <2>1 DEF Done
  <1>c. ASSUME NEW h \in Handlers, NEW place \in Places, Goto(h, place)
        PROVE  proc' \in [Handlers -> Requested]
    BY <1>c, <1>f DEF Goto, Requested
  <1>1. ASSUME NEW h \in Handlers, Step(h)
        PROVE  proc' \in [Handlers -> Requested]
    <2>1. CASE SubscribeCreate(h)
      <3>1. lastId' \in 0 .. MaxRows
        BY <1>f, <2>1, MembershipAssumption
        DEF SubscribeCreate, CreateSubscription, TablesOK
      <3>2. proc' = [proc EXCEPT ![h].at = "token", ![h].row = lastId']
        BY <2>1 DEF SubscribeCreate
      <3>3. [proc[h] EXCEPT !.at = "token", !.row = lastId'] \in Requested
        BY <1>f, <3>1 DEF Requested, Places
      <3> QED
        BY <1>f, <3>2, <3>3
    <2>2. CASE SubscribeAgain(h)
      <3>1. PICK i \in 0 .. MaxRows : i = sub[proc[h].m].id
        BY <1>f, <2>2
        DEF SubscribeAgain, IInv, Carries, TablesOK, At
      <3>2. [proc[h] EXCEPT !.at = "token", !.row = i] \in Requested
        BY <1>f DEF Requested, Places
      <3> QED
        BY <1>f, <2>2, <3>1, <3>2 DEF SubscribeAgain
    <2>3. ASSUME NEW t \in Tokens, CreateConfirmationToken(h, t)
          PROVE  proc' \in [Handlers -> Requested]
      <3>1. [proc[h] EXCEPT !.at = "mail", !.token = t] \in Requested
        BY <1>f DEF Requested, Places
      <3> QED
        BY <1>f, <2>3, <3>1 DEF CreateConfirmationToken
    <2>4. CASE ConfirmFind(h)
      <3>1. PICK i \in 0 .. MaxRows : i = sub[proc[h].m].id
        BY <1>f, <2>4 DEF ConfirmFind, IInv, Carries, TablesOK, At
      <3>2. [proc[h] EXCEPT !.at = "policy", !.row = i] \in Requested
        BY <1>f DEF Requested, Places
      <3> QED
        BY <1>b, <1>f, <2>4, <3>1, <3>2 DEF ConfirmFind
    <2>5. CASE ConfirmPolicy(h)
      <3>1. [proc[h] EXCEPT !.at = "confirm", !.policy = policy]
               \in Requested
        BY ZenonT(60), <1>f DEF Requested, Places, TablesOK
      <3> QED
        BY <1>f, <2>5, <3>1 DEF ConfirmPolicy
    <2>6. CASE Done(h)
      BY <1>b, <2>6
    <2>7. CASE Goto(h, "forget") \/ Goto(h, "check") \/ Goto(h, "disable")
      BY <1>c, <2>7 DEF Places
    <2> QED
      BY <1>1, <2>1, <2>2, <2>3, <2>4, <2>5, <2>6, <2>7
      DEF Step, SubscribeRefused, EnqueueConfirmation, ConfirmSubscription,
          DeleteConfirmationToken, IncrementBounceCount, CheckThreshold,
          Disable, ReenableSubscription, ActivateAdded, ApproveSubscription,
          RejectSubscription
  <1>2. ASSUME NEW h \in Handlers, NEW m \in Members, Requests(h, m)
        PROVE  proc' \in [Handlers -> Requested]
    <2>1. CASE SubscribeStart(h, m)
      <3>1. [proc[h] EXCEPT !.at = "join", !.m = m] \in Requested
        BY <1>f DEF Requested, Places
      <3> QED
        BY <1>f, <2>1, <3>1 DEF SubscribeStart
    <2>2. CASE AddMember(h, m)
      <3>1. lastId' \in 0 .. MaxRows
        BY <1>f, <2>2, MembershipAssumption
        DEF AddMember, CreateSubscription, TablesOK
      <3>2. proc' = [proc EXCEPT ![h].at = "activate", ![h].m = m,
                                 ![h].row = lastId']
        BY <2>2 DEF AddMember
      <3>3. [proc[h] EXCEPT !.at = "activate", !.m = m, !.row = lastId']
               \in Requested
        BY <1>f, <3>1 DEF Requested, Places
      <3> QED
        BY <1>f, <3>2, <3>3
    <2>3. CASE \E place \in {"count", "reenable", "approve", "reject"} :
                 proc' = [proc EXCEPT ![h].at = place, ![h].m = m,
                                      ![h].row = sub[m].id]
      <3>1. PICK place \in Places :
              proc' = [proc EXCEPT ![h].at = place, ![h].m = m,
                                   ![h].row = sub[m].id]
        BY <2>3 DEF Places
      <3>2. [proc[h] EXCEPT !.at = place, !.m = m, !.row = sub[m].id]
               \in Requested
        BY <1>f DEF Requested, TablesOK
      <3> QED
        BY <1>f, <3>1, <3>2
    <2>4. CASE UNCHANGED proc
      BY <1>f, <2>4
    <2> QED
      BY <1>2, <2>1, <2>2, <2>3, <2>4
      DEF Requests, BounceArrives, ReEnableStart, ApproveStart, RejectStart
  <1>3. ASSUME NEW h \in Handlers, Stop(h)
        PROVE  proc' \in [Handlers -> Requested]
    BY <1>3, <1>b DEF Stop
  <1>4. ASSUME NEW h \in Handlers, NEW t \in Tokens, ConfirmStart(h, t)
        PROVE  proc' \in [Handlers -> Requested]
    <2>1. tokenOf[t] \in Members
      BY <1>4, <1>f DEF ConfirmStart, TablesOK
    <2>2. [proc[h] EXCEPT !.at = "find", !.m = tokenOf[t], !.token = t]
             \in Requested
      BY <1>f, <2>1 DEF Requested, Places
    <2> QED
      BY <1>4, <1>f, <2>2 DEF ConfirmStart
  <1> QED
    BY <1>f, <1>1, <1>2, <1>3, <1>4, Moves DEF Acts

\* The row a handler works on after a step of its own.
LEMMA RowTaken ==
  ASSUME IInv, NEW h \in Handlers, Acts(h)
  PROVE  \/ proc'[h].row = 0
         \/ proc'[h].row = proc[h].row /\ proc'[h].m = proc[h].m
         \/ /\ proc'[h].m \in Members /\ proc'[h].row = Row(proc'[h].m)
            /\ UNCHANGED <<sub, lastId>>
         \/ /\ proc'[h].m \in Members /\ Created(proc'[h].m)
            /\ proc'[h].row = lastId + 1
  <1> USE DEF table, bounds
  <1> DEFINE Goal ==
         \/ proc'[h].row = 0
         \/ proc'[h].row = proc[h].row /\ proc'[h].m = proc[h].m
         \/ /\ proc'[h].m \in Members /\ proc'[h].row = Row(proc'[h].m)
            /\ UNCHANGED <<sub, lastId>>
         \/ /\ proc'[h].m \in Members /\ Created(proc'[h].m)
            /\ proc'[h].row = lastId + 1
  <1>f. proc \in [Handlers -> Requested] /\ Carries(h)
    BY DEF IInv
  <1>a. Done(h) => Goal
    BY <1>f DEF Done, Idle
  <1>b. ASSUME NEW place, Goto(h, place) PROVE Goal
    BY <1>b, <1>f DEF Goto, Requested
  <1>c. ASSUME NEW m \in Members, CreateSubscription(m) PROVE Created(m)
    BY <1>c DEF CreateSubscription, Created, Row, IInv, TablesOK
  <1>1. ASSUME SubscribeCreate(h) PROVE Goal
    <2>1. proc[h].m \in Members
      BY <1>1, <1>f DEF SubscribeCreate, Carries, At
    <2>2. proc'[h].m = proc[h].m /\ proc'[h].row = lastId + 1
      BY <1>1, <1>f DEF SubscribeCreate, CreateSubscription, Requested
    <2> QED
      BY <1>1, <1>c, <2>1, <2>2 DEF SubscribeCreate
  <1>2. ASSUME SubscribeAgain(h) \/ ConfirmFind(h) PROVE Goal
    <2>1. proc[h].m \in Members
      BY <1>2, <1>f DEF SubscribeAgain, ConfirmFind, Carries, At
    <2>2. \/ Done(h)
          \/ /\ proc'[h].m = proc[h].m
             /\ proc'[h].row = sub[proc[h].m].id
             /\ UNCHANGED <<sub, lastId>>
      BY <1>2, <1>f DEF SubscribeAgain, ConfirmFind, Requested
    <2> QED
      BY <1>a, <2>1, <2>2 DEF Row
  <1>3. ASSUME \/ \E t \in Tokens : CreateConfirmationToken(h, t)
               \/ ConfirmPolicy(h)
        PROVE  Goal
    BY <1>3, <1>f DEF CreateConfirmationToken, ConfirmPolicy, Requested
  <1>4. ASSUME NEW t \in Tokens, ConfirmStart(h, t) PROVE Goal
    BY <1>4, <1>f DEF ConfirmStart, Requested, Carries, At, Idle
  <1>5. ASSUME NEW m \in Members, Requests(h, m) PROVE Goal
    <2>1. CASE SubscribeStart(h, m)
      BY <1>f, <2>1 DEF SubscribeStart, Requested, Carries, At, Idle
    <2>2. CASE AddMember(h, m)
      <3>1. proc'[h].m = m /\ proc'[h].row = lastId + 1
        BY <1>f, <2>2 DEF AddMember, CreateSubscription, Requested
      <3> QED
        BY <1>c, <2>2, <3>1 DEF AddMember
    <2>3. CASE BounceArrives(h, m)
      BY <1>f, <2>3 DEF BounceArrives, Requested, Row
    <2>4. CASE ReEnableStart(h, m) \/ ApproveStart(h, m) \/ RejectStart(h, m)
      <3>1. /\ proc'[h].m = m /\ proc'[h].row = sub[m].id
            /\ UNCHANGED <<sub, lastId>>
        BY <1>f, <2>4 DEF ReEnableStart, ApproveStart, RejectStart, Requested
      <3> QED
        BY <3>1 DEF Row
    <2> QED
      BY <1>5, <2>1, <2>2, <2>3, <2>4 DEF Requests
  <1> HIDE DEF Goal
  <1>6. ASSUME Step(h) PROVE Goal
    BY <1>6, <1>1, <1>2, <1>3, <1>a, <1>b
    DEF Step, SubscribeRefused, EnqueueConfirmation, ConfirmSubscription,
        DeleteConfirmationToken, IncrementBounceCount, CheckThreshold,
        Disable, ReenableSubscription, ActivateAdded, ApproveSubscription,
        RejectSubscription
  <1>7. Goal
    BY <1>4, <1>5, <1>6, <1>a DEF Acts, Stop
  <1> QED
    BY <1>7 DEF Goal

\* Nobody else gets the row a handler works on.
LEMMA OwnsStays ==
  ASSUME IInv, [Next]_vars, NEW h \in Handlers PROVE Owns(h)'
  <1>f. /\ proc \in [Handlers -> Requested] /\ Owns(h) /\ lastId \in Nat
        /\ \A m \in Members : RowOK(m)
        /\ \A m \in Members : Row(m) \in 0 .. lastId
    <2>1. lastId \in Nat /\ \A m \in Members : RowOK(m)
      BY DEF IInv, TablesOK
    <2>2. \A m \in Members : Row(m) \in 0 .. lastId
      BY <2>1 DEF RowOK, Row, NoRow
    <2> QED
      BY <2>1, <2>2 DEF IInv
  <1>g. \/ lastId' = lastId /\ \A m \in Members : Row(m)' \in {Row(m), 0}
        \/ \E m \in Members : Created(m)
    BY RowsMove DEF Updated, Row, NoRow
  <1>h. /\ lastId' = lastId \/ lastId' = lastId + 1
        /\ \A m \in Members : Row(m)' \in {Row(m), 0, lastId + 1}
    BY <1>g DEF Created, Row
  <1>1. CASE proc'[h].row = proc[h].row /\ proc'[h].m = proc[h].m
    BY <1>1, <1>f, <1>h DEF Owns
  <1>2. CASE proc'[h].row = 0
    BY <1>2, <1>f, <1>h DEF Owns
  <1>3. CASE /\ proc'[h].m \in Members /\ proc'[h].row = Row(proc'[h].m)
             /\ UNCHANGED <<sub, lastId>>
    BY <1>3, <1>f DEF Owns, RowOK, Row
  <1>4. CASE /\ proc'[h].m \in Members /\ Created(proc'[h].m)
             /\ proc'[h].row = lastId + 1
    BY <1>4, <1>f DEF Owns, Created, Row
  <1>5. ASSUME NEW g \in Handlers, Acts(g) PROVE Owns(h)'
    <2>1. CASE g = h
      BY <1>1, <1>2, <1>3, <1>4, <1>5, <2>1, RowTaken
    <2>2. CASE g # h
      <3>1. proc'[h] = proc[h]
        BY <1>5, <1>f, <2>2, OthersStay
      <3> QED
        BY <1>1, <3>1
    <2> QED
      BY <2>1, <2>2
  <1> QED
    BY <1>1, <1>5, Moves

\* What RowOK says of the status and the count of m's row.
Fit(m) ==
    /\ sub[m].status \in {"active", "disabled"} => Cleared(Row(m))
    /\ Row(m) # 0 => sub[m].bounces <= bounced[Row(m)]
    /\ sub[m].status = "disabled" => MayDisable(Row(m))

\* Rows become active or disabled for a cause, and counts are the row's own.
LEMMA FitStays ==
  ASSUME IInv, [Next]_vars, NEW m \in Members PROVE Fit(m)'
  <1> USE DEF table, world, bounds, history
  <1>f. /\ TablesOK /\ RowOK(m) /\ Fit(m)
        /\ \A h \in Handlers : Owns(h) /\ Carries(h)
    BY DEF IInv, RowOK, Fit
  <1>g. /\ sub \in [Members -> [id : 0 .. MaxRows, status : Statuses,
                                bounces : Nat]]
        /\ bounced \in [RowIds -> Nat]
    BY <1>f DEF TablesOK
  <1>h. /\ endorsed \subseteq endorsed' /\ viaBounce \subseteq viaBounce'
        /\ \A i : Cleared(i) => Cleared(i)'
    BY RowsMove DEF Cleared
  <1>i. ASSUME NEW h \in Handlers, proc[h].at \notin {"idle", "join", "find"}
        PROVE  /\ proc[h].m \in Members /\ proc[h].row \in RowIds
               /\ Row(m) = proc[h].row => m = proc[h].m
    BY SMTT(40), <1>f, <1>i, MembershipAssumption
    DEF Owns, Carries, TablesOK, RowIds
  <1>j. Row(m) # 0 => Row(m) \in RowIds
    BY <1>f DEF RowOK, Row, RowIds, TablesOK, NoRow
  <1>a. ASSUME UNCHANGED <<bounced, overtaken>>, sub'[m] = sub[m]
        PROVE  Fit(m)'
    BY <1>a, <1>f, <1>h DEF Fit, MayDisable, Row
  <1>b. ASSUME sub'[m] = NoRow PROVE Fit(m)'
    BY <1>b DEF Fit, Row, NoRow
  <1>c. ASSUME NEW n \in Members, CreateSubscription(n),
               UNCHANGED <<bounced, overtaken>>
        PROVE  Fit(m)'
    <2>1. CASE n = m
      <3>1. /\ Row(m)' = lastId + 1 /\ sub'[m].bounces = 0
            /\ sub'[m].status = "pending"
        BY <1>c, <1>g, <2>1 DEF CreateSubscription, Row
      <3>2. bounced'[lastId + 1] \in Nat
        BY <1>c, <1>f, <1>g, MembershipAssumption
        DEF CreateSubscription, TablesOK, RowIds
      <3> QED
        BY <3>1, <3>2 DEF Fit
    <2>2. CASE n # m
      BY <1>a, <1>c, <1>g, <2>2 DEF CreateSubscription
    <2> QED
      BY <2>1, <2>2
  <1>d. ASSUME NEW n \in Members, DeleteSubscription(n),
               UNCHANGED <<bounced, overtaken>>
        PROVE  Fit(m)'
    BY <1>a, <1>b, <1>d, <1>g DEF DeleteSubscription
  <1>e. ASSUME NEW h \in Handlers, NEW s \in Statuses,
               SetSubscriptionStatus(h, s), UNCHANGED <<bounced, overtaken>>,
               proc[h].at \notin {"idle", "join", "find"},
               s \in {"active", "disabled"} /\ StillThere(h)
                  => proc[h].row \in endorsed' \cup viaBounce',
               s = "disabled" /\ StillThere(h) => MayDisable(proc[h].row)
        PROVE  Fit(m)'
    <2>1. CASE StillThere(h) /\ m = proc[h].m
      <3>1. /\ sub'[m].status = s /\ sub'[m].id = sub[m].id
            /\ sub'[m].bounces = sub[m].bounces /\ Row(m) = proc[h].row
        BY <1>e, <1>g, <2>1 DEF SetSubscriptionStatus, StillThere, Row
      <3>2. Row(m)' = proc[h].row
        BY <3>1 DEF Row
      <3>3. s \in {"active", "disabled"} => Cleared(Row(m))'
        BY <1>e, <2>1, <3>2 DEF Cleared
      <3>4. s = "disabled" => MayDisable(Row(m))'
        BY <1>e, <2>1, <3>2 DEF MayDisable
      <3> QED
        BY <1>e, <1>f, <3>1, <3>2, <3>3, <3>4 DEF Fit
    <2>2. CASE ~StillThere(h) \/ m # proc[h].m
      BY <1>a, <1>e, <1>g, <2>2 DEF SetSubscriptionStatus
    <2> QED
      BY <2>1, <2>2
  <1> DEFINE Goal == Fit(m)'
  <1> HIDE DEF Goal
  <1>1. ASSUME NEW h \in Handlers, SubscribeCreate(h) PROVE Goal
    BY <1>1, <1>c, <1>f DEF SubscribeCreate, Carries, At, Goal
  <1>2. ASSUME NEW h \in Handlers, ConfirmSubscription(h) PROVE Goal
    <2>1. \/ ConfirmTarget(proc[h].policy) = "held"
          \/ StillThere(h) => proc[h].row \in endorsed' \cup viaBounce'
      BY <1>2 DEF ConfirmSubscription, ConfirmTarget, Endorse, Reached
    <2>2. proc[h].at = "confirm" /\ UNCHANGED <<bounced, overtaken>>
          /\ SetSubscriptionStatus(h, ConfirmTarget(proc[h].policy))
      BY <1>2 DEF ConfirmSubscription, At
    <2>3. ConfirmTarget(proc[h].policy) \in {"held", "active"}
      BY DEF ConfirmTarget
    <2> QED
      BY <1>e, <2>1, <2>2, <2>3 DEF Statuses, Goal
  <1>3. ASSUME NEW h \in Handlers, IncrementBounceCount(h) PROVE Goal
    <2>0. proc[h].m \in Members /\ proc[h].row \in RowIds
      BY <1>3, <1>i DEF IncrementBounceCount, At
    <2>1. CASE StillThere(h) /\ m = proc[h].m
      <3>1. Row(m) = proc[h].row /\ Row(m)' = Row(m)
            /\ sub'[m].bounces = sub[m].bounces + 1
            /\ sub'[m].status = sub[m].status
            /\ bounced'[proc[h].row] = bounced[proc[h].row] + 1
        BY <1>3, <1>g, <2>0, <2>1 DEF IncrementBounceCount, StillThere, Row
      <3>2. overtaken' = overtaken
        BY <1>3 DEF IncrementBounceCount
      <3>3. bounced[Row(m)] \in Nat /\ sub[m].bounces \in Nat
        BY <1>g, <2>0, <3>1
      <3> QED
        BY <1>f, <1>h, <3>1, <3>2, <3>3, MembershipAssumption
        DEF Fit, MayDisable, Goal
    <2>2. CASE StillThere(h) /\ m # proc[h].m
      <3>1. sub'[m] = sub[m] /\ overtaken' = overtaken
        BY <1>3, <1>g, <2>2 DEF IncrementBounceCount
      <3>2. Row(m) # 0 => bounced'[Row(m)] = bounced[Row(m)]
        BY <1>3, <1>g, <1>i, <1>j, <2>2 DEF IncrementBounceCount, At
      <3>3. sub[m].status = "disabled" => Row(m) # 0
        BY <1>f DEF RowOK, NoRow, Row
      <3> QED
        BY <1>f, <1>h, <3>1, <3>2, <3>3 DEF Fit, MayDisable, Row, Goal
    <2>3. CASE ~StillThere(h)
      BY <1>3, <1>a, <2>3 DEF IncrementBounceCount, Goal
    <2> QED
      BY <2>1, <2>2, <2>3
  <1>4. ASSUME NEW h \in Handlers, Disable(h) PROVE Goal
    <2>1. StillThere(h) => proc[h].row \in endorsed' \cup viaBounce'
      BY <1>4, <1>h DEF Disable, Reached
    <2>2. StillThere(h) => MayDisable(proc[h].row)
      BY <1>4, <1>f DEF Disable, At, Carries
    <2> QED
      BY <1>4, <1>e, <2>1, <2>2 DEF Disable, At, Statuses, Goal
  <1>5. ASSUME NEW h \in Handlers, ReenableSubscription(h) PROVE Goal
    <2>0. /\ proc[h].m \in Members /\ proc[h].row \in RowIds
          /\ Cleared(proc[h].row) /\ proc[h].row # 0
          /\ Row(m) = proc[h].row => m = proc[h].m
      BY <1>5, <1>f, <1>i DEF ReenableSubscription, At, Carries
    <2>1. CASE StillThere(h) /\ m = proc[h].m
      <3>1. Row(m) = proc[h].row /\ Row(m)' = Row(m)
            /\ sub'[m].bounces = 0 /\ sub'[m].status = "active"
            /\ bounced'[proc[h].row] = 0
        BY <1>5, <1>g, <2>0, <2>1 DEF ReenableSubscription, StillThere, Row
      <3> QED
        BY <1>h, <2>0, <3>1 DEF Fit, Goal
    <2>2. CASE ~StillThere(h) \/ m # proc[h].m
      <3>1. sub'[m] = sub[m]
        BY <1>5, <1>g, <2>2 DEF ReenableSubscription
      <3>2. Row(m) # proc[h].row
        BY <2>0, <2>2 DEF StillThere, Row
      <3>3. Row(m) # 0 => bounced'[Row(m)] = bounced[Row(m)]
        BY <1>5, <1>g, <1>j, <3>2 DEF ReenableSubscription
      <3>4. Row(m) \in overtaken => Row(m) \in overtaken'
        BY <1>5, <3>2 DEF ReenableSubscription
      <3>5. sub[m].status = "disabled" => Row(m) # 0
        BY <1>f DEF RowOK, NoRow, Row
      <3> QED
        BY <1>f, <1>h, <3>1, <3>3, <3>4, <3>5 DEF Fit, MayDisable, Row, Goal
    <2> QED
      BY <2>1, <2>2
  <1>6. ASSUME NEW h \in Handlers, ActivateAdded(h) \/ ApproveSubscription(h)
        PROVE  Goal
    <2>1. StillThere(h) => proc[h].row \in endorsed' \cup viaBounce'
      BY <1>6 DEF ActivateAdded, ApproveSubscription, Endorse, Reached
    <2> QED
      BY <1>6, <1>e, <2>1
      DEF ActivateAdded, ApproveSubscription, At, Statuses, Goal
  <1>7. ASSUME NEW h \in Handlers, RejectSubscription(h) PROVE Goal
    BY <1>7, <1>d, <1>f DEF RejectSubscription, Carries, At, Goal
  <1>8. ASSUME NEW h \in Handlers, NEW n \in Members, AddMember(h, n)
        PROVE  Goal
    BY <1>8, <1>c DEF AddMember, Goal
  <1>9. ASSUME NEW n \in Members, ResetBounceCount(n) PROVE Goal
    <2>1. CASE n = m
      <3>1. Row(m)' = Row(m) /\ sub'[m].bounces = 0
            /\ sub'[m].status = sub[m].status /\ bounced' = bounced
            /\ overtaken' = overtaken
        BY <1>9, <1>g, <2>1 DEF ResetBounceCount, Row
      <3>2. Row(m) # 0 => bounced[Row(m)] \in Nat
        BY <1>g, <1>j
      <3> QED
        BY <1>f, <1>h, <3>1, <3>2 DEF Fit, MayDisable, Goal
    <2>2. CASE n # m
      BY <1>9, <1>a, <1>g, <2>2 DEF ResetBounceCount, Goal
    <2> QED
      BY <2>1, <2>2
  <1>10. ASSUME NEW n \in Members, Unsubscribe(n) PROVE Goal
    BY <1>10, <1>d DEF Unsubscribe, Goal
  <1>11. ASSUME UNCHANGED <<sub, bounced, overtaken>> PROVE Goal
    BY <1>11, <1>a DEF Goal
  <1>12. ASSUME NEW h \in Handlers, Step(h) PROVE Goal
    BY <1>1, <1>2, <1>3, <1>4, <1>5, <1>6, <1>7, <1>11, <1>12
    DEF Step, SubscribeAgain, SubscribeRefused, CreateConfirmationToken,
        EnqueueConfirmation, ConfirmFind, ConfirmPolicy,
        DeleteConfirmationToken, CheckThreshold
  <1>13. ASSUME NEW h \in Handlers, NEW n \in Members, Requests(h, n)
         PROVE  Goal
    BY <1>8, <1>11, <1>13 DEF Requests, SubscribeStart, BounceArrives,
                              ReEnableStart, ApproveStart, RejectStart
  <1>14. ASSUME NEW h \in Handlers,
                Stop(h) \/ \E t \in Tokens : ConfirmStart(h, t)
         PROVE  Goal
    BY <1>11, <1>14 DEF Stop, ConfirmStart
  <1>15. ASSUME \/ \E n \in Members : DeliverPost(n) \/ CommandReply(n)
                \/ \E p \in Policies : SetPolicy(p)
         PROVE  Goal
    BY <1>11, <1>15 DEF DeliverPost, CommandReply, EnqueueUnderVERP, SetPolicy
  <1>16. ASSUME UNCHANGED vars PROVE Goal
    BY <1>11, <1>16 DEF vars
  <1>17. Goal
    BY <1>9, <1>10, <1>12, <1>13, <1>14, <1>15, <1>16 DEF Next
  <1> QED
    BY <1>17 DEF Goal

\* Every member has one row at most, and it is nobody else's.
LEMMA RowsStay ==
  ASSUME IInv, [Next]_vars, NEW m \in Members PROVE RowOK(m)'
  <1>f. /\ lastId \in Nat
        /\ \A n \in Members : RowOK(n)
        /\ \A n \in Members : Row(n) \in 0 .. lastId
    <2>1. lastId \in Nat /\ \A n \in Members : RowOK(n)
      BY DEF IInv, TablesOK
    <2> QED
      BY <2>1 DEF RowOK, Row, NoRow
  <1>g. \/ /\ lastId' = lastId
           /\ \A n \in Members : Updated(n) \/ sub'[n] = sub[n]
        \/ \E n \in Members : Created(n)
    BY RowsMove
  <1>1. \/ sub'[m] = NoRow
        \/ sub'[m].id \in 1 .. lastId' /\ sub'[m].status # "none"
    BY <1>f, <1>g DEF Updated, Created, Row, RowOK
  <1>2. \A n \in Members \ {m} : Row(m)' # 0 => Row(n)' # Row(m)'
    <2>1. CASE /\ lastId' = lastId
               /\ \A n \in Members : Updated(n) \/ sub'[n] = sub[n]
      BY <1>f, <2>1 DEF Updated, Row, RowOK, NoRow
    <2>2. ASSUME NEW n \in Members, Created(n)
          PROVE  \A k \in Members \ {m} : Row(m)' # 0 => Row(k)' # Row(m)'
      BY <1>f, <2>2 DEF Created, Row, RowOK
    <2> QED
      BY <1>g, <2>1, <2>2
  <1>3. Fit(m)'
    BY FitStays
  <1> QED
    BY <1>1, <1>2, <1>3 DEF RowOK, Fit, Row

\* The tables stay well-formed.
LEMMA TablesStay ==
  ASSUME IInv, [Next]_vars PROVE TablesOK'
  <1> USE MembershipAssumption DEF table, world, bounds, history, TablesOK
  <1> DEFINE Goal == TablesOK'
  <1>f. /\ TablesOK /\ proc \in [Handlers -> Requested]
        /\ \A h \in Handlers : Owns(h) /\ Carries(h)
    BY DEF IInv
  <1>i. ASSUME NEW h \in Handlers, proc[h].at \notin {"idle", "join", "find"}
        PROVE  /\ proc[h].row \in 1 .. lastId /\ proc[h].row \in RowIds
               /\ proc[h].m \in Members
    <2>1. proc[h].row \in 1 .. lastId /\ proc[h].m \in Members
      BY <1>f, <1>i DEF Owns, Carries
    <2>2. lastId \in 0 .. MaxRows
      BY <1>f
    <2> HIDE DEF TablesOK
    <2>3. proc[h].row \in RowIds
      BY <2>1, <2>2 DEF RowIds
    <2> QED
      BY <2>1, <2>3
  <1>a. UNCHANGED vars => Goal
    BY <1>f DEF vars
  <1>c. ASSUME NEW n \in Members, CreateSubscription(n),
               UNCHANGED <<policy, tokenOf, mailed, posts, faults, changes,
                           history>>,
               UNCHANGED inTransit
        PROVE  Goal
    <2>1. lastId' \in 0 .. MaxRows /\ lastId' = lastId + 1
      BY <1>c, <1>f DEF CreateSubscription
    <2>2. [id |-> lastId + 1, status |-> "pending", bounces |-> 0]
             \in [id : 0 .. MaxRows, status : Statuses, bounces : Nat]
      BY <2>1 DEF Statuses
    <2>3. sub' \in [Members -> [id : 0 .. MaxRows, status : Statuses,
                                bounces : Nat]]
      BY <1>c, <1>f, <2>2 DEF CreateSubscription
    <2>4. 1 .. lastId \subseteq 1 .. lastId'
      BY <1>f, <2>1
    <2> QED
      BY <1>c, <1>f, <2>1, <2>3, <2>4
  <1>d. ASSUME NEW h \in Handlers, NEW s \in Statuses,
               SetSubscriptionStatus(h, s)
        PROVE  sub' \in [Members -> [id : 0 .. MaxRows, status : Statuses,
                                     bounces : Nat]]
    BY ZenonT(60), <1>d, <1>f DEF SetSubscriptionStatus
  <1>e. ASSUME NEW n \in Members, DeleteSubscription(n)
        PROVE  sub' \in [Members -> [id : 0 .. MaxRows, status : Statuses,
                                     bounces : Nat]]
    <2>1. NoRow \in [id : 0 .. MaxRows, status : Statuses, bounces : Nat]
      BY DEF NoRow, Statuses
    <2> QED
      BY <1>e, <1>f, <2>1 DEF DeleteSubscription
  <1>1. ASSUME NEW h \in Handlers, SubscribeCreate(h) PROVE Goal
    BY <1>1, <1>c, <1>f DEF SubscribeCreate, Carries, At
  <1>2. ASSUME NEW h \in Handlers, NEW t \in Tokens,
               CreateConfirmationToken(h, t)
        PROVE  Goal
    BY <1>2, <1>f, <1>i DEF CreateConfirmationToken, At
  <1>3. ASSUME NEW h \in Handlers, EnqueueConfirmation(h) PROVE Goal
    <2>1. proc[h].token \in Tokens
      BY <1>3 DEF EnqueueConfirmation, At, IInv, TokenOK
    <2> QED
      BY <1>3, <1>f, <2>1 DEF EnqueueConfirmation
  <1>4. ASSUME NEW h \in Handlers, ConfirmSubscription(h) PROVE Goal
    <2>1. ConfirmTarget(proc[h].policy) \in Statuses
      BY DEF ConfirmTarget, Statuses
    <2>2. proc[h].at = "confirm"
      BY <1>4 DEF ConfirmSubscription, At
    <2>3. proc[h].row \in 1 .. lastId
      BY <1>i, <2>2
    <2>4. endorsed' \subseteq 1 .. lastId
      BY <1>4, <1>f, <2>3 DEF ConfirmSubscription, Endorse, Reached
    <2> QED
      BY <1>4, <1>d, <1>f, <2>1, <2>4 DEF ConfirmSubscription
  <1>5. ASSUME NEW h \in Handlers, DeleteConfirmationToken(h) PROVE Goal
    BY <1>5, <1>f DEF DeleteConfirmationToken
  <1>6. ASSUME NEW h \in Handlers, IncrementBounceCount(h) PROVE Goal
    <2>0. proc[h].at = "count"
      BY <1>6 DEF IncrementBounceCount, At
    <2>1. proc[h].row \in RowIds /\ proc[h].m \in Members
      BY <1>i, <2>0
    <2>2. sub' \in [Members -> [id : 0 .. MaxRows, status : Statuses,
                                bounces : Nat]]
      BY <1>6, <1>f, <2>1 DEF IncrementBounceCount
    <2>3. bounced' \in [RowIds -> Nat]
      BY <1>6, <1>f, <2>1 DEF IncrementBounceCount
    <2> QED
      BY <1>6, <1>f, <2>2, <2>3 DEF IncrementBounceCount
  <1>7. ASSUME NEW h \in Handlers, Disable(h) PROVE Goal
    <2>1. viaBounce' \subseteq 1 .. lastId
      BY <1>7, <1>f, <1>i DEF Disable, Reached, At
    <2> QED
      BY <1>7, <1>d, <1>f, <2>1 DEF Disable, Statuses
  <1>8. ASSUME NEW h \in Handlers, ReenableSubscription(h) PROVE Goal
    <2>0. proc[h].at = "reenable"
      BY <1>8 DEF ReenableSubscription, At
    <2>1. /\ proc[h].row \in 1 .. lastId /\ proc[h].row \in RowIds
          /\ proc[h].m \in Members
      BY <1>i, <2>0
    <2>2. sub' \in [Members -> [id : 0 .. MaxRows, status : Statuses,
                                bounces : Nat]]
      BY <1>8, <1>f, <2>1 DEF ReenableSubscription, Statuses
    <2>3. bounced' \in [RowIds -> Nat] /\ overtaken' \subseteq 1 .. lastId
      BY <1>8, <1>f, <2>1 DEF ReenableSubscription
    <2> QED
      BY <1>8, <1>f, <2>2, <2>3 DEF ReenableSubscription
  <1>9. ASSUME NEW h \in Handlers, ActivateAdded(h) \/ ApproveSubscription(h)
        PROVE  Goal
    <2>0. proc[h].at \in {"activate", "approve"}
      BY <1>9 DEF ActivateAdded, ApproveSubscription, At
    <2>1. endorsed' \subseteq 1 .. lastId
      <3>1. proc[h].row \in 1 .. lastId
        BY <1>i, <2>0
      <3> QED
        BY <1>9, <1>f, <3>1
        DEF ActivateAdded, ApproveSubscription, Endorse, Reached
    <2> QED
      BY <1>9, <1>d, <1>f, <2>1
      DEF ActivateAdded, ApproveSubscription, Statuses
  <1>10. ASSUME NEW h \in Handlers, RejectSubscription(h) PROVE Goal
    BY <1>10, <1>e, <1>f, <1>i DEF RejectSubscription, At
  <1>11. ASSUME NEW h \in Handlers, NEW n \in Members, BounceArrives(h, n)
         PROVE  Goal
    <2>1. inTransit' \in [Members -> Nat]
      BY <1>11, <1>f DEF BounceArrives
    <2> QED
      BY <1>11, <1>f, <2>1 DEF BounceArrives
  <1>12. ASSUME NEW h \in Handlers, NEW n \in Members, AddMember(h, n)
         PROVE  Goal
    BY <1>12, <1>c DEF AddMember
  <1>13. ASSUME NEW n \in Members, ResetBounceCount(n) PROVE Goal
    BY <1>13, <1>f DEF ResetBounceCount
  <1>14. ASSUME NEW n \in Members, Unsubscribe(n) PROVE Goal
    BY <1>14, <1>e, <1>f DEF Unsubscribe
  <1>15. ASSUME NEW n \in Members, DeliverPost(n) \/ CommandReply(n)
         PROVE  Goal
    <2>1. EnqueueUnderVERP(n)
      BY <1>15 DEF DeliverPost, CommandReply
    <2>2. inTransit' \in [Members -> Nat] /\ posts' \in 0 .. MaxPosts
      BY <2>1, <1>f DEF EnqueueUnderVERP
    <2> QED
      BY <2>1, <1>f, <2>2 DEF EnqueueUnderVERP
  <1>16. ASSUME NEW p \in Policies, SetPolicy(p) PROVE Goal
    <2>1. changes' \in 0 .. MaxChanges
      BY <1>16, <1>f DEF SetPolicy
    <2> QED
      BY <1>16, <1>f, <2>1 DEF SetPolicy
  <1>17. ASSUME NEW h \in Handlers, Stop(h) PROVE Goal
    <2>1. faults' \in 0 .. MaxFaults
      BY <1>17, <1>f DEF Stop
    <2>2. orphaned' \subseteq 1 .. lastId
      BY <1>17, <1>f, <1>i DEF Stop
    <2> QED
      BY <1>17, <1>f, <2>1, <2>2 DEF Stop
  <1>18. ASSUME UNCHANGED <<table, world, bounds, history>> PROVE Goal
    BY <1>18, <1>f
  <1> HIDE DEF Goal, TablesOK, table, world, bounds, history
  <1>19. ASSUME NEW h \in Handlers, Step(h) PROVE Goal
    BY <1>1, <1>2, <1>3, <1>4, <1>5, <1>6, <1>7, <1>8, <1>9, <1>10, <1>18,
       <1>19
    DEF Step, SubscribeAgain, SubscribeRefused, ConfirmFind, ConfirmPolicy,
        CheckThreshold
  <1>20. ASSUME NEW h \in Handlers, NEW n \in Members, Requests(h, n)
         PROVE  Goal
    BY <1>11, <1>12, <1>18, <1>20
    DEF Requests, SubscribeStart, ReEnableStart, ApproveStart, RejectStart
  <1>21. ASSUME NEW h \in Handlers, NEW t \in Tokens, ConfirmStart(h, t)
         PROVE  Goal
    BY <1>18, <1>21 DEF ConfirmStart
  <1>22. Goal
    BY <1>a, <1>13, <1>14, <1>15, <1>16, <1>17, <1>19, <1>20, <1>21 DEF Next
  <1> QED
    BY <1>22 DEF Goal

\* A row about to be disabled stays one that may be.
LEMMA DisablersStay ==
  ASSUME IInv, [Next]_vars, NEW g \in Handlers, NEW i \in RowIds,
         At(g, "disable"), proc[g].row = i, MayDisable(i)
  PROVE  MayDisable(i)'
  <1> USE DEF table, world, bounds, history
  <1>f. bounced \in [RowIds -> Nat] /\ Threshold \in Nat
    BY MembershipAssumption DEF IInv, TablesOK
  <1>1. UNCHANGED <<bounced, overtaken>> => MayDisable(i)'
    BY DEF MayDisable
  <1>2. ASSUME NEW h \in Handlers, IncrementBounceCount(h)
        PROVE  MayDisable(i)'
    <2>1. bounced'[i] \in {bounced[i], bounced[i] + 1}
      BY <1>2, <1>f DEF IncrementBounceCount
    <2> QED
      BY <1>2, <1>f, <2>1 DEF IncrementBounceCount, MayDisable
  <1>3. ASSUME NEW h \in Handlers, ReenableSubscription(h)
        PROVE  MayDisable(i)'
    <2>1. CASE proc[h].row = i
      BY <1>3, <2>1 DEF ReenableSubscription, MayDisable
    <2>2. CASE proc[h].row # i
      BY <1>3, <1>f, <2>2 DEF ReenableSubscription, MayDisable
    <2> QED
      BY <2>1, <2>2
  <1>4. ASSUME NEW h \in Handlers, Step(h) PROVE MayDisable(i)'
    BY <1>1, <1>2, <1>3, <1>4
    DEF Step, SubscribeCreate, SubscribeAgain, SubscribeRefused,
        CreateConfirmationToken, EnqueueConfirmation, ConfirmFind,
        ConfirmPolicy, ConfirmSubscription, DeleteConfirmationToken,
        CheckThreshold, Disable, ActivateAdded, ApproveSubscription,
        RejectSubscription
  <1>5. ASSUME NEW h \in Handlers, NEW n \in Members, Requests(h, n)
        PROVE  MayDisable(i)'
    BY <1>1, <1>5 DEF Requests, SubscribeStart, BounceArrives, ReEnableStart,
                      AddMember, ApproveStart, RejectStart
  <1>6. ASSUME \/ \E h \in Handlers : Stop(h)
               \/ \E h \in Handlers, t \in Tokens : ConfirmStart(h, t)
               \/ \E n \in Members : ResetBounceCount(n) \/ Unsubscribe(n)
                                       \/ DeliverPost(n) \/ CommandReply(n)
               \/ \E p \in Policies : SetPolicy(p)
               \/ UNCHANGED vars
        PROVE  MayDisable(i)'
    BY <1>1, <1>6 DEF Stop, ConfirmStart, ResetBounceCount, Unsubscribe,
                      DeliverPost, CommandReply, EnqueueUnderVERP, SetPolicy,
                      vars
  <1> QED
    BY <1>4, <1>5, <1>6 DEF Next

\* What a handler carries after a step of its own.
LEMMA ActorCarries ==
  ASSUME IInv, NEW h \in Handlers, Acts(h) PROVE Carries(h)'
  <1> USE DEF table, bounds, history
  <1> DEFINE Goal == Carries(h)'
             q == proc[h]
  <1>f. proc \in [Handlers -> Requested] /\ Carries(h)
    BY DEF IInv
  <1>g. \A m \in Members : RowOK(m)
    BY DEF IInv
  <1>a. Done(h) => Goal
    BY <1>f DEF Done, Idle, Carries
  <1>b. ASSUME q.at \notin {"idle", "join", "find"},
               NEW place \in {"confirm", "forget", "check"},
               /\ proc'[h].at = place /\ proc'[h].m = q.m
               /\ proc'[h].row = q.row
        PROVE  Goal
    BY <1>b, <1>f DEF Carries
  <1>c. ASSUME NEW m \in Members, NEW place \in Places,
               place \notin {"idle", "join", "find", "token", "reenable",
                             "disable"},
               proc'[h].at = place /\ proc'[h].m = m /\ proc'[h].row # 0
        PROVE  Goal
    BY <1>c DEF Carries
  <1>1. ASSUME SubscribeCreate(h) PROVE Goal
    <2>1. lastId' # 0
      BY <1>1 DEF SubscribeCreate, CreateSubscription, IInv, TablesOK
    <2>2. /\ proc'[h].at = "token" /\ proc'[h].m = q.m
          /\ proc'[h].row # 0 /\ proc'[h].token = q.token
      BY <1>1, <1>f, <2>1 DEF SubscribeCreate, Requested
    <2> QED
      BY <1>1, <1>f, <2>2 DEF SubscribeCreate, Carries, At
  <1>2. ASSUME SubscribeAgain(h) PROVE Goal
    <2>1. q.m \in Members /\ q.token = None /\ sub[q.m].id # 0
      BY <1>2, <1>f, <1>g DEF SubscribeAgain, Carries, At, RowOK, NoRow
    <2>2. /\ proc'[h].at = "token" /\ proc'[h].m = q.m
          /\ proc'[h].row # 0 /\ proc'[h].token = q.token
      BY <1>2, <1>f, <2>1 DEF SubscribeAgain, Requested
    <2> QED
      BY <2>1, <2>2 DEF Carries
  <1>3. ASSUME NEW t \in Tokens, CreateConfirmationToken(h, t) PROVE Goal
    BY <1>3, <1>f DEF CreateConfirmationToken, Requested, Carries, At
  <1>4. ASSUME ConfirmFind(h) PROVE Goal
    <2>1. q.m \in Members
      BY <1>4, <1>f DEF ConfirmFind, Carries, At
    <2>2. \/ Done(h)
          \/ /\ proc'[h].at = "policy" /\ proc'[h].m = q.m
             /\ proc'[h].row # 0
      BY <1>4, <1>f DEF ConfirmFind, Requested
    <2> QED
      BY <1>a, <1>c, <2>1, <2>2 DEF Places
  <1>5. ASSUME ConfirmPolicy(h) PROVE Goal
    BY <1>5, <1>b, <1>f DEF ConfirmPolicy, Requested, At
  <1>6. ASSUME ConfirmSubscription(h) PROVE Goal
    BY <1>6, <1>b, <1>f DEF ConfirmSubscription, Requested, At, Goto
  <1>7. ASSUME IncrementBounceCount(h) PROVE Goal
    BY <1>7, <1>b, <1>f DEF IncrementBounceCount, Requested, At, Goto
  <1>8. ASSUME CheckThreshold(h) PROVE Goal
    <2>1. CASE Done(h)
      BY <1>a, <2>1
    <2>2. CASE /\ sub[q.m].id # 0 /\ sub[q.m].bounces >= Threshold
               /\ Goto(h, "disable")
      <3>1. q.m \in Members /\ q.row # 0
        BY <1>8, <1>f DEF CheckThreshold, Carries, At
      <3>2. /\ proc'[h].at = "disable" /\ proc'[h].m = q.m
            /\ proc'[h].row = q.row
        BY <1>f, <2>2 DEF Goto, Requested
      <3>3. sub[q.m].id = q.row => bounced[q.row] >= Threshold
        <4>1. sub[q.m].bounces <= bounced[Row(q.m)]
          BY <1>g, <2>2, <3>1 DEF RowOK, Row
        <4>2. sub[q.m].id \in RowIds /\ sub[q.m].bounces \in Nat
          BY <2>2, <3>1 DEF IInv, TablesOK, RowIds
        <4>3. bounced[sub[q.m].id] \in Nat
          BY <4>2 DEF IInv, TablesOK
        <4> QED
          BY <2>2, <4>1, <4>2, <4>3, MembershipAssumption DEF Row
      <3>4. sub' = sub /\ bounced' = bounced
        BY <1>8 DEF CheckThreshold
      <3> QED
        BY <3>1, <3>2, <3>3, <3>4 DEF Carries, StillThere, MayDisable
    <2> QED
      BY <1>8, <2>1, <2>2 DEF CheckThreshold
  <1>9. ASSUME NEW m \in Members, SubscribeStart(h, m) PROVE Goal
    BY <1>9, <1>f DEF SubscribeStart, Requested, Carries, At, Idle
  <1>10. ASSUME NEW m \in Members, BounceArrives(h, m) PROVE Goal
    <2>1. CASE /\ sub[m].id # 0
               /\ proc' = [proc EXCEPT ![h].at = "count", ![h].m = m,
                                       ![h].row = sub[m].id]
      BY <1>c, <1>f, <2>1 DEF Requested, Places
    <2>2. CASE UNCHANGED proc
      BY <1>10, <1>f, <2>2 DEF BounceArrives, Carries, At
    <2> QED
      BY <1>10, <2>1, <2>2 DEF BounceArrives
  <1>11. ASSUME NEW m \in Members, ReEnableStart(h, m) PROVE Goal
    <2>1. sub[m].id # 0 /\ Row(m) \in endorsed \cup viaBounce
      BY <1>11, <1>g DEF ReEnableStart, RowOK, NoRow, Cleared
    <2>2. /\ proc'[h].at = "reenable" /\ proc'[h].m = m
          /\ proc'[h].row = sub[m].id
      BY <1>11, <1>f DEF ReEnableStart, Requested
    <2>3. UNCHANGED <<endorsed, viaBounce>>
      BY <1>11 DEF ReEnableStart
    <2> QED
      BY <2>1, <2>2, <2>3 DEF Carries, Cleared, Row
  <1>12. ASSUME NEW m \in Members, AddMember(h, m) PROVE Goal
    <2>1. lastId' # 0
      BY <1>12 DEF AddMember, CreateSubscription, IInv, TablesOK
    <2>2. /\ proc'[h].at = "activate" /\ proc'[h].m = m
          /\ proc'[h].row # 0
      BY <1>12, <1>f, <2>1 DEF AddMember, Requested
    <2> QED
      BY <1>c, <2>2 DEF Places
  <1>13. ASSUME NEW m \in Members, ApproveStart(h, m) \/ RejectStart(h, m)
         PROVE  Goal
    <2>1. sub[m].id # 0
      BY <1>13, <1>g DEF ApproveStart, RejectStart, RowOK, NoRow
    <2>2. /\ proc'[h].at \in {"approve", "reject"} /\ proc'[h].m = m
          /\ proc'[h].row # 0
      BY <1>13, <1>f, <2>1 DEF ApproveStart, RejectStart, Requested
    <2> QED
      BY <1>c, <2>2 DEF Places
  <1>14. ASSUME NEW t \in Tokens, ConfirmStart(h, t) PROVE Goal
    <2>1. tokenOf[t] \in Members
      BY <1>14 DEF ConfirmStart, IInv, TablesOK
    <2> QED
      BY <1>14, <1>f, <2>1 DEF ConfirmStart, Requested, Carries, At, Idle
  <1> HIDE DEF Goal
  <1>15. ASSUME Step(h) PROVE Goal
    BY <1>1, <1>2, <1>3, <1>4, <1>5, <1>6, <1>7, <1>8, <1>15, <1>a
    DEF Step, SubscribeRefused, EnqueueConfirmation, DeleteConfirmationToken,
        Disable, ReenableSubscription, ActivateAdded, ApproveSubscription,
        RejectSubscription
  <1>16. ASSUME NEW m \in Members, Requests(h, m) PROVE Goal
    BY <1>9, <1>10, <1>11, <1>12, <1>13, <1>16 DEF Requests
  <1>17. Goal
    BY <1>14, <1>15, <1>16, <1>a DEF Acts, Stop
  <1> QED
    BY <1>17 DEF Goal

\* What the handlers carry stays true.
LEMMA CarriesStays ==
  ASSUME IInv, [Next]_vars, NEW g \in Handlers PROVE Carries(g)'
  <1>f. /\ proc \in [Handlers -> Requested] /\ Carries(g) /\ Owns(g)
        /\ lastId \in 0 .. MaxRows
    BY DEF IInv, TablesOK
  <1>1. ASSUME proc'[g] = proc[g] PROVE Carries(g)'
    <2> DEFINE i == proc[g].row
    <2>1. i \in endorsed \cup viaBounce => i \in endorsed' \cup viaBounce'
      BY RowsMove
    <2>2. ASSUME At(g, "disable"), sub'[proc[g].m].id = i PROVE MayDisable(i)'
      <3>1. proc[g].m \in Members /\ i \in 1 .. lastId
        BY <1>f, <2>2 DEF Carries, Owns, At
      <3>2. sub[proc[g].m].id = i
        BY <1>f, <2>2, <3>1, RowsMove DEF Updated, Created, NoRow, Row
      <3>3. MayDisable(i)
        BY <1>f, <2>2, <3>2 DEF Carries, StillThere, At
      <3>4. i \in RowIds
        BY <1>f, <3>1, MembershipAssumption DEF RowIds
      <3>5. \A j \in RowIds : proc[g].row = j /\ MayDisable(j)
                                => bounced'[j] >= Threshold
                                     \/ j \in overtaken'
        BY <2>2, DisablersStay DEF MayDisable
      <3> QED
        BY <1>1, <3>3, <3>4, <3>5 DEF MayDisable
    <2> QED
      BY <1>1, <1>f, <2>1, <2>2 DEF Carries, Cleared, StillThere, At
  <1>2. ASSUME NEW h \in Handlers, Acts(h) PROVE Carries(g)'
    <2>1. CASE h = g
      BY <1>2, <2>1, ActorCarries
    <2>2. CASE h # g
      BY <1>1, <1>2, <1>f, <2>2, OthersStay
    <2> QED
      BY <2>1, <2>2
  <1> QED
    BY <1>1, <1>2, Moves

\* A handler's token is its own until it is mailed, and for the member it
\* serves.
LEMMA TokensStay ==
  ASSUME IInv, [Next]_vars PROVE \A g \in Handlers : TokenOK(g)'
  <1> USE MembershipAssumption DEF table, world, Confirming
  <1> DEFINE Goal == \A g \in Handlers : TokenOK(g)'
  <1>f. /\ proc \in [Handlers -> Requested]
        /\ tokenOf \in [Tokens -> Members \cup {None}]
        /\ \A h \in Handlers : TokenOK(h) /\ Carries(h)
    BY DEF IInv, TablesOK
  <1>o. ASSUME NEW h \in Handlers, Acts(h), NEW g \in Handlers \ {h}
        PROVE  proc'[g] = proc[g]
    BY <1>f, <1>o, OthersStay
  <1>a. ASSUME UNCHANGED <<proc, tokenOf, mailed>> PROVE Goal
    BY <1>a, <1>f DEF TokenOK
  <1>b. ASSUME NEW h \in Handlers, Acts(h), UNCHANGED <<tokenOf, mailed>>,
               proc'[h].token \in {proc[h].token, None},
               proc'[h].at # "mail",
               proc'[h].at \in Confirming =>
                  /\ proc[h].at \in Confirming
                  /\ proc'[h].token = proc[h].token
                  /\ proc'[h].m = proc[h].m
        PROVE  Goal
    <2>1. TokenOK(h)'
      BY <1>b, <1>f DEF TokenOK
    <2>2. ASSUME NEW g \in Handlers \ {h} PROVE TokenOK(g)'
      <3>1. proc'[g] = proc[g]
        BY <1>b, <1>o
      <3>2. proc[g].at = "mail" => \A k \in Handlers \ {g} :
                                      proc'[k].token # proc[g].token
        BY <1>b, <1>f, <1>o DEF TokenOK
      <3> QED
        BY <1>b, <1>f, <3>1, <3>2 DEF TokenOK
    <2> QED
      BY <2>1, <2>2
  <1>c. ASSUME NEW h \in Handlers, Acts(h), Done(h),
               UNCHANGED <<tokenOf, mailed>>
        PROVE  Goal
    BY <1>b, <1>c, <1>f DEF Done, Idle
  <1>1. ASSUME NEW h \in Handlers, NEW t \in Tokens,
               CreateConfirmationToken(h, t)
        PROVE  Goal
    <2>1. Acts(h)
      BY <1>1 DEF Acts, Step
    <2>2. /\ proc'[h].at = "mail" /\ proc'[h].token = t
          /\ proc'[h].m = proc[h].m
          /\ mailed' = mailed \ {t} /\ tokenOf'[t] = proc[h].m
          /\ \A u \in Tokens \ {t} : tokenOf'[u] = tokenOf[u]
          /\ \A g \in Handlers : proc[g].token # t
      BY <1>1, <1>f DEF CreateConfirmationToken, Requested, FreeTokens
    <2>3. TokenOK(h)'
      BY <1>o, <2>1, <2>2 DEF TokenOK
    <2>4. ASSUME NEW g \in Handlers \ {h} PROVE TokenOK(g)'
      <3>1. proc'[g] = proc[g]
        BY <1>o, <2>1
      <3>2. proc[g].at = "mail" => \A k \in Handlers \ {g} :
                                      proc'[k].token # proc[g].token
        BY <1>f, <1>o, <2>1, <2>2 DEF TokenOK
      <3> QED
        BY <1>f, <2>2, <3>1, <3>2 DEF TokenOK
    <2> QED
      BY <2>3, <2>4
  <1>2. ASSUME NEW h \in Handlers, EnqueueConfirmation(h) PROVE Goal
    <2>1. Acts(h) /\ At(h, "mail")
      BY <1>2 DEF Acts, Step, EnqueueConfirmation
    <2>2. /\ proc'[h] = Idle /\ tokenOf' = tokenOf
          /\ mailed' = mailed \cup {proc[h].token}
      BY <1>2, <1>f DEF EnqueueConfirmation, Done
    <2>3. TokenOK(h)'
      BY <2>2 DEF TokenOK, Idle
    <2>4. ASSUME NEW g \in Handlers \ {h} PROVE TokenOK(g)'
      <3>1. proc'[g] = proc[g] /\ proc[g].token # proc[h].token
        BY <1>f, <1>o, <2>1 DEF TokenOK, At
      <3>2. proc[g].at = "mail" => \A k \in Handlers \ {g} :
                                      proc'[k].token # proc[g].token
        BY <1>f, <1>o, <2>1, <2>2 DEF TokenOK, Idle
      <3> QED
        BY <1>f, <2>2, <3>1, <3>2 DEF TokenOK
    <2> QED
      BY <2>3, <2>4
  <1>3. ASSUME NEW h \in Handlers, DeleteConfirmationToken(h) PROVE Goal
    <2>1. Acts(h) /\ proc[h].token \in Tokens
      BY <1>3, <1>f DEF Acts, Step, DeleteConfirmationToken, At, TokenOK
    <2>2. /\ proc'[h] = Idle /\ mailed' = mailed
          /\ tokenOf'[proc[h].token] = None
          /\ \A u \in Tokens \ {proc[h].token} : tokenOf'[u] = tokenOf[u]
      BY <1>3, <1>f, <2>1 DEF DeleteConfirmationToken, Done
    <2>3. TokenOK(h)'
      BY <2>2 DEF TokenOK, Idle
    <2>4. ASSUME NEW g \in Handlers \ {h} PROVE TokenOK(g)'
      <3>1. proc'[g] = proc[g]
        BY <1>o, <2>1
      <3>2. proc[g].at = "mail" => \A k \in Handlers \ {g} :
                                      proc'[k].token # proc[g].token
        BY <1>f, <1>o, <2>1, <2>2 DEF TokenOK, Idle
      <3>3. proc[g].at = "mail" => proc[g].token # proc[h].token
        BY <1>f DEF TokenOK
      <3> QED
        BY <1>f, <2>2, <3>1, <3>2, <3>3 DEF TokenOK
    <2> QED
      BY <2>3, <2>4
  <1>4. ASSUME NEW h \in Handlers, NEW t \in Tokens, ConfirmStart(h, t)
        PROVE  Goal
    <2>1. Acts(h)
      BY <1>4 DEF Acts
    <2>2. /\ proc'[h].at = "find" /\ proc'[h].token = t
          /\ proc'[h].m = tokenOf[t] /\ t \in mailed
          /\ tokenOf' = tokenOf /\ mailed' = mailed
      BY <1>4, <1>f DEF ConfirmStart, Requested
    <2>3. TokenOK(h)'
      BY <2>2 DEF TokenOK
    <2>4. ASSUME NEW g \in Handlers \ {h} PROVE TokenOK(g)'
      <3>1. proc'[g] = proc[g]
        BY <1>o, <2>1
      <3>2. proc[g].at = "mail" => \A k \in Handlers \ {g} :
                                      proc'[k].token # proc[g].token
        BY <1>f, <1>o, <2>1, <2>2 DEF TokenOK
      <3> QED
        BY <1>f, <2>2, <3>1, <3>2 DEF TokenOK
    <2> QED
      BY <2>3, <2>4
  <1> HIDE DEF Goal
  <1>5. ASSUME NEW h \in Handlers, Step(h) PROVE Goal
    <2>1. Acts(h)
      BY <1>5 DEF Acts
    <2>2. CASE SubscribeCreate(h) \/ SubscribeAgain(h)
      <3>1. /\ proc'[h].at = "token" /\ proc'[h].token = proc[h].token
            /\ UNCHANGED <<tokenOf, mailed>>
        BY <1>f, <2>2 DEF SubscribeCreate, SubscribeAgain, Requested
      <3> QED
        BY <1>b, <2>1, <3>1
    <2>3. CASE ConfirmFind(h) \/ ConfirmPolicy(h) \/ ConfirmSubscription(h)
      <3>1. /\ proc[h].at \in Confirming /\ UNCHANGED <<tokenOf, mailed>>
            /\ \/ Done(h)
               \/ /\ proc'[h].at \in Confirming
                  /\ proc'[h].token = proc[h].token
                  /\ proc'[h].m = proc[h].m
        BY <1>f, <2>3 DEF ConfirmFind, ConfirmPolicy, ConfirmSubscription,
                          Requested, At, Goto
      <3> QED
        BY <1>b, <1>c, <2>1, <3>1
    <2>4. CASE IncrementBounceCount(h) \/ CheckThreshold(h)
      <3>1. /\ UNCHANGED <<tokenOf, mailed>>
            /\ \/ Done(h)
               \/ /\ proc'[h].at \in {"check", "disable"}
                  /\ proc'[h].token = proc[h].token
        BY <1>f, <2>4 DEF IncrementBounceCount, CheckThreshold, Requested,
                          Goto
      <3> QED
        BY <1>b, <1>c, <2>1, <3>1
    <2> QED
      BY <1>1, <1>2, <1>3, <1>5, <1>c, <2>1, <2>2, <2>3, <2>4
      DEF Step, SubscribeRefused, Disable, ReenableSubscription,
          ActivateAdded, ApproveSubscription, RejectSubscription
  <1>6. ASSUME NEW h \in Handlers, NEW n \in Members, Requests(h, n)
        PROVE  Goal
    <2>1. Acts(h)
      BY <1>6 DEF Acts
    <2>2. /\ UNCHANGED <<tokenOf, mailed>>
          /\ \/ UNCHANGED proc
             \/ /\ proc'[h].at \notin Confirming \cup {"mail"}
                /\ proc'[h].token = proc[h].token
      BY <1>f, <1>6 DEF Requests, SubscribeStart, BounceArrives,
                        ReEnableStart, AddMember, ApproveStart, RejectStart,
                        Requested
    <2> QED
      BY <1>a, <1>b, <2>1, <2>2
  <1>7. ASSUME NEW h \in Handlers, Stop(h) PROVE Goal
    BY <1>7, <1>c DEF Stop, Acts
  <1>8. ASSUME \/ \E n \in Members : ResetBounceCount(n) \/ Unsubscribe(n)
                                       \/ DeliverPost(n) \/ CommandReply(n)
               \/ \E p \in Policies : SetPolicy(p)
               \/ UNCHANGED vars
        PROVE  Goal
    BY <1>8, <1>a DEF ResetBounceCount, Unsubscribe, DeliverPost, CommandReply,
                      EnqueueUnderVERP, SetPolicy, vars
  <1>9. Goal
    BY <1>4, <1>5, <1>6, <1>7, <1>8 DEF Next
  <1> QED
    BY <1>9 DEF Goal

\* What a pending request rests on is not taken from it by another's step.
LEMMA ConfirmableStays ==
  ASSUME IInv, [Next]_vars, NEW m \in Members, sub'[m].status = "pending"
  PROVE  Confirmable(m)'
  <1> USE MembershipAssumption DEF table, world, bounds, history
  <1> DEFINE Goal == Confirmable(m)'
             Same == /\ sub[m].status = "pending" /\ Row(m)' = Row(m)
                     /\ Confirmable(m) /\ Row(m) # 0
  <1>f. /\ proc \in [Handlers -> Requested]
        /\ tokenOf \in [Tokens -> Members \cup {None}]
        /\ \A h \in Handlers : TokenOK(h) /\ Carries(h) /\ Owns(h)
        /\ lastId \in Nat
    BY DEF IInv, TablesOK
  <1>g. sub \in [Members -> [id : 0 .. MaxRows, status : Statuses,
                             bounces : Nat]]
    BY DEF IInv, TablesOK
  <1>o. ASSUME NEW h \in Handlers, Acts(h), NEW g \in Handlers \ {h}
        PROVE  proc'[g] = proc[g]
    BY <1>f, <1>o, OthersStay
  <1>p. orphaned \subseteq orphaned'
    BY RowsMove
  <1>r. lastId' = lastId \/ sub'[m] = sub[m] => Same
    <2>1. sub[m].status = "pending" => Confirmable(m) /\ Row(m) # 0
      BY DEF IInv, RowOK, NoRow, Row
    <2>2. lastId' = lastId \/ sub'[m] = sub[m]
            => sub[m].status = "pending" /\ Row(m)' = Row(m)
      BY <1>f, RowsMove DEF Updated, Created, NoRow, Row
    <2> QED
      BY <2>1, <2>2
  \* The common case: no token is used up, h does not see to the request.
  <1>k. ASSUME NEW h \in Handlers, Acts(h), Same,
               \A t \in Tokens : Usable(t, m) =>
                  /\ t \in mailed' /\ tokenOf'[t] = m
                  /\ proc'[h].token = t =>
                        /\ proc'[h].at # "forget"
                        /\ proc'[h].at \in {"policy", "confirm"}
                              => proc'[h].row = Row(m),
               proc[h].at \in Seeing /\ proc[h].row = Row(m) => Goal
        PROVE  Goal
    <2>1. ASSUME NEW t \in Tokens, Usable(t, m) PROVE Goal
      <3>1. ASSUME NEW g \in Handlers, proc'[g].token = t
            PROVE  /\ proc'[g].at # "forget"
                   /\ proc'[g].at \in {"policy", "confirm"}
                         => proc'[g].row = Row(m)
        <4>1. CASE g = h
          BY <1>k, <2>1, <3>1, <4>1
        <4>2. CASE g # h
          BY <1>k, <1>o, <2>1, <3>1, <4>2 DEF Usable
        <4> QED
          BY <4>1, <4>2
      <3>2. t \in mailed' /\ tokenOf'[t] = m
        BY <1>k, <2>1
      <3>3. Usable(t, m)'
        BY <1>k, <3>1, <3>2 DEF Usable
      <3> QED
        BY <3>3 DEF Confirmable
    <2>2. ASSUME NEW g \in Handlers, proc[g].at \in Seeing,
                 proc[g].row = Row(m)
          PROVE  Goal
      <3>1. CASE g = h
        BY <1>k, <2>2, <3>1
      <3>2. CASE g # h
        BY <1>k, <1>o, <2>2, <3>2 DEF Confirmable
      <3> QED
        BY <3>1, <3>2
    <2>3. ASSUME Row(m) \in orphaned PROVE Goal
      BY <1>k, <1>p, <2>3 DEF Confirmable
    <2> HIDE DEF Goal
    <2> QED
      BY <1>k, <2>1, <2>2, <2>3 DEF Confirmable
  <1>a. ASSUME Same, UNCHANGED <<proc, tokenOf, mailed>> PROVE Goal
    BY <1>a, <1>p DEF Confirmable, Usable
  <1>b. ASSUME NEW h \in Handlers, Acts(h), Same,
               UNCHANGED <<tokenOf, mailed>>,
               proc'[h].at \notin {"policy", "confirm", "forget"},
               proc[h].at \in Seeing => proc[h].row # Row(m)
        PROVE  Goal
    <2> HIDE DEF Goal
    <2>1. \A t \in Tokens : Usable(t, m) => t \in mailed' /\ tokenOf'[t] = m
      BY <1>b DEF Usable
    <2> QED
      BY <1>b, <1>k, <2>1
  <1>1. ASSUME NEW h \in Handlers, SubscribeCreate(h) PROVE Goal
    <2>1. Acts(h) /\ At(h, "join") /\ UNCHANGED <<tokenOf, mailed>>
      BY <1>1 DEF Acts, Step, SubscribeCreate
    <2>2. proc'[h].at = "token" /\ proc'[h].row = lastId'
      BY <1>1, <1>f DEF SubscribeCreate, Requested
    <2>3. CASE proc[h].m = m
      <3>1. Row(m)' = lastId'
        BY <1>1, <1>g, <2>3 DEF SubscribeCreate, CreateSubscription, Row
      <3> QED
        BY <2>2, <3>1 DEF Confirmable, Seeing
    <2>4. CASE proc[h].m # m
      <3>1. sub'[m] = sub[m]
        BY <1>1, <1>g, <2>4 DEF SubscribeCreate, CreateSubscription
      <3> HIDE DEF Goal, Same
      <3> QED
        BY <1>b, <1>r, <2>1, <2>2, <3>1 DEF At, Seeing
    <2> QED
      BY <2>3, <2>4
  <1>2. ASSUME NEW h \in Handlers, NEW n \in Members, AddMember(h, n)
        PROVE  Goal
    <2>1. Acts(h) /\ At(h, "idle") /\ UNCHANGED <<tokenOf, mailed>>
      BY <1>2 DEF Acts, Requests, AddMember
    <2>2. proc'[h].at = "activate" /\ proc'[h].row = lastId'
      BY <1>2, <1>f DEF AddMember, Requested
    <2>3. CASE n = m
      <3>1. Row(m)' = lastId'
        BY <1>2, <1>g, <2>3 DEF AddMember, CreateSubscription, Row
      <3> QED
        BY <2>2, <3>1 DEF Confirmable, Seeing
    <2>4. CASE n # m
      <3>1. sub'[m] = sub[m]
        BY <1>2, <1>g, <2>4 DEF AddMember, CreateSubscription
      <3> HIDE DEF Goal, Same
      <3> QED
        BY <1>b, <1>r, <2>1, <2>2, <3>1 DEF At, Seeing
    <2> QED
      BY <2>3, <2>4
  <1>3. ASSUME NEW h \in Handlers, NEW t \in Tokens,
               CreateConfirmationToken(h, t)
        PROVE  Goal
    <2>1. Acts(h) /\ lastId' = lastId
      BY <1>3 DEF Acts, Step, CreateConfirmationToken
    <2>2. /\ proc'[h].at = "mail" /\ proc'[h].row = proc[h].row
          /\ mailed' = mailed \ {t} /\ tokenOf[t] = None
          /\ \A u \in Tokens \ {t} : tokenOf'[u] = tokenOf[u]
      BY <1>3, <1>f DEF CreateConfirmationToken, Requested, FreeTokens
    <2>3. \A u \in Tokens : Usable(u, m) => u \in mailed' /\ tokenOf'[u] = m
      BY <1>3, <2>2 DEF Usable
    <2>4. Row(m)' = Row(m) /\ proc[h].row = Row(m) => Goal
      BY <2>2 DEF Confirmable, Seeing
    <2>5. Same
      BY <1>r, <2>1
    <2> HIDE DEF Goal
    <2> QED
      BY <1>k, <2>1, <2>2, <2>3, <2>4, <2>5
  <1>4. ASSUME NEW h \in Handlers, EnqueueConfirmation(h) PROVE Goal
    <2>1. Acts(h) /\ lastId' = lastId /\ At(h, "mail")
      BY <1>4 DEF Acts, Step, EnqueueConfirmation
    <2>2. /\ proc'[h] = Idle /\ tokenOf' = tokenOf
          /\ mailed' = mailed \cup {proc[h].token}
      BY <1>4, <1>f DEF EnqueueConfirmation, Done
    <2>3. \A u \in Tokens : Usable(u, m) => u \in mailed' /\ tokenOf'[u] = m
      BY <2>2 DEF Usable
    <2>4. Same
      BY <1>r, <2>1
    <2>5. ASSUME proc[h].row = Row(m) PROVE Goal
      <3>1. proc[h].m = m
        BY <1>f, <2>4, <2>5 DEF Owns
      <3>2. /\ proc[h].token \in Tokens /\ tokenOf[proc[h].token] = m
            /\ \A g \in Handlers \ {h} : proc[g].token # proc[h].token
        BY <1>f, <2>1, <3>1 DEF TokenOK, At
      <3>3. PICK t \in Tokens : t = proc[h].token
        BY <3>2
      <3>4. \A g \in Handlers : proc'[g].token # t
        BY <1>o, <2>1, <2>2, <3>2, <3>3 DEF Idle
      <3>5. t \in mailed' /\ tokenOf'[t] = m
        BY <2>2, <3>2, <3>3
      <3>6. Usable(t, m)'
        BY <3>4, <3>5 DEF Usable
      <3> QED
        BY <3>6 DEF Confirmable
    <2> HIDE DEF Goal
    <2> QED
      BY <1>k, <2>1, <2>2, <2>3, <2>4, <2>5 DEF Idle
  <1>5. ASSUME NEW h \in Handlers, ConfirmFind(h) PROVE Goal
    <2>1. /\ Acts(h) /\ lastId' = lastId /\ At(h, "find")
          /\ UNCHANGED <<tokenOf, mailed>>
      BY <1>5 DEF Acts, Step, ConfirmFind
    <2>2. Same
      BY <1>r, <2>1
    <2>3. \/ proc'[h] = Idle
          \/ /\ proc'[h].at = "policy" /\ proc'[h].row = Row(proc[h].m)
             /\ proc'[h].token = proc[h].token
      BY <1>5, <1>f DEF ConfirmFind, Requested, Done, Row
    <2>4. ASSUME NEW t \in Tokens, Usable(t, m)
          PROVE  /\ t \in mailed' /\ tokenOf'[t] = m
                 /\ proc'[h].token = t =>
                       proc'[h].at = "policy" /\ proc'[h].row = Row(m)
      <3>1. tokenOf[t] = m
        BY <2>4 DEF Usable
      <3>2. proc[h].token = t => proc[h].m = m
        BY <1>f, <2>1, <3>1 DEF TokenOK, At, Confirming
      <3> QED
        BY <2>1, <2>3, <2>4, <3>2 DEF Usable, Idle
    <2> HIDE DEF Goal, Same
    <2>5. proc[h].at \notin Seeing
      BY <2>1 DEF At, Seeing
    <2> QED
      BY <1>k, <2>1, <2>2, <2>4, <2>5
  <1>6. ASSUME NEW h \in Handlers, ConfirmPolicy(h) PROVE Goal
    <2>1. /\ Acts(h) /\ lastId' = lastId /\ At(h, "policy")
          /\ UNCHANGED <<tokenOf, mailed>>
      BY <1>6 DEF Acts, Step, ConfirmPolicy
    <2>2. Same
      BY <1>r, <2>1
    <2>3. /\ proc'[h].at = "confirm" /\ proc'[h].row = proc[h].row
          /\ proc'[h].token = proc[h].token
      BY <1>6, <1>f DEF ConfirmPolicy, Requested
    <2>4. \A t \in Tokens : Usable(t, m) =>
             /\ t \in mailed' /\ tokenOf'[t] = m
             /\ proc'[h].token = t => proc'[h].row = Row(m)
      BY <2>1, <2>3 DEF Usable, At
    <2>5. proc[h].at \notin Seeing
      BY <2>1 DEF At, Seeing
    <2> HIDE DEF Goal, Same
    <2> QED
      BY <1>k, <2>1, <2>2, <2>3, <2>4, <2>5
  <1>7. ASSUME NEW h \in Handlers, ConfirmSubscription(h) PROVE Goal
    <2>1. /\ Acts(h) /\ lastId' = lastId /\ At(h, "confirm")
          /\ UNCHANGED <<tokenOf, mailed>>
      BY <1>7 DEF Acts, Step, ConfirmSubscription
    <2>2. Same
      BY <1>r, <2>1
    <2>3. proc'[h].at = "forget" /\ proc'[h].token = proc[h].token
      BY <1>7, <1>f DEF ConfirmSubscription, Requested, Goto
    <2>4. ASSUME NEW t \in Tokens, Usable(t, m)
          PROVE  /\ t \in mailed' /\ tokenOf'[t] = m
                 /\ proc'[h].token # t
      <3>1. tokenOf[t] = m /\ t \in mailed
        BY <2>4 DEF Usable
      <3>2. ASSUME proc[h].token = t PROVE FALSE
        <4>1. proc[h].m = m /\ proc[h].row = Row(m)
          BY <1>f, <2>1, <2>4, <3>1, <3>2
          DEF TokenOK, At, Confirming, Usable
        <4>2. sub'[m].status = ConfirmTarget(proc[h].policy)
          BY <1>7, <1>g, <4>1
          DEF ConfirmSubscription, SetSubscriptionStatus, StillThere, Row
        <4> QED
          BY <4>2 DEF ConfirmTarget
      <3> QED
        BY <2>1, <2>3, <3>1, <3>2
    <2>5. proc[h].at \notin Seeing
      BY <2>1 DEF At, Seeing
    <2> HIDE DEF Goal, Same
    <2> QED
      BY <1>k, <2>1, <2>2, <2>4, <2>5
  <1>8. ASSUME NEW h \in Handlers, DeleteConfirmationToken(h) PROVE Goal
    <2>1. Acts(h) /\ lastId' = lastId /\ At(h, "forget") /\ mailed' = mailed
      BY <1>8 DEF Acts, Step, DeleteConfirmationToken
    <2>2. Same
      BY <1>r, <2>1
    <2>3. /\ proc'[h] = Idle
          /\ \A u \in Tokens \ {proc[h].token} : tokenOf'[u] = tokenOf[u]
      BY <1>8, <1>f DEF DeleteConfirmationToken, Done
    <2>4. \A t \in Tokens : Usable(t, m) => t \in mailed' /\ tokenOf'[t] = m
      BY <2>1, <2>3 DEF Usable, At
    <2>5. proc[h].at \notin Seeing
      BY <2>1 DEF At, Seeing
    <2> HIDE DEF Goal, Same
    <2> QED
      BY <1>k, <2>1, <2>2, <2>3, <2>4, <2>5 DEF Idle
  <1>9. ASSUME NEW h \in Handlers, ActivateAdded(h) PROVE Goal
    <2>1. /\ Acts(h) /\ lastId' = lastId /\ At(h, "activate")
          /\ UNCHANGED <<tokenOf, mailed>>
      BY <1>9 DEF Acts, Step, ActivateAdded
    <2>2. Same
      BY <1>r, <2>1
    <2>3. proc[h].row # Row(m)
      <3>1. ASSUME proc[h].row = Row(m) PROVE FALSE
        <4>1. proc[h].m = m
          BY <1>f, <2>2, <3>1 DEF Owns
        <4>2. sub'[m].status = "active"
          BY <1>9, <1>g, <3>1, <4>1
          DEF ActivateAdded, SetSubscriptionStatus, StillThere, Row
        <4> QED
          BY <4>2
      <3> QED
        BY <3>1
    <2>4. proc'[h] = Idle
      BY <1>9, <1>f DEF ActivateAdded, Done
    <2> HIDE DEF Goal, Same
    <2> QED
      BY <1>b, <2>1, <2>2, <2>3, <2>4 DEF Idle
  <1>10. ASSUME NEW h \in Handlers, Stop(h) PROVE Goal
    <2>1. Acts(h) /\ lastId' = lastId /\ UNCHANGED <<tokenOf, mailed>>
      BY <1>10 DEF Acts, Stop
    <2>2. Same
      BY <1>r, <2>1
    <2>3. proc'[h] = Idle
      BY <1>10, <1>f DEF Stop, Done
    <2>4. proc[h].at \in Seeing => proc[h].row \in orphaned'
      BY <1>10 DEF Stop, Seeing
    <2>5. proc[h].at \in Seeing /\ proc[h].row = Row(m) => Goal
      BY <2>2, <2>4 DEF Confirmable
    <2>6. \A t \in Tokens : Usable(t, m) => t \in mailed' /\ tokenOf'[t] = m
      BY <2>1 DEF Usable
    <2> HIDE DEF Goal, Same
    <2> QED
      BY <1>k, <2>1, <2>2, <2>3, <2>5, <2>6 DEF Idle
  <1>11. ASSUME NEW h \in Handlers, Step(h), lastId' = lastId,
                UNCHANGED <<tokenOf, mailed>>, proc[h].at \notin Seeing,
                proc'[h].at \notin {"policy", "confirm", "forget"}
         PROVE  Goal
    <2>1. Acts(h) /\ Same
      BY <1>11, <1>r DEF Acts
    <2> HIDE DEF Goal, Same
    <2> QED
      BY <1>11, <1>b, <2>1
  <1>12. ASSUME NEW h \in Handlers,
                \/ SubscribeAgain(h) \/ SubscribeRefused(h)
                \/ IncrementBounceCount(h) \/ CheckThreshold(h) \/ Disable(h)
                \/ ReenableSubscription(h) \/ ApproveSubscription(h)
                \/ RejectSubscription(h)
         PROVE  Goal
    <2>1. Step(h) /\ lastId' = lastId /\ UNCHANGED <<tokenOf, mailed>>
      BY <1>12 DEF Step, SubscribeAgain, SubscribeRefused, CheckThreshold,
                   IncrementBounceCount, Disable, ReenableSubscription,
                   ApproveSubscription, RejectSubscription
    <2>2. proc[h].at \notin Seeing
      BY <1>12 DEF Seeing, At, SubscribeAgain, SubscribeRefused, Disable,
                   CheckThreshold, IncrementBounceCount, RejectSubscription,
                   ReenableSubscription, ApproveSubscription
    <2>3. proc'[h].at \in {"token", "check", "disable", "idle"}
      BY <1>12, <1>f DEF Requested, Idle, Done, Goto, SubscribeAgain,
                   SubscribeRefused, CheckThreshold, Disable,
                   IncrementBounceCount, ReenableSubscription,
                   ApproveSubscription, RejectSubscription
    <2> HIDE DEF Goal
    <2> QED
      BY <1>11, <2>1, <2>2, <2>3
  <1>13. ASSUME NEW h \in Handlers, NEW n \in Members, Requests(h, n)
         PROVE  Goal
    <2>1. CASE AddMember(h, n)
      BY <1>2, <2>1
    <2>2. CASE ~AddMember(h, n)
      <3>1. /\ At(h, "idle") /\ lastId' = lastId
            /\ UNCHANGED <<tokenOf, mailed>>
        BY <1>13, <2>2 DEF Requests, SubscribeStart, BounceArrives,
                           ReEnableStart, ApproveStart, RejectStart
      <3>2. \/ UNCHANGED proc
            \/ proc'[h].at \in {"join", "count", "reenable", "approve",
                                "reject"}
        BY <1>13, <1>f, <2>2 DEF Requests, SubscribeStart, BounceArrives,
                   ReEnableStart, ApproveStart, RejectStart, Requested
      <3>3. Acts(h) /\ Same
        BY <1>13, <1>r, <3>1 DEF Acts
      <3> HIDE DEF Goal, Same
      <3> QED
        BY <1>a, <1>b, <3>1, <3>2, <3>3 DEF At, Seeing
    <2> QED
      BY <2>1, <2>2
  <1>14. ASSUME NEW h \in Handlers, NEW t \in Tokens, ConfirmStart(h, t)
         PROVE  Goal
    <2>1. /\ At(h, "idle") /\ lastId' = lastId
          /\ UNCHANGED <<tokenOf, mailed>> /\ proc'[h].at = "find"
      BY <1>14, <1>f DEF ConfirmStart, Requested
    <2>2. Acts(h) /\ Same
      BY <1>14, <1>r, <2>1 DEF Acts
    <2> HIDE DEF Goal, Same
    <2> QED
      BY <1>b, <2>1, <2>2 DEF At, Seeing
  <1>15. ASSUME \/ \E n \in Members : ResetBounceCount(n) \/ Unsubscribe(n)
                                        \/ DeliverPost(n) \/ CommandReply(n)
                \/ \E p \in Policies : SetPolicy(p)
                \/ UNCHANGED vars
         PROVE  Goal
    <2>1. lastId' = lastId /\ UNCHANGED <<proc, tokenOf, mailed>>
      BY <1>15 DEF ResetBounceCount, Unsubscribe, DeliverPost, CommandReply,
                   EnqueueUnderVERP, SetPolicy, vars
    <2> HIDE DEF Goal, Same
    <2> QED
      BY <1>a, <1>r, <2>1
  <1> HIDE DEF Goal
  <1>16. ASSUME NEW h \in Handlers, Step(h) PROVE Goal
    BY <1>1, <1>3, <1>4, <1>5, <1>6, <1>7, <1>8, <1>9, <1>12, <1>16 DEF Step
  <1>17. Goal
    BY <1>10, <1>13, <1>14, <1>15, <1>16 DEF Next
  <1> QED
    BY <1>17 DEF Goal

LEMMA NextIInv == IInv /\ [Next]_vars => IInv'
  <1> SUFFICES ASSUME IInv, [Next]_vars PROVE IInv'
    OBVIOUS
  <1>1. TablesOK' /\ proc' \in [Handlers -> Requested]
    BY TablesStay, HandlersStay
  <1>2. \A m \in Members : RowOK(m)'
    BY RowsStay
  <1>3. \A h \in Handlers : Owns(h)' /\ Carries(h)'
    BY OwnsStays, CarriesStays
  <1>4. \A h \in Handlers : TokenOK(h)'
    BY TokensStay
  <1>5. \A m \in Members : sub'[m].status = "pending" => Confirmable(m)'
    BY ConfirmableStays
  <1> QED
    BY <1>1, <1>2, <1>3, <1>4, <1>5 DEF IInv

LEMMA AlwaysIInv == Spec => []IInv
  BY InitIInv, NextIInv, PTL DEF Spec
-----------------------------------------------------------------------------
\* The tables and handlers are well-formed in every run: a row's id is one
\* that CreateSubscription issued, and nothing is on record for another.
THEOREM TypeCorrect == Spec => []MTypeOK
  <1>1. IInv => MTypeOK
    BY DEF IInv, TablesOK, Requested, MTypeOK, RowOK, Row, NoRow
  <1> QED
    BY <1>1, AlwaysIInv, PTL

\* Mail goes only to members who were approved, added or confirmed on an open
\* list, or whose request bounces disabled before, whatever races come between
\* (ConfirmSubscription, ApproveSubscription, RecordBounce).
THEOREM ApprovedHolds == Spec => []ApprovedUnlessBounced
  <1>1. IInv => ApprovedUnlessBounced
    BY DEF IInv, RowOK, Cleared, ApprovedUnlessBounced
  <1> QED
    BY <1>1, AlwaysIInv, PTL

\* A subscription is disabled by bounces of its own, never by those of one the
\* member had before (RecordBounce, ReenableSubscription).
THEOREM OwnBouncesHolds == Spec => []DisabledByOwnBounces
  <1>1. IInv => DisabledByOwnBounces
    BY DEF IInv, RowOK, MayDisable, DisabledByOwnBounces
  <1> QED
    BY <1>1, AlwaysIInv, PTL

\* A pending request keeps a token that can confirm it, a handler about to
\* mail one, or the mark of a handler that stopped half-way (Subscribe,
\* handleConfirm, DeleteConfirmationToken).
THEOREM PendingHolds == Spec => []PendingCanConfirm
  <1>1. IInv => PendingCanConfirm
    BY DEF IInv, TablesOK, Confirmable, Usable, Seeing, PendingCanConfirm
  <1> QED
    BY <1>1, AlwaysIInv, PTL
=============================================================================
