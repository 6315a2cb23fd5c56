----------------------------- MODULE Membership -----------------------------
(***************************************************************************)
(* The life of subscriptions to one list: requested by mail or web,        *)
(* confirmed (double opt-in), approved by owners, disabled by bounces,     *)
(* re-enabled, removed (internal/mail, internal/server, cmd/cmd.go over    *)
(* internal/store/sqlite).                                                 *)
(*                                                                         *)
(* The LMTP server, the web server and the command line run handlers       *)
(* concurrently over one database.  A store call is atomic, a handler is   *)
(* not: between two of its calls anything may happen, and it may stop      *)
(* there (a failing call, a crash).  Each handler is a process with a      *)
(* position and the values it read; each action is one store call.  Calls  *)
(* that only queue mail or write an audit event leave this state alone and *)
(* belong to the action before them, but for the confirmation mail and for *)
(* mail that can bounce.                                                   *)
(*                                                                         *)
(* Lookups are by (list, subscriber), updates by row id: an update of a    *)
(* row that has gone changes nothing, a later row has another id.          *)
(***************************************************************************)
EXTENDS Naturals, FiniteSets

CONSTANTS Members,      \* addresses that subscribe
          Handlers,     \* handlers that can be in progress at a time
          Tokens,       \* confirmation tokens outstanding at a time
          Threshold,    \* bounce_threshold
          MaxRows,      \* bound: subscription rows ever inserted
          MaxPosts,     \* bound: mails sent under a VERP sender
          MaxFaults,    \* bound: handlers that stop half-way
          MaxChanges,   \* bound: changes of the subscription policy
          None

ASSUME MembershipAssumption ==
    /\ Threshold \in Nat \ {0}
    /\ MaxRows \in Nat /\ MaxPosts \in Nat
    /\ MaxFaults \in Nat /\ MaxChanges \in Nat
    /\ None \notin Members \cup Tokens

Policies == {"open", "moderated", "closed"}
Statuses == {"none", "pending", "active", "held", "disabled"}
Places   == {"idle", "join", "token", "mail", "activate", "find", "policy",
             "confirm", "forget", "count", "check", "disable", "reenable",
             "approve", "reject"}
RowIds   == 1 .. MaxRows

VARIABLES
    policy,    \* the list's subscription_policy
    sub,       \* subscription row of each member; id 0: no row
    tokenOf,   \* member a stored confirmation token is for, or None
    proc,      \* the handlers
    \* the world outside
    mailed,    \* tokens whose confirmation mail has been queued
    inTransit, \* mail under a member's VERP sender that can still bounce
    \* what happened, for the bounds and the properties
    lastId,    \* row ids issued so far
    posts,     \* mails sent under a VERP sender so far
    faults,    \* handlers that stopped half-way so far
    changes,   \* policy changes so far
    endorsed,  \* rows approved or added by an owner, or confirmed while the
               \* list did not ask for approval
    viaBounce, \* rows disabled by bounces before any endorsement
    bounced,   \* bounces recorded on each row since it was last re-enabled
    overtaken, \* rows re-enabled while a handler was about to disable them
    orphaned   \* rows whose handler stopped before mailing a token

table   == <<policy, sub, tokenOf>>
world   == <<mailed, inTransit>>
bounds  == <<lastId, posts, faults, changes>>
history == <<endorsed, viaBounce, bounced, overtaken, orphaned>>
vars    == <<table, proc, world, bounds, history>>

NoRow == [id |-> 0, status |-> "none", bounces |-> 0]
Idle  == [at |-> "idle", m |-> None, row |-> 0, token |-> None,
          policy |-> "open"]

MTypeOK ==
    /\ policy \in Policies
    /\ sub \in [Members -> [id : 0 .. MaxRows, status : Statuses,
                            bounces : Nat]]
    /\ tokenOf \in [Tokens -> Members \cup {None}]
    /\ proc \in [Handlers -> [at : Places, m : Members \cup {None},
                              row : 0 .. MaxRows,
                              token : Tokens \cup {None},
                              policy : Policies]]
    /\ mailed \subseteq Tokens
    /\ inTransit \in [Members -> Nat]
    /\ lastId \in 0 .. MaxRows /\ posts \in 0 .. MaxPosts
    /\ faults \in 0 .. MaxFaults /\ changes \in 0 .. MaxChanges
    /\ endorsed \subseteq 1 .. lastId
    /\ viaBounce \subseteq 1 .. lastId
    /\ bounced \in [RowIds -> Nat]
    /\ orphaned \subseteq 1 .. lastId /\ overtaken \subseteq 1 .. lastId
    /\ \A m \in Members : sub[m] = NoRow \/ sub[m].id \in 1 .. lastId

\* A new list is open; it may be created moderated or closed.
Init ==
    /\ policy \in Policies
    /\ sub = [m \in Members |-> NoRow]
    /\ tokenOf = [t \in Tokens |-> None]
    /\ proc = [h \in Handlers |-> Idle]
    /\ mailed = {} /\ inTransit = [m \in Members |-> 0]
    /\ lastId = 0 /\ posts = 0 /\ faults = 0 /\ changes = 0
    /\ endorsed = {} /\ viaBounce = {} /\ orphaned = {}
    /\ overtaken = {}
    /\ bounced = [i \in RowIds |-> 0]
-----------------------------------------------------------------------------
(***************************************************************************)
(* Store calls                                                             *)
(***************************************************************************)
At(h, place)   == proc[h].at = place
Goto(h, place) == proc' = [proc EXCEPT ![h].at = place]
Done(h)        == proc' = [proc EXCEPT ![h] = Idle]

\* The row the handler read earlier is still there.
StillThere(h) == sub[proc[h].m].id = proc[h].row

\* CreateSubscription: a pending row, refused by the unique index if m has
\* one already (the callers then give up).
CreateSubscription(m) ==
    /\ sub[m].id = 0
    /\ lastId < MaxRows
    /\ lastId' = lastId + 1
    /\ sub' = [sub EXCEPT ![m] = [id |-> lastId + 1, status |-> "pending",
                                  bounces |-> 0]]

SetSubscriptionStatus(h, s) ==
    sub' = IF StillThere(h) THEN [sub EXCEPT ![proc[h].m].status = s] ELSE sub

DeleteSubscription(m) == sub' = [sub EXCEPT ![m] = NoRow]

\* The row of h if it is still there: what h's update reaches.
Reached(h) == IF StillThere(h) THEN {proc[h].row} ELSE {}

\* The row of h now rests on an owner's decision, or on an open list.
Endorse(h) == endorsed' = endorsed \cup Reached(h)
-----------------------------------------------------------------------------
(***************************************************************************)
(* Subscribe (mail and web)                                                *)
(***************************************************************************)

\* Tokens nobody refers to.  They are random and never issued twice; the
\* model takes one again only when nothing can tell.
FreeTokens == {t \in Tokens : /\ tokenOf[t] = None
                              /\ \A h \in Handlers : proc[h].token # t}

\* GetList: a closed list refuses.  The second guard bounds the requests in
\* progress by the tokens left.
SubscribeStart(h, m) ==
    /\ At(h, "idle")
    /\ policy # "closed"
    /\ Cardinality({g \in Handlers : proc[g].at \in {"join", "token"}})
         < Cardinality(FreeTokens)
    /\ proc' = [proc EXCEPT ![h].at = "join", ![h].m = m]
    /\ UNCHANGED <<table, world, bounds, history>>

\* GetSubscription, and CreateSubscription where there is none.  Losing the
\* race for the row between the two ends the handler, as "already
\* subscribed" does, so one step stands for both.
SubscribeCreate(h) ==
    /\ At(h, "join")
    /\ CreateSubscription(proc[h].m)
    /\ proc' = [proc EXCEPT ![h].at = "token", ![h].row = lastId']
    /\ UNCHANGED <<policy, tokenOf, world, posts, faults, changes, history>>

\* Mutation of SubscribeAgain: a pending subscription refuses like any other.
RefuseAgain(h) ==
    /\ At(h, "join")
    /\ sub[proc[h].m].status = "pending"
    /\ Done(h)
    /\ UNCHANGED <<table, world, bounds, history>>

\* A repeated request for a pending subscription gets another token.
SubscribeAgain(h) ==
    /\ At(h, "join")
    /\ sub[proc[h].m].status = "pending"
    /\ proc' = [proc EXCEPT ![h].at = "token", ![h].row = sub[proc[h].m].id]
    /\ UNCHANGED <<table, world, bounds, history>>

SubscribeRefused(h) ==
    /\ At(h, "join")
    /\ sub[proc[h].m].status \in {"active", "held", "disabled"}
    /\ Done(h)
    /\ UNCHANGED <<table, world, bounds, history>>

CreateConfirmationToken(h, t) ==
    /\ At(h, "token")
    /\ t \in FreeTokens
    /\ tokenOf' = [tokenOf EXCEPT ![t] = proc[h].m]
    /\ mailed' = mailed \ {t}
    /\ proc' = [proc EXCEPT ![h].at = "mail", ![h].token = t]
    /\ UNCHANGED <<policy, sub, inTransit, bounds, history>>

EnqueueConfirmation(h) ==
    /\ At(h, "mail")
    /\ mailed' = mailed \cup {proc[h].token}
    /\ Done(h)
    /\ UNCHANGED <<table, inTransit, bounds, history>>
-----------------------------------------------------------------------------
(***************************************************************************)
(* handleConfirm                                                           *)
(***************************************************************************)

\* A reply reaches the confirmation address of a token still stored; how
\* old it is does not matter.
ConfirmStart(h, t) ==
    /\ At(h, "idle")
    /\ t \in mailed /\ tokenOf[t] # None
    /\ proc' = [proc EXCEPT ![h].at = "find", ![h].m = tokenOf[t],
                            ![h].token = t]
    /\ UNCHANGED <<table, world, bounds, history>>

\* GetSubscription, whichever row the member has by now.
ConfirmFind(h) ==
    /\ At(h, "find")
    /\ \/ /\ sub[proc[h].m].id # 0
          /\ proc' = [proc EXCEPT ![h].at = "policy",
                                  ![h].row = sub[proc[h].m].id]
       \/ /\ sub[proc[h].m].id = 0
          /\ Done(h)
    /\ UNCHANGED <<table, world, bounds, history>>

ConfirmPolicy(h) ==
    /\ At(h, "policy")
    /\ proc' = [proc EXCEPT ![h].at = "confirm", ![h].policy = policy]
    /\ UNCHANGED <<table, world, bounds, history>>

\* Mutation of ConfirmTarget: the policy is not looked at.
ActivateAlways(p) == "active"

ConfirmTarget(p) == IF p = "moderated" THEN "held" ELSE "active"

\* ConfirmSubscription overwrites whatever status the row has.
ConfirmSubscription(h) ==
    /\ At(h, "confirm")
    /\ SetSubscriptionStatus(h, ConfirmTarget(proc[h].policy))
    /\ \/ proc[h].policy = "moderated" /\ UNCHANGED endorsed
       \/ proc[h].policy # "moderated" /\ Endorse(h)
    /\ Goto(h, "forget")
    /\ UNCHANGED <<policy, tokenOf, world, bounds, viaBounce, bounced,
                   overtaken, orphaned>>

\* Mutation of DeleteConfirmationToken: all tokens of the member go.
DeleteAllTokens(h) ==
    /\ At(h, "forget")
    /\ tokenOf' = [t \in Tokens |-> IF tokenOf[t] = proc[h].m THEN None
                                                           ELSE tokenOf[t]]
    /\ Done(h)
    /\ UNCHANGED <<policy, sub, world, bounds, history>>

DeleteConfirmationToken(h) ==
    /\ At(h, "forget")
    /\ tokenOf' = [tokenOf EXCEPT ![proc[h].token] = None]
    /\ Done(h)
    /\ UNCHANGED <<policy, sub, world, bounds, history>>
-----------------------------------------------------------------------------
(***************************************************************************)
(* Bounces: handleBounce and RecordBounce                                  *)
(***************************************************************************)

\* A mail comes back to the member's VERP address, and is counted for whatever
\* subscription the member has by then.
BounceArrives(h, m) ==
    /\ At(h, "idle")
    /\ inTransit[m] > 0
    /\ inTransit' = [inTransit EXCEPT ![m] = @ - 1]
    /\ \/ /\ sub[m].id # 0
          /\ proc' = [proc EXCEPT ![h].at = "count", ![h].m = m,
                                  ![h].row = sub[m].id]
       \/ /\ sub[m].id = 0
          /\ UNCHANGED proc
    /\ UNCHANGED <<table, mailed, bounds, history>>

IncrementBounceCount(h) ==
    /\ At(h, "count")
    /\ \/ /\ StillThere(h)
          /\ sub' = [sub EXCEPT ![proc[h].m].bounces = @ + 1]
          /\ bounced' = [bounced EXCEPT ![proc[h].row] = @ + 1]
       \/ /\ ~StillThere(h)
          /\ UNCHANGED <<sub, bounced>>
    /\ Goto(h, "check")
    /\ UNCHANGED <<policy, tokenOf, world, bounds, endorsed,
                   viaBounce, overtaken, orphaned>>

\* The count is read back, again from whatever row the member has.
CheckThreshold(h) ==
    /\ At(h, "check")
    /\ \/ /\ sub[proc[h].m].id # 0
          /\ sub[proc[h].m].bounces >= Threshold
          /\ Goto(h, "disable")
       \/ /\ sub[proc[h].m].id = 0 \/ sub[proc[h].m].bounces < Threshold
          /\ Done(h)
    /\ UNCHANGED <<table, world, bounds, history>>

\* Mutation of Disable: the update names the member, not the row.
DisableMember(h) ==
    /\ At(h, "disable")
    /\ sub' = IF sub[proc[h].m].id = 0 THEN sub
              ELSE [sub EXCEPT ![proc[h].m].status = "disabled"]
    /\ Done(h)
    /\ UNCHANGED <<policy, tokenOf, world, bounds, history>>

Disable(h) ==
    /\ At(h, "disable")
    /\ SetSubscriptionStatus(h, "disabled")
    /\ viaBounce' = viaBounce \cup (Reached(h) \ endorsed)
    /\ Done(h)
    /\ UNCHANGED <<policy, tokenOf, world, bounds, endorsed, bounced,
                   overtaken, orphaned>>

\* By mail, by the member on the web, by an owner or on the command line.
ReEnableStart(h, m) ==
    /\ At(h, "idle")
    /\ sub[m].status = "disabled"
    /\ proc' = [proc EXCEPT ![h].at = "reenable", ![h].m = m,
                            ![h].row = sub[m].id]
    /\ UNCHANGED <<table, world, bounds, history>>

ReenableSubscription(h) ==
    /\ At(h, "reenable")
    /\ sub' = IF StillThere(h)
              THEN [sub EXCEPT ![proc[h].m].status = "active",
                               ![proc[h].m].bounces = 0]
              ELSE sub
    /\ bounced' = [bounced EXCEPT ![proc[h].row] = 0]
    /\ overtaken' = IF \E g \in Handlers : /\ At(g, "disable")
                                           /\ proc[g].row = proc[h].row
                    THEN overtaken \cup {proc[h].row}
                    ELSE overtaken \ {proc[h].row}
    /\ Done(h)
    /\ UNCHANGED <<policy, tokenOf, world, bounds, endorsed, viaBounce,
                   orphaned>>

ResetBounceCount(m) ==
    /\ sub[m].bounces > 0
    /\ sub' = [sub EXCEPT ![m].bounces = 0]
    /\ UNCHANGED <<policy, tokenOf, proc, world, bounds, history>>
-----------------------------------------------------------------------------
(***************************************************************************)
(* Owners and administrators                                               *)
(***************************************************************************)

\* AddMember, one address of an import, `subscriber add`.
AddMember(h, m) ==
    /\ At(h, "idle")
    /\ CreateSubscription(m)
    /\ proc' = [proc EXCEPT ![h].at = "activate", ![h].m = m,
                            ![h].row = lastId']
    /\ UNCHANGED <<policy, tokenOf, world, posts, faults, changes, history>>

ActivateAdded(h) ==
    /\ At(h, "activate")
    /\ SetSubscriptionStatus(h, "active")
    /\ Endorse(h)
    /\ Done(h)
    /\ UNCHANGED <<policy, tokenOf, world, bounds, viaBounce, bounced,
                   overtaken, orphaned>>

ApproveStart(h, m) ==
    /\ At(h, "idle")
    /\ sub[m].status = "held"
    /\ proc' = [proc EXCEPT ![h].at = "approve", ![h].m = m,
                            ![h].row = sub[m].id]
    /\ UNCHANGED <<table, world, bounds, history>>

ApproveSubscription(h) ==
    /\ At(h, "approve")
    /\ SetSubscriptionStatus(h, "active")
    /\ Endorse(h)
    /\ Done(h)
    /\ UNCHANGED <<policy, tokenOf, world, bounds, viaBounce, bounced,
                   overtaken, orphaned>>

RejectStart(h, m) ==
    /\ At(h, "idle")
    /\ sub[m].status = "held"
    /\ proc' = [proc EXCEPT ![h].at = "reject", ![h].m = m,
                            ![h].row = sub[m].id]
    /\ UNCHANGED <<table, world, bounds, history>>

\* The deletion is by member: whatever the row has become since, it goes.
RejectSubscription(h) ==
    /\ At(h, "reject")
    /\ DeleteSubscription(proc[h].m)
    /\ Done(h)
    /\ UNCHANGED <<policy, tokenOf, world, bounds, history>>

\* A member leaves (mail, command, web) or is removed.
Unsubscribe(m) ==
    /\ sub[m].id # 0
    /\ DeleteSubscription(m)
    /\ UNCHANGED <<policy, tokenOf, proc, world, bounds, history>>

SetPolicy(p) ==
    /\ p # policy
    /\ changes < MaxChanges
    /\ changes' = changes + 1
    /\ policy' = p
    /\ UNCHANGED <<sub, tokenOf, proc, world, lastId, posts, faults, history>>

\* A mail to m is queued under a VERP sender.
EnqueueUnderVERP(m) ==
    /\ posts < MaxPosts
    /\ posts' = posts + 1
    /\ inTransit' = [inTransit EXCEPT ![m] = @ + 1]
    /\ UNCHANGED <<table, proc, mailed, lastId, faults, changes, history>>

\* deliverToList, and the digests: a copy for an active member.
DeliverPost(m) == sub[m].status = "active" /\ EnqueueUnderVERP(m)

\* enqueueCommandReply: whoever sends a command mail gets an answer.
CommandReply(m) == EnqueueUnderVERP(m)

\* A store call fails or the process dies: the handler goes no further.
Stop(h) ==
    /\ ~At(h, "idle")
    /\ faults < MaxFaults
    /\ faults' = faults + 1
    /\ orphaned' = IF proc[h].at \in {"token", "mail", "activate"}
                   THEN orphaned \cup {proc[h].row} ELSE orphaned
    /\ Done(h)
    /\ UNCHANGED <<table, world, lastId, posts, changes, endorsed,
                   viaBounce, bounced, overtaken>>
-----------------------------------------------------------------------------
\* What a handler in progress does next.
Step(h) ==
    \/ SubscribeCreate(h) \/ SubscribeAgain(h) \/ SubscribeRefused(h)
    \/ \E t \in Tokens : CreateConfirmationToken(h, t)
    \/ EnqueueConfirmation(h)
    \/ ConfirmFind(h) \/ ConfirmPolicy(h) \/ ConfirmSubscription(h)
    \/ DeleteConfirmationToken(h)
    \/ IncrementBounceCount(h) \/ CheckThreshold(h) \/ Disable(h)
    \/ ReenableSubscription(h) \/ ActivateAdded(h)
    \/ ApproveSubscription(h) \/ RejectSubscription(h)

Requests(h, m) ==
    \/ SubscribeStart(h, m) \/ BounceArrives(h, m) \/ ReEnableStart(h, m)
    \/ AddMember(h, m) \/ ApproveStart(h, m) \/ RejectStart(h, m)

Next ==
    \/ \E h \in Handlers : Step(h) \/ Stop(h)
    \/ \E h \in Handlers, m \in Members : Requests(h, m)
    \/ \E h \in Handlers, t \in Tokens : ConfirmStart(h, t)
    \/ \E m \in Members : ResetBounceCount(m) \/ Unsubscribe(m)
                             \/ DeliverPost(m) \/ CommandReply(m)
    \/ \E p \in Policies : SetPolicy(p)

Spec == Init /\ [][Next]_vars

\* Handlers run on.  Members are as persistent as the comment on Subscribe
\* has them: they ask again and answer the confirmation mail, again and
\* again, until the request is through (strong fairness, since a free handler
\* is all they wait for).
Fairness ==
    /\ \A h \in Handlers : WF_vars(Step(h))
    /\ \A m \in Members :
          /\ SF_vars(/\ sub[m].status = "pending"
                     /\ \E h \in Handlers : SubscribeStart(h, m))
          /\ SF_vars(\E h \in Handlers, t \in Tokens :
                        tokenOf[t] = m /\ ConfirmStart(h, t))

FairSpec == Spec /\ Fairness
-----------------------------------------------------------------------------
(***************************************************************************)
(* Properties                                                              *)
(***************************************************************************)
Row(m) == sub[m].id

\* On a moderated list mail goes only to members an owner approved or added,
\* or who were confirmed while the list was not moderated, whatever tokens,
\* races and re-creations come between; bounces that reach a request before
\* its approval are the one way round it (RecordBounce, then re-enable).
ApprovedUnlessBounced ==
    \A m \in Members :
        sub[m].status = "active" => Row(m) \in endorsed \cup viaBounce

\* A subscription is disabled only after as many bounces as the threshold
\* asks for were recorded on that very subscription, not on one the member
\* had before (RecordBounce reads by member and writes by row id), and since
\* it was last re-enabled ("starts fresh", CONTEXT.md): unless that came
\* between another handler's look at the count and its update.
DisabledByOwnBounces ==
    \A m \in Members :
        sub[m].status = "disabled" =>
            bounced[Row(m)] >= Threshold \/ Row(m) \in overtaken

\* A pending request can always be confirmed: a mailed token for it is
\* stored, or a handler is about to see to it, or one stopped half-way.
\* No confirmation, late, repeated or for an earlier request, uses it up.
PendingCanConfirm ==
    \A m \in Members :
        sub[m].status = "pending" =>
            \/ \E t \in mailed : tokenOf[t] = m
            \/ \E h \in Handlers : /\ proc[h].at \in {"token", "mail",
                                                      "activate"}
                                   /\ proc[h].row = Row(m)
            \/ Row(m) \in orphaned

\* "a lost email can't permanently block a join" (Subscribe): if the member
\* keeps asking and answering, a request does not stay pending for ever
\* unless the list closes, not even when handlers stopped half-way.
JoinNotBlocked ==
    \A m \in Members :
        sub[m].status = "pending" ~> \/ sub[m].status # "pending"
                                     \/ policy = "closed"
=============================================================================
