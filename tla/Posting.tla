------------------------------ MODULE Posting -------------------------------
(***************************************************************************)
(* From the MTA to the outbound queue: a post is accepted, held for a      *)
(* moderator or refused (ProcessPost); what is accepted or approved is     *)
(* archived and fanned out to the members (deliverToList); moderators act  *)
(* on held posts by mail, on the web and on the command line, and the      *)
(* hourly sweep discards those that expired.                               *)
(*                                                                         *)
(* Handlers run concurrently, one store call at a time, as in Membership.  *)
(* A failing call makes a handler return an error; a kill makes it vanish. *)
(* The difference shows at the MTA: an error is answered 550 and the post  *)
(* is returned to its sender, silence makes the MTA deliver it again.  A   *)
(* handler whose connection is lost does not notice and works on.          *)
(***************************************************************************)
EXTENDS Naturals, FiniteSets

CONSTANTS Posts,      \* posts sent to the list
          Recipients, \* subscribers other than the posters
          SenderRoles,\* sets of roles a post's sender may have
          Handlers,   \* handlers that can be in progress at a time
          MaxHeld,    \* bound: rows ever inserted into held_messages
          MaxFaults,  \* bound: failing calls, kills, connections lost
          MaxChanges, \* bound: changes of settings and memberships
          None

HeldIds   == 1 .. MaxHeld
Decisions == {"approve", "reject", "discard"}

ASSUME PostingAssumption ==
    /\ MaxHeld \in Nat /\ MaxFaults \in Nat /\ MaxChanges \in Nat
    /\ None \notin Posts \cup Recipients \cup Decisions
    /\ SenderRoles \subseteq SUBSET {"subscriber", "owner", "designated"}

Places    == {"idle", "archive", "index", "list", "fanout", "hold", "notify",
              "refuse", "answer", "delete", "record"}

VARIABLES
    \* list settings and memberships
    listType, moderation,  \* list_type, moderation_enabled
    regular,   \* members that are active with regular delivery
    standing,  \* roles the sender of each post has on the list
    \* the tables
    held,      \* held_messages: the post of each row, or None
    archived,  \* number of archive entries of each post
    copies,    \* number of copies of a post queued for each member
    told,      \* posts whose sender has a rejection notice queued
    audit,     \* Audit Events: moderation decisions recorded on each post
    \* processes and time
    proc,      \* the handlers
    atMTA,     \* posts the MTA has yet to see answered
    expired,   \* held rows whose expires_at has passed
    \* what happened, for the bounds and the properties
    lastHeld, faults, changes,
    refused,   \* posts answered 550
    dropped,   \* posts discarded by a moderator or by the sweep
    steady,    \* members on regular delivery ever since a post was archived
    missed     \* members whose copy of a post failed to be queued

settings == <<listType, moderation, regular, standing>>
tables   == <<held, archived, copies, told, audit>>
bounds   == <<lastHeld, faults, changes>>
history  == <<refused, dropped, steady, missed>>
vars     == <<settings, tables, proc, atMTA, expired, bounds, history>>

\* peer: the MTA is there to be answered.
Idle == [at |-> "idle", post |-> None, row |-> 0, act |-> None, todo |-> {},
         peer |-> FALSE]

PTypeOK ==
    /\ listType \in {"discussion", "newsletter"} /\ moderation \in BOOLEAN
    /\ regular \subseteq Recipients
    /\ standing \in [Posts -> SenderRoles]
    /\ held \in [HeldIds -> Posts \cup {None}]
    /\ archived \in [Posts -> Nat]
    /\ copies \in [Posts -> [Recipients -> Nat]]
    /\ told \subseteq Posts
    /\ audit \in [Posts -> SUBSET Decisions]
    /\ proc \in [Handlers -> [at : Places, post : Posts \cup {None},
                              row : 0 .. MaxHeld, act : Decisions \cup {None},
                              todo : SUBSET Recipients, peer : BOOLEAN]]
    /\ \A h \in Handlers : proc[h].at \in {"delete", "record"}
                             => proc[h].row \in 1 .. lastHeld
    /\ atMTA \subseteq Posts
    /\ expired \subseteq 1 .. lastHeld
    /\ lastHeld \in 0 .. MaxHeld
    /\ faults \in 0 .. MaxFaults /\ changes \in 0 .. MaxChanges
    /\ refused \subseteq Posts /\ dropped \subseteq Posts
    /\ steady \in [Posts -> SUBSET Recipients]
    /\ missed \in [Posts -> SUBSET Recipients]

Init ==
    /\ listType \in {"discussion", "newsletter"} /\ moderation \in BOOLEAN
    /\ regular = Recipients
    /\ standing \in [Posts -> SenderRoles]
    /\ held = [i \in HeldIds |-> None]
    /\ archived = [p \in Posts |-> 0]
    /\ copies = [p \in Posts |-> [r \in Recipients |-> 0]]
    /\ told = {} /\ audit = [p \in Posts |-> {}]
    /\ proc = [h \in Handlers |-> Idle]
    /\ atMTA = Posts /\ expired = {}
    /\ lastHeld = 0 /\ faults = 0 /\ changes = 0
    /\ refused = {} /\ dropped = {}
    /\ steady = [p \in Posts |-> {}] /\ missed = [p \in Posts |-> {}]
-----------------------------------------------------------------------------
(***************************************************************************)
(* Inbound posts                                                           *)
(***************************************************************************)
At(h, place)   == proc[h].at = place
Goto(h, place) == proc' = [proc EXCEPT ![h].at = place]
Done(h)        == proc' = [proc EXCEPT ![h] = Idle]
PostOf(h)      == proc[h].post
Moderating(h)  == proc[h].act # None

\* DecidePostAction, as the handler's next place.
DecidePostAction(type, moderated, roles) ==
    CASE type = "discussion" /\ moderated -> "hold"
      [] type = "discussion" /\ ~moderated /\ "subscriber" \in roles
            -> "archive"
      [] type = "newsletter" /\ roles \cap {"owner", "designated"} # {}
            -> "archive"
      [] OTHER -> "refuse"

\* The MTA delivers p, in one attempt at a time: the list is read and the
\* policy applied.  A post over the list's size or attachment limits is
\* refused whoever sent it; and so may any other be that the policy lets
\* through by a role, for a role whose look-up fails counts as none.
Receive(h, p) ==
    /\ At(h, "idle")
    /\ p \in atMTA
    /\ \A g \in Handlers : ~(PostOf(g) = p /\ proc[g].peer)
    /\ \E turnedDown \in BOOLEAN :
          LET next == IF turnedDown THEN "refuse"
                      ELSE DecidePostAction(listType, moderation, standing[p])
          IN  /\ next = "hold" => lastHeld < MaxHeld
              /\ proc' = [proc EXCEPT ![h].at = next, ![h].post = p,
                                      ![h].peer = TRUE]
    /\ UNCHANGED <<settings, tables, atMTA, expired, bounds, history>>

\* CreateHeldMessage, with the token and expiry of the new row.
Hold(h) ==
    /\ At(h, "hold")
    /\ lastHeld < MaxHeld
    /\ lastHeld' = lastHeld + 1
    /\ held' = [held EXCEPT ![lastHeld + 1] = PostOf(h)]
    /\ Goto(h, "notify")
    /\ UNCHANGED <<settings, archived, copies, told, audit, atMTA, expired,
                   faults, changes, history>>

\* Moderators and sender are told.
Notify(h) ==
    /\ At(h, "notify")
    /\ Goto(h, "answer")
    /\ UNCHANGED <<settings, tables, atMTA, expired, bounds, history>>

\* rejectMessage, for the policy or for a moderator.
Refuse(h) ==
    /\ At(h, "refuse")
    /\ told' = told \cup {PostOf(h)}
    /\ Goto(h, IF Moderating(h) THEN "delete" ELSE "answer")
    /\ UNCHANGED <<settings, held, archived, copies, audit, atMTA, expired,
                   bounds, history>>

\* 250: the MTA, if it is there, forgets the post.
Answer(h) ==
    /\ At(h, "answer")
    /\ atMTA' = IF proc[h].peer THEN atMTA \ {PostOf(h)} ELSE atMTA
    /\ Done(h)
    /\ UNCHANGED <<settings, tables, expired, bounds, history>>
-----------------------------------------------------------------------------
(***************************************************************************)
(* deliverToList                                                           *)
(***************************************************************************)

\* ArchiveMessage is two inserts, the entry and its search text.
Archive(h) ==
    /\ At(h, "archive")
    /\ archived' = [archived EXCEPT ![PostOf(h)] = @ + 1]
    /\ steady' = IF archived[PostOf(h)] = 0
                 THEN [steady EXCEPT ![PostOf(h)] = regular] ELSE steady
    /\ Goto(h, "index")
    /\ UNCHANGED <<settings, held, copies, told, audit, atMTA, expired, bounds,
                   refused, dropped, missed>>

Index(h) ==
    /\ At(h, "index")
    /\ Goto(h, "list")
    /\ UNCHANGED <<settings, tables, atMTA, expired, bounds, history>>

\* ListSubscriptions: the fan-out works from this snapshot.
ListSubscriptions(h) ==
    /\ At(h, "list")
    /\ proc' = [proc EXCEPT ![h].at = "fanout", ![h].todo = regular]
    /\ UNCHANGED <<settings, tables, atMTA, expired, bounds, history>>

EnqueueCopy(h, r) ==
    /\ At(h, "fanout")
    /\ r \in proc[h].todo
    /\ copies' = [copies EXCEPT ![PostOf(h)][r] = @ + 1]
    /\ proc' = [proc EXCEPT ![h].todo = @ \ {r}]
    /\ UNCHANGED <<settings, held, archived, told, audit, atMTA, expired,
                   bounds, history>>

\* Mutation of EnqueueFails: the first failure ends the fan-out.
FanoutBreaks(h, r) ==
    /\ At(h, "fanout")
    /\ r \in proc[h].todo
    /\ faults < MaxFaults
    /\ faults' = faults + 1
    /\ missed' = [missed EXCEPT ![PostOf(h)] = @ \cup {r}]
    /\ proc' = [proc EXCEPT ![h].todo = {}]
    /\ UNCHANGED <<settings, tables, atMTA, expired, lastHeld, changes,
                   refused, dropped, steady>>

\* One bad recipient does not block the rest.
EnqueueFails(h, r) ==
    /\ At(h, "fanout")
    /\ r \in proc[h].todo
    /\ faults < MaxFaults
    /\ faults' = faults + 1
    /\ missed' = [missed EXCEPT ![PostOf(h)] = @ \cup {r}]
    /\ proc' = [proc EXCEPT ![h].todo = @ \ {r}]
    /\ UNCHANGED <<settings, tables, atMTA, expired, lastHeld, changes,
                   refused, dropped, steady>>

FanoutDone(h) ==
    /\ At(h, "fanout")
    /\ proc[h].todo = {}
    /\ Goto(h, IF Moderating(h) THEN "delete" ELSE "answer")
    /\ UNCHANGED <<settings, tables, atMTA, expired, bounds, history>>
-----------------------------------------------------------------------------
(***************************************************************************)
(* Moderators and the sweep                                                *)
(***************************************************************************)

\* Mutation of Decide: the row is taken out first, which would keep a second
\* decision from loading it as well.
DecideTaking(h, i, decision) ==
    /\ At(h, "idle")
    /\ held[i] # None
    /\ i \notin expired
    /\ held' = [held EXCEPT ![i] = None]
    /\ proc' = [proc EXCEPT ![h].at = CASE decision = "approve" -> "archive"
                                        [] decision = "reject"  -> "refuse"
                                        [] decision = "discard" -> "delete",
                            ![h].post = held[i],
                            ![h].row = i,
                            ![h].act = decision]
    /\ UNCHANGED <<settings, archived, copies, told, audit, atMTA, expired,
                   bounds, history>>

\* heldContext: the row is loaded and must not have expired.  Nothing keeps
\* a second decision from loading it as well.
Decide(h, i, decision) ==
    /\ At(h, "idle")
    /\ held[i] # None
    /\ i \notin expired
    /\ proc' = [proc EXCEPT ![h].at = CASE decision = "approve" -> "archive"
                                        [] decision = "reject"  -> "refuse"
                                        [] decision = "discard" -> "delete",
                            ![h].post = held[i],
                            ![h].row = i,
                            ![h].act = decision]
    /\ UNCHANGED <<settings, tables, atMTA, expired, bounds, history>>

DeleteHeldMessage(h) ==
    /\ At(h, "delete")
    /\ held' = [held EXCEPT ![proc[h].row] = None]
    /\ dropped' = IF proc[h].act = "discard" THEN dropped \cup {PostOf(h)}
                                             ELSE dropped
    /\ Goto(h, "record")
    /\ UNCHANGED <<settings, archived, copies, told, audit, atMTA, expired,
                   bounds, refused, steady, missed>>

\* CreateAuditEvent, last of all.
RecordAudit(h) ==
    /\ At(h, "record")
    /\ audit' = [audit EXCEPT ![PostOf(h)] = @ \cup {proc[h].act}]
    /\ Done(h)
    /\ UNCHANGED <<settings, held, archived, copies, told, atMTA, expired,
                   bounds, history>>

Expire(i) ==
    /\ held[i] # None
    /\ i \notin expired
    /\ expired' = expired \cup {i}
    /\ UNCHANGED <<settings, tables, proc, atMTA, bounds, history>>

\* Mutation of Sweep: the comparison with expires_at never holds.
SweepNothing == FALSE /\ UNCHANGED vars

\* DeleteExpiredHeldMessages, hourly.
Sweep ==
    LET old == {i \in expired : held[i] # None}
    IN  /\ old # {}
        /\ held' = [i \in HeldIds |-> IF i \in old THEN None ELSE held[i]]
        /\ dropped' = dropped \cup {held[i] : i \in old}
        /\ UNCHANGED <<settings, archived, copies, told, audit, proc, atMTA,
                       expired, bounds, refused, steady, missed>>
-----------------------------------------------------------------------------
(***************************************************************************)
(* Faults and changes                                                      *)
(***************************************************************************)

\* 550, if the MTA is there.
Return(h) ==
    IF proc[h].peer THEN /\ atMTA' = atMTA \ {PostOf(h)}
                         /\ refused' = refused \cup {PostOf(h)}
                    ELSE UNCHANGED <<atMTA, refused>>

\* Mutation of Fail: a moderation goes on to remove the row.
FailAndDelete(h) ==
    /\ proc[h].at \notin {"idle", "fanout", "answer"}
    /\ faults < MaxFaults
    /\ faults' = faults + 1
    /\ IF Moderating(h) THEN Goto(h, "delete") ELSE Done(h)
    /\ Return(h)
    /\ UNCHANGED <<settings, tables, expired, lastHeld, changes, dropped,
                   steady, missed>>

\* A store call fails and the handler returns the error: to the moderator,
\* or to the MTA.  (A fan-out swallows its failures.)
Fail(h) ==
    /\ proc[h].at \notin {"idle", "fanout", "answer"}
    /\ faults < MaxFaults
    /\ faults' = faults + 1
    /\ Done(h)
    /\ Return(h)
    /\ UNCHANGED <<settings, tables, expired, lastHeld, changes, dropped,
                   steady, missed>>

\* The connection is lost, or the MTA tires of waiting; the handler will not
\* know until it has an answer to write.
Lose(h) ==
    /\ proc[h].peer
    /\ faults < MaxFaults
    /\ faults' = faults + 1
    /\ proc' = [proc EXCEPT ![h].peer = FALSE]
    /\ UNCHANGED <<settings, tables, atMTA, expired, lastHeld, changes,
                   history>>

\* The process dies; the MTA keeps what it got no answer for.
Kill(h) ==
    /\ ~At(h, "idle")
    /\ faults < MaxFaults
    /\ faults' = faults + 1
    /\ Done(h)
    /\ UNCHANGED <<settings, tables, atMTA, expired, lastHeld, changes,
                   history>>

ChangeSettings(type, moderated) ==
    /\ <<type, moderated>> # <<listType, moderation>>
    /\ changes < MaxChanges
    /\ changes' = changes + 1
    /\ listType' = type /\ moderation' = moderated
    /\ UNCHANGED <<regular, standing, tables, proc, atMTA, expired, lastHeld,
                   faults, history>>

\* r joins or leaves, or switches to or from regular delivery.
ChangeDelivery(r) ==
    /\ changes < MaxChanges
    /\ changes' = changes + 1
    /\ \/ r \notin regular /\ regular' = regular \cup {r} /\ UNCHANGED steady
       \/ /\ r \in regular
          /\ regular' = regular \ {r}
          /\ steady' = [p \in Posts |-> steady[p] \ {r}]
    /\ UNCHANGED <<listType, moderation, standing, tables, proc, atMTA,
                   expired, lastHeld, faults, refused, dropped,
                   missed>>
-----------------------------------------------------------------------------
Step(h) ==
    \/ Hold(h) \/ Notify(h) \/ Refuse(h) \/ Answer(h)
    \/ Archive(h) \/ Index(h) \/ ListSubscriptions(h) \/ FanoutDone(h)
    \/ \E r \in Recipients : EnqueueCopy(h, r)
    \/ DeleteHeldMessage(h) \/ RecordAudit(h)

Next ==
    \/ \E h \in Handlers : Step(h) \/ Fail(h) \/ Kill(h) \/ Lose(h)
    \/ \E h \in Handlers, r \in Recipients : EnqueueFails(h, r)
    \/ \E h \in Handlers, p \in Posts : Receive(h, p)
    \/ \E h \in Handlers, i \in HeldIds, d \in Decisions : Decide(h, i, d)
    \/ \E i \in HeldIds : Expire(i)
    \/ Sweep
    \/ \E type \in {"discussion", "newsletter"}, moderated \in BOOLEAN :
          ChangeSettings(type, moderated)
    \/ \E r \in Recipients : ChangeDelivery(r)

Spec == Init /\ [][Next]_vars

\* Handlers run on, the MTA retries, time passes, the sweep runs hourly.  No
\* moderator has to do anything.
Fairness ==
    /\ \A h \in Handlers : WF_vars(Step(h))
    /\ \A p \in Posts : WF_vars(\E h \in Handlers : Receive(h, p))
    /\ \A i \in HeldIds : WF_vars(Expire(i))
    /\ WF_vars(Sweep)

FairSpec == Spec /\ Fairness
-----------------------------------------------------------------------------
(***************************************************************************)
(* Properties                                                              *)
(***************************************************************************)
IsHeld(p) == \E i \in HeldIds : held[i] = p

\* A post the MTA was told to forget is in the archive, in the moderation
\* queue, or was turned down with somebody knowing: its sender (notice or
\* 550) or the moderator or expiry that dropped it.  Approval and rejection
\* act before they remove the row (ApproveHeld, RejectHeld), so no error or
\* kill between the two loses the post.
NoPostLost ==
    \A p \in Posts \ atMTA :
        \/ archived[p] > 0 \/ IsHeld(p)
        \/ p \in told \cup refused \cup dropped

\* What is archived reaches every member on regular delivery since then,
\* but for copies that failed one by one, unless the MTA or the moderation
\* queue still has the post to deliver again or it was turned down
\* (deliverToList).
ArchivedIsDelivered ==
    \A p \in Posts :
        archived[p] > 0 =>
            \/ p \in atMTA \/ IsHeld(p)
            \/ p \in told \cup refused \cup dropped
            \/ \A r \in steady[p] \ missed[p] : copies[p][r] > 0

\* The audit trail claims nothing that did not happen: an approval on record
\* means the post was archived, a rejection that its sender was told, a
\* discard that the row was dropped.
AuditIsTruthful ==
    \A p \in Posts :
        /\ "approve" \in audit[p] => archived[p] > 0
        /\ "reject" \in audit[p] => p \in told
        /\ "discard" \in audit[p] => p \in dropped

\* Every post is answered, and no held row waits for ever, even if every
\* moderator stays away and handlers die now and then.
EveryPostSettles ==
    \A p \in Posts : [](p \in atMTA \/ IsHeld(p) =>
                            <>(p \notin atMTA /\ ~IsHeld(p)))
-----------------------------------------------------------------------------
(***************************************************************************)
(* Posting implements PostFate.                                            *)
(***************************************************************************)

\* The members on regular delivery ever since p was archived whose copy is
\* neither queued nor known to have failed.
Outstanding(p) == {r \in steady[p] \ missed[p] : copies[p][r] = 0}

Delivered(p) == archived[p] > 0 /\ Outstanding(p) = {}

FateOf(p) ==
    {f \in {"archived", "delivered", "told", "refused", "dropped"} :
        \/ f = "archived" /\ archived[p] > 0
        \/ f = "delivered" /\ Delivered(p)
        \/ f = "told" /\ p \in told
        \/ f = "refused" /\ p \in refused
        \/ f = "dropped" /\ p \in dropped}

Fate == INSTANCE PostFate
        WITH queue <- {p \in Posts : IsHeld(p)},
             fate  <- [p \in Posts |-> FateOf(p)]

\* Whatever overlaps, is lost or fails, every step does to a post what PostFate
\* allows, or nothing: the MTA is answered and a held row removed only when
\* the post's fate is decided, and no fate is taken back (ProcessPost,
\* ApproveHeld, RejectHeld, DiscardHeld, DeleteExpiredHeldMessages).
ImplementsPostFate == Fate!FateSpec
=============================================================================
