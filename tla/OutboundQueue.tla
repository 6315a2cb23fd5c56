--------------------------- MODULE OutboundQueue ----------------------------
(***************************************************************************)
(* The outbound queue: the queued_messages table (internal/store/sqlite)   *)
(* and the worker that drains it (internal/queue/worker.go).               *)
(*                                                                         *)
(* One action per store call or SMTP conversation.  The store runs on one  *)
(* connection, so a call is atomic and anything may happen between two of  *)
(* them: other handlers enqueue, an operator discards a row or deletes a   *)
(* list from another process, the daemon crashes or is told to stop.  What *)
(* survives a restart is the table; what the worker holds is lost.         *)
(*                                                                         *)
(* Time: next_attempt is kept as "due" or "not yet due" (notDue), since a  *)
(* batch compares it with the one instant it started at.  The length of    *)
(* the backoff is abstracted, that it is positive is not.  A batch claims  *)
(* its rows in any order, where the code takes the longest due first.      *)
(***************************************************************************)
EXTENDS Naturals, FiniteSets

CONSTANTS Ids,           \* row ids the autoincrement column can issue
          Lists,         \* lists that mail is queued for
          MaxRetries,    \* queue.max_retries
          MaxSubmitted,  \* bound: messages queued by the rest of the daemon
          MaxFaults,     \* bound: crashes and failing store calls
          None           \* no row

ASSUME QueueAssumption ==
    /\ Ids \subseteq Nat
    /\ None \notin Ids
    /\ None \notin Lists
    /\ MaxRetries \in Nat \ {0}
    /\ MaxSubmitted \in Nat
    /\ MaxFaults \in Nat

VARIABLES
    \* the table
    rows,      \* ids of the rows present
    claimed,   \* rows whose claimed_at is set
    notDue,    \* rows whose next_attempt lies in the future
    retries,   \* column retries
    listOf,    \* column list_id
    posted,    \* rows with an original_sender: post deliveries
    \* the worker
    pc,        \* where processBatch stands
    cur,       \* the row it claimed, or None
    curRetries,\* q.Retries, the worker's own copy
    batch,     \* rows with next_attempt <= now, the instant the batch began
    \* what happened, for the properties
    used,      \* ids issued so far
    attempts,  \* SMTP conversations held for each row
    relayed,   \* rows for which Send returned nil
    reportOf,  \* for a failure notice, the row it reports
    abandoned, \* rows given up without a notice
    withdrawn, \* rows discarded by an operator or with their list
    stranded,  \* rows in the worker's hands when a fault struck
    faults     \* faults so far

table   == <<rows, claimed, notDue, retries, listOf, posted>>
worker  == <<pc, cur, curRetries, batch>>
history == <<used, attempts, relayed, reportOf, abandoned, withdrawn,
             stranded, faults>>
vars    == <<table, worker, history>>

PCs == {"idle", "claim", "send", "failed", "giveUp", "remove"}

QTypeOK ==
    /\ rows \subseteq used /\ used \subseteq Ids
    /\ claimed \subseteq rows /\ notDue \subseteq rows
    /\ retries \in [Ids -> 0 .. MaxRetries - 1]
    /\ listOf \in [Ids -> Lists \cup {None}]
    /\ posted \subseteq used
    /\ pc \in PCs
    /\ cur \in Ids \cup {None}
    /\ curRetries \in 0 .. MaxRetries - 1
    /\ batch \subseteq used
    /\ attempts \in [Ids -> Nat]
    /\ relayed \subseteq used
    /\ reportOf \in [Ids -> Ids \cup {None}]
    /\ abandoned \subseteq used
    /\ withdrawn \subseteq used
    /\ stranded \subseteq used
    /\ faults \in 0 .. MaxFaults

Init ==
    /\ rows = {} /\ claimed = {} /\ notDue = {} /\ posted = {}
    /\ retries = [i \in Ids |-> 0]
    /\ listOf = [i \in Ids |-> None]
    /\ pc = "idle" /\ cur = None /\ curRetries = 0 /\ batch = {}
    /\ used = {}
    /\ attempts = [i \in Ids |-> 0]
    /\ relayed = {}
    /\ reportOf = [i \in Ids |-> None]
    /\ abandoned = {} /\ withdrawn = {} /\ stranded = {}
    /\ faults = 0
-----------------------------------------------------------------------------
(***************************************************************************)
(* The rest of the daemon and the operator                                 *)
(***************************************************************************)

\* The autoincrement column issues the least id never issued before.
Fresh(n) == /\ n \in Ids \ used
            /\ \A m \in Ids \ used : n <= m

\* INSERT of a row that is due at once and unclaimed.
Insert(n, l, isPost) ==
    /\ Fresh(n)
    /\ rows' = rows \cup {n}
    /\ used' = used \cup {n}
    /\ listOf' = [listOf EXCEPT ![n] = l]
    /\ posted' = IF isPost THEN posted \cup {n} ELSE posted
    /\ UNCHANGED <<claimed, notDue, retries>>

\* A post delivery (with the poster's address) or any other mail is queued.
Enqueue(n, l, isPost) ==
    /\ Cardinality({m \in used : reportOf[m] = None}) < MaxSubmitted
    /\ Insert(n, l, isPost)
    /\ UNCHANGED <<worker, attempts, relayed, reportOf, abandoned, withdrawn,
                   stranded, faults>>

\* DELETE of a set of rows.
Delete(S) ==
    /\ rows' = rows \ S
    /\ claimed' = claimed \ S
    /\ notDue' = notDue \ S
    /\ UNCHANGED <<retries, listOf, posted>>

Withdraw(S) ==
    /\ Delete(S)
    /\ withdrawn' = withdrawn \cup S
    /\ UNCHANGED <<worker, used, attempts, relayed, reportOf, abandoned,
                   stranded, faults>>

\* `xmailman queue discard <id>`, whether or not the row is being sent.
DiscardQueued(i) == i \in rows /\ Withdraw({i})

\* Deleting a list takes its queued rows along.
DeleteList(l) ==
    LET queued == {i \in rows : listOf[i] = l}
    IN  queued # {} /\ Withdraw(queued)

\* The backoff of row i runs out.
Elapse(i) ==
    /\ i \in notDue
    /\ notDue' = notDue \ {i}
    /\ UNCHANGED <<rows, claimed, retries, listOf, posted, worker, history>>
-----------------------------------------------------------------------------
(***************************************************************************)
(* The worker                                                              *)
(***************************************************************************)

\* A store call of the worker fails (database error, cancelled context).
Fault == faults < MaxFaults /\ faults' = faults + 1

\* The ticker fires: processBatch(now) considers what is due by now.
BeginBatch ==
    /\ pc = "idle"
    /\ batch' = rows \ notDue
    /\ pc' = "claim"
    /\ UNCHANGED <<table, cur, curRetries, history>>

\* Mutation of Claimable: claimed_at is not looked at.
IgnoresClaims(i) == i \in rows \cap batch

Claimable(i) == i \in (rows \cap batch) \ claimed

ClaimNextQueued(i) ==
    /\ pc = "claim"
    /\ Claimable(i)
    /\ claimed' = claimed \cup {i}
    /\ cur' = i
    /\ curRetries' = retries[i]
    /\ pc' = "send"
    /\ UNCHANGED <<rows, notDue, retries, listOf, posted, batch, history>>

\* Nothing left to claim: back to waiting for the ticker.
EndBatch ==
    /\ pc = "claim"
    /\ \A i \in Ids : ~Claimable(i)
    /\ pc' = "idle"
    /\ batch' = {}
    /\ UNCHANGED <<table, cur, curRetries, history>>

\* The claiming transaction fails and rolls back: the batch ends.
ClaimFails ==
    /\ pc = "claim"
    /\ Fault
    /\ pc' = "idle"
    /\ batch' = {}
    /\ UNCHANGED <<table, cur, curRetries, used, attempts, relayed, reportOf,
                   abandoned, withdrawn, stranded>>

Attempt == attempts' = [attempts EXCEPT ![cur] = @ + 1]

\* Send returned nil: the MTA took the message, and QUIT was answered.
SendSucceeds ==
    /\ pc = "send"
    /\ Attempt
    /\ relayed' = relayed \cup {cur}
    /\ pc' = "remove"
    /\ UNCHANGED <<table, cur, curRetries, batch, used, reportOf, abandoned,
                   withdrawn, stranded, faults>>

\* Send returned an error.  The MTA may have taken the message all the same:
\* Send returns the error of QUIT too.
SendFails ==
    /\ pc = "send"
    /\ Attempt
    /\ pc' = "failed"
    /\ UNCHANGED <<table, cur, curRetries, batch, used, relayed, reportOf,
                   abandoned, withdrawn, stranded, faults>>

\* Mutation of GivesUp: the cap is compared with the retries so far.
GivesUpOneLate == curRetries >= MaxRetries

\* This failure was the last attempt the cap allows.
GivesUp == curRetries + 1 >= MaxRetries

\* Mutation of RequeueWithBackoff: claimed_at is not reset.
RequeueStillClaimed ==
    /\ pc = "failed"
    /\ ~GivesUp
    /\ notDue' = IF cur \in rows THEN notDue \cup {cur} ELSE notDue
    /\ retries' = IF cur \in rows THEN [retries EXCEPT ![cur] = @ + 1]
                                  ELSE retries
    /\ batch' = batch \ {cur}
    /\ pc' = "claim"
    /\ cur' = None
    /\ UNCHANGED <<rows, claimed, listOf, posted, curRetries, history>>

\* Back in the queue with one more retry; no effect on a row that is gone.
RequeueWithBackoff ==
    /\ pc = "failed"
    /\ ~GivesUp
    /\ \/ /\ cur \in rows
          /\ claimed' = claimed \ {cur}
          /\ notDue' = notDue \cup {cur}
          /\ retries' = [retries EXCEPT ![cur] = @ + 1]
       \/ /\ cur \notin rows
          /\ UNCHANGED <<claimed, notDue, retries>>
    /\ batch' = batch \ {cur}
    /\ pc' = "claim"
    /\ cur' = None
    /\ UNCHANGED <<rows, listOf, posted, curRetries, history>>

\* The update fails and is only logged: the row keeps its claim.
RequeueFails ==
    /\ pc = "failed"
    /\ ~GivesUp
    /\ Fault
    /\ stranded' = stranded \cup {cur}
    /\ pc' = "claim"
    /\ cur' = None
    /\ UNCHANGED <<table, curRetries, batch, used, attempts, relayed,
                   reportOf, abandoned, withdrawn>>

StartGivingUp ==
    /\ pc = "failed"
    /\ GivesUp
    /\ pc' = "giveUp"
    /\ UNCHANGED <<table, cur, curRetries, batch, history>>

\* Mutation of BounceToPoster: every failure is answered with a message that
\* carries an original sender in turn.
BounceAnything(n) ==
    /\ pc = "giveUp"
    /\ Insert(n, listOf[cur], TRUE)
    /\ reportOf' = [reportOf EXCEPT ![n] = cur]
    /\ pc' = "remove"
    /\ UNCHANGED <<cur, curRetries, batch, attempts, relayed, abandoned,
                   withdrawn, stranded, faults>>

\* A post is answered with a notice, which itself has no original sender.
BounceToPoster(n) ==
    /\ pc = "giveUp"
    /\ cur \in posted
    /\ Insert(n, listOf[cur], FALSE)
    /\ reportOf' = [reportOf EXCEPT ![n] = cur]
    /\ pc' = "remove"
    /\ UNCHANGED <<cur, curRetries, batch, attempts, relayed, abandoned,
                   withdrawn, stranded, faults>>

\* The insert fails and is only logged: the post is dropped all the same.
BounceFails ==
    /\ pc = "giveUp"
    /\ cur \in posted
    /\ Fault
    /\ abandoned' = abandoned \cup {cur}
    /\ stranded' = stranded \cup {cur}
    /\ pc' = "remove"
    /\ UNCHANGED <<table, cur, curRetries, batch, used, attempts, relayed,
                   reportOf, withdrawn>>

\* Mutation of Drop: posts are dropped silently as well.
DropAlways ==
    /\ pc = "giveUp"
    /\ abandoned' = abandoned \cup {cur}
    /\ pc' = "remove"
    /\ UNCHANGED <<table, cur, curRetries, batch, used, attempts, relayed,
                   reportOf, withdrawn, stranded, faults>>

\* A notification has nobody to bounce to.
Drop ==
    /\ pc = "giveUp"
    /\ cur \notin posted
    /\ abandoned' = abandoned \cup {cur}
    /\ pc' = "remove"
    /\ UNCHANGED <<table, cur, curRetries, batch, used, attempts, relayed,
                   reportOf, withdrawn, stranded, faults>>

\* The row is removed, after a success as after giving up.
MarkQueuedSent ==
    /\ pc = "remove"
    /\ Delete({cur})
    /\ pc' = "claim"
    /\ cur' = None
    /\ UNCHANGED <<curRetries, batch, history>>

\* The delete fails (ignored after a success, logged after giving up).
RemoveFails ==
    /\ pc = "remove"
    /\ Fault
    /\ stranded' = stranded \cup {cur}
    /\ pc' = "claim"
    /\ cur' = None
    /\ UNCHANGED <<table, curRetries, batch, used, attempts, relayed,
                   reportOf, abandoned, withdrawn>>

\* Mutation of Crash: start-up puts every claimed row back in the queue.
CrashReleasingClaims ==
    /\ pc # "idle"
    /\ Fault
    /\ claimed' = {}
    /\ stranded' = IF cur = None THEN stranded ELSE stranded \cup {cur}
    /\ pc' = "idle" /\ cur' = None /\ batch' = {}
    /\ UNCHANGED <<rows, notDue, retries, listOf, posted, curRetries, used,
                   attempts, relayed, reportOf, abandoned, withdrawn>>

\* The daemon dies or is shut down while the worker is busy, and is started
\* again: start-up leaves the table as it finds it.
Crash ==
    /\ pc # "idle"
    /\ Fault
    /\ stranded' = IF cur = None THEN stranded ELSE stranded \cup {cur}
    /\ pc' = "idle" /\ cur' = None /\ batch' = {}
    /\ UNCHANGED <<table, curRetries, used, attempts, relayed, reportOf,
                   abandoned, withdrawn>>
-----------------------------------------------------------------------------
WorkerNext ==
    \/ BeginBatch \/ EndBatch \/ ClaimFails
    \/ \E i \in Ids : ClaimNextQueued(i)
    \/ SendSucceeds \/ SendFails
    \/ RequeueWithBackoff \/ RequeueFails
    \/ StartGivingUp \/ BounceFails \/ Drop
    \/ \E n \in Ids : BounceToPoster(n)
    \/ MarkQueuedSent \/ RemoveFails

Environment ==
    \/ \E n \in Ids, l \in Lists, isPost \in BOOLEAN : Enqueue(n, l, isPost)
    \/ \E i \in Ids : DiscardQueued(i)
    \/ \E l \in Lists : DeleteList(l)
    \/ Crash

Next == WorkerNext \/ Environment \/ \E i \in Ids : Elapse(i)

Spec == Init /\ [][Next]_vars

\* The worker's goroutine keeps running and backoffs run out; nobody has to
\* enqueue, discard or crash.
Fairness == WF_vars(WorkerNext) /\ \A i \in Ids : WF_vars(Elapse(i))

FairSpec == Spec /\ Fairness
-----------------------------------------------------------------------------
(***************************************************************************)
(* Properties                                                              *)
(***************************************************************************)

HasNotice(m) == \E n \in used : reportOf[n] = m

\* No row is tried more often than max_retries allows, whatever crashes,
\* failing updates and restarts come between its attempts
\* (worker.go:75, RequeueWithBackoff).
AttemptsBounded == \A i \in Ids : attempts[i] <= MaxRetries

\* A failure notice is sent at most once per post, only after every attempt
\* failed, never for a message for which Send returned nil, and never about
\* another notice (worker.go:95-112): bounces cannot loop.  A message the MTA
\* took before QUIT failed (smtp.go:117) counts as failed.
NoticesAreFinal ==
    \A n \in used : LET m == reportOf[n] IN
        m # None => /\ m \in posted /\ n \notin posted
                    /\ attempts[m] = MaxRetries
                    /\ m \notin relayed
                    /\ \A k \in used : reportOf[k] = m => k = n

\* A row leaves the table only with an account of it: relayed, withdrawn, or
\* out of attempts, and then the poster's notice is already queued unless
\* queueing it failed (the order of worker.go:101 and 109).
NothingVanishes ==
    \A m \in used \ rows :
        \/ m \in relayed \cup withdrawn
        \/ /\ attempts[m] = MaxRetries
           /\ m \in posted => HasNotice(m) \/ m \in stranded

\* Once Send has returned nil the message is never sent again, not even when
\* its row outlives the success because the delete failed or the daemon
\* died first (worker.go:86 ignores the error): the claim is kept for ever.
NeverResent == [][\A m \in relayed : attempts'[m] = attempts[m]]_vars

\* Unless a fault struck while the worker held it, everything queued is
\* eventually relayed, given up on or withdrawn: a full queue drains.
EverythingSettles ==
    \A m \in Ids :
        m \in used ~> \/ m \in relayed \cup withdrawn \cup abandoned
                      \/ HasNotice(m)
                      \/ m \in stranded

\* "ensures no messages are lost during MTA downtime [...] it survives daemon
\* restarts" (ADR 0006): a queued message is eventually relayed, bounced,
\* dropped or withdrawn, crashes or not.
SurvivesRestarts ==
    \A m \in Ids :
        m \in used ~> \/ m \in relayed \cup withdrawn \cup abandoned
                      \/ HasNotice(m)

(***************************************************************************)
(* The queue implements MailFate.                                          *)
(***************************************************************************)
FateOf(m) == IF m \notin used         THEN "unborn"
             ELSE IF m \in relayed   THEN "relayed"
             ELSE IF HasNotice(m)    THEN "bounced"
             ELSE IF m \in abandoned THEN "dropped"
             ELSE IF m \in withdrawn THEN "withdrawn"
             ELSE                         "pending"

Fate == INSTANCE MailFate
            WITH fate <- [m \in Ids |-> FateOf(m)],
                 bounceable <- posted,
                 inHand <- IF pc \in {"send", "failed", "giveUp"}
                           THEN cur ELSE None

\* Every step of the queue is a step of MailFate or leaves fates alone.
ImplementsMailFate == Fate!FateSpec
=============================================================================
