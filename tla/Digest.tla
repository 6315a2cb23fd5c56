------------------------------- MODULE Digest -------------------------------
(***************************************************************************)
(* The digest worker (internal/queue/digest.go) for one list: when the     *)
(* list's watermark is a period old, claim the window up to now, compile   *)
(* what was archived since and queue it for the members on digest delivery.*)
(*                                                                         *)
(* Several instances may run it (ADR 0008), posts are archived and the     *)
(* list's settings are saved meanwhile.  As in the other modules an action *)
(* is one store call; an instance keeps what it read in work.              *)
(*                                                                         *)
(* Time: every reading of the clock is later than the one before, on one   *)
(* clock for all.  A post is stamped (time.Now) before its insert gets the *)
(* connection, so stamping and archiving are two actions.                  *)
(***************************************************************************)
EXTENDS Naturals, FiniteSets

CONSTANTS Instances,  \* digest workers
          Posts,      \* posts to the list
          Members,    \* subscribers who can choose digest delivery
          Savers,     \* handlers that can be saving settings at a time
          Periods,    \* periods of the digest frequencies
          MaxTime,    \* bound: readings of the clock
          MaxFaults,  \* bound: failing store calls and crashes
          MaxChanges  \* bound: settings saved, delivery modes changed

ASSUME DigestAssumption ==
    /\ Periods \subseteq Nat \ {0}
    /\ MaxTime \in Nat /\ MaxFaults \in Nat /\ MaxChanges \in Nat

VARIABLES
    watermark,  \* lists.last_digest_sent_at, 0: NULL
    period,     \* of settings.digest_frequency
    readers,    \* active members on digest delivery
    received,   \* received_at of each post, 0: not yet stamped
    archive,    \* posts in the archive
    clock,      \* the last reading of the clock
    work,       \* the instances of the worker
    saving,     \* the watermark each saver has read with the list's row
    \* what happened, for the bounds and the properties
    faults, changes,
    compiled,   \* instants of the digests each post was compiled into
    got,        \* members each post was queued for in a digest
    steady,     \* readers ever since a post was archived
    missed,     \* members whose digest with a post was not queued
    late,       \* posts archived behind the back of a worker or a saver
    putBack,    \* a save has put an older watermark back
    lenient     \* a claim has gone through on such a watermark, which is
                \* older than the one the instance had read

row     == <<watermark, period>>
posts   == <<received, archive>>
history == <<faults, changes, compiled, got, steady, missed, late, putBack,
             lenient>>
vars    == <<row, readers, posts, clock, work, saving, history>>

Idle   == [at |-> "idle", now |-> 0, from |-> 0, entries |-> {}, todo |-> {}]
Places == {"idle", "lists", "read", "claim", "subs", "send"}
Times  == 0 .. MaxTime

\* No saver at work.
NoSave == MaxTime + 1

DTypeOK ==
    /\ watermark \in 0 .. clock /\ period \in Periods
    /\ readers \subseteq Members
    /\ received \in [Posts -> 0 .. clock]
    /\ archive \subseteq {p \in Posts : received[p] > 0}
    /\ clock \in Times
    /\ work \in [Instances -> [at : Places, now : 0 .. clock,
                               from : 0 .. clock, entries : SUBSET Posts,
                               todo : SUBSET Members]]
    /\ saving \in [Savers -> 0 .. clock \cup {NoSave}]
    /\ faults \in 0 .. MaxFaults /\ changes \in 0 .. MaxChanges
    /\ compiled \in [Posts -> SUBSET (1 .. clock)]
    /\ got \in [Posts -> SUBSET Members]
    /\ steady \in [Posts -> SUBSET Members]
    /\ missed \in [Posts -> SUBSET Members]
    /\ late \subseteq archive
    /\ putBack \in BOOLEAN /\ lenient \in BOOLEAN

Init ==
    /\ watermark = 0 /\ period \in Periods
    /\ readers = Members
    /\ received = [p \in Posts |-> 0] /\ archive = {}
    /\ clock = 0
    /\ work = [i \in Instances |-> Idle]
    /\ saving = [s \in Savers |-> NoSave]
    /\ faults = 0 /\ changes = 0
    /\ compiled = [p \in Posts |-> {}]
    /\ got = [p \in Posts |-> {}] /\ steady = [p \in Posts |-> {}]
    /\ missed = [p \in Posts |-> {}]
    /\ late = {} /\ putBack = FALSE /\ lenient = FALSE

\* time.Now() returns t.
Now(t) == t > clock /\ clock' = t
-----------------------------------------------------------------------------
(***************************************************************************)
(* The archive, the members and the settings                               *)
(***************************************************************************)

\* ArchiveMessage takes the time of a new entry ...
StampPost(p, t) ==
    /\ received[p] = 0
    /\ Now(t)
    /\ received' = [received EXCEPT ![p] = t]
    /\ UNCHANGED <<row, readers, archive, work, saving, history>>

\* Instance i will not see p any more: it has read the archive, and means to
\* move the watermark past p.
Overtakes(i, p) == work[i].at = "claim" /\ received[p] <= work[i].now

\* Saver s holds a watermark that has passed p, and may put it back.
Holds(s, p) == saving[s] # NoSave /\ received[p] <= saving[s]

\* ... and inserts it.
ArchivePost(p) ==
    /\ received[p] > 0
    /\ p \notin archive
    /\ archive' = archive \cup {p}
    /\ late' = IF \/ received[p] <= watermark
                  \/ \E i \in Instances : Overtakes(i, p)
                  \/ \E s \in Savers : Holds(s, p)
               THEN late \cup {p} ELSE late
    /\ steady' = [steady EXCEPT ![p] = readers]
    /\ UNCHANGED <<row, readers, received, clock, work, saving, faults,
                   changes, compiled, got, missed, putBack, lenient>>

\* m joins or leaves, or switches to or from digest delivery.
ChangeMode(m) ==
    /\ changes < MaxChanges
    /\ changes' = changes + 1
    /\ \/ m \notin readers /\ readers' = readers \cup {m} /\ UNCHANGED steady
       \/ /\ m \in readers
          /\ readers' = readers \ {m}
          /\ steady' = [p \in Posts |-> steady[p] \ {m}]
    /\ UNCHANGED <<row, posts, clock, work, saving, faults, compiled, got,
                   missed, late, putBack, lenient>>

\* UpdateListSettings reads the whole row ...
LoadForSave(s) ==
    /\ saving[s] = NoSave
    /\ changes < MaxChanges
    /\ changes' = changes + 1
    /\ saving' = [saving EXCEPT ![s] = watermark]
    /\ UNCHANGED <<row, readers, posts, clock, work, faults, compiled, got,
                   steady, missed, late, putBack, lenient>>

\* ... and saves the whole row, with other settings.
SaveSettings(s, p) ==
    /\ saving[s] # NoSave
    /\ period' = p
    /\ watermark' = saving[s]
    /\ putBack' = (putBack \/ saving[s] # watermark)
    /\ saving' = [saving EXCEPT ![s] = NoSave]
    /\ UNCHANGED <<readers, posts, clock, work, faults, changes, compiled,
                   got, steady, missed, late, lenient>>
-----------------------------------------------------------------------------
(***************************************************************************)
(* The worker                                                              *)
(***************************************************************************)
At(i, place) == work[i].at = place
Done(i)      == work' = [work EXCEPT ![i] = Idle]

\* The ticker fires; processDue(now) uses this instant for all lists.
Tick(i, t) ==
    /\ At(i, "idle")
    /\ Now(t)
    /\ work' = [work EXCEPT ![i].at = "lists", ![i].now = t]
    /\ UNCHANGED <<row, readers, posts, saving, history>>

\* Mutation of digestDue: whatever the period.
AlwaysDue(now) == now > watermark

digestDue(now) == watermark = 0 \/ now >= watermark + period

\* ListLists, and whether the list is due.
LoadList(i) ==
    /\ At(i, "lists")
    /\ \/ /\ digestDue(work[i].now)
          /\ work' = [work EXCEPT ![i].at = "read", ![i].from = watermark]
       \/ /\ ~digestDue(work[i].now)
          /\ Done(i)
    /\ UNCHANGED <<row, readers, posts, clock, saving, history>>

\* Mutation of ListArchiveSince: the last period instead of all since the
\* watermark.
LastPeriodOnly(i) ==
    {p \in archive : received[p] + period > work[i].now}

ListArchiveSince(i) == {p \in archive : received[p] > work[i].from}

ReadArchive(i) ==
    /\ At(i, "read")
    /\ work' = [work EXCEPT ![i].at = "claim",
                            ![i].entries = ListArchiveSince(i)]
    /\ UNCHANGED <<row, readers, posts, clock, saving, history>>

\* Mutation of StillFrom: the update is not conditional.
ClaimAnyway(from) == TRUE

\* The condition of AdvanceDigestWatermark's update, NULL being 0: a list
\* whose watermark is NULL does not satisfy a comparison.
StillFrom(from) == IF from = 0 THEN watermark = 0
                               ELSE watermark # 0 /\ watermark <= from

AdvanceDigestWatermark(i) == watermark' = work[i].now

\* The claim succeeds; a digest of nothing is not sent.
Claim(i) ==
    /\ At(i, "claim")
    /\ StillFrom(work[i].from)
    /\ AdvanceDigestWatermark(i)
    /\ compiled' = [p \in Posts |-> IF p \in work[i].entries
                                    THEN compiled[p] \cup {work[i].now}
                                    ELSE compiled[p]]
    /\ \/ work[i].entries = {} /\ Done(i)
       \/ work[i].entries # {} /\ work' = [work EXCEPT ![i].at = "subs"]
    /\ lenient' = (lenient \/ watermark # work[i].from)
    /\ UNCHANGED <<period, readers, posts, clock, saving, faults, changes,
                   got, steady, missed, late, putBack>>

\* Another instance has the window.
ClaimLost(i) ==
    /\ At(i, "claim")
    /\ ~StillFrom(work[i].from)
    /\ Done(i)
    /\ UNCHANGED <<row, readers, posts, clock, saving, history>>

ListSubscriptions(i) ==
    /\ At(i, "subs")
    /\ work' = [work EXCEPT ![i].at = "send", ![i].todo = readers]
    /\ UNCHANGED <<row, readers, posts, clock, saving, history>>

EnqueueDigest(i, m) ==
    /\ At(i, "send")
    /\ m \in work[i].todo
    /\ got' = [p \in Posts |-> IF p \in work[i].entries
                               THEN got[p] \cup {m} ELSE got[p]]
    /\ work' = [work EXCEPT ![i].todo = @ \ {m}]
    /\ UNCHANGED <<row, readers, posts, clock, saving, faults, changes,
                   compiled, steady, missed, late, putBack, lenient>>

EndDigest(i) ==
    /\ At(i, "send")
    /\ work[i].todo = {}
    /\ Done(i)
    /\ UNCHANGED <<row, readers, posts, clock, saving, history>>

\* The members in S will not get the posts of i's digest.
Miss(i, S) == missed' = [p \in Posts |-> IF p \in work[i].entries
                                         THEN missed[p] \cup S
                                         ELSE missed[p]]

\* Mutation of EnqueueFails: the first failure ends the digest.
EnqueueFailsForAll(i, m) ==
    /\ At(i, "send")
    /\ m \in work[i].todo
    /\ faults < MaxFaults
    /\ faults' = faults + 1
    /\ Miss(i, {m})
    /\ work' = [work EXCEPT ![i].todo = {}]
    /\ UNCHANGED <<row, readers, posts, clock, saving, changes, compiled, got,
                   steady, late, putBack, lenient>>

\* One copy fails and the next is tried.
EnqueueFails(i, m) ==
    /\ At(i, "send")
    /\ m \in work[i].todo
    /\ faults < MaxFaults
    /\ faults' = faults + 1
    /\ Miss(i, {m})
    /\ work' = [work EXCEPT ![i].todo = @ \ {m}]
    /\ UNCHANGED <<row, readers, posts, clock, saving, changes, compiled, got,
                   steady, late, putBack, lenient>>

\* A store call fails and the list is left to a later tick, or the daemon
\* stops.  A window claimed by then is not compiled again (ADR 0014).
Stop(i) ==
    /\ ~At(i, "idle")
    /\ faults < MaxFaults
    /\ faults' = faults + 1
    /\ \/ At(i, "subs") /\ Miss(i, Members)
       \/ At(i, "send") /\ Miss(i, work[i].todo)
       \/ work[i].at \in {"lists", "read", "claim"} /\ UNCHANGED missed
    /\ Done(i)
    /\ UNCHANGED <<row, readers, posts, clock, saving, changes, compiled, got,
                   steady, late, putBack, lenient>>
-----------------------------------------------------------------------------
Step(i) ==
    \/ LoadList(i) \/ ReadArchive(i) \/ Claim(i) \/ ClaimLost(i)
    \/ ListSubscriptions(i) \/ EndDigest(i) \/ Stop(i)
    \/ \E m \in Members : EnqueueDigest(i, m) \/ EnqueueFails(i, m)

Next ==
    \/ \E i \in Instances : Step(i)
    \/ \E i \in Instances, t \in Times : Tick(i, t)
    \/ \E p \in Posts, t \in Times : StampPost(p, t)
    \/ \E p \in Posts : ArchivePost(p)
    \/ \E m \in Members : ChangeMode(m)
    \/ \E s \in Savers : LoadForSave(s)
    \/ \E s \in Savers, p \in Periods : SaveSettings(s, p)

Spec == Init /\ [][Next]_vars
-----------------------------------------------------------------------------
(***************************************************************************)
(* Properties                                                              *)
(***************************************************************************)

\* Digests that could have contained p when they began.
Proper(p) == {t \in compiled[p] : received[p] <= t}

\* No two instances compile a post into two digests that both began after it
\* arrived, however their reads and claims interleave, unless a save put the
\* watermark back (AdvanceDigestWatermark).  A post that arrives between the
\* beginning of a tick and its reading of the archive goes out twice.
NoDoubleSend == putBack \/ \A p \in Posts : Cardinality(Proper(p)) <= 1

\* "so multiple instances cannot send the same digest" (DigestWorker): no
\* post is in two digests that both began after it arrived.
SentOnce == \A p \in Posts : Cardinality(Proper(p)) <= 1

\* When the watermark has passed a post, the post was compiled into a digest
\* (ADR 0014: every archived post since the watermark), over crashes, lost
\* claims and periods of any length, unless its insert came after the
\* archive was read although its time stamp did not, or while a settings
\* save held a watermark past it, or a claim was let through on a watermark
\* that had moved back ("only if it is still from" is a comparison with <= in
\* the code).
CompiledUnlessLate ==
    \/ lenient
    \/ \A p \in archive \ late : received[p] <= watermark => compiled[p] # {}

\* What was compiled reaches every member who was on digest delivery all
\* along, but for copies that failed one by one or with the whole worker,
\* unless an instance is still at it (digestList).
DigestDelivered ==
    \A p \in archive :
        compiled[p] # {} =>
            \/ steady[p] \subseteq got[p] \cup missed[p]
            \/ \E i \in Instances : /\ work[i].at \in {"subs", "send"}
                                    /\ p \in work[i].entries

\* A digest closes a window at least as long as the shortest frequency, also
\* when instances start their ticks at about the same time or the watermark
\* was put back meanwhile (digestDue on a row read before the claim).  Only a
\* settings save can move the watermark on by less: it is no digest.
WindowsSpaced ==
    [][work' # work /\ watermark' > watermark /\ watermark # 0
         => \E p \in Periods : watermark' >= watermark + p]_vars
=============================================================================
