----------------------------- MODULE DigestProofs -----------------------------
(***************************************************************************)
(* The safety properties of Digest, for any number of instances, posts,    *)
(* members and savers and any set of periods.                              *)
(***************************************************************************)
EXTENDS Digest, FiniteSetTheorems, TLAPS

Works == [at : Places, now : Times, from : Times, entries : SUBSET Posts,
          todo : SUBSET Members]

\* Readings of the clock, as the clock stands.
TimesOK ==
    /\ clock \in Times /\ watermark \in 0 .. clock
    /\ \A p \in Posts : received[p] \in 0 .. clock
    /\ \A s \in Savers : saving[s] \in 0 .. clock \cup {NoSave}
    /\ \A i \in Instances : work[i].now \in 0 .. clock
                              /\ work[i].from \in 0 .. clock
    /\ \A p \in Posts : \A t \in compiled[p] : t \in 1 .. clock

TablesOK ==
    /\ period \in Periods /\ readers \subseteq Members
    /\ received \in [Posts -> Times]
    /\ saving \in [Savers -> Times \cup {NoSave}]
    /\ work \in [Instances -> Works]
    /\ archive \subseteq {p \in Posts : received[p] > 0}
    /\ faults \in 0 .. MaxFaults /\ changes \in 0 .. MaxChanges
    /\ compiled \in [Posts -> SUBSET Times]
    /\ got \in [Posts -> SUBSET Members]
    /\ steady \in [Posts -> SUBSET Members]
    /\ missed \in [Posts -> SUBSET Members]
    /\ late \subseteq archive
    /\ putBack \in BOOLEAN /\ lenient \in BOOLEAN

\* What an instance has in hand: a window at least a period long, and at the
\* claim all that came in it, but for what was archived too late to be seen.
WorkOK(i) ==
    LET w == work[i] IN
    /\ w.at # "idle" => w.now > 0
    /\ w.at \in {"read", "claim"} =>
          /\ w.from < w.now
          /\ w.from # 0 => \E p \in Periods : w.now >= w.from + p
    /\ w.entries \subseteq archive
    /\ w.at = "claim" =>
          \A p \in archive :
             /\ p \in w.entries => received[p] > w.from
             /\ p \notin late /\ received[p] > w.from
                    /\ received[p] <= w.now => p \in w.entries

\* While no save has put it back the watermark grows: no instance read a later
\* one, and no digest began after it.
Grows ==
    ~putBack =>
        /\ \A i \in Instances : work[i].at \in {"read", "claim"}
                                  => work[i].from <= watermark
        /\ \A p \in Posts : \A t \in compiled[p] : t <= watermark
        /\ \A p \in Posts : \A t, u \in Proper(p) : t = u

\* A post that came in time is in a digest when the watermark, or one that a
\* saver may put back, has passed it.
InDigest(w) ==
    \A p \in archive \ late : received[p] <= w => compiled[p] # {}

Covered ==
    ~lenient =>
        /\ InDigest(watermark)
        /\ \A s \in Savers : saving[s] # NoSave => InDigest(saving[s])

\* Somebody is at the digest with p, and means to send it to the rest.
InHands(p) ==
    \E i \in Instances :
        /\ p \in work[i].entries
        /\ \/ work[i].at = "subs"
           \/ /\ work[i].at = "send"
              /\ steady[p] \subseteq got[p] \cup missed[p] \cup work[i].todo

PostOK(p) ==
    /\ compiled[p] # {} => p \in archive
    /\ steady[p] \subseteq readers
    /\ compiled[p] # {} =>
          steady[p] \subseteq got[p] \cup missed[p] \/ InHands(p)

IInv ==
    /\ TimesOK /\ TablesOK
    /\ \A i \in Instances : WorkOK(i)
    /\ Grows /\ Covered
    /\ \A p \in Posts : PostOK(p)
-----------------------------------------------------------------------------
LEMMA InitIInv == Init => IInv
  <1> SUFFICES ASSUME Init PROVE IInv
    OBVIOUS
  <1> USE DigestAssumption DEF Init
  <1>1. TimesOK
    BY DEF TimesOK, Times, Idle, NoSave
  <1>2. TablesOK
    <2>1. Idle \in Works /\ 0 \in Times /\ NoSave \in {NoSave}
      BY DEF Idle, Works, Places, Times
    <2>2. /\ work \in [Instances -> Works]
          /\ saving \in [Savers -> Times \cup {NoSave}]
          /\ received \in [Posts -> Times]
      BY <2>1
    <2>3. faults \in 0 .. MaxFaults /\ changes \in 0 .. MaxChanges
      OBVIOUS
    <2>5. putBack \in BOOLEAN /\ lenient \in BOOLEAN
      OBVIOUS
    <2>4. /\ compiled \in [Posts -> SUBSET Times]
          /\ got \in [Posts -> SUBSET Members]
          /\ steady \in [Posts -> SUBSET Members]
          /\ missed \in [Posts -> SUBSET Members]
      OBVIOUS
    <2> QED
      BY <2>2, <2>3, <2>4, <2>5 DEF TablesOK
  <1>3. (\A i \in Instances : WorkOK(i)) /\ Grows /\ Covered
    BY DEF WorkOK, Idle, Grows, Covered, InDigest, Proper
  <1>4. \A p \in Posts : PostOK(p)
    BY DEF PostOK
  <1> QED
    BY <1>1, <1>2, <1>3, <1>4 DEF IInv


\* What an instance does to its own record; other instances stay.
LEMMA WorkMoves ==
  ASSUME TimesOK, TablesOK, NEW i \in Instances,
         Step(i) \/ \E t \in Times : Tick(i, t)
  PROVE  /\ \A j \in Instances \ {i} : work'[j] = work[j]
         /\ work' \in [Instances -> Works]
         /\ work'[i].now \in 0 .. clock' /\ work'[i].from \in 0 .. clock'
         /\ clock' \in Times /\ clock <= clock'
  <1> USE DigestAssumption DEF row, posts, history
  <1> DEFINE Goal == /\ \A j \in Instances \ {i} : work'[j] = work[j]
                     /\ work' \in [Instances -> Works]
                     /\ work'[i].now \in 0 .. clock'
                     /\ work'[i].from \in 0 .. clock'
                     /\ clock' \in Times /\ clock <= clock'
  <1>f. /\ work \in [Instances -> Works] /\ clock \in Times
        /\ work[i].now \in 0 .. clock /\ work[i].from \in 0 .. clock
        /\ watermark \in 0 .. clock /\ readers \subseteq Members
        /\ archive \subseteq Posts
    BY DEF TimesOK, TablesOK
  <1>a. ASSUME NEW w \in Works, work' = [work EXCEPT ![i] = w],
               w.now \in 0 .. clock', w.from \in 0 .. clock',
               clock' \in Times, clock <= clock'
        PROVE  Goal
    BY <1>a, <1>f
  <1>b. Done(i) /\ clock' = clock => Goal
    <2>1. Idle \in Works /\ Idle.now = 0 /\ Idle.from = 0
      BY DEF Idle, Works, Places, Times
    <2>2. clock <= clock /\ 0 \in 0 .. clock
      BY <1>f DEF Times
    <2> QED
      BY <1>a, <1>f, <2>1, <2>2 DEF Done
  <1>1. ASSUME NEW t \in Times, Tick(i, t) PROVE Goal
    <2>0. t > clock /\ clock' = t
      BY <1>1 DEF Tick, Now
    <2>1. clock <= t /\ t \in 0 .. t /\ clock' = t
      BY <1>f, <2>0 DEF Times
    <2>2. [work[i] EXCEPT !.at = "lists", !.now = t] \in Works
      BY <1>f DEF Works, Places
    <2>3. work[i].from \in 0 .. t
      BY <1>f, <2>1 DEF Times
    <2> DEFINE w == [work[i] EXCEPT !.at = "lists", !.now = t]
    <2>4. w.now = t /\ w.from = work[i].from
      BY <1>f DEF Works
    <2>5. work' = [work EXCEPT ![i] = w]
      BY <1>1, <1>f DEF Tick
    <2> HIDE DEF w
    <2> QED
      BY <1>a, <2>1, <2>2, <2>3, <2>4, <2>5 DEF w
  <1>2. ASSUME LoadList(i) PROVE Goal
    <2>1. CASE Done(i)
      BY <1>2, <1>b, <2>1 DEF LoadList
    <2>2. CASE work' = [work EXCEPT ![i].at = "read",
                                    ![i].from = watermark]
      <3> DEFINE w == [work[i] EXCEPT !.at = "read", !.from = watermark]
      <3>0. watermark \in Times
        BY <1>f DEF Times
      <3>1. w \in Works
        BY <1>f, <3>0 DEF Works, Places
      <3>2. w.now = work[i].now /\ w.from = watermark
        BY <1>f DEF Works
      <3>3. work' = [work EXCEPT ![i] = w] /\ clock' = clock
        BY <1>2, <1>f, <2>2 DEF LoadList
      <3>4. clock <= clock
        BY <1>f DEF Times
      <3> HIDE DEF w
      <3> QED
        BY <1>a, <1>f, <3>1, <3>2, <3>3, <3>4
    <2> QED
      BY <1>2, <2>1, <2>2 DEF LoadList
  <1>3. ASSUME ReadArchive(i) PROVE Goal
    <2> DEFINE w == [work[i] EXCEPT !.at = "claim",
                                    !.entries = ListArchiveSince(i)]
    <2>1. w \in Works
      BY <1>f DEF Works, Places, ListArchiveSince
    <2>2. w.now = work[i].now /\ w.from = work[i].from
      BY <1>f DEF Works
    <2>3. work' = [work EXCEPT ![i] = w] /\ clock' = clock
      BY <1>3, <1>f DEF ReadArchive
    <2>4. clock <= clock
      BY <1>f DEF Times
    <2> HIDE DEF w
    <2> QED
      BY <1>a, <1>f, <2>1, <2>2, <2>3, <2>4
  <1>4. ASSUME \E place \in Places, T \in SUBSET Members :
                  work' = [work EXCEPT ![i].at = place, ![i].todo = T],
               clock' = clock
        PROVE  Goal
    <2>1. PICK place \in Places, T \in SUBSET Members :
             work' = [work EXCEPT ![i].at = place, ![i].todo = T]
      BY <1>4
    <2> DEFINE w == [work[i] EXCEPT !.at = place, !.todo = T]
    <2>2. w \in Works
      BY <1>f DEF Works
    <2>3. w.now = work[i].now /\ w.from = work[i].from
      BY <1>f DEF Works
    <2>4. work' = [work EXCEPT ![i] = w]
      BY <1>f, <2>1
    <2>5. clock <= clock
      BY <1>f DEF Times
    <2> HIDE DEF w
    <2> QED
      BY <1>4, <1>a, <1>f, <2>2, <2>3, <2>4, <2>5
  <1> HIDE DEF Goal
  <1>5. ASSUME ListSubscriptions(i) PROVE Goal
    BY <1>4, <1>5, <1>f DEF ListSubscriptions, Places
  <1>6. ASSUME NEW m \in Members, EnqueueDigest(i, m) \/ EnqueueFails(i, m)
        PROVE  Goal
    <2>1. work[i].todo \ {m} \in SUBSET Members /\ work[i].at \in Places
      BY <1>f DEF Works
    <2>2. work' = [work EXCEPT ![i].at = work[i].at,
                               ![i].todo = work[i].todo \ {m}]
      BY <1>6, <1>f DEF EnqueueDigest, EnqueueFails, Works
    <2>3. clock' = clock
      BY <1>6 DEF EnqueueDigest, EnqueueFails
    <2> QED
      BY <1>4, <2>1, <2>2, <2>3
  <1>7. ASSUME Claim(i) PROVE Goal
    <2>1. CASE Done(i)
      BY <1>7, <1>b, <2>1 DEF Claim
    <2>2. CASE work' = [work EXCEPT ![i].at = "subs"]
      <3>1. work' = [work EXCEPT ![i].at = "subs",
                                 ![i].todo = work[i].todo]
        BY <1>f, <2>2 DEF Works
      <3>2. work[i].todo \in SUBSET Members
        BY <1>f DEF Works
      <3> QED
        BY <1>4, <1>7, <3>1, <3>2 DEF Claim, Places
    <2> QED
      BY <1>7, <2>1, <2>2 DEF Claim
  <1>8. Goal
    BY <1>1, <1>2, <1>3, <1>5, <1>6, <1>7, <1>b
    DEF Step, ClaimLost, EndDigest, Stop
  <1> QED
    BY <1>8 DEF Goal

\* The steps of the others leave the worker's instances alone.
LEMMA Moves ==
  ASSUME [Next]_vars
  PROVE  \/ work' = work
         \/ \E i \in Instances : Step(i) \/ \E t \in Times : Tick(i, t)
  BY DEF Next, StampPost, ArchivePost, ChangeMode, LoadForSave, SaveSettings,
         vars

\* Time passes; posts keep their stamps and stay in the archive and in the
\* digests they are in.
LEMMA Accrues ==
  ASSUME TimesOK, TablesOK, [Next]_vars
  PROVE  /\ clock' \in Times /\ clock <= clock'
         /\ archive \subseteq archive' /\ late \subseteq late'
         /\ \A p \in Posts : received'[p] = received[p] \/ received[p] = 0
         /\ \A p \in Posts : compiled[p] \subseteq compiled'[p]
  <1> USE DEF row, posts, history
  <1> DEFINE Goal ==
         /\ clock' \in Times /\ clock <= clock'
         /\ archive \subseteq archive' /\ late \subseteq late'
         /\ \A p \in Posts : received'[p] = received[p] \/ received[p] = 0
         /\ \A p \in Posts : compiled[p] \subseteq compiled'[p]
  <1>f. /\ clock \in Times /\ received \in [Posts -> Times]
        /\ compiled \in [Posts -> SUBSET Times]
    BY DEF TimesOK, TablesOK
  <1>g. clock <= clock
    BY <1>f, DigestAssumption DEF Times
  <1>h. \A t \in Times : Now(t) => clock' \in Times /\ clock <= clock'
    BY <1>f, DigestAssumption DEF Times, Now
  <1>1. ASSUME UNCHANGED <<clock, archive, late, received, compiled>>
        PROVE  Goal
    BY <1>1, <1>f, <1>g
  <1>2. ASSUME NEW p \in Posts, NEW t \in Times, StampPost(p, t) PROVE Goal
    BY <1>2, <1>f, <1>h DEF StampPost
  <1>3. ASSUME NEW p \in Posts, ArchivePost(p) PROVE Goal
    BY <1>3, <1>f, <1>g DEF ArchivePost
  <1>4. ASSUME NEW i \in Instances, NEW t \in Times, Tick(i, t) PROVE Goal
    BY <1>4, <1>f, <1>h DEF Tick
  <1>5. ASSUME NEW i \in Instances, Claim(i) PROVE Goal
    BY <1>5, <1>f, <1>g DEF Claim
  <1> HIDE DEF Goal
  <1>6. ASSUME NEW i \in Instances, Step(i) PROVE Goal
    BY <1>1, <1>5, <1>6 DEF Step, LoadList, ReadArchive, ClaimLost,
       ListSubscriptions, EndDigest, Stop, EnqueueDigest, EnqueueFails, Miss
  <1>7. ASSUME \/ \E m \in Members : ChangeMode(m)
               \/ \E s \in Savers : LoadForSave(s)
               \/ \E s \in Savers, p \in Periods : SaveSettings(s, p)
               \/ UNCHANGED vars
        PROVE  Goal
    BY <1>1, <1>7 DEF ChangeMode, LoadForSave, SaveSettings, vars
  <1>8. Goal
    BY <1>2, <1>3, <1>4, <1>6, <1>7 DEF Next
  <1> QED
    BY <1>8 DEF Goal

\* Every time on record is one the clock has shown.
LEMMA TimesStay ==
  ASSUME IInv, [Next]_vars PROVE TimesOK'
  <1> USE DEF row, posts, history
  <1>f. TimesOK /\ TablesOK /\ \A i \in Instances : WorkOK(i)
    BY DEF IInv
  <1>c. clock' \in Times /\ clock <= clock' /\ clock \in Nat /\ clock' \in Nat
    BY <1>f, Accrues, DigestAssumption DEF TimesOK, Times
  <1>d. 0 .. clock \subseteq 0 .. clock' /\ 1 .. clock \subseteq 1 .. clock'
    BY <1>c
  <1>e. NoSave \notin 0 .. clock /\ NoSave \notin 0 .. clock'
    BY <1>c, <1>f, DigestAssumption DEF TimesOK, Times, NoSave
  <1>1. watermark' \in 0 .. clock'
    <2>1. \/ watermark' = watermark
          \/ \E i \in Instances : watermark' = work[i].now
          \/ \E s \in Savers : saving[s] # NoSave /\ watermark' = saving[s]
      BY DEF Next, Step, Tick, StampPost, ArchivePost, ChangeMode,
             LoadForSave, SaveSettings, LoadList, ReadArchive, Claim,
             AdvanceDigestWatermark, ClaimLost, ListSubscriptions, EndDigest,
             Stop, EnqueueDigest, EnqueueFails, vars
    <2> QED
      BY <1>d, <1>f, <2>1 DEF TimesOK
  <1>2. \A p \in Posts : received'[p] \in 0 .. clock'
    <2>1. \A p \in Posts : received'[p] \in {received[p], clock'}
      <3>1. ASSUME NEW p \in Posts, NEW t \in Times, StampPost(p, t)
            PROVE  \A q \in Posts : received'[q] \in {received[q], clock'}
        BY <1>f, <3>1 DEF StampPost, Now, TablesOK
      <3>2. received' = received
               => \A q \in Posts : received'[q] \in {received[q], clock'}
        OBVIOUS
      <3>3. \/ received' = received
            \/ \E p \in Posts, t \in Times : StampPost(p, t)
        BY DEF Next, Step, Tick, ArchivePost, ChangeMode, LoadForSave,
               SaveSettings, LoadList, ReadArchive, Claim, ClaimLost,
               ListSubscriptions, EndDigest, Stop, EnqueueDigest,
               EnqueueFails, vars
      <3> QED
        BY <3>1, <3>2, <3>3
    <2> QED
      BY <1>c, <1>d, <1>f, <2>1 DEF TimesOK
  <1>3. \A s \in Savers : saving'[s] \in 0 .. clock' \cup {NoSave}
    <2>1. \A s \in Savers : saving'[s] \in {saving[s], watermark, NoSave}
      <3>1. ASSUME NEW s \in Savers,
                   LoadForSave(s) \/ \E p \in Periods : SaveSettings(s, p)
            PROVE  \A r \in Savers :
                      saving'[r] \in {saving[r], watermark, NoSave}
        BY <1>f, <3>1 DEF LoadForSave, SaveSettings, TablesOK
      <3>2. saving' = saving
               => \A r \in Savers :
                      saving'[r] \in {saving[r], watermark, NoSave}
        OBVIOUS
      <3>3. \/ saving' = saving
            \/ \E s \in Savers :
                  LoadForSave(s) \/ \E p \in Periods : SaveSettings(s, p)
        BY DEF Next, Step, Tick, StampPost, ArchivePost, ChangeMode,
               LoadList, ReadArchive, Claim, ClaimLost, ListSubscriptions,
               EndDigest, Stop, EnqueueDigest, EnqueueFails, vars
      <3> QED
        BY <3>1, <3>2, <3>3
    <2> QED
      BY <1>d, <1>f, <2>1 DEF TimesOK
  <1>4. \A i \in Instances : work'[i].now \in 0 .. clock'
                               /\ work'[i].from \in 0 .. clock'
    <2>1. ASSUME NEW i \in Instances,
                 Step(i) \/ \E t \in Times : Tick(i, t),
                 NEW j \in Instances
          PROVE  work'[j].now \in 0 .. clock' /\ work'[j].from \in 0 .. clock'
      <3>1. CASE j = i
        BY <1>f, <2>1, <3>1, WorkMoves
      <3>2. CASE j # i
        <4>1. work'[j] = work[j]
          BY <1>f, <2>1, <3>2, WorkMoves
        <4> QED
          BY <1>d, <1>f, <4>1 DEF TimesOK
      <3> QED
        BY <3>1, <3>2
    <2>2. work' = work => \A i \in Instances :
             work'[i].now \in 0 .. clock' /\ work'[i].from \in 0 .. clock'
      BY <1>d, <1>f DEF TimesOK
    <2> QED
      BY <2>1, <2>2, Moves
  <1>5. \A p \in Posts : \A t \in compiled'[p] : t \in 1 .. clock'
    <2>1. ASSUME NEW i \in Instances, Claim(i), NEW p \in Posts,
                 NEW t \in compiled'[p]
          PROVE  t \in 1 .. clock'
      <3>1. t \in compiled[p] \/ t = work[i].now
        BY <2>1 DEF Claim
      <3>2. work[i].now \in 1 .. clock
        BY <1>c, <1>f, <2>1 DEF Claim, At, WorkOK, TimesOK
      <3> QED
        BY <1>d, <1>f, <3>1, <3>2 DEF TimesOK
    <2>2. compiled' = compiled =>
             \A p \in Posts : \A t \in compiled'[p] : t \in 1 .. clock'
      BY <1>d, <1>f DEF TimesOK
    <2>3. compiled' = compiled \/ \E i \in Instances : Claim(i)
      BY DEF Next, Step, Tick, StampPost, ArchivePost, ChangeMode,
             LoadForSave, SaveSettings, LoadList, ReadArchive, ClaimLost,
             ListSubscriptions, EndDigest, Stop, EnqueueDigest, EnqueueFails,
             vars
    <2> QED
      BY <2>1, <2>2, <2>3
  <1> QED
    BY <1>1, <1>2, <1>3, <1>4, <1>5, <1>c DEF TimesOK

\* The tables stay well-formed.
LEMMA TablesStay ==
  ASSUME IInv, [Next]_vars PROVE TablesOK'
  <1> USE DEF row, posts, history
  <1>f. TimesOK /\ TablesOK
    BY DEF IInv
  <1>1. period' \in Periods /\ readers' \subseteq Members
    BY <1>f DEF TablesOK, Next, Step, Tick, StampPost, ArchivePost,
       ChangeMode, LoadForSave, SaveSettings, LoadList, ReadArchive, Claim,
       ClaimLost, ListSubscriptions, EndDigest, Stop, EnqueueDigest,
       EnqueueFails, vars
  <1>2. received' \in [Posts -> Times]
    BY <1>f DEF TablesOK, Next, Step, Tick, StampPost, ArchivePost,
       ChangeMode, LoadForSave, SaveSettings, LoadList, ReadArchive, Claim,
       ClaimLost, ListSubscriptions, EndDigest, Stop, EnqueueDigest,
       EnqueueFails, vars
  <1>3. saving' \in [Savers -> Times \cup {NoSave}]
    <2>1. watermark \in Times
      BY <1>f, DigestAssumption DEF TimesOK, Times
    <2> QED
      BY <1>f, <2>1 DEF TablesOK, Next, Step, Tick, StampPost, ArchivePost,
         ChangeMode, LoadForSave, SaveSettings, LoadList, ReadArchive, Claim,
         ClaimLost, ListSubscriptions, EndDigest, Stop, EnqueueDigest,
         EnqueueFails, vars
  <1>4. work' \in [Instances -> Works]
    BY <1>f, Moves, WorkMoves DEF TablesOK
  <1>5. archive' \subseteq {p \in Posts : received'[p] > 0}
    <2>1. \A p \in Posts : received[p] > 0 => received'[p] = received[p]
      BY <1>f, Accrues DEF TablesOK, Times
    <2>2. \A p \in archive' : p \in Posts /\ received[p] > 0
      BY ZenonT(60), <1>f
      DEF TablesOK, Next, Step, Tick, StampPost, ArchivePost,
         ChangeMode, LoadForSave, SaveSettings, LoadList, ReadArchive, Claim,
         ClaimLost, ListSubscriptions, EndDigest, Stop, EnqueueDigest,
         EnqueueFails, vars
    <2> QED
      BY <2>1, <2>2
  <1>6. faults' \in 0 .. MaxFaults
    <2>1. \/ faults' = faults
          \/ faults < MaxFaults /\ faults' = faults + 1
      BY ZenonT(60)
      DEF Next, Step, Tick, StampPost, ArchivePost, ChangeMode,
             LoadForSave, SaveSettings, LoadList, ReadArchive, Claim,
             ClaimLost, ListSubscriptions, EndDigest, Stop, EnqueueDigest,
             EnqueueFails, vars
    <2>2. faults \in 0 .. MaxFaults
      BY <1>f DEF TablesOK
    <2> QED
      BY <2>1, <2>2, DigestAssumption
  <1>7. changes' \in 0 .. MaxChanges
    <2>1. \/ changes' = changes
          \/ changes < MaxChanges /\ changes' = changes + 1
      BY DEF Next, Step, Tick, StampPost, ArchivePost, ChangeMode,
             LoadForSave, SaveSettings, LoadList, ReadArchive, Claim,
             ClaimLost, ListSubscriptions, EndDigest, Stop, EnqueueDigest,
             EnqueueFails, vars
    <2>2. changes \in 0 .. MaxChanges
      BY <1>f DEF TablesOK
    <2> QED
      BY <2>1, <2>2, DigestAssumption
  <1>8. compiled' \in [Posts -> SUBSET Times]
    <2>1. ASSUME NEW i \in Instances, Claim(i)
          PROVE  compiled' \in [Posts -> SUBSET Times]
      <3>1. work[i].now \in Times
        BY <1>f DEF TablesOK, Works
      <3> QED
        BY <1>f, <2>1, <3>1 DEF Claim, TablesOK
    <2>2. compiled' = compiled \/ \E i \in Instances : Claim(i)
      BY DEF Next, Step, Tick, StampPost, ArchivePost, ChangeMode,
             LoadForSave, SaveSettings, LoadList, ReadArchive, ClaimLost,
             ListSubscriptions, EndDigest, Stop, EnqueueDigest, EnqueueFails,
             vars
    <2> QED
      BY <1>f, <2>1, <2>2 DEF TablesOK
  <1>9. got' \in [Posts -> SUBSET Members]
    <2>1. ASSUME NEW i \in Instances, NEW m \in Members, EnqueueDigest(i, m)
          PROVE  got' \in [Posts -> SUBSET Members]
      BY <1>f, <2>1 DEF EnqueueDigest, TablesOK
    <2>2. \/ got' = got
          \/ \E i \in Instances, m \in Members : EnqueueDigest(i, m)
      BY DEF Next, Step, Tick, StampPost, ArchivePost, ChangeMode,
             LoadForSave, SaveSettings, LoadList, ReadArchive, ClaimLost,
             Claim, ListSubscriptions, EndDigest, Stop, EnqueueFails, vars
    <2> QED
      BY <1>f, <2>1, <2>2 DEF TablesOK
  <1>10. steady' \in [Posts -> SUBSET Members]
    <2>1. ASSUME NEW p \in Posts, ArchivePost(p)
          PROVE  steady' \in [Posts -> SUBSET Members]
      BY <1>f, <2>1 DEF ArchivePost, TablesOK
    <2>2. ASSUME NEW m \in Members, ChangeMode(m)
          PROVE  steady' \in [Posts -> SUBSET Members]
      BY <1>f, <2>2 DEF ChangeMode, TablesOK
    <2>3. \/ steady' = steady \/ \E p \in Posts : ArchivePost(p)
          \/ \E m \in Members : ChangeMode(m)
      BY DEF Next, Step, Tick, StampPost, LoadForSave, SaveSettings,
             LoadList, ReadArchive, ClaimLost, Claim, ListSubscriptions,
             EndDigest, Stop, EnqueueDigest, EnqueueFails, vars
    <2> QED
      BY <1>f, <2>1, <2>2, <2>3 DEF TablesOK
  <1>11. missed' \in [Posts -> SUBSET Members]
    <2>1. ASSUME NEW i \in Instances, NEW S \in SUBSET Members, Miss(i, S)
          PROVE  missed' \in [Posts -> SUBSET Members]
      BY <1>f, <2>1 DEF Miss, TablesOK
    <2>2. \A i \in Instances : work[i].todo \in SUBSET Members
      BY <1>f DEF TablesOK, Works
    <2>3. \/ missed' = missed
          \/ \E i \in Instances, S \in SUBSET Members : Miss(i, S)
      BY <2>2 DEF Next, Step, Tick, StampPost, ArchivePost, ChangeMode,
             LoadForSave, SaveSettings, LoadList, ReadArchive, ClaimLost,
             Claim, ListSubscriptions, EndDigest, Stop, EnqueueDigest,
             EnqueueFails, vars
    <2> QED
      BY <1>f, <2>1, <2>3 DEF TablesOK
  <1>12. late' \subseteq archive'
    BY <1>f DEF TablesOK, Next, Step, Tick, StampPost, ArchivePost,
       ChangeMode, LoadForSave, SaveSettings, LoadList, ReadArchive, Claim,
       ClaimLost, ListSubscriptions, EndDigest, Stop, EnqueueDigest,
       EnqueueFails, vars
  <1>13. putBack' \in BOOLEAN /\ lenient' \in BOOLEAN
    <2>1. putBack' = putBack \/ putBack' \in BOOLEAN
      BY DEF Next, Step, Tick, StampPost, ArchivePost, ChangeMode,
             LoadForSave, SaveSettings, LoadList, ReadArchive, ClaimLost,
             Claim, ListSubscriptions, EndDigest, Stop, EnqueueDigest,
             EnqueueFails, vars
    <2>2. lenient' = lenient \/ lenient' \in BOOLEAN
      BY DEF Next, Step, Tick, StampPost, ArchivePost, ChangeMode,
             LoadForSave, SaveSettings, LoadList, ReadArchive, ClaimLost,
             Claim, ListSubscriptions, EndDigest, Stop, EnqueueDigest,
             EnqueueFails, vars
    <2> QED
      BY <1>f, <2>1, <2>2 DEF TablesOK
  <1> QED
    BY <1>1, <1>2, <1>3, <1>4, <1>5, <1>6, <1>7, <1>8, <1>9, <1>10, <1>11,
       <1>12, <1>13 DEF TablesOK

\* A post archived after an instance read the archive is late for it.
LEMMA Unseen ==
  ASSUME TablesOK, [Next]_vars, NEW p \in archive' \ archive
  PROVE  /\ received' = received /\ work' = work /\ compiled' = compiled
         /\ UNCHANGED <<watermark, saving>>
         /\ p \notin late' =>
               /\ ~(received[p] <= watermark)
               /\ \A i \in Instances : ~Overtakes(i, p)
               /\ \A s \in Savers : ~Holds(s, p)
  <1> USE DEF row, posts, history
  <1>1. PICK q \in Posts : ArchivePost(q)
    BY DEF Next, Step, Tick, StampPost, ChangeMode, LoadForSave,
           SaveSettings, LoadList, ReadArchive, Claim, ClaimLost,
           ListSubscriptions, EndDigest, Stop, EnqueueDigest, EnqueueFails,
           vars
  <1>2. q = p
    BY <1>1 DEF ArchivePost
  <1> QED
    BY <1>1, <1>2 DEF ArchivePost

\* What the instances have in hand stays true.
LEMMA WorksStay ==
  ASSUME IInv, [Next]_vars, NEW j \in Instances PROVE WorkOK(j)'
  <1> USE DEF row, posts, history
  <1>f. TimesOK /\ TablesOK /\ WorkOK(j)
    BY DEF IInv
  <1>g. /\ work \in [Instances -> Works] /\ received \in [Posts -> Times]
        /\ archive \subseteq {p \in Posts : received[p] > 0}
        /\ watermark \in Times /\ period \in Periods
        /\ Times \subseteq Nat /\ Periods \subseteq Nat \ {0}
    BY <1>f, DigestAssumption DEF TimesOK, TablesOK, Times
  <1>h. archive \subseteq archive' /\ late \subseteq late'
        /\ \A p \in archive : received'[p] = received[p]
    BY <1>f, <1>g, Accrues
  <1>1. ASSUME work'[j] = work[j] PROVE WorkOK(j)'
    <2> DEFINE w == work[j]
    <2>1. w.entries \subseteq archive
      BY <1>f DEF WorkOK
    <2>2. ASSUME w.at = "claim", NEW p \in archive'
          PROVE  /\ p \in w.entries => received'[p] > w.from
                 /\ p \notin late' /\ received'[p] > w.from
                        /\ received'[p] <= w.now => p \in w.entries
      <3>1. CASE p \in archive
        BY <1>f, <1>h, <2>2, <3>1 DEF WorkOK
      <3>2. CASE p \notin archive
        <4>1. p \notin w.entries
          BY <2>1, <3>2
        <4>2. p \notin late' => ~(received'[p] <= w.now)
          BY <1>f, <2>2, <3>2, Unseen DEF Overtakes
        <4> QED
          BY <4>1, <4>2
      <3> QED
        BY <3>1, <3>2
    <2>3. /\ w.at # "idle" => w.now > 0
          /\ w.at \in {"read", "claim"} =>
                /\ w.from < w.now
                /\ w.from # 0 => \E p \in Periods : w.now >= w.from + p
      BY <1>f DEF WorkOK
    <2> QED
      BY <1>1, <1>h, <2>1, <2>2, <2>3 DEF WorkOK
  <1>a. Done(j) => WorkOK(j)'
    BY <1>g DEF Done, Idle, WorkOK
  <1>b. ASSUME work[j].at # "idle", work'[j].at \in {"subs", "send"},
               work'[j].now = work[j].now, work'[j].entries = work[j].entries
        PROVE  WorkOK(j)'
    BY <1>b, <1>f, <1>h DEF WorkOK
  <1>2. ASSUME NEW t \in Times, Tick(j, t) PROVE WorkOK(j)'
    <2>1. /\ work'[j].at = "lists" /\ work'[j].now = t
          /\ work'[j].entries = work[j].entries /\ t > clock
      BY <1>2, <1>g DEF Tick, Works, Now
    <2>2. t > 0
      BY <1>f, <1>g, <2>1 DEF TimesOK
    <2> QED
      BY <1>f, <1>h, <2>1, <2>2 DEF WorkOK
  <1>3. ASSUME LoadList(j) PROVE WorkOK(j)'
    <2>1. CASE Done(j)
      BY <1>a, <2>1
    <2>2. CASE /\ digestDue(work[j].now)
               /\ work' = [work EXCEPT ![j].at = "read",
                                       ![j].from = watermark]
      <3>1. /\ work'[j].at = "read" /\ work'[j].from = watermark
            /\ work'[j].now = work[j].now
            /\ work'[j].entries = work[j].entries
        BY <1>g, <2>2 DEF Works
      <3>2. work[j].now > 0 /\ work[j].now \in Nat
        BY <1>3, <1>f, <1>g DEF LoadList, At, WorkOK, Works
      <3>3. watermark < work[j].now
            /\ (watermark # 0 => work[j].now >= watermark + period)
        <4>1. watermark \in Nat /\ period \in Nat /\ period > 0
          BY <1>g
        <4> QED
          BY <2>2, <3>2, <4>1 DEF digestDue
      <3> QED
        BY <1>f, <1>g, <1>h, <3>1, <3>2, <3>3 DEF WorkOK
    <2> QED
      BY <1>3, <2>1, <2>2 DEF LoadList
  <1>4. ASSUME ReadArchive(j) PROVE WorkOK(j)'
    <2>1. /\ work'[j].at = "claim" /\ work'[j].from = work[j].from
          /\ work'[j].now = work[j].now
          /\ work'[j].entries = ListArchiveSince(j)
      BY <1>4, <1>g DEF ReadArchive, Works
    <2>2. work[j].at = "read" /\ UNCHANGED <<archive, received, late>>
      BY <1>4 DEF ReadArchive, At
    <2> QED
      BY <1>f, <2>1, <2>2 DEF WorkOK, ListArchiveSince
  <1>5. ASSUME Claim(j) PROVE WorkOK(j)'
    <2>1. \/ Done(j)
          \/ /\ work'[j].at = "subs" /\ work'[j].now = work[j].now
             /\ work'[j].entries = work[j].entries
      BY <1>5, <1>g DEF Claim, Works
    <2> QED
      BY <1>5, <1>a, <1>b, <2>1 DEF Claim, At
  <1>6. ASSUME \/ ListSubscriptions(j)
               \/ \E m \in Members : EnqueueDigest(j, m) \/ EnqueueFails(j, m)
        PROVE  WorkOK(j)'
    <2>1. /\ work'[j].at = "send" /\ work'[j].now = work[j].now
          /\ work'[j].entries = work[j].entries /\ work[j].at # "idle"
      <3>1. CASE ListSubscriptions(j)
        BY <1>g, <3>1 DEF ListSubscriptions, Works, At
      <3>2. ASSUME NEW m \in Members, EnqueueDigest(j, m) \/ EnqueueFails(j, m)
            PROVE  /\ work[j].at = "send"
                   /\ work' = [work EXCEPT ![j].todo = @ \ {m}]
        BY <3>2 DEF EnqueueDigest, EnqueueFails, At
      <3> QED
        BY <1>6, <1>g, <3>1, <3>2 DEF Works
    <2> QED
      BY <1>b, <2>1
  <1>7. ASSUME Step(j) PROVE WorkOK(j)'
    BY <1>3, <1>4, <1>5, <1>6, <1>7, <1>a
    DEF Step, ClaimLost, EndDigest, Stop
  <1>8. ASSUME NEW i \in Instances, Step(i) \/ \E t \in Times : Tick(i, t)
        PROVE  WorkOK(j)'
    <2>1. CASE i = j
      BY <1>2, <1>7, <1>8, <2>1
    <2>2. CASE i # j
      BY <1>1, <1>8, <1>f, <2>2, WorkMoves
    <2> QED
      BY <2>1, <2>2
  <1> QED
    BY <1>1, <1>8, Moves

\* While no save has put it back the watermark only grows, and an instance
\* whose claim goes through has read the watermark it replaces.
LEMMA Advances ==
  ASSUME IInv, [Next]_vars, ~putBack'
  PROVE  /\ ~putBack /\ watermark <= watermark'
         /\ \A i \in Instances : Claim(i) =>
               work[i].from = watermark /\ watermark < work[i].now
  <1> USE DEF row, posts, history
  <1>f. TimesOK /\ TablesOK /\ Grows /\ \A i \in Instances : WorkOK(i)
    BY DEF IInv
  <1>g. watermark \in Nat /\ \A i \in Instances : /\ work[i].now \in Nat
                                                  /\ work[i].from \in Nat
    BY <1>f DEF TimesOK, Times
  <1>1. ~putBack
    BY DEF Next, Step, Tick, StampPost, ArchivePost, ChangeMode,
           LoadForSave, SaveSettings, LoadList, ReadArchive, Claim,
           ClaimLost, ListSubscriptions, EndDigest, Stop, EnqueueDigest,
           EnqueueFails, vars
  <1>2. ASSUME NEW i \in Instances, Claim(i)
        PROVE  work[i].from = watermark /\ watermark < work[i].now
    <2>1. work[i].from <= watermark /\ work[i].from < work[i].now
      BY <1>1, <1>2, <1>f DEF Grows, Claim, At, WorkOK
    <2>2. StillFrom(work[i].from)
      BY <1>2 DEF Claim
    <2> QED
      BY <1>g, <2>1, <2>2 DEF StillFrom
  <1>3. watermark <= watermark'
    <2>1. \/ watermark' = watermark
          \/ \E i \in Instances : Claim(i) /\ watermark' = work[i].now
      BY DEF Next, Step, Tick, StampPost, ArchivePost, ChangeMode,
             LoadForSave, SaveSettings, LoadList, ReadArchive, Claim,
             AdvanceDigestWatermark, ClaimLost, ListSubscriptions, EndDigest,
             Stop, EnqueueDigest, EnqueueFails, vars
    <2> QED
      BY <1>2, <1>g, <2>1
  <1> QED
    BY <1>1, <1>2, <1>3

LEMMA GrowsStay ==
  ASSUME IInv, [Next]_vars PROVE Grows'
  <1> USE DEF row, posts, history
  <1> SUFFICES ASSUME ~putBack' PROVE
         /\ \A i \in Instances : work'[i].at \in {"read", "claim"}
                                  => work'[i].from <= watermark'
         /\ \A p \in Posts : \A t \in compiled'[p] : t <= watermark'
         /\ \A p \in Posts : \A t, u \in Proper(p)' : t = u
    BY DEF Grows
  <1>f. TimesOK /\ TablesOK /\ Grows /\ \A i \in Instances : WorkOK(i)
    BY DEF IInv
  <1>g. /\ watermark \in Nat /\ watermark' \in Nat
        /\ \A i \in Instances : work[i].now \in Nat /\ work[i].from \in Nat
        /\ \A p \in Posts : received[p] \in Nat
        /\ \A p \in Posts : \A t \in compiled[p] : t \in Nat
        /\ work \in [Instances -> Works]
    <2>1. TimesOK'
      BY TimesStay
    <2> QED
      BY <1>f, <2>1 DEF TimesOK, TablesOK, Times
  <1>h. ~putBack /\ watermark <= watermark'
    BY Advances
  <1>i. /\ \A i \in Instances : work[i].at \in {"read", "claim"}
                                  => work[i].from <= watermark
        /\ \A p \in Posts : \A t \in compiled[p] : t <= watermark
        /\ \A p \in Posts : \A t, u \in Proper(p) : t = u
    BY <1>f, <1>h DEF Grows
  <1>1. ASSUME NEW j \in Instances, work'[j].at \in {"read", "claim"}
        PROVE  work'[j].from <= watermark'
    <2>1. \/ work'[j] = work[j]
          \/ LoadList(j) /\ work'[j].from = watermark
          \/ ReadArchive(j) /\ work'[j].from = work[j].from
      <3>1. CASE work' = work
        BY <3>1
      <3>2. ASSUME NEW i \in Instances, i # j,
                   Step(i) \/ \E t \in Times : Tick(i, t)
            PROVE  work'[j] = work[j]
        BY <1>f, <3>2, WorkMoves
      <3>3. ASSUME NEW t \in Times, Tick(j, t) PROVE FALSE
        BY <1>1, <1>g, <3>3 DEF Tick, Works
      <3>4. ASSUME Done(j) PROVE FALSE
        BY <1>1, <1>g, <3>4 DEF Done, Idle
      <3>5. ASSUME \/ Claim(j) /\ ~Done(j)
                   \/ ListSubscriptions(j)
                   \/ \E m \in Members :
                         EnqueueDigest(j, m) \/ EnqueueFails(j, m)
            PROVE  FALSE
        <4>1. CASE Claim(j) /\ ~Done(j)
          BY <1>1, <1>g, <4>1 DEF Claim, Works
        <4>2. CASE ListSubscriptions(j)
          BY <1>1, <1>g, <4>2 DEF ListSubscriptions, Works
        <4>3. ASSUME NEW m \in Members,
                     EnqueueDigest(j, m) \/ EnqueueFails(j, m)
              PROVE  FALSE
          <5>1. /\ work[j].at = "send"
                /\ work' = [work EXCEPT ![j].todo = @ \ {m}]
            BY <4>3 DEF EnqueueDigest, EnqueueFails, At
          <5> QED
            BY <1>1, <1>g, <5>1 DEF Works
        <4> QED
          BY <3>5, <4>1, <4>2, <4>3
      <3>6. CASE LoadList(j)
        BY <1>g, <3>4, <3>6 DEF LoadList, Works
      <3>7. CASE ReadArchive(j)
        BY <1>g, <3>7 DEF ReadArchive, Works
      <3>8. CASE Step(j)
        BY <3>4, <3>5, <3>6, <3>7, <3>8 DEF Step, ClaimLost, EndDigest, Stop
      <3> QED
        BY <3>1, <3>2, <3>3, <3>8, Moves
    <2>2. ReadArchive(j) => work[j].at = "read"
      BY DEF ReadArchive, At
    <2> QED
      BY <1>1, <1>g, <1>h, <1>i, <2>1, <2>2
  <1>2. ASSUME NEW p \in Posts, NEW t \in compiled'[p]
        PROVE  t <= watermark'
    <2>1. \/ t \in compiled[p]
          \/ \E i \in Instances : Claim(i) /\ t = work[i].now
      BY ZenonT(60), <1>2
      DEF Next, Step, Tick, StampPost, ArchivePost, ChangeMode,
             LoadForSave, SaveSettings, LoadList, ReadArchive, Claim,
             ClaimLost, ListSubscriptions, EndDigest, Stop, EnqueueDigest,
             EnqueueFails, vars
    <2>2. \A i \in Instances : Claim(i) => watermark' = work[i].now
      BY DEF Claim, AdvanceDigestWatermark
    <2> QED
      BY <1>g, <1>h, <1>i, <2>1, <2>2
  <1>3. ASSUME NEW p \in Posts PROVE \A t, u \in Proper(p)' : t = u
    <2>1. CASE compiled'[p] = compiled[p]
      <3>1. compiled[p] # {} => received'[p] = received[p]
        BY <1>f, Accrues DEF IInv, PostOK, TablesOK
      <3>2. Proper(p)' \subseteq Proper(p)
        BY <2>1, <3>1 DEF Proper
      <3> QED
        BY <1>i, <3>2
    <2>2. ASSUME NEW i \in Instances, Claim(i), p \in work[i].entries
          PROVE  \A t, u \in Proper(p)' : t = u
      <3>1. received[p] > work[i].from /\ received' = received
        BY <1>f, <2>2 DEF Claim, At, WorkOK
      <3>2. \A t \in compiled[p] : ~(received[p] <= t)
        BY <1>g, <1>i, <2>2, <3>1, Advances
      <3>3. compiled'[p] = compiled[p] \cup {work[i].now}
        BY <2>2 DEF Claim
      <3>4. Proper(p)' \subseteq {work[i].now}
        BY <3>1, <3>2, <3>3 DEF Proper
      <3> QED
        BY <3>4
    <2>3. \/ compiled'[p] = compiled[p]
          \/ \E i \in Instances : Claim(i) /\ p \in work[i].entries
      BY DEF Next, Step, Tick, StampPost, ArchivePost, ChangeMode,
             LoadForSave, SaveSettings, LoadList, ReadArchive, Claim,
             ClaimLost, ListSubscriptions, EndDigest, Stop, EnqueueDigest,
             EnqueueFails, vars
    <2> QED
      BY <2>1, <2>2, <2>3
  <1> QED
    BY <1>1, <1>2, <1>3

\* What the watermark passes is in a digest.
LEMMA CoveredStays ==
  ASSUME IInv, [Next]_vars PROVE Covered'
  <1> USE DEF row, posts, history
  <1> SUFFICES ASSUME ~lenient'
               PROVE  /\ InDigest(watermark)'
                      /\ \A s \in Savers :
                            saving'[s] # NoSave => InDigest(saving[s])'
    BY DEF Covered
  <1>f. TimesOK /\ TablesOK /\ Covered /\ \A i \in Instances : WorkOK(i)
    BY DEF IInv
  <1>g. /\ archive \subseteq Posts /\ received \in [Posts -> Times]
        /\ saving \in [Savers -> Times \cup {NoSave}]
        /\ \A p \in archive : received'[p] = received[p]
        /\ \A p \in Posts : compiled[p] # {} => compiled'[p] # {}
        /\ late \subseteq late'
    BY <1>f, Accrues DEF TablesOK, Times
  <1>h. /\ \A p \in Posts : received[p] \in Nat
        /\ watermark \in Nat
        /\ \A i \in Instances : work[i].now \in Nat /\ work[i].from \in Nat
    BY <1>f DEF TimesOK, Times
  <1>1. ~lenient
    BY DEF Next, Step, Tick, StampPost, ArchivePost, ChangeMode,
           LoadForSave, SaveSettings, LoadList, ReadArchive, Claim,
           ClaimLost, ListSubscriptions, EndDigest, Stop, EnqueueDigest,
           EnqueueFails, vars
  <1>2. /\ InDigest(watermark)
        /\ \A s \in Savers : saving[s] # NoSave => InDigest(saving[s])
    BY <1>1, <1>f DEF Covered
  \* A mark in use before the step.
  <1>3. ASSUME NEW w, \/ w = watermark
                      \/ \E s \in Savers : saving[s] # NoSave /\ w = saving[s],
               NEW p \in archive' \ late', received'[p] <= w
        PROVE  compiled'[p] # {}
    <2>1. InDigest(w)
      BY <1>2, <1>3
    <2>2. CASE p \in archive
      BY <1>3, <1>g, <2>1, <2>2 DEF InDigest
    <2>3. CASE p \notin archive
      BY <1>3, <1>f, <2>3, Unseen DEF Holds
    <2> QED
      BY <2>2, <2>3
  <1>4. ASSUME NEW s \in Savers, saving'[s] # NoSave,
               NEW p \in archive' \ late', received'[p] <= saving'[s]
        PROVE  compiled'[p] # {}
    <2>1. saving'[s] = saving[s] \/ saving'[s] = watermark
      <3>1. ASSUME NEW r \in Savers,
                   LoadForSave(r) \/ \E q \in Periods : SaveSettings(r, q)
            PROVE  saving'[s] = saving[s] \/ saving'[s] = watermark
        BY <1>4, <1>g, <3>1 DEF LoadForSave, SaveSettings
      <3>2. \/ saving' = saving
            \/ \E r \in Savers :
                  LoadForSave(r) \/ \E q \in Periods : SaveSettings(r, q)
        BY DEF Next, Step, Tick, StampPost, ArchivePost, ChangeMode,
               LoadList, ReadArchive, Claim, ClaimLost, ListSubscriptions,
               EndDigest, Stop, EnqueueDigest, EnqueueFails, vars
      <3> QED
        BY <3>1, <3>2
    <2> QED
      BY <1>3, <1>4, <2>1
  <1>5. ASSUME NEW i \in Instances, Claim(i), NEW p \in archive' \ late',
               received'[p] <= work[i].now
        PROVE  compiled'[p] # {}
    <2>1. /\ work[i].at = "claim" /\ watermark = work[i].from
          /\ UNCHANGED <<archive, received, late>>
      BY <1>5 DEF Claim, At
    <2>2. CASE p \in work[i].entries
      BY <1>5, <1>g, <2>1, <2>2 DEF Claim
    <2>3. CASE p \notin work[i].entries
      <3>1. received[p] <= watermark
        BY <1>5, <1>f, <1>g, <1>h, <2>1, <2>3 DEF WorkOK
      <3> QED
        BY <1>3, <1>5, <2>1, <3>1
    <2> QED
      BY <2>2, <2>3
  <1>6. ASSUME NEW p \in archive' \ late', received'[p] <= watermark'
        PROVE  compiled'[p] # {}
    <2>1. \/ watermark' = watermark
          \/ \E i \in Instances : Claim(i) /\ watermark' = work[i].now
          \/ \E s \in Savers : saving[s] # NoSave /\ watermark' = saving[s]
      BY DEF Next, Step, Tick, StampPost, ArchivePost, ChangeMode,
             LoadForSave, SaveSettings, LoadList, ReadArchive, Claim,
             AdvanceDigestWatermark, ClaimLost, ListSubscriptions, EndDigest,
             Stop, EnqueueDigest, EnqueueFails, vars
    <2> QED
      BY <1>3, <1>5, <1>6, <2>1
  <1>7. InDigest(watermark)'
    BY <1>6 DEF InDigest
  <1>8. ASSUME NEW s \in Savers, saving'[s] # NoSave
        PROVE  InDigest(saving[s])'
    BY <1>4, <1>8 DEF InDigest
  <1> QED
    BY <1>7, <1>8

\* Whoever was on digest delivery all along gets a copy, is counted as missed
\* or is still in somebody's hands.
LEMMA PostsStay ==
  ASSUME IInv, [Next]_vars, NEW p \in Posts PROVE PostOK(p)'
  <1> USE DEF row, posts, history
  <1> DEFINE Settled == steady[p] \subseteq got[p] \cup missed[p]
             Goal    == compiled'[p] # {} => (Settled \/ InHands(p))'
  <1>f. TimesOK /\ TablesOK /\ PostOK(p) /\ \A i \in Instances : WorkOK(i)
    BY DEF IInv
  <1>g. /\ work \in [Instances -> Works] /\ archive \subseteq Posts
        /\ got \in [Posts -> SUBSET Members]
        /\ steady \in [Posts -> SUBSET Members]
        /\ missed \in [Posts -> SUBSET Members]
    BY <1>f DEF TablesOK
  <1>1. compiled'[p] # {} => p \in archive'
    <2>1. \/ compiled'[p] = compiled[p]
          \/ \E i \in Instances : p \in work[i].entries
      BY DEF Next, Step, Tick, StampPost, ArchivePost, ChangeMode,
             LoadForSave, SaveSettings, LoadList, ReadArchive, Claim,
             ClaimLost, ListSubscriptions, EndDigest, Stop, EnqueueDigest,
             EnqueueFails, vars
    <2>2. archive \subseteq archive'
      BY <1>f, Accrues
    <2> QED
      BY <1>f, <2>1, <2>2 DEF PostOK, WorkOK
  <1>2. steady'[p] \subseteq readers'
    <2>1. ASSUME NEW q \in Posts, ArchivePost(q)
          PROVE  steady'[p] \subseteq readers'
      BY <1>f, <1>g, <2>1 DEF ArchivePost, PostOK
    <2>2. ASSUME NEW m \in Members, ChangeMode(m)
          PROVE  steady'[p] \subseteq readers'
      BY <1>f, <1>g, <2>2 DEF ChangeMode, PostOK
    <2>3. \/ steady' = steady /\ readers' = readers
          \/ \E q \in Posts : ArchivePost(q)
          \/ \E m \in Members : ChangeMode(m)
      BY ZenonT(60)
      DEF Next, Step, Tick, StampPost, LoadForSave, SaveSettings,
             LoadList, ReadArchive, Claim, ClaimLost, ListSubscriptions,
             EndDigest, Stop, EnqueueDigest, EnqueueFails, vars
    <2> QED
      BY <1>f, <2>1, <2>2, <2>3 DEF PostOK
  \* Steps that compile nothing and leave whoever has p in hand to it.
  <1>a. ASSUME compiled'[p] = compiled[p], steady'[p] \subseteq steady[p],
               got[p] \subseteq got'[p], missed[p] \subseteq missed'[p],
               InHands(p) => (Settled \/ InHands(p))'
        PROVE  Goal
    BY <1>a, <1>f DEF PostOK
  <1>b. ASSUME UNCHANGED <<work, compiled, got, missed>>,
               steady'[p] \subseteq steady[p]
        PROVE  Goal
    <2>1. InHands(p) => InHands(p)'
      BY <1>b DEF InHands
    <2> QED
      BY <1>a, <1>b, <2>1
  <1>3. ASSUME NEW q \in Posts, ArchivePost(q) PROVE Goal
    <2>1. CASE q = p
      BY <1>3, <1>f, <2>1 DEF ArchivePost, PostOK
    <2>2. CASE q # p
      BY <1>3, <1>b, <1>g, <2>2 DEF ArchivePost
    <2> QED
      BY <2>1, <2>2
  <1>4. ASSUME NEW m \in Members, ChangeMode(m) PROVE Goal
    BY <1>4, <1>b, <1>g DEF ChangeMode
  \* Steps of an instance i that has nothing compiled in hand.
  <1>c. ASSUME NEW i \in Instances, Step(i) \/ \E t \in Times : Tick(i, t),
               work[i].at \notin {"subs", "send"} \/ p \notin work[i].entries,
               compiled'[p] = compiled[p],
               got'[p] = got[p], missed'[p] = missed[p], steady' = steady
        PROVE  Goal
    <2>1. ASSUME NEW j \in Instances, p \in work[j].entries,
                 work[j].at \in {"subs", "send"}
          PROVE  work'[j] = work[j]
      BY <1>c, <1>f, <2>1, WorkMoves
    <2>2. InHands(p) => InHands(p)'
      BY <1>c, <2>1 DEF InHands
    <2> QED
      BY <1>a, <1>c, <2>2
  \* Steps of the one who has p in hand, at the end of which he still has, or
  \* everybody is settled.
  <1>d. ASSUME NEW i \in Instances, Step(i), p \in work[i].entries,
               compiled'[p] = compiled[p], steady' = steady,
               got[p] \subseteq got'[p], missed[p] \subseteq missed'[p],
               /\ work[i].at = "send"
               /\ steady[p] \subseteq got[p] \cup missed[p]
                                         \cup work[i].todo
               => (Settled \/ InHands(p))',
               work[i].at = "subs" => (Settled \/ InHands(p))'
        PROVE  Goal
    <2>1. ASSUME NEW j \in Instances \ {i}, p \in work[j].entries,
                 \/ work[j].at = "subs"
                 \/ /\ work[j].at = "send"
                    /\ steady[p] \subseteq got[p] \cup missed[p]
                                              \cup work[j].todo
          PROVE  InHands(p)'
      <3>1. work'[j] = work[j]
        BY <1>d, <1>f, <2>1, WorkMoves
      <3> QED
        BY <1>d, <2>1, <3>1 DEF InHands
    <2>2. InHands(p) => (Settled \/ InHands(p))'
      BY <1>d, <2>1 DEF InHands
    <2> QED
      BY <1>a, <1>d, <2>2
  <1>5. ASSUME NEW i \in Instances, Claim(i) PROVE Goal
    <2>1. CASE p \in work[i].entries
      <3>1. work' = [work EXCEPT ![i].at = "subs"]
        BY <1>5, <2>1 DEF Claim
      <3>2. InHands(p)'
        BY <1>g, <2>1, <3>1 DEF InHands, Works
      <3> QED
        BY <3>2
    <2>2. CASE p \notin work[i].entries
      <3>1. /\ compiled'[p] = compiled[p] /\ steady' = steady
            /\ UNCHANGED <<got, missed>> /\ Step(i)
        BY <1>5, <2>2 DEF Claim, Step
      <3> QED
        BY <1>c, <2>2, <3>1
    <2> QED
      BY <2>1, <2>2
  <1>6. ASSUME NEW i \in Instances, ListSubscriptions(i) PROVE Goal
    <2>1. /\ UNCHANGED <<compiled, got, missed, steady>> /\ Step(i)
          /\ work[i].at = "subs"
      BY <1>6 DEF ListSubscriptions, Step, At
    <2>2. CASE p \in work[i].entries
      <3>1. /\ work'[i].at = "send" /\ work'[i].todo = readers
            /\ work'[i].entries = work[i].entries
        BY <1>6, <1>g DEF ListSubscriptions, Works
      <3>2. InHands(p)'
        BY <1>f, <2>1, <2>2, <3>1 DEF InHands, PostOK
      <3> QED
        BY <3>2
    <2>3. CASE p \notin work[i].entries
      BY <1>c, <2>1, <2>3
    <2> QED
      BY <2>2, <2>3
  <1>7. ASSUME NEW i \in Instances, NEW m \in Members,
               EnqueueDigest(i, m) \/ EnqueueFails(i, m)
        PROVE  Goal
    <2>1. /\ UNCHANGED <<compiled, steady>> /\ Step(i)
          /\ work[i].at = "send"
          /\ work' = [work EXCEPT ![i].todo = @ \ {m}]
      BY <1>7 DEF EnqueueDigest, EnqueueFails, Step, At
    <2>2. CASE p \in work[i].entries
      <3>1. /\ work'[i].at = "send" /\ work'[i].todo = work[i].todo \ {m}
            /\ work'[i].entries = work[i].entries
        BY <1>g, <2>1 DEF Works
      <3>2. /\ got[p] \subseteq got'[p] /\ missed[p] \subseteq missed'[p]
            /\ m \in got'[p] \cup missed'[p]
        BY <1>7, <1>g, <2>2 DEF EnqueueDigest, EnqueueFails, Miss
      <3>3. steady[p] \subseteq got[p] \cup missed[p] \cup work[i].todo
               => InHands(p)'
        BY <2>1, <2>2, <3>1, <3>2 DEF InHands
      <3> HIDE DEF Goal, Settled
      <3> QED
        BY <1>d, <2>1, <2>2, <3>2, <3>3
    <2>3. CASE p \notin work[i].entries
      <3>1. got'[p] = got[p] /\ missed'[p] = missed[p]
        BY <1>7, <1>g, <2>3 DEF EnqueueDigest, EnqueueFails, Miss
      <3> QED
        BY <1>c, <2>1, <2>3, <3>1
    <2> QED
      BY <2>2, <2>3
  <1>8. ASSUME NEW i \in Instances, EndDigest(i) PROVE Goal
    <2>1. /\ UNCHANGED <<compiled, got, missed, steady>> /\ Step(i)
          /\ work[i].at = "send" /\ work[i].todo = {}
      BY <1>8 DEF EndDigest, Step, At
    <2>2. CASE p \in work[i].entries
      BY <1>d, <2>1, <2>2
    <2>3. CASE p \notin work[i].entries
      BY <1>c, <2>1, <2>3
    <2> QED
      BY <2>2, <2>3
  <1>9. ASSUME NEW i \in Instances, Stop(i) PROVE Goal
    <2>1. UNCHANGED <<compiled, got, steady>> /\ Step(i)
      BY <1>9 DEF Stop, Step
    <2>2. CASE p \in work[i].entries /\ work[i].at \in {"subs", "send"}
      <3>1. PICK S \in SUBSET Members :
               /\ missed'[p] = missed[p] \cup S
               /\ work[i].at = "subs" => S = Members
               /\ work[i].at = "send" => S = work[i].todo
        <4>1. work[i].todo \in SUBSET Members
          BY <1>g DEF Works
        <4> QED
          BY <1>9, <2>2, <4>1 DEF Stop, At, Miss
      <3>2. work[i].at = "subs" => Settled'
        BY <1>g, <2>1, <3>1
      <3>3. /\ work[i].at = "send"
            /\ steady[p] \subseteq got[p] \cup missed[p] \cup work[i].todo
            => Settled'
        BY <2>1, <3>1
      <3> HIDE DEF Goal, Settled
      <3> QED
        BY <1>d, <2>1, <2>2, <3>1, <3>2, <3>3
    <2>3. CASE p \notin work[i].entries \/ work[i].at \notin {"subs", "send"}
      <3>1. missed'[p] = missed[p]
        BY <1>9, <1>g, <2>3 DEF Stop, At, Miss
      <3> QED
        BY <1>c, <2>1, <2>3, <3>1
    <2> QED
      BY <2>2, <2>3
  <1>10. ASSUME NEW i \in Instances,
                \/ LoadList(i) \/ ReadArchive(i) \/ ClaimLost(i)
                \/ \E t \in Times : Tick(i, t)
         PROVE  Goal
    <2>1. /\ Step(i) \/ \E t \in Times : Tick(i, t)
          /\ work[i].at \notin {"subs", "send"}
          /\ UNCHANGED <<compiled, got, missed, steady>>
      BY <1>10 DEF Step, LoadList, ReadArchive, ClaimLost, Tick, At
    <2> QED
      BY <1>c, <2>1
  <1>11. ASSUME \/ \E q \in Posts, t \in Times : StampPost(q, t)
                \/ \E s \in Savers : LoadForSave(s)
                \/ \E s \in Savers, q \in Periods : SaveSettings(s, q)
                \/ UNCHANGED vars
         PROVE  Goal
    BY <1>11, <1>b DEF StampPost, LoadForSave, SaveSettings, vars
  <1> HIDE DEF Goal
  <1>12. Goal
    BY <1>3, <1>4, <1>5, <1>6, <1>7, <1>8, <1>9, <1>10, <1>11
    DEF Next, Step
  <1> QED
    BY <1>1, <1>2, <1>12 DEF Goal, PostOK

LEMMA NextIInv == IInv /\ [Next]_vars => IInv'
  <1> SUFFICES ASSUME IInv, [Next]_vars PROVE IInv'
    OBVIOUS
  <1>1. TimesOK' /\ TablesOK' /\ Grows' /\ Covered'
    BY TimesStay, TablesStay, GrowsStay, CoveredStays
  <1>2. \A i \in Instances : WorkOK(i)'
    BY WorksStay
  <1>3. \A p \in Posts : PostOK(p)'
    BY PostsStay
  <1> QED
    BY <1>1, <1>2, <1>3 DEF IInv

LEMMA AlwaysIInv == Spec => []IInv
  BY InitIInv, NextIInv, PTL DEF Spec
-----------------------------------------------------------------------------
\* The tables and the instances' records are well-formed in every run; no time
\* on record lies ahead of the clock.
THEOREM TypeCorrect == Spec => []DTypeOK
  <1>1. IInv => DTypeOK
    <2> SUFFICES ASSUME IInv PROVE DTypeOK
      OBVIOUS
    <2>1. TimesOK /\ TablesOK
      BY DEF IInv
    <2>2. received \in [Posts -> 0 .. clock]
      BY <2>1 DEF TimesOK, TablesOK
    <2>3. work \in [Instances -> [at : Places, now : 0 .. clock,
                                  from : 0 .. clock, entries : SUBSET Posts,
                                  todo : SUBSET Members]]
      <3>1. \A i \in Instances :
               work[i] \in [at : Places, now : 0 .. clock, from : 0 .. clock,
                            entries : SUBSET Posts, todo : SUBSET Members]
        BY <2>1 DEF TimesOK, TablesOK, Works
      <3> QED
        BY <2>1, <3>1 DEF TablesOK
    <2>4. saving \in [Savers -> 0 .. clock \cup {NoSave}]
      BY <2>1 DEF TimesOK, TablesOK
    <2>5. compiled \in [Posts -> SUBSET (1 .. clock)]
      BY <2>1 DEF TimesOK, TablesOK
    <2> QED
      BY <2>1, <2>2, <2>3, <2>4, <2>5 DEF TimesOK, TablesOK, DTypeOK
  <1> QED
    BY <1>1, AlwaysIInv, PTL

\* Instances that read and claim in any order compile a post into one digest
\* at most that began after it, unless a settings save puts the watermark back
\* (AdvanceDigestWatermark, ListArchiveSince).
THEOREM NoDoubleSendHolds == Spec => []NoDoubleSend
  <1>1. IInv => NoDoubleSend
    <2> SUFFICES ASSUME IInv, ~putBack, NEW p \in Posts
                 PROVE  Cardinality(Proper(p)) <= 1
      BY DEF NoDoubleSend
    <2>1. \A t, u \in Proper(p) : t = u
      BY DEF IInv, Grows
    <2>2. CASE Proper(p) = {}
      BY <2>2, FS_EmptySet
    <2>3. ASSUME NEW t \in Proper(p) PROVE Cardinality(Proper(p)) <= 1
      <3>1. Proper(p) = {t}
        BY <2>1, <2>3
      <3>2. Cardinality({t}) = 1
        BY FS_Singleton
      <3> QED
        BY <3>1, <3>2
    <2> QED
      BY <2>2, <2>3
  <1> QED
    BY <1>1, AlwaysIInv, PTL

\* What the watermark passes is in a digest, over crashes, lost claims and
\* settings saves, but for posts archived too late to be seen and claims let
\* through on a watermark put back (digestList, UpdateListSettings).
THEOREM CompiledHolds == Spec => []CompiledUnlessLate
  <1>1. IInv => CompiledUnlessLate
    BY DEF IInv, Covered, InDigest, CompiledUnlessLate
  <1> QED
    BY <1>1, AlwaysIInv, PTL

\* A digest reaches everybody who was on digest delivery all along, is counted
\* as missed, or is still being sent (digestList, ADR 0014).
THEOREM DeliveredHolds == Spec => []DigestDelivered
  <1>1. IInv => DigestDelivered
    <2> SUFFICES ASSUME IInv, NEW p \in archive, compiled[p] # {}
                 PROVE  \/ steady[p] \subseteq got[p] \cup missed[p]
                        \/ \E i \in Instances :
                              /\ work[i].at \in {"subs", "send"}
                              /\ p \in work[i].entries
      BY DEF DigestDelivered
    <2>1. PostOK(p)
      BY DEF IInv, TablesOK
    <2> QED
      BY <2>1 DEF PostOK, InHands
  <1> QED
    BY <1>1, AlwaysIInv, PTL

\* The window of a digest is at least a period long, whatever instances and
\* saves do between its reading of the row and its claim (digestDue).
THEOREM SpacedHolds == Spec => WindowsSpaced
  <1>1. ASSUME IInv, [Next]_vars, work' # work, watermark' > watermark,
               watermark # 0
        PROVE  \E p \in Periods : watermark' >= watermark + p
    <2>1. PICK i \in Instances : Claim(i)
      <3>1. watermark \in Nat
        BY <1>1 DEF IInv, TimesOK, Times
      <3>2. watermark' # watermark
        BY <1>1, <3>1
      <3>3. \/ watermark' = watermark \/ work' = work
            \/ \E i \in Instances : Claim(i)
        BY <1>1 DEF Next, Step, Tick, StampPost, ArchivePost, ChangeMode,
           LoadForSave, SaveSettings, LoadList, ReadArchive, ClaimLost,
           ListSubscriptions, EndDigest, Stop, EnqueueDigest, EnqueueFails,
           vars, row
      <3> QED
        BY <1>1, <3>2, <3>3
    <2>2. /\ watermark' = work[i].now /\ work[i].from # 0
          /\ watermark <= work[i].from /\ work[i].at = "claim"
      BY <1>1, <2>1 DEF Claim, AdvanceDigestWatermark, StillFrom, At
    <2>3. PICK p \in Periods : work[i].now >= work[i].from + p
      BY <1>1, <2>2 DEF IInv, WorkOK
    <2>4. /\ watermark \in Nat /\ work[i].now \in Nat
          /\ work[i].from \in Nat /\ p \in Nat
      BY <1>1, DigestAssumption DEF IInv, TimesOK, Times
    <2> QED
      BY <2>2, <2>3, <2>4
  <1> QED
    BY <1>1, AlwaysIInv, PTL DEF Spec, WindowsSpaced
=============================================================================
