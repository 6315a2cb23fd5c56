---------------------------- MODULE PostingProofs ----------------------------
(***************************************************************************)
(* The safety properties of Posting, for any number of posts, members,     *)
(* handlers, held rows, faults and changes, and that it implements         *)
(* PostFate.                                                               *)
(***************************************************************************)
EXTENDS Posting, TLAPS

\* Something final became of p.
Decided(p) == p \in told \cup refused \cup dropped \/ Delivered(p)

\* The MTA may forget p.
Settled(p) == IsHeld(p) \/ Decided(p)

\* The places at which a handler works through deliverToList.
Delivering == {"archive", "index", "list", "fanout"}

Requests == [at : Places, post : Posts \cup {None}, row : 0 .. MaxHeld,
             act : Decisions \cup {None}, todo : SUBSET Recipients,
             peer : BOOLEAN]

\* What a handler's place says of its request.
WellFormed(q) ==
    /\ q.at # "idle" => q.post \in Posts
    /\ q.at \in {"idle", "hold", "notify", "answer"} => q.act = None
    /\ q.at \in Delivering => q.act \in {None, "approve"}
    /\ q.at = "refuse" => q.act \in {None, "reject"}
    /\ q.at \in {"delete", "record"} => q.act \in Decisions
    /\ q.act # None => /\ q.row \in 1 .. lastHeld
                       /\ held[q.row] \in {None, q.post}

\* What a handler's place says of what it has done so far.
Earned(q) ==
    /\ q.at \in {"index", "list", "fanout"} => archived[q.post] > 0
    /\ q.at = "fanout" => Outstanding(q.post) \subseteq q.todo
    /\ q.at \in {"notify", "answer"} => Settled(q.post)
    /\ q.at \in {"delete", "record"} =>
          /\ q.act = "approve" => Delivered(q.post)
          /\ q.act = "reject" => q.post \in told
    /\ q.at = "record" /\ q.act = "discard" => q.post \in dropped

Sound(q) == q \in Requests /\ WellFormed(q) /\ Earned(q)

HandlersOK == /\ proc \in [Handlers -> Requests]
              /\ \A h \in Handlers : Sound(proc[h])

\* PTypeOK but for the handlers, in two parts.
SettingsOK ==
    /\ listType \in {"discussion", "newsletter"} /\ moderation \in BOOLEAN
    /\ regular \subseteq Recipients
    /\ standing \in [Posts -> SenderRoles]
    /\ faults \in 0 .. MaxFaults /\ changes \in 0 .. MaxChanges

TablesOK ==
    /\ held \in [HeldIds -> Posts \cup {None}]
    /\ archived \in [Posts -> Nat]
    /\ copies \in [Posts -> [Recipients -> Nat]]
    /\ told \subseteq Posts
    /\ audit \in [Posts -> SUBSET Decisions]
    /\ atMTA \subseteq Posts
    /\ expired \subseteq 1 .. lastHeld
    /\ lastHeld \in 0 .. MaxHeld
    /\ refused \subseteq Posts /\ dropped \subseteq Posts
    /\ steady \in [Posts -> SUBSET Recipients]
    /\ missed \in [Posts -> SUBSET Recipients]

\* Ids not yet given to a row hold nothing, who is steady is on regular
\* delivery, the record is true, and what the MTA forgot is settled.
Coherent ==
    /\ \A i \in HeldIds : i > lastHeld => held[i] = None
    /\ \A p \in Posts : steady[p] \subseteq regular
    /\ AuditIsTruthful
    /\ \A p \in Posts \ atMTA : Settled(p)

IInv == SettingsOK /\ TablesOK /\ Coherent /\ HandlersOK
-----------------------------------------------------------------------------
\* What every step keeps of the tables, as far as a handler relies on them.
Keeps ==
    /\ lastHeld <= lastHeld'
    /\ \A i \in 1 .. lastHeld : held'[i] \in {held[i], None}
    /\ told \subseteq told' /\ refused \subseteq refused'
    /\ dropped \subseteq dropped'
    /\ \A p \in Posts : archived[p] > 0 =>
          archived'[p] > 0 /\ Outstanding(p)' \subseteq Outstanding(p)
    /\ \A p \in Posts : IsHeld(p) => Settled(p)'
    /\ \A i \in 1 .. lastHeld, p \in Posts :
          held[i] = p => held'[i] = p \/ Decided(p)'

\* No row, no archived post, nothing asked of anyone.
LEMMA InitIInv == Init => IInv
  <1> SUFFICES ASSUME Init PROVE IInv
    OBVIOUS
  <1> USE PostingAssumption DEF Init
  <1>1. SettingsOK
    BY DEF SettingsOK
  <1>2. TablesOK
    BY DEF TablesOK, HeldIds
  <1>3. Coherent
    BY DEF Coherent, AuditIsTruthful
  <1>4. HandlersOK
    BY DEF HandlersOK, Sound, Requests, WellFormed, Earned, Idle, Places,
           Delivering
  <1> QED
    BY <1>1, <1>2, <1>3, <1>4 DEF IInv

\* What a handler that starts something has to carry.
LEMMA StartFanout ==
  ASSUME NEW q \in Requests, NEW members \in SUBSET Recipients
  PROVE  [q EXCEPT !.at = "fanout", !.todo = members] \in Requests
  BY DEF Requests, Places

LEMMA StartPost ==
  ASSUME NEW q \in Requests, NEW place \in Places, NEW p \in Posts
  PROVE  [q EXCEPT !.at = place, !.post = p, !.peer = TRUE] \in Requests
  BY DEF Requests

LEMMA StartDecision ==
  ASSUME NEW q \in Requests, NEW place \in Places, NEW p \in Posts,
         NEW i \in 0 .. MaxHeld, NEW d \in Decisions
  PROVE  [q EXCEPT !.at = place, !.post = p, !.row = i, !.act = d] \in Requests
  BY DEF Requests

LEMMA LosePeer ==
  ASSUME NEW q \in Requests
  PROVE  [q EXCEPT !.peer = FALSE] \in Requests
  BY DEF Requests

\* What is settled stays settled, and a handler's claims stay true.
LEMMA SettledStays ==
  ASSUME Keeps, NEW p \in Posts, Settled(p)
  PROVE  Settled(p)'
  BY DEF Keeps, Settled, Decided, Delivered

LEMMA SoundStays ==
  ASSUME TablesOK, TablesOK', Keeps, NEW h \in Handlers, Sound(proc[h]),
         proc'[h] = proc[h]
  PROVE  Sound(proc[h])'
  <1> USE DEF Sound, Requests
  <1>1. WellFormed(proc[h])'
    BY DEF WellFormed, Keeps, TablesOK, HeldIds
  <1>2. CASE proc[h].at = "idle"
    BY <1>1, <1>2 DEF Earned
  <1>3. CASE proc[h].post \in Posts
    <2>1. Settled(proc[h].post) => Settled(proc[h].post)'
      BY <1>3, SettledStays
    <2> QED
      BY <1>1, <1>3, <2>1 DEF Earned, Keeps, Delivered
  <1> QED
    BY <1>2, <1>3 DEF WellFormed

\* A step that moves at most one handler, to a sound place, keeps them sound.
LEMMA OneMoves ==
  ASSUME IInv, TablesOK', Keeps, NEW h \in Handlers,
         proc' \in [Handlers -> Requests],
         \A g \in Handlers \ {h} : proc'[g] = proc[g],
         Sound(proc[h])'
  PROVE  HandlersOK'
  <1>1. ASSUME NEW g \in Handlers PROVE Sound(proc[g])'
    BY <1>1, SoundStays DEF IInv, HandlersOK
  <1> QED
    BY <1>1 DEF HandlersOK, Requests

\* A step that changes nothing a handler relies on but makes tables grow.
LEMMA CoherentStays ==
  ASSUME IInv, Keeps, atMTA' = atMTA, AuditIsTruthful',
         \A i \in HeldIds : i > lastHeld' => held'[i] = None,
         \A p \in Posts : steady'[p] \subseteq regular'
  PROVE  Coherent'
  BY SettledStays DEF IInv, Coherent

\* Every call of a handler, every decision, fault and change keeps the
\* inductive invariant.
LEMMA NextKeeps == IInv /\ [Next]_vars => IInv' /\ Keeps
  <1> SUFFICES ASSUME IInv, [Next]_vars PROVE IInv' /\ Keeps
    OBVIOUS
  <1> USE PostingAssumption
  <1> DEFINE Still == UNCHANGED <<tables, atMTA, expired, lastHeld, history>>
             Others(h) == \A g \in Handlers \ {h} : proc'[g] = proc[g]
             Moved(h) == /\ proc' \in [Handlers -> Requests]
                         /\ Others(h) /\ Sound(proc[h])'
  <1>a. Still => TablesOK' /\ Keeps /\ (regular' = regular => Coherent')
    <2> SUFFICES ASSUME Still
                 PROVE  TablesOK' /\ Keeps /\ (regular' = regular => Coherent')
      OBVIOUS
    <2> USE DEF tables, history
    <2>1. TablesOK'
      BY DEF IInv, TablesOK, HeldIds
    <2>2. \A p \in Posts : /\ Outstanding(p)' = Outstanding(p)
                           /\ Delivered(p)' = Delivered(p)
                           /\ IsHeld(p)' = IsHeld(p)
                           /\ Settled(p)' = Settled(p)
      BY DEF Settled, Decided, Delivered, Outstanding, IsHeld, HeldIds
    <2>3. Keeps
      <3>1. \A p \in Posts : IsHeld(p) => Settled(p)'
        BY <2>2 DEF Settled
      <3>2. \A i \in 1 .. lastHeld : held'[i] \in {held[i], None}
        OBVIOUS
      <3> QED
        BY <2>2, <3>1, <3>2 DEF Keeps, IInv, TablesOK
    <2>4. regular' = regular => Coherent'
      BY <2>2 DEF IInv, Coherent, AuditIsTruthful, HeldIds
    <2> QED
      BY <2>1, <2>3, <2>4
  <1>b. UNCHANGED <<settings, faults, changes>> => SettingsOK'
    BY DEF IInv, SettingsOK, settings
  <1>c. ASSUME NEW h \in Handlers, Done(h) PROVE Moved(h)
    <2>1. proc' \in [Handlers -> Requests] /\ proc'[h] = Idle /\ Others(h)
      BY <1>c DEF Done, IInv, HandlersOK, Requests, Idle, Places
    <2> QED
      BY <2>1 DEF Sound, Requests, WellFormed, Earned, Idle, Delivering
  <1>d. ASSUME NEW h \in Handlers, NEW place \in Places, Goto(h, place)
        PROVE  /\ proc' \in [Handlers -> Requests] /\ Others(h)
               /\ proc'[h] = [proc[h] EXCEPT !.at = place]
               /\ proc'[h] \in Requests
    BY <1>d DEF Goto, IInv, HandlersOK, Requests
  <1>e. ASSUME NEW h \in Handlers, Moved(h), Still,
               UNCHANGED <<regular, settings, faults, changes>>
        PROVE  IInv' /\ Keeps
    BY <1>a, <1>b, <1>e, OneMoves DEF IInv
  <1>f. \A h \in Handlers : Sound(proc[h])
    BY DEF IInv, HandlersOK
  <1>g. TablesOK /\ Coherent /\ SettingsOK
        /\ proc \in [Handlers -> Requests]
    BY DEF IInv, HandlersOK
  <1> HIDE DEF Still, Others, Moved
  <1> USE DEF tables, history, bounds, settings
  <1>1. ASSUME NEW h \in Handlers, Hold(h) PROVE IInv' /\ Keeps
    <2> USE <1>1 DEF Hold
    <2> DEFINE p == PostOf(h)
    <2>1. p \in Posts /\ p # None /\ proc[h].act = None
      BY <1>f DEF At, Sound, WellFormed, PostOf
    <2>2. TablesOK'
      BY <1>g, <2>1 DEF TablesOK, HeldIds
    <2>3. lastHeld + 1 \in HeldIds /\ held'[lastHeld + 1] = p
      BY <1>g DEF TablesOK, HeldIds
    <2>4. Keeps
      <3>1. \A i \in HeldIds : i # lastHeld + 1 => held'[i] = held[i]
        BY <1>g DEF TablesOK
      <3>2. held[lastHeld + 1] = None
        BY <1>g, <2>3 DEF Coherent, TablesOK
      <3>3. \A q \in Posts : IsHeld(q) => IsHeld(q)'
        BY <3>1, <3>2 DEF IsHeld
      <3> QED
        BY <1>g, <3>1, <3>3 DEF Keeps, TablesOK, HeldIds, Settled, Outstanding
    <2>5. Coherent'
      BY <1>g, <2>4, CoherentStays
      DEF Coherent, TablesOK, HeldIds, AuditIsTruthful
    <2>6. proc' \in [Handlers -> Requests] /\ Others(h)
          /\ proc'[h] = [proc[h] EXCEPT !.at = "notify"]
          /\ proc'[h] \in Requests
      BY <1>d DEF Places
    <2>7. Settled(PostOf(h))'
      <3>1. PostOf(h)' = p
        BY <1>g, <2>6 DEF PostOf, Requests
      <3> QED
        BY <2>3, <3>1 DEF Settled, IsHeld
    <2>8. Sound(proc[h])'
      BY <2>1, <2>6, <2>7
      DEF Sound, WellFormed, Earned, PostOf, Delivering, Requests
    <2> QED
      BY <1>b, <2>2, <2>4, <2>5, <2>6, <2>8, OneMoves DEF IInv, Others
  <1>2. ASSUME NEW h \in Handlers, Notify(h) PROVE IInv' /\ Keeps
    <2> USE <1>2 DEF Notify
    <2>1. proc' \in [Handlers -> Requests] /\ Others(h)
          /\ proc'[h] = [proc[h] EXCEPT !.at = "answer"]
          /\ proc'[h] \in Requests
      BY <1>d DEF Places
    <2>2. Still /\ Keeps
      BY <1>a DEF Still
    <2>3. Sound(proc[h])'
      BY <1>f, <2>1, <2>2, SettledStays
      DEF At, Sound, WellFormed, Earned, Delivering, Requests
    <2> QED
      BY <1>e, <2>1, <2>2, <2>3 DEF Moved
  <1>3. ASSUME NEW h \in Handlers, Refuse(h) PROVE IInv' /\ Keeps
    <2> USE <1>3 DEF Refuse
    <2> DEFINE p == PostOf(h)
               place == IF Moderating(h) THEN "delete" ELSE "answer"
    <2>1. p \in Posts /\ proc[h].act \in {None, "reject"}
      BY <1>f DEF At, Sound, WellFormed, PostOf
    <2>2. TablesOK'
      BY <1>g, <2>1 DEF TablesOK
    <2>3. Keeps
      BY <1>g DEF Keeps, TablesOK, HeldIds, Settled, Outstanding, IsHeld
    <2>4. Coherent'
      BY <1>g, <2>3, CoherentStays DEF Coherent, TablesOK, AuditIsTruthful
    <2>5. place \in Places
      BY DEF Places
    <2>6. proc' \in [Handlers -> Requests] /\ Others(h)
          /\ proc'[h] = [proc[h] EXCEPT !.at = place]
          /\ proc'[h] \in Requests
      BY <1>d, <2>5
    <2>7. PostOf(h)' = p /\ p \in told' /\ proc'[h].act = proc[h].act
      BY <1>g, <2>6 DEF PostOf, Requests
    <2>8. Sound(proc[h])'
      <3>1. WellFormed(proc[h])'
        BY <1>f, <2>1, <2>3, <2>6, <2>7
        DEF Sound, WellFormed, PostOf, Delivering, Requests, Keeps,
            Moderating, Decisions
      <3>2. Earned(proc[h])'
        BY <2>1, <2>6, <2>7
        DEF Earned, PostOf, Requests, Moderating, Settled, Decided, Decisions
      <3> QED
        BY <2>6, <3>1, <3>2 DEF Sound, Requests
    <2> QED
      BY <1>b, <2>2, <2>3, <2>4, <2>6, <2>8, OneMoves DEF IInv, Others
  <1>4. ASSUME NEW h \in Handlers, Answer(h) PROVE IInv' /\ Keeps
    <2> USE <1>4 DEF Answer
    <2>1. Settled(PostOf(h))
      BY <1>f DEF At, Sound, Earned, PostOf
    <2>2. TablesOK'
      BY <1>g DEF TablesOK
    <2>3. Keeps
      BY <1>g DEF Keeps, TablesOK, Outstanding, IsHeld, Settled
    <2>4. Coherent'
      BY <1>g, <2>1, <2>3, SettledStays
      DEF Coherent, TablesOK, AuditIsTruthful
    <2> QED
      BY <1>b, <1>c, <2>2, <2>3, <2>4, OneMoves DEF IInv, Moved, Others
  <1>5. ASSUME NEW h \in Handlers, Archive(h) PROVE IInv' /\ Keeps
    <2> USE <1>5 DEF Archive
    <2> DEFINE p == PostOf(h)
    <2>1. p \in Posts /\ proc[h].act \in {None, "approve"}
      BY <1>f DEF At, Sound, WellFormed, PostOf, Delivering
    <2>2. TablesOK'
      BY <1>g, <2>1 DEF TablesOK, SettingsOK
    <2>3. Keeps
      <3>1. \A q \in Posts : archived[q] > 0 =>
               archived'[q] > 0 /\ steady'[q] = steady[q]
        BY <1>g, <2>1 DEF TablesOK
      <3> QED
        BY <1>g, <3>1
        DEF Keeps, TablesOK, HeldIds, Outstanding, IsHeld, Settled
    <2>4. Coherent'
      <3>1. \A q \in Posts : steady'[q] \subseteq regular'
        BY <1>g, <2>1 DEF Coherent, TablesOK
      <3>2. AuditIsTruthful'
        BY <1>g, <2>3 DEF Coherent, AuditIsTruthful, Keeps
      <3> QED
        BY <1>g, <2>3, <3>1, <3>2, CoherentStays DEF Coherent, TablesOK
    <2>5. proc' \in [Handlers -> Requests] /\ Others(h)
          /\ proc'[h] = [proc[h] EXCEPT !.at = "index"]
          /\ proc'[h] \in Requests
      BY <1>d DEF Places
    <2>6. archived'[p] > 0
      BY <1>g, <2>1 DEF TablesOK
    <2>7. Sound(proc[h])'
      BY <1>f, <2>1, <2>3, <2>5, <2>6
      DEF Sound, WellFormed, Earned, PostOf, Delivering, Requests, Keeps
    <2> QED
      BY <1>b, <2>2, <2>3, <2>4, <2>5, <2>7, OneMoves DEF IInv, Others
  <1>6. ASSUME NEW h \in Handlers, Index(h) PROVE IInv' /\ Keeps
    <2> USE <1>6 DEF Index
    <2>1. proc' \in [Handlers -> Requests] /\ Others(h)
          /\ proc'[h] = [proc[h] EXCEPT !.at = "list"]
          /\ proc'[h] \in Requests
      BY <1>d DEF Places
    <2>2. Still /\ Keeps
      BY <1>a DEF Still
    <2>3. Sound(proc[h])'
      BY <1>f, <2>1, <2>2
      DEF At, Sound, WellFormed, Earned, Delivering, Requests, Keeps
    <2> QED
      BY <1>e, <2>1, <2>2, <2>3 DEF Moved
  <1>7. ASSUME NEW h \in Handlers, ListSubscriptions(h) PROVE IInv' /\ Keeps
    <2> USE <1>7 DEF ListSubscriptions
    <2>1. proc'[h] = [proc[h] EXCEPT !.at = "fanout", !.todo = regular]
          /\ Others(h)
      BY <1>g DEF Others
    <2>2. /\ proc'[h].at = "fanout" /\ proc'[h].todo = regular
          /\ proc'[h].post = proc[h].post /\ proc'[h].row = proc[h].row
          /\ proc'[h].act = proc[h].act /\ proc'[h] \in Requests
      <3>1. proc[h] \in Requests /\ regular \in SUBSET Recipients
        BY <1>g DEF SettingsOK
      <3>2. proc'[h] \in Requests
        <4>1. PICK q \in Requests : q = proc[h]
          BY <3>1
        <4>2. [q EXCEPT !.at = "fanout", !.todo = regular] \in Requests
          BY <3>1, StartFanout
        <4> QED
          BY <2>1, <4>1, <4>2
      <3>3. proc'[h].at = "fanout"
        BY <1>g, <2>1 DEF Requests
      <3>4. proc'[h].todo = regular
        BY <1>g, <2>1 DEF Requests
      <3>5. /\ proc'[h].post = proc[h].post /\ proc'[h].row = proc[h].row
            /\ proc'[h].act = proc[h].act
        BY <1>g, <2>1 DEF Requests
      <3> QED
        BY <3>2, <3>3, <3>4, <3>5
    <2>3. proc' \in [Handlers -> Requests]
      BY <1>g, <2>2 DEF Requests
    <2>4. Still /\ Keeps
      BY <1>a DEF Still
    <2>5. proc[h].post \in Posts => Outstanding(proc[h].post)' \subseteq regular
      BY <1>g, <2>2 DEF Outstanding, Coherent
    <2>6. Sound(proc[h])'
      BY <1>f, <2>2, <2>4, <2>5
      DEF At, Sound, WellFormed, Earned, Delivering, Requests, Keeps
    <2> QED
      BY <1>e, <2>1, <2>3, <2>4, <2>6 DEF Moved
  <1>8. ASSUME NEW h \in Handlers, FanoutDone(h) PROVE IInv' /\ Keeps
    <2> USE <1>8 DEF FanoutDone
    <2> DEFINE place == IF Moderating(h) THEN "delete" ELSE "answer"
    <2>1. place \in Places
      BY DEF Places
    <2>2. proc' \in [Handlers -> Requests] /\ Others(h)
          /\ proc'[h] = [proc[h] EXCEPT !.at = place]
          /\ proc'[h] \in Requests
      BY <1>d, <2>1
    <2>3. Still /\ Keeps
      BY <1>a DEF Still
    <2>4. /\ proc[h].post \in Posts /\ proc[h].act \in {None, "approve"}
          /\ Delivered(proc[h].post)
      BY <1>f DEF At, Sound, WellFormed, Earned, Delivering, Delivered
    <2>5. Delivered(proc[h].post)' /\ Settled(proc[h].post)'
      BY <1>g, <2>2, <2>3, <2>4
      DEF Keeps, Delivered, Settled, Decided, Requests, TablesOK
    <2>6. Sound(proc[h])'
      BY <1>f, <2>2, <2>3, <2>4, <2>5
      DEF Sound, WellFormed, Earned, Delivering, Requests, Keeps, Moderating,
          Decisions
    <2> QED
      BY <1>e, <2>2, <2>3, <2>6 DEF Moved
  <1>9. ASSUME NEW h \in Handlers, NEW r \in Recipients, EnqueueCopy(h, r)
        PROVE  IInv' /\ Keeps
    <2> USE <1>9 DEF EnqueueCopy
    <2> DEFINE p == PostOf(h)
    <2>1. p \in Posts
      BY <1>f DEF At, Sound, WellFormed, PostOf
    <2>2. TablesOK'
      BY <1>g, <2>1 DEF TablesOK
    <2>3. Outstanding(p)' \subseteq Outstanding(p) \ {r}
          /\ \A q \in Posts : Outstanding(q)' \subseteq Outstanding(q)
      <3>1. proc'[h].post = proc[h].post
        BY <1>g DEF Requests
      <3>2. \A q \in Posts, s \in Recipients :
               copies'[q][s] = 0 => copies[q][s] = 0 /\ <<q, s>> # <<p, r>>
        BY <1>g, <2>1 DEF TablesOK
      <3> QED
        BY <1>g, <2>1, <3>1, <3>2 DEF Outstanding, TablesOK, PostOf
    <2>4. Keeps
      BY <1>g, <2>3 DEF Keeps, TablesOK, HeldIds, IsHeld, Settled
    <2>5. Coherent'
      BY <1>g, <2>4, CoherentStays DEF Coherent, TablesOK, AuditIsTruthful
    <2>6. proc'[h] = [proc[h] EXCEPT !.todo = @ \ {r}] /\ Others(h)
          /\ proc'[h] \in Requests /\ proc' \in [Handlers -> Requests]
      BY <1>g DEF Others, Requests
    <2>7. Outstanding(PostOf(h))' \subseteq proc'[h].todo
      BY <1>f, <1>g, <2>1, <2>3, <2>6
      DEF At, Sound, Earned, PostOf, Requests
    <2>8. Sound(proc[h])'
      BY <1>f, <2>4, <2>6, <2>7
      DEF At, Sound, WellFormed, Earned, Delivering, Requests, Keeps, PostOf
    <2> QED
      BY <1>b, <2>2, <2>4, <2>5, <2>6, <2>8, OneMoves DEF IInv
  <1>10. ASSUME NEW h \in Handlers, NEW r \in Recipients, EnqueueFails(h, r)
         PROVE  IInv' /\ Keeps
    <2> USE <1>10 DEF EnqueueFails
    <2> DEFINE p == PostOf(h)
    <2>1. p \in Posts
      BY <1>f DEF At, Sound, WellFormed, PostOf
    <2>2. TablesOK' /\ SettingsOK'
      BY <1>g, <2>1 DEF TablesOK, SettingsOK
    <2>3. Outstanding(p)' \subseteq Outstanding(p) \ {r}
          /\ \A q \in Posts : Outstanding(q)' \subseteq Outstanding(q)
      <3>1. proc'[h].post = proc[h].post
        BY <1>g DEF Requests
      <3>2. r \in missed'[p] /\ \A q \in Posts : missed[q] \subseteq missed'[q]
        BY <1>g, <2>1 DEF TablesOK
      <3> QED
        BY <1>g, <2>1, <3>1, <3>2 DEF Outstanding, TablesOK, PostOf
    <2>4. Keeps
      BY <1>g, <2>3 DEF Keeps, TablesOK, HeldIds, IsHeld, Settled
    <2>5. Coherent'
      BY <1>g, <2>4, CoherentStays DEF Coherent, TablesOK, AuditIsTruthful
    <2>6. proc'[h] = [proc[h] EXCEPT !.todo = @ \ {r}] /\ Others(h)
          /\ proc'[h] \in Requests /\ proc' \in [Handlers -> Requests]
      BY <1>g DEF Others, Requests
    <2>7. Outstanding(PostOf(h))' \subseteq proc'[h].todo
      BY <1>f, <1>g, <2>1, <2>3, <2>6
      DEF At, Sound, Earned, PostOf, Requests
    <2>8. Sound(proc[h])'
      BY <1>f, <2>4, <2>6, <2>7
      DEF At, Sound, WellFormed, Earned, Delivering, Requests, Keeps, PostOf
    <2> QED
      BY <2>2, <2>4, <2>5, <2>6, <2>8, OneMoves DEF IInv
  <1>11. ASSUME NEW h \in Handlers, DeleteHeldMessage(h) PROVE IInv' /\ Keeps
    <2> USE <1>11 DEF DeleteHeldMessage
    <2> DEFINE p == PostOf(h)
               i == proc[h].row
    <2>1. /\ p \in Posts /\ proc[h].act \in Decisions
          /\ i \in 1 .. lastHeld /\ held[i] \in {None, p}
          /\ proc[h].act = "approve" => Delivered(p)
          /\ proc[h].act = "reject" => p \in told
      BY <1>f DEF At, Sound, WellFormed, Earned, PostOf
    <2>2. TablesOK'
      BY <1>g, <2>1 DEF TablesOK, HeldIds
    <2>3. Keeps
      <3>1. \A k \in HeldIds : held'[k] = IF k = i THEN None ELSE held[k]
        BY <1>g DEF TablesOK
      <3>2. \A q \in Posts : Delivered(q) => Delivered(q)'
        BY DEF Delivered, Outstanding
      <3>0. Decided(p)'
        <4>1. p \in told \cup dropped' \/ Delivered(p)
          BY <2>1 DEF Decisions
        <4>2. PICK q \in Posts : q = p
          BY <2>1
        <4>3. q \in told \cup dropped' \/ Delivered(q)'
          BY <3>2, <4>1, <4>2
        <4>4. Decided(q)'
          BY <4>3 DEF Decided
        <4>5. PostOf(h)' = PostOf(h)
          BY <1>g DEF PostOf, Goto, Requests
        <4> QED
          BY <4>2, <4>4, <4>5
      <3>3. ASSUME NEW q \in Posts, IsHeld(q) PROVE Settled(q)'
        <4>1. CASE q = p
          <5>1. PostOf(h)' = PostOf(h)
            BY <1>g DEF PostOf, Goto, Requests
          <5> QED
            BY <3>0, <4>1, <5>1 DEF Settled
        <4>2. CASE q # p
          <5>1. IsHeld(q)'
            BY <2>1, <3>1, <3>3, <4>2 DEF IsHeld
          <5> QED
            BY <5>1 DEF Settled
        <4> QED
          BY <4>1, <4>2
      <3>4. ASSUME NEW k \in 1 .. lastHeld, NEW q \in Posts, held[k] = q
            PROVE  held'[k] = q \/ Decided(q)'
        <4>1. k \in HeldIds
          BY <1>g, PostingAssumption DEF TablesOK, HeldIds
        <4>2. CASE k # i
          BY <3>1, <3>4, <4>1, <4>2
        <4>3. CASE k = i
          <5>1. q = p
            BY <2>1, <3>4, <4>3, PostingAssumption
          <5>2. PostOf(h)' = PostOf(h)
            BY <1>g DEF PostOf, Goto, Requests
          <5> QED
            BY <3>0, <5>1, <5>2
        <4> QED
          BY <4>2, <4>3
      <3> QED
        BY <1>g, <3>1, <3>3, <3>4 DEF Keeps, TablesOK, HeldIds, Outstanding
    <2>4. Coherent'
      <3>1. AuditIsTruthful'
        BY <1>g, <2>3 DEF Coherent, AuditIsTruthful, Keeps
      <3> QED
        BY <1>g, <2>3, <3>1, CoherentStays DEF Coherent, TablesOK
    <2>5. proc' \in [Handlers -> Requests] /\ Others(h)
          /\ proc'[h] = [proc[h] EXCEPT !.at = "record"]
          /\ proc'[h] \in Requests
      BY <1>d DEF Places
    <2>6. Delivered(p) => Delivered(PostOf(h))'
      BY <1>g, <2>5 DEF Delivered, Outstanding, PostOf, Requests
    <2>7. proc[h].act = "discard" => PostOf(h)' \in dropped'
      BY <1>g, <2>5 DEF PostOf, Requests
    <2>8. Sound(proc[h])'
      BY <1>f, <2>1, <2>3, <2>5, <2>6, <2>7
      DEF Sound, WellFormed, Earned, PostOf, Delivering, Requests, Keeps
    <2> QED
      BY <1>b, <2>2, <2>3, <2>4, <2>5, <2>8, OneMoves DEF IInv, Others
  <1>12. ASSUME NEW h \in Handlers, RecordAudit(h) PROVE IInv' /\ Keeps
    <2> USE <1>12 DEF RecordAudit
    <2> DEFINE p == PostOf(h)
               act == proc[h].act
    <2>1. /\ p \in Posts /\ act \in Decisions
          /\ act = "approve" => archived[p] > 0
          /\ act = "reject" => p \in told
          /\ act = "discard" => p \in dropped
      BY <1>f DEF At, Sound, WellFormed, Earned, PostOf, Delivered
    <2>2. TablesOK'
      BY <1>g, <2>1 DEF TablesOK
    <2>3. Keeps
      BY <1>g DEF Keeps, TablesOK, HeldIds, Settled, Outstanding, IsHeld
    <2>4. AuditIsTruthful'
      <3>1. \A q \in Posts : audit'[q] = IF q = p THEN audit[q] \cup {act}
                                                  ELSE audit[q]
        BY <1>g DEF TablesOK
      <3> QED
        BY <1>g, <2>1, <3>1 DEF Coherent, AuditIsTruthful
    <2>5. Coherent'
      BY <1>g, <2>3, <2>4, CoherentStays DEF Coherent, TablesOK
    <2> QED
      BY <1>b, <1>c, <2>2, <2>3, <2>5, OneMoves DEF IInv, Moved, Others
  <1>13. ASSUME NEW h \in Handlers, Fail(h) PROVE IInv' /\ Keeps
    <2> USE <1>13 DEF Fail
    <2>1. proc[h].post \in Posts
      BY <1>f DEF Sound, WellFormed
    <2>r. /\ atMTA' \subseteq atMTA /\ refused \subseteq refused'
          /\ refused' \subseteq refused \cup {proc[h].post}
          /\ \A p \in atMTA \ atMTA' : p \in refused'
      BY DEF Return, PostOf
    <2>2. TablesOK' /\ SettingsOK'
      BY <1>g, <2>1, <2>r DEF TablesOK, SettingsOK
    <2>3. Keeps
      BY <1>g, <2>r
      DEF Keeps, TablesOK, Outstanding, IsHeld, Settled, Decided
    <2>4. Coherent'
      <3>1. \A p \in Posts \ atMTA' : p \notin atMTA \/ p \in refused'
        BY <2>r
      <3>2. \A p \in Posts \ atMTA' : Settled(p)'
        BY <1>g, <2>3, <3>1, SettledStays DEF Coherent, Settled, Decided
      <3> QED
        BY <1>g, <3>2 DEF Coherent, TablesOK, AuditIsTruthful
    <2> QED
      BY <1>c, <2>2, <2>3, <2>4, OneMoves DEF IInv, Moved, Others
  <1>14. ASSUME NEW h \in Handlers, Kill(h) PROVE IInv' /\ Keeps
    <2> USE <1>14 DEF Kill
    <2>1. SettingsOK'
      BY <1>g DEF SettingsOK
    <2>2. Still
      BY DEF Still
    <2> QED
      BY <1>a, <1>c, <2>1, <2>2, OneMoves DEF IInv, Moved, Others
  <1>22. ASSUME NEW h \in Handlers, Lose(h) PROVE IInv' /\ Keeps
    <2> USE <1>22 DEF Lose
    <2>1. SettingsOK'
      BY <1>g DEF SettingsOK
    <2>2. Still /\ Keeps
      BY <1>a DEF Still
    <2>3. /\ Others(h) /\ proc'[h] = [proc[h] EXCEPT !.peer = FALSE]
          /\ proc' \in [Handlers -> Requests] /\ proc'[h] \in Requests
      <3>1. PICK q \in Requests : q = proc[h]
        BY <1>g
      <3>2. [q EXCEPT !.peer = FALSE] \in Requests
        BY LosePeer
      <3>3. proc'[h] = [q EXCEPT !.peer = FALSE] /\ Others(h)
        BY <1>g, <3>1 DEF Others
      <3>4. proc'[h] \in Requests
        BY <3>2, <3>3
      <3>5. proc' \in [Handlers -> Requests]
        BY <1>g, <3>4
      <3> QED
        BY <3>1, <3>3, <3>4, <3>5
    <2>4. Sound(proc[h])'
      <3>1. /\ proc'[h].at = proc[h].at /\ proc'[h].post = proc[h].post
            /\ proc'[h].row = proc[h].row /\ proc'[h].act = proc[h].act
            /\ proc'[h].todo = proc[h].todo
        BY <1>g, <2>3 DEF Requests
      <3>2. WellFormed(proc[h])'
        BY <1>f, <3>1 DEF Sound, WellFormed
      <3>3. Settled(proc[h].post) => Settled(proc[h].post)'
        BY <3>1 DEF Settled, Decided, Delivered, Outstanding, IsHeld
      <3>4. Earned(proc[h])'
        BY <1>f, <3>1, <3>3 DEF Sound, Earned, Delivered, Outstanding
      <3> QED
        BY <2>3, <3>2, <3>4 DEF Sound
    <2> QED
      BY <1>a, <2>1, <2>2, <2>3, <2>4, OneMoves DEF IInv, Moved, Others
  <1>15. ASSUME NEW h \in Handlers, NEW p \in Posts, Receive(h, p)
         PROVE  IInv' /\ Keeps
    <2>1. PICK next \in {"hold", "archive", "refuse"} :
            proc' = [proc EXCEPT ![h].at = next, ![h].post = p,
                                 ![h].peer = TRUE]
      BY <1>15 DEF Receive, DecidePostAction
    <2> USE DEF Receive
    <2>2. /\ proc' \in [Handlers -> Requests] /\ Others(h)
          /\ proc'[h].at = next /\ proc'[h].post = p
          /\ proc'[h].act = proc[h].act
      <3>1. next \in Places
        BY DEF Places
      <3>2. [proc[h] EXCEPT !.at = next, !.post = p, !.peer = TRUE] \in Requests
        BY <1>g, <3>1, StartPost
      <3> QED
        BY <1>g, <2>1, <3>2 DEF Others, Requests
    <2>3. Still /\ Keeps
      BY <1>15, <1>a DEF Still
    <2>4. proc[h].act = None
      BY <1>15, <1>f DEF At, Sound, WellFormed
    <2>5. Sound(proc[h])'
      BY <2>2, <2>4 DEF Sound, WellFormed, Earned, Delivering
    <2> QED
      BY <1>15, <1>e, <2>2, <2>3, <2>5 DEF Moved
  <1>16. ASSUME NEW h \in Handlers, NEW i \in HeldIds, NEW d \in Decisions,
                Decide(h, i, d)
         PROVE  IInv' /\ Keeps
    <2>1. PICK place \in {"archive", "refuse", "delete"} :
            /\ proc' = [proc EXCEPT ![h].at = place, ![h].post = held[i],
                                    ![h].row = i, ![h].act = d]
            /\ place = "archive" => d = "approve"
            /\ place = "refuse" => d = "reject"
            /\ place = "delete" => d = "discard"
      BY <1>16 DEF Decide, Decisions
    <2>2. held[i] \in Posts /\ i \in 1 .. lastHeld
      BY <1>16, <1>g DEF Decide, TablesOK, Coherent, HeldIds
    <2>3. /\ Others(h)
          /\ proc'[h].at = place /\ proc'[h].post = held[i]
          /\ proc'[h].row = i /\ proc'[h].act = d
      BY <1>g, <2>1 DEF Others, Requests
    <2>4. proc'[h] \in Requests
      <3>1. [proc[h] EXCEPT !.at = place, !.post = held[i], !.row = i,
                            !.act = d] \in Requests
        <4>1. /\ proc[h] \in Requests /\ place \in Places
              /\ i \in 0 .. MaxHeld
          BY <1>g DEF Places, HeldIds
        <4> QED
          BY <2>2, <4>1, StartDecision
      <3> QED
        BY <1>g, <2>1, <3>1
    <2>5. proc' \in [Handlers -> Requests]
      BY <1>g, <2>1, <2>4
    <2>6. Still /\ Keeps
      BY <1>16, <1>a DEF Still, Decide
    <2>7. Sound(proc[h])'
      BY <1>16, <2>1, <2>2, <2>3, <2>4, <2>6
      DEF Decide, Sound, WellFormed, Earned, Delivering, Decisions, Requests
    <2> QED
      BY <1>16, <1>e, <2>3, <2>5, <2>6, <2>7 DEF Moved, Decide
  <1>i. ASSUME UNCHANGED proc, TablesOK', Keeps PROVE HandlersOK'
    <2>1. ASSUME NEW h \in Handlers PROVE Sound(proc[h])'
      BY <1>f, <1>g, <1>i, SoundStays
    <2> QED
      BY <1>g, <1>i, <2>1 DEF HandlersOK, Requests
  <1>17. ASSUME NEW i \in HeldIds, Expire(i) PROVE IInv' /\ Keeps
    <2> USE <1>17 DEF Expire
    <2>1. TablesOK'
      BY <1>g DEF TablesOK, Coherent, HeldIds
    <2>2. Keeps
      BY <1>g DEF Keeps, TablesOK, Outstanding, IsHeld, Settled
    <2>3. Coherent'
      BY <1>g, <2>2, CoherentStays DEF Coherent, TablesOK, AuditIsTruthful
    <2> QED
      BY <1>b, <1>i, <2>1, <2>2, <2>3 DEF IInv
  <1>18. ASSUME Sweep PROVE IInv' /\ Keeps
    <2> DEFINE old == {i \in expired : held[i] # None}
    <2>1. /\ held' = [i \in HeldIds |-> IF i \in old THEN None ELSE held[i]]
          /\ dropped' = dropped \cup {held[i] : i \in old}
          /\ UNCHANGED <<settings, archived, copies, told, audit, proc, atMTA,
                         expired, bounds, refused, steady, missed>>
      BY <1>18 DEF Sweep
    <2> HIDE DEF old
    <2>2. old \subseteq HeldIds /\ \A i \in old : held[i] \in Posts
      <3>1. expired \subseteq HeldIds /\ held \in [HeldIds -> Posts \cup {None}]
        BY <1>g DEF TablesOK, HeldIds
      <3> QED
        BY <3>1 DEF old
    <2>3. TablesOK'
      BY <1>g, <2>1, <2>2 DEF TablesOK
    <2>4. Keeps
      <3>1. ASSUME NEW p \in Posts, IsHeld(p) PROVE Settled(p)'
        <4>1. PICK i \in HeldIds : held[i] = p
          BY <3>1 DEF IsHeld
        <4>2. CASE i \in old
          BY <2>1, <4>1, <4>2 DEF Settled, Decided
        <4>3. CASE i \notin old
          BY <2>1, <4>1, <4>3 DEF Settled, IsHeld
        <4> QED
          BY <4>2, <4>3
      <3>2. ASSUME NEW i \in 1 .. lastHeld, NEW p \in Posts, held[i] = p
            PROVE  held'[i] = p \/ Decided(p)'
        <4>1. i \in HeldIds
          BY <1>g, PostingAssumption DEF TablesOK, HeldIds
        <4>2. CASE i \in old
          BY <2>1, <3>2, <4>2 DEF Decided
        <4>3. CASE i \notin old
          BY <2>1, <3>2, <4>1, <4>3
        <4> QED
          BY <4>2, <4>3
      <3> QED
        BY <1>g, <2>1, <3>1, <3>2 DEF Keeps, TablesOK, HeldIds, Outstanding
    <2>5. Coherent'
      BY <1>g, <2>1, <2>4, CoherentStays
      DEF Coherent, TablesOK, AuditIsTruthful
    <2> QED
      BY <1>b, <1>i, <2>1, <2>3, <2>4, <2>5 DEF IInv
  <1>19. ASSUME NEW type \in {"discussion", "newsletter"},
                NEW moderated \in BOOLEAN, ChangeSettings(type, moderated)
         PROVE  IInv' /\ Keeps
    <2> USE <1>19 DEF ChangeSettings
    <2>1. Still /\ SettingsOK'
      BY <1>g DEF Still, SettingsOK
    <2> QED
      BY <1>a, <1>i, <2>1 DEF IInv
  <1>20. ASSUME NEW r \in Recipients, ChangeDelivery(r) PROVE IInv' /\ Keeps
    <2> USE <1>20 DEF ChangeDelivery
    <2>1. TablesOK' /\ SettingsOK'
      BY <1>g DEF TablesOK, SettingsOK
    <2>2. \A p \in Posts : steady'[p] \subseteq steady[p] \cap regular'
      BY <1>g DEF TablesOK, Coherent
    <2>3. Keeps
      BY <1>g, <2>2 DEF Keeps, TablesOK, Outstanding, IsHeld, Settled
    <2>4. Coherent'
      BY <1>g, <2>2, <2>3, CoherentStays DEF Coherent, TablesOK, AuditIsTruthful
    <2> QED
      BY <1>i, <2>1, <2>3, <2>4 DEF IInv
  <1>21. CASE UNCHANGED vars
    <2>1. Still
      BY <1>21 DEF Still, vars
    <2> QED
      BY <1>21, <1>a, <1>b, <1>i, <2>1 DEF IInv, vars
  <1> QED
    BY <1>1, <1>2, <1>3, <1>4, <1>5, <1>6, <1>7, <1>8, <1>9, <1>10, <1>11,
       <1>12, <1>13, <1>14, <1>15, <1>16, <1>17, <1>18, <1>19, <1>20, <1>21,
       <1>22
    DEF Next, Step

LEMMA NextIInv == IInv /\ [Next]_vars => IInv'
  BY NextKeeps

\* The inductive invariant holds throughout.
LEMMA AlwaysIInv == Spec => []IInv
  BY InitIInv, NextIInv, PTL DEF Spec
-----------------------------------------------------------------------------
\* Tables, rows and handlers stay well-formed.
THEOREM TypeCorrect == Spec => []PTypeOK
  <1>1. ASSUME IInv, NEW h \in Handlers, proc[h].at \in {"delete", "record"}
        PROVE  proc[h].row \in 1 .. lastHeld
    BY <1>1, PostingAssumption DEF IInv, HandlersOK, Sound, WellFormed
  <1>2. ASSUME IInv PROVE PTypeOK
    BY <1>1, <1>2 DEF IInv, SettingsOK, TablesOK, HandlersOK, Requests, PTypeOK
  <1> QED
    BY <1>2, AlwaysIInv, PTL

\* Whatever the MTA was told to forget is archived, held or turned down with
\* somebody knowing (ProcessPost, ApproveHeld, RejectHeld, DiscardHeld).
THEOREM NoPostLostHolds == Spec => []NoPostLost
  <1>1. IInv => NoPostLost
    BY DEF IInv, Coherent, Settled, Decided, Delivered, NoPostLost
  <1> QED
    BY <1>1, AlwaysIInv, PTL

\* deliverToList reaches every member it should, however attempts, decisions
\* and changes of membership overlap.
THEOREM ArchivedIsDeliveredHolds == Spec => []ArchivedIsDelivered
  <1>1. ASSUME IInv, NEW p \in Posts, p \notin atMTA, ~IsHeld(p),
               p \notin told \cup refused \cup dropped,
               NEW r \in steady[p] \ missed[p]
        PROVE  copies[p][r] > 0
    <2>1. Outstanding(p) = {}
      BY <1>1 DEF IInv, Coherent, Settled, Decided, Delivered
    <2>2. copies[p][r] \in Nat
      BY <1>1 DEF IInv, TablesOK
    <2> QED
      BY <1>1, <2>1, <2>2 DEF Outstanding
  <1>2. IInv => ArchivedIsDelivered
    BY <1>1 DEF ArchivedIsDelivered
  <1> QED
    BY <1>2, AlwaysIInv, PTL

\* A decision is recorded only after it took effect.
THEOREM AuditIsTruthfulHolds == Spec => []AuditIsTruthful
  <1>1. IInv => AuditIsTruthful
    BY DEF IInv, Coherent
  <1> QED
    BY <1>1, AlwaysIInv, PTL
-----------------------------------------------------------------------------
(***************************************************************************)
(* Posting implements PostFate.  Besides IInv this needs to know what an   *)
(* attempt and a decision in progress may rely on.                         *)
(***************************************************************************)

\* Who still has the MTA waiting carries a post that is not answered yet, and
\* a decision's row holds its post until the post's fate is decided.
Attempt(q) ==
    /\ q.peer => q.at # "idle" /\ q.act = None /\ q.post \in atMTA
    /\ q.act # None => held[q.row] = q.post \/ Decided(q.post)

AttemptsOK ==
    /\ \A h \in Handlers : Attempt(proc[h])
    /\ \A g, h \in Handlers :
          g # h /\ proc[g].peer /\ proc[h].peer => proc[g].post # proc[h].post

LEMMA InitAttemptsOK == Init => AttemptsOK
  BY DEF Init, AttemptsOK, Attempt, Idle

\* No fate is taken back.
LEMMA DecidedStays ==
  ASSUME Keeps, NEW p \in Posts, Decided(p)
  PROVE  Decided(p)'
  BY DEF Keeps, Decided, Delivered

LEMMA DeliveredStays ==
  ASSUME Keeps, NEW p \in Posts, Delivered(p)
  PROVE  Delivered(p)'
  BY DEF Keeps, Delivered

\* A handler that goes on with what it has keeps what it relies on, if no
\* other one answers its post.
LEMMA AttemptStays ==
  ASSUME IInv, AttemptsOK, Keeps, NEW h \in Handlers, NEW g \in Handlers,
         proc'[g].post = proc[h].post, proc'[g].row = proc[h].row,
         proc'[g].act = proc[h].act,
         proc'[g].peer => /\ proc[h].peer /\ proc'[g].at # "idle"
                          /\ proc[h].post \in atMTA'
  PROVE  Attempt(proc[g])'
  <1>1. Sound(proc[h]) /\ Attempt(proc[h])
    BY DEF IInv, HandlersOK, AttemptsOK
  <1>2. proc[h].act # None =>
          /\ proc[h].post \in Posts /\ proc[h].row \in 1 .. lastHeld
    BY <1>1 DEF Sound, WellFormed
  <1>3. ASSUME proc[h].act # None
        PROVE  held'[proc[h].row] = proc[h].post \/ Decided(proc[g].post)'
    <2>1. PICK p \in Posts : p = proc[h].post
      BY <1>2, <1>3
    <2>2. held'[proc[h].row] = p \/ Decided(p)'
      <3>1. CASE held[proc[h].row] = p
        BY <1>2, <1>3, <3>1 DEF Keeps
      <3>2. CASE Decided(p)
        BY <3>2, DecidedStays
      <3> QED
        BY <1>1, <1>3, <2>1, <3>1, <3>2 DEF Attempt
    <2> QED
      BY <2>1, <2>2
  <1> QED
    BY <1>1, <1>3 DEF Attempt

\* One handler goes on, perhaps without the MTA.
LEMMA MoveOn ==
  ASSUME IInv, AttemptsOK, Keeps, NEW h \in Handlers,
         \A g \in Handlers \ {h} : proc'[g] = proc[g],
         proc'[h].post = proc[h].post, proc'[h].row = proc[h].row,
         proc'[h].act = proc[h].act, proc'[h].peer => proc[h].peer,
         proc'[h].at # "idle", atMTA' = atMTA
  PROVE  AttemptsOK'
  <1>1. ASSUME NEW g \in Handlers PROVE Attempt(proc[g])'
    <2>1. proc[g].peer => proc[g].at # "idle" /\ proc[g].post \in atMTA
      BY DEF AttemptsOK, Attempt
    <2> QED
      BY <1>1, <2>1, AttemptStays
  <1> QED
    BY <1>1 DEF AttemptsOK

\* One handler is done; only its own post may have been answered.
LEMMA MoveOut ==
  ASSUME IInv, AttemptsOK, Keeps, NEW h \in Handlers, Done(h),
         \A p \in atMTA \ atMTA' : proc[h].peer /\ p = proc[h].post
  PROVE  AttemptsOK'
  <1>0. proc'[h] = Idle /\ \A g \in Handlers \ {h} : proc'[g] = proc[g]
    BY DEF Done, IInv, HandlersOK
  <1>1. ASSUME NEW g \in Handlers PROVE Attempt(proc[g])'
    <2>1. CASE g = h
      BY <1>0, <2>1 DEF Attempt, Idle
    <2>2. CASE g # h
      <3>1. proc[g].peer => proc[g].at # "idle" /\ proc[g].post \in atMTA'
        BY <2>2 DEF AttemptsOK, Attempt
      <3> QED
        BY <1>0, <2>2, <3>1, AttemptStays
    <2> QED
      BY <2>1, <2>2
  <1>2. ~proc'[h].peer
    BY <1>0 DEF Idle
  <1> QED
    BY <1>0, <1>1, <1>2 DEF AttemptsOK

\* No handler moves.
LEMMA NoneMoves ==
  ASSUME IInv, AttemptsOK, Keeps, UNCHANGED <<proc, atMTA>>
  PROVE  AttemptsOK'
  <1>1. ASSUME NEW g \in Handlers PROVE Attempt(proc[g])'
    <2>1. proc[g].peer => proc[g].at # "idle" /\ proc[g].post \in atMTA
      BY DEF AttemptsOK, Attempt
    <2> QED
      BY <1>1, <2>1, AttemptStays
  <1> QED
    BY <1>1 DEF AttemptsOK

LEMMA NextAttemptsOK == IInv /\ AttemptsOK /\ [Next]_vars => AttemptsOK'
  <1> SUFFICES ASSUME IInv, AttemptsOK, [Next]_vars PROVE AttemptsOK'
    OBVIOUS
  <1> USE PostingAssumption
  <1>a. Keeps
    BY NextKeeps
  <1>b. proc \in [Handlers -> Requests] /\ \A h \in Handlers : Sound(proc[h])
    BY DEF IInv, HandlersOK
  <1> DEFINE On(h) ==
        /\ \A g \in Handlers \ {h} : proc'[g] = proc[g]
        /\ proc'[h].post = proc[h].post /\ proc'[h].row = proc[h].row
        /\ proc'[h].act = proc[h].act /\ (proc'[h].peer => proc[h].peer)
        /\ proc'[h].at # "idle" /\ atMTA' = atMTA
  <1>c. ASSUME NEW h \in Handlers, On(h) PROVE AttemptsOK'
    BY <1>a, <1>c, MoveOn
  <1>d. ASSUME NEW h \in Handlers, NEW place \in Places \ {"idle"},
               Goto(h, place), atMTA' = atMTA
        PROVE  On(h)
    BY <1>b, <1>d DEF Goto, Requests
  <1>1. ASSUME NEW h \in Handlers, Hold(h) PROVE On(h)
    BY <1>d, <1>1 DEF Hold, Places
  <1>2. ASSUME NEW h \in Handlers, Notify(h) PROVE On(h)
    BY <1>d, <1>2 DEF Notify, Places
  <1>3. ASSUME NEW h \in Handlers, Refuse(h) PROVE On(h)
    <2>1. (IF Moderating(h) THEN "delete" ELSE "answer") \in Places \ {"idle"}
      BY DEF Places
    <2> QED
      BY <1>d, <1>3, <2>1 DEF Refuse
  <1>4. ASSUME NEW h \in Handlers, Archive(h) PROVE On(h)
    BY <1>d, <1>4 DEF Archive, Places
  <1>5. ASSUME NEW h \in Handlers, Index(h) PROVE On(h)
    BY <1>d, <1>5 DEF Index, Places
  <1>6. ASSUME NEW h \in Handlers, ListSubscriptions(h) PROVE On(h)
    BY <1>b, <1>6 DEF ListSubscriptions, Requests
  <1>7. ASSUME NEW h \in Handlers, FanoutDone(h) PROVE On(h)
    <2>1. (IF Moderating(h) THEN "delete" ELSE "answer") \in Places \ {"idle"}
      BY DEF Places
    <2> QED
      BY <1>d, <1>7, <2>1 DEF FanoutDone
  <1>8. ASSUME NEW h \in Handlers, NEW r \in Recipients,
               EnqueueCopy(h, r) \/ EnqueueFails(h, r)
        PROVE  On(h)
    BY <1>b, <1>8 DEF EnqueueCopy, EnqueueFails, At, Requests
  <1>9. ASSUME NEW h \in Handlers, DeleteHeldMessage(h) PROVE On(h)
    BY <1>d, <1>9 DEF DeleteHeldMessage, Places
  <1>10. ASSUME NEW h \in Handlers, Lose(h) PROVE On(h)
    <2>1. proc[h].at # "idle"
      BY <1>10 DEF Lose, AttemptsOK, Attempt
    <2> QED
      BY <1>b, <1>10, <2>1 DEF Lose, Requests
  <1>11. ASSUME NEW h \in Handlers,
                \/ Answer(h) \/ RecordAudit(h) \/ Fail(h) \/ Kill(h)
         PROVE  AttemptsOK'
    <2>1. Done(h)
      BY <1>11 DEF Answer, RecordAudit, Fail, Kill
    <2>2. \A p \in atMTA \ atMTA' : proc[h].peer /\ p = proc[h].post
      BY <1>11 DEF Answer, RecordAudit, Fail, Kill, Return, PostOf
    <2> QED
      BY <1>a, <2>1, <2>2, MoveOut
  <1>12. ASSUME NEW h \in Handlers, NEW p \in Posts, Receive(h, p)
         PROVE  AttemptsOK'
    <2>1. PICK next \in {"hold", "archive", "refuse"} :
            proc' = [proc EXCEPT ![h].at = next, ![h].post = p,
                                 ![h].peer = TRUE]
      BY <1>12 DEF Receive, DecidePostAction
    <2>2. /\ p \in atMTA /\ atMTA' = atMTA /\ proc[h].at = "idle"
          /\ \A g \in Handlers : ~(proc[g].post = p /\ proc[g].peer)
      BY <1>12 DEF Receive, At, PostOf
    <2>3. proc[h].act = None
      BY <1>b, <2>2 DEF Sound, WellFormed
    <2>4. /\ \A g \in Handlers \ {h} : proc'[g] = proc[g]
          /\ proc'[h].at = next /\ proc'[h].post = p /\ proc'[h].act = None
      BY <1>b, <2>1, <2>3 DEF Requests
    <2>5. Attempt(proc[h])'
      BY <2>2, <2>4 DEF Attempt
    <2>6. ASSUME NEW g \in Handlers \ {h} PROVE Attempt(proc[g])'
      <3>1. proc[g].peer => proc[g].at # "idle" /\ proc[g].post \in atMTA
        BY DEF AttemptsOK, Attempt
      <3> QED
        BY <1>a, <2>2, <2>4, <3>1, AttemptStays
    <2> QED
      BY <2>2, <2>4, <2>5, <2>6 DEF AttemptsOK
  <1>13. ASSUME NEW h \in Handlers, NEW i \in HeldIds, NEW d \in Decisions,
                Decide(h, i, d)
         PROVE  AttemptsOK'
    <2>1. PICK place \in {"archive", "refuse", "delete"} :
            proc' = [proc EXCEPT ![h].at = place, ![h].post = held[i],
                                 ![h].row = i, ![h].act = d]
      BY <1>13 DEF Decide, Decisions
    <2>2. proc[h].at = "idle" /\ held' = held /\ atMTA' = atMTA
      BY <1>13 DEF Decide, At, tables
    <2>3. ~proc[h].peer
      BY <2>2 DEF AttemptsOK, Attempt
    <2>4. /\ \A g \in Handlers \ {h} : proc'[g] = proc[g]
          /\ proc'[h].post = held[i] /\ proc'[h].row = i
          /\ ~proc'[h].peer
      BY <1>b, <2>1, <2>3 DEF Requests
    <2>5. Attempt(proc[h])'
      BY <2>2, <2>4 DEF Attempt
    <2>6. ASSUME NEW g \in Handlers \ {h} PROVE Attempt(proc[g])'
      <3>1. proc[g].peer => proc[g].at # "idle" /\ proc[g].post \in atMTA
        BY DEF AttemptsOK, Attempt
      <3> QED
        BY <1>a, <2>2, <2>4, <3>1, AttemptStays
    <2> QED
      BY <2>4, <2>5, <2>6 DEF AttemptsOK
  <1>14. ASSUME \/ \E i \in HeldIds : Expire(i)
                \/ Sweep
                \/ \E type \in {"discussion", "newsletter"},
                      moderated \in BOOLEAN : ChangeSettings(type, moderated)
                \/ \E r \in Recipients : ChangeDelivery(r)
                \/ UNCHANGED vars
         PROVE  AttemptsOK'
    <2>1. UNCHANGED <<proc, atMTA>>
      BY <1>14 DEF Expire, Sweep, ChangeSettings, ChangeDelivery, vars
    <2> QED
      BY <1>a, <2>1, NoneMoves
  <1> HIDE DEF On
  <1> QED
    BY <1>c, <1>1, <1>2, <1>3, <1>4, <1>5, <1>6, <1>7, <1>8, <1>9, <1>10,
       <1>11, <1>12, <1>13, <1>14
    DEF Next, Step

LEMMA AlwaysAttemptsOK == Spec => [](IInv /\ AttemptsOK)
  BY InitIInv, NextIInv, InitAttemptsOK, NextAttemptsOK, PTL DEF Spec

\* What PostFate sees of Posting.
FateMap  == [p \in Posts |-> FateOf(p)]
QueueMap == {p \in Posts : IsHeld(p)}
Unmoved  == FateMap' = FateMap /\ QueueMap' = QueueMap /\ atMTA' = atMTA

\* PostFate's Meets: the posts of S meet the fates of F.
Meeting(S, F) ==
    \A p \in Posts :
        FateOf(p)' = IF p \in S THEN FateOf(p) \cup F ELSE FateOf(p)

LEMMA MeetingMaps ==
  ASSUME NEW S, NEW F, Meeting(S, F)
  PROVE  Fate!Meets(S, F)
  BY DEF Meeting, Fate!Meets

LEMMA SameFate ==
  ASSUME UNCHANGED <<archived, copies, told, refused, dropped, steady, missed>>
  PROVE  FateMap' = FateMap
  BY DEF FateMap, FateOf, Delivered, Outstanding

LEMMA SameQueue ==
  ASSUME held' = held
  PROVE  QueueMap' = QueueMap
  BY DEF QueueMap, IsHeld

LEMMA DecidedMaps ==
  ASSUME NEW p \in Posts
  PROVE  Decided(p) <=> Fate!Decided(p)
  <1>1. Fate!Decided(p) <=> FateOf(p) \ {"archived"} # {}
    BY DEF Fate!Decided
  <1>2. FateOf(p) \ {"archived"} # {} <=> Decided(p)
    BY DEF FateOf, Decided
  <1> QED
    BY <1>1, <1>2

LEMMA FateInitially == Init => Fate!FateInit
  <1> SUFFICES ASSUME Init PROVE Fate!FateInit
    OBVIOUS
  <1>1. ASSUME NEW p \in Posts PROVE FateOf(p) = {} /\ ~IsHeld(p)
    BY PostingAssumption DEF Init, FateOf, Delivered, IsHeld
  <1> QED
    BY <1>1 DEF Init, Fate!FateInit

DeliveredPosts == {p \in Posts : Delivered(p)}

\* Copies made, given up or no longer due deliver some of the posts.
LEMMA CopiesDeliver ==
  ASSUME Keeps, UNCHANGED <<archived, told, refused, dropped, held, atMTA>>
  PROVE  \E S \in SUBSET Posts : Fate!Deliver(S)
  <1>0. PICK S \in SUBSET Posts : S = DeliveredPosts'
    BY DEF DeliveredPosts
  <1>1. \A p \in Posts : Delivered(p) => Delivered(p)'
    BY DeliveredStays
  <1>2. Meeting(S, {"delivered"})
    BY <1>0, <1>1 DEF DeliveredPosts, Meeting, FateOf
  <1>3. \A p \in S : "archived" \in FateOf(p)
    BY <1>0 DEF DeliveredPosts, Delivered, FateOf
  <1>4. QueueMap' = QueueMap
    BY SameQueue
  <1> QED
    BY <1>2, <1>3, <1>4, MeetingMaps DEF Fate!Deliver, QueueMap

\* Every step of Posting maps to a step of PostFate or leaves it alone.
LEMMA FateStep ==
  IInv /\ AttemptsOK /\ [Next]_vars => [Fate!FateNext]_(Fate!fateVars)
  <1> SUFFICES ASSUME IInv, AttemptsOK, [Next]_vars
               PROVE  Fate!FateNext \/ Unmoved
    BY DEF Fate!fateVars, Unmoved, FateMap, QueueMap
  <1> USE PostingAssumption
  <1>a. Keeps
    BY NextKeeps
  <1>b. TablesOK /\ proc \in [Handlers -> Requests]
        /\ \A h \in Handlers : Sound(proc[h]) /\ Attempt(proc[h])
    BY DEF IInv, HandlersOK, AttemptsOK
  <1>c. ASSUME UNCHANGED <<held, archived, copies, told, refused, dropped,
                           steady, missed, atMTA>>
        PROVE  Unmoved
    BY <1>c, SameFate, SameQueue DEF Unmoved
  <1>d. TablesOK'
    BY NextKeeps DEF IInv
  <1> USE DEF tables, history
  <1>1. ASSUME NEW h \in Handlers, Hold(h)
        PROVE  \E p \in Posts : Fate!Hold(p)
    <2>1. PICK p \in Posts : p = PostOf(h)
      BY <1>b, <1>1 DEF Hold, At, Sound, WellFormed, PostOf
    <2>2. QueueMap' = QueueMap \cup {p}
      <3>1. /\ lastHeld + 1 \in HeldIds
            /\ held' = [held EXCEPT ![lastHeld + 1] = p]
        BY <1>b, <1>1, <2>1 DEF Hold, TablesOK, HeldIds
      <3>2. held[lastHeld + 1] = None
        BY <1>b, <3>1 DEF IInv, Coherent, TablesOK
      <3>3. \A q \in Posts : IsHeld(q)' <=> IsHeld(q) \/ q = p
        BY <1>b, <3>1, <3>2 DEF IsHeld, TablesOK
      <3> QED
        BY <3>3 DEF QueueMap
    <2>3. FateMap' = FateMap /\ atMTA' = atMTA
      BY <1>1, SameFate DEF Hold
    <2>4. Fate!Hold(p)
      BY <2>2, <2>3 DEF Fate!Hold, QueueMap, FateMap
    <2> QED
      BY <2>4
  <1>2. ASSUME NEW h \in Handlers, Refuse(h)
        PROVE  \E p \in Posts : Fate!Tell(p)
    <2>1. PICK p \in Posts : p = PostOf(h)
      BY <1>b, <1>2 DEF Refuse, At, Sound, WellFormed, PostOf
    <2>2. QueueMap' = QueueMap /\ atMTA' = atMTA
      BY <1>2, SameQueue DEF Refuse
    <2>3. Meeting({p}, {"told"})
      BY <1>2, <2>1 DEF Refuse, Meeting, FateOf, Delivered, Outstanding
    <2>4. Fate!Tell(p)
      BY <2>2, <2>3, MeetingMaps DEF Fate!Tell, QueueMap
    <2> QED
      BY <2>4
  <1>3. ASSUME NEW h \in Handlers, Archive(h)
        PROVE  \E p \in Posts : Fate!Archive(p)
    <2>1. PICK p \in Posts : p = PostOf(h)
      BY <1>b, <1>3 DEF Archive, At, Sound, WellFormed, PostOf, Delivering
    <2>2. QueueMap' = QueueMap /\ atMTA' = atMTA
      BY <1>3, SameQueue DEF Archive
    <2>3. \A q \in Posts : q # p => FateOf(q)' = FateOf(q)
      <3>1. \A q \in Posts \ {p} : /\ archived'[q] = archived[q]
                                   /\ steady'[q] = steady[q]
        BY <1>b, <1>3, <2>1 DEF Archive, TablesOK
      <3> QED
        BY <1>3, <3>1 DEF Archive, FateOf, Delivered, Outstanding
    <2>4. archived'[p] > 0
      BY <1>b, <1>3, <2>1 DEF Archive, TablesOK
    <2>5. Delivered(p) => Delivered(p)'
      BY <1>a, DeliveredStays
    <2>6. FateOf(p)' = FateOf(p) \cup (IF Delivered(p)'
                                       THEN {"archived", "delivered"}
                                       ELSE {"archived"})
      BY <1>3, <2>4, <2>5 DEF Archive, FateOf
    <2>7. \/ Meeting({p}, {"archived", "delivered"})
          \/ Meeting({p}, {"archived"})
      BY <2>3, <2>6 DEF Meeting
    <2>8. Fate!Archive(p)
      BY <2>2, <2>7, MeetingMaps DEF Fate!Archive, QueueMap
    <2> QED
      BY <2>8
  <1>4. ASSUME NEW h \in Handlers, NEW r \in Recipients,
               EnqueueCopy(h, r) \/ EnqueueFails(h, r)
        PROVE  \E S \in SUBSET Posts : Fate!Deliver(S)
    BY <1>a, <1>4, CopiesDeliver DEF EnqueueCopy, EnqueueFails
  <1>5. ASSUME NEW r \in Recipients, ChangeDelivery(r)
        PROVE  \E S \in SUBSET Posts : Fate!Deliver(S)
    BY <1>a, <1>5, CopiesDeliver DEF ChangeDelivery
  <1>6. ASSUME NEW h \in Handlers, Answer(h)
        PROVE  (\E p \in Posts : Fate!Accept(p)) \/ Unmoved
    <2>1. PICK p \in Posts : p = PostOf(h)
      BY <1>b, <1>6 DEF Answer, At, Sound, WellFormed, PostOf
    <2>2. FateMap' = FateMap /\ QueueMap' = QueueMap
      BY <1>6, SameFate, SameQueue DEF Answer
    <2>3. CASE ~proc[h].peer
      BY <1>6, <2>2, <2>3 DEF Answer, Unmoved
    <2>4. CASE proc[h].peer
      <3>1. p \in atMTA /\ atMTA' = atMTA \ {p}
        BY <1>b, <1>6, <2>1, <2>4 DEF Answer, Attempt, PostOf
      <3>2. p \in QueueMap \/ Fate!Decided(p)
        BY <1>b, <1>6, <2>1, DecidedMaps
        DEF Answer, At, Sound, Earned, Settled, PostOf, QueueMap
      <3>3. Fate!Accept(p)
        BY <2>2, <3>1, <3>2 DEF Fate!Accept, QueueMap, FateMap
      <3> QED
        BY <3>3
    <2> QED
      BY <2>3, <2>4
  <1>7. ASSUME NEW h \in Handlers, Fail(h)
        PROVE  (\E p \in Posts : Fate!Return(p)) \/ Unmoved
    <2>1. PICK p \in Posts : p = PostOf(h)
      BY <1>b, <1>7 DEF Fail, Sound, WellFormed, PostOf
    <2>2. QueueMap' = QueueMap
      BY <1>7, SameQueue DEF Fail
    <2>3. CASE ~proc[h].peer
      BY <1>7, <1>c, <2>3 DEF Fail, Return
    <2>4. CASE proc[h].peer
      <3>1. p \in atMTA /\ atMTA' = atMTA \ {p}
        BY <1>b, <1>7, <2>1, <2>4 DEF Fail, Return, Attempt, PostOf
      <3>2. Meeting({p}, {"refused"})
        BY <1>7, <2>1, <2>4
        DEF Fail, Return, Meeting, FateOf, Delivered, Outstanding
      <3>3. Fate!Return(p)
        BY <2>2, <3>1, <3>2, MeetingMaps DEF Fate!Return, QueueMap
      <3> QED
        BY <3>3
    <2> QED
      BY <2>3, <2>4
  <1>8. ASSUME NEW h \in Handlers, DeleteHeldMessage(h)
        PROVE  Fate!FateNext \/ Unmoved
    <2> DEFINE i == proc[h].row
    <2>1. PICK p \in Posts : p = PostOf(h)
      BY <1>b, <1>8 DEF DeleteHeldMessage, At, Sound, WellFormed, PostOf
    <2>2. /\ i \in HeldIds /\ held[i] \in {None, p}
          /\ proc[h].act \in Decisions
      BY <1>b, <1>8, <2>1
      DEF DeleteHeldMessage, At, Sound, WellFormed, PostOf, TablesOK, HeldIds
    <2>3. \A q \in Posts : q # p => (IsHeld(q)' <=> IsHeld(q))
      BY <1>b, <1>8, <2>2 DEF DeleteHeldMessage, IsHeld, TablesOK
    <2>4. IsHeld(p)' => IsHeld(p)
      BY <1>b, <1>8 DEF DeleteHeldMessage, IsHeld, TablesOK
    <2>5. \/ QueueMap' = QueueMap
          \/ IsHeld(p) /\ QueueMap' = QueueMap \ {p}
      BY <2>3, <2>4 DEF QueueMap
    <2>6. CASE proc[h].act = "discard"
      <3>1. Meeting({p}, {"dropped"})
        BY <1>8, <2>1, <2>6
        DEF DeleteHeldMessage, Meeting, FateOf, Delivered, Outstanding
      <3>2. p \in QueueMap \/ Fate!Decided(p)
        <4>1. held[i] = p \/ Decided(p)
          BY <1>b, <2>1, <2>6 DEF Attempt, PostOf, Decisions
        <4> QED
          BY <2>2, <4>1, DecidedMaps DEF QueueMap, IsHeld
      <3>3. PICK T \in SUBSET {p} : QueueMap' = QueueMap \ T
        <4>1. QueueMap' = QueueMap \ {} \/ QueueMap' = QueueMap \ {p}
          BY <2>5
        <4>2. {} \in SUBSET {p} /\ {p} \in SUBSET {p}
          OBVIOUS
        <4> QED
          BY <4>1, <4>2
      <3>4. Fate!Drop({p}, T)
        BY <1>8, <3>1, <3>2, <3>3, MeetingMaps
        DEF Fate!Drop, QueueMap, DeleteHeldMessage
      <3> QED
        BY <3>4 DEF Fate!FateNext
    <2>7. CASE proc[h].act # "discard"
      <3>1. FateMap' = FateMap /\ atMTA' = atMTA
        BY <1>8, <2>7, SameFate DEF DeleteHeldMessage
      <3>2. Fate!Decided(p)
        BY <1>b, <1>8, <2>1, <2>2, <2>7, DecidedMaps
        DEF DeleteHeldMessage, At, Sound, Earned, PostOf, Decisions, Decided
      <3>3. CASE QueueMap' = QueueMap
        BY <3>1, <3>3 DEF Unmoved
      <3>4. CASE IsHeld(p) /\ QueueMap' = QueueMap \ {p}
        <4>1. Fate!Clear(p)
          BY <3>1, <3>2, <3>4 DEF Fate!Clear, QueueMap, FateMap
        <4> QED
          BY <4>1 DEF Fate!FateNext
      <3> QED
        BY <2>5, <3>3, <3>4
    <2> QED
      BY <2>6, <2>7
  <1>9. ASSUME Sweep PROVE Fate!FateNext
    <2> DEFINE old == {i \in expired : held[i] # None}
               S == {held[i] : i \in old}
               T == QueueMap \ QueueMap'
    <2>1. /\ held' = [i \in HeldIds |-> IF i \in old THEN None ELSE held[i]]
          /\ dropped' = dropped \cup S
          /\ UNCHANGED <<archived, copies, told, atMTA, refused, steady,
                         missed>>
      BY <1>9 DEF Sweep
    <2>2. old \subseteq HeldIds /\ S \subseteq Posts
      <3>1. expired \subseteq HeldIds /\ held \in [HeldIds -> Posts \cup {None}]
        BY <1>b DEF TablesOK, HeldIds
      <3> QED
        BY <3>1
    <2>3. \A p \in S : IsHeld(p)
      BY <2>2 DEF IsHeld
    <2> HIDE DEF old, S
    <2>4. Meeting(S, {"dropped"})
      BY <2>1 DEF Meeting, FateOf, Delivered, Outstanding
    <2>5. \A p \in Posts : IsHeld(p)' => IsHeld(p)
      BY <2>1 DEF IsHeld
    <2>6. QueueMap' = QueueMap \ T
      BY <2>5 DEF QueueMap
    <2>7. T \subseteq S
      <3>1. ASSUME NEW p \in T PROVE p \in S
        <4>1. PICK i \in HeldIds : held[i] = p
          BY DEF QueueMap, IsHeld
        <4>2. i \in old
          BY <2>1, <4>1 DEF QueueMap, IsHeld
        <4> QED
          BY <4>1, <4>2 DEF S
      <3> QED
        BY <3>1
    <2> HIDE DEF T
    <2>8. \A p \in S : p \in QueueMap
      BY <2>2, <2>3 DEF QueueMap
    <2>9. Fate!Drop(S, T)
      BY <2>1, <2>4, <2>6, <2>7, <2>8, MeetingMaps DEF Fate!Drop, QueueMap
    <2> QED
      BY <2>2, <2>7, <2>9 DEF Fate!FateNext
  <1>10. ASSUME NEW h \in Handlers,
                \/ Notify(h) \/ Index(h) \/ ListSubscriptions(h)
                \/ FanoutDone(h) \/ RecordAudit(h) \/ Kill(h) \/ Lose(h)
         PROVE  Unmoved
    BY <1>c, <1>10
    DEF Notify, Index, ListSubscriptions, FanoutDone, RecordAudit, Kill, Lose
  <1>11. ASSUME NEW h \in Handlers, NEW p \in Posts, Receive(h, p)
         PROVE  Unmoved
    BY <1>c, <1>11 DEF Receive
  <1>13. ASSUME NEW h \in Handlers, NEW i \in HeldIds, NEW d \in Decisions,
                Decide(h, i, d)
         PROVE  Unmoved
    BY <1>c, <1>13 DEF Decide
  <1>14. ASSUME NEW i \in HeldIds, Expire(i) PROVE Unmoved
    BY <1>c, <1>14 DEF Expire
  <1>15. ASSUME NEW type \in {"discussion", "newsletter"},
                NEW moderated \in BOOLEAN, ChangeSettings(type, moderated)
         PROVE  Unmoved
    BY <1>c, <1>15 DEF ChangeSettings
  <1>16. CASE UNCHANGED vars
    BY <1>c, <1>16 DEF vars
  <1>12. ASSUME NEW h \in Handlers, Step(h) \/ Fail(h) \/ Kill(h) \/ Lose(h)
         PROVE  Fate!FateNext \/ Unmoved
    BY <1>1, <1>2, <1>3, <1>4, <1>6, <1>7, <1>8, <1>10, <1>12
    DEF Step, Fate!FateNext
  <1> QED
    BY <1>4, <1>5, <1>9, <1>11, <1>12, <1>13, <1>14, <1>15, <1>16
    DEF Next, Fate!FateNext

\* Posting implements PostFate: what overlaps, is lost or fails does nothing
\* to a post that PostFate does not allow.
THEOREM PostingImplementsPostFate == Spec => ImplementsPostFate
  BY AlwaysAttemptsOK, FateInitially, FateStep, PTL
  DEF Spec, ImplementsPostFate, Fate!FateSpec
=============================================================================
