---------------------------- MODULE ConsoleProofs ----------------------------
(***************************************************************************)
(* The rights, records and forms of Console, for any requests, lists,      *)
(* Subscribers and rows, and any number of changes from outside and of     *)
(* failing calls.                                                          *)
(***************************************************************************)
EXTENDS Console, FiniteSetTheorems, SequenceTheorems, TLAPS

\* A request's program in the large: calls that ask, then calls that do.
Asking     == Gates \cup {"find", "isOwner"}
WriteCalls == {"setRole", "decide", "insert", "activate", "reenable", "reset",
               "setMode", "unsubscribe", "createList", "firstOwner",
               "deleteList", "setType", "setAdmin"} \cup FormCalls
Records    == {"record", "audit"}
Doing      == WriteCalls \cup Records
              \cup {"load", "reload", "list", "guard", "show"}
Calls      == Asking \cup Doing

\* The calls of a request that has written.
AfterWrite == {"description", "instructions", "activate", "firstOwner"}
              \cup Records

ByOwner == Ops \ (Self \cup Archive \cup Instance \cup Moderates)

\* The requests that load the row they are about
Loaders == OfRow \cup OfSub
           \cup {"save", "add", "import", "approve", "reject", "remove",
                 "reenable", "reset"}

\* The requests that make a call
Fit(op, c) ==
    /\ c \in Calls
    /\ c = "management" => op \notin Self \cup Archive
    /\ c = "admin" => op \in Instance
    /\ c = "member" => op \in Archive
    /\ c \in {"isOwner", "either"} => op \in Moderates
    /\ c = "owner" => op \in ByOwner
    /\ c = "find" => op \notin Self
    /\ c = "show" => op \in Reads \ OfRow
    /\ c = "load" => op \in Loaders
    /\ c \in {"decide", "reload"} => op = "moderate"
    /\ c \in {"setRole", "guard"} => op \in {"grant", "revoke"}
    /\ c = "insert" => op \in {"add", "import"}
    /\ c = "activate" => op \in {"add", "import", "approve"}
    /\ c = "reenable" => op \in {"reenable", "resume"}
    /\ c = "reset" => op = "reset"
    /\ c = "setMode" => op = "delivery"
    /\ c = "unsubscribe" => op \in {"reject", "remove", "leave"}
    /\ c \in FormCalls => op = "save"
    /\ c \in {"createList", "firstOwner"} => op = "create"
    /\ c = "deleteList" => op = "delete"
    /\ c = "setType" => op = "type"
    /\ c = "setAdmin" => op \in {"designate", "dismiss"}
    /\ c \in Records => op \notin Self \cup Reads

\* Call y may come after call x.
Follows(op, x, y) ==
    /\ x \notin Records
    /\ x \in Doing \cup {"member", "either"} => y \notin Asking
    /\ x = "isOwner" => y # "find"
    /\ x = "owner" => y \notin Gates
    /\ x = "owner" /\ y = "find" => op \in {"add", "import"}
    /\ x \in WriteCalls => y \in AfterWrite

Ahead(s)       == {s[i] : i \in 1 .. Len(s)}
Ordered(op, s) == \A i, j \in 1 .. Len(s) : i < j => Follows(op, s[i], s[j])

\* requireOwner comes right after the first find.
FindOwner(s) ==
    \A j \in 1 .. Len(s) : s[j] = "owner" =>
        /\ j > 1 /\ s[j - 1] = "find"
        /\ \A i \in 1 .. Len(s) : i < j /\ s[i] = "find" => j = i + 1

\* The calls of a settings form follow each other.
FormOrder(s) ==
    \A j \in 1 .. Len(s) :
        /\ s[j] = "settings" => j < Len(s) /\ s[j + 1] = "description"
        /\ s[j] = "description" =>
              /\ j < Len(s) /\ s[j + 1] = "instructions"
              /\ j > 1 /\ s[j - 1] = "settings"
        /\ s[j] = "instructions" => j > 1 /\ s[j - 1] = "description"

\* What a request's program has
Has(op, A) ==
    /\ "auth" \in A
    /\ op \notin Self \cup Archive => "management" \in A
    /\ op \in Instance => "admin" \in A
    /\ op \in Archive => "member" \in A
    /\ op \in Moderates => {"either", "isOwner"} \subseteq A
    /\ op \in ByOwner => "owner" \in A
    /\ op \notin Self \cup Instance => "find" \in A
    /\ op \in OfSub \cup {"moderate", "approve", "reenable", "reset"} =>
          "load" \in A
    /\ op \in {"add", "import"} => "insert" \in A

Shapely(op, s) ==
    /\ s \in Seq(Calls) /\ s # <<>>
    /\ \A c \in Ahead(s) : Fit(op, c)
    /\ Ordered(op, s) /\ FindOwner(s) /\ FormOrder(s)
    /\ s[Len(s)] \in Doing
    /\ op \notin Self \cup Reads => s[Len(s)] \in Records
    /\ op = "import" => s[Len(s)] = "record"

\* The work of a request, between its gates and its record
Workable(op, A) ==
    /\ A \subseteq (Doing \ Records) \cup {"find"}
    /\ "find" \in A => op \in {"add", "import"} \cup Instance
    /\ \A c \in A : Fit(op, c)
    /\ op \in OfSub \cup {"moderate", "approve", "reenable", "reset"} =>
          "load" \in A
    /\ op \in {"add", "import"} => "insert" \in A

WorkOK(op, s) ==
    /\ s \in Seq(Calls) /\ Len(s) > 0 /\ s[Len(s)] \in Doing
    /\ Workable(op, Ahead(s)) /\ Ordered(op, s)
-----------------------------------------------------------------------------
(***************************************************************************)
(* The inductive invariant                                                 *)
(***************************************************************************)
AllAsks == UNION {Asks[h] : h \in Handlers}
Things  == ({"held", "post"} \X Rows) \cup ({"members", "log"} \X Nat)
Procs   == [ask : AllAsks \cup {Idle.ask}, todo : Seq(Calls), l : Nat,
            gated : Nat, copy : RowType, owns : BOOLEAN, sub : Nat,
            answer : {"none", "ok", "denied", "rejected", "failed", "lost"},
            shown : SUBSET Things, wrote : BOOLEAN, recorded : BOOLEAN,
            struck : BOOLEAN, mixed : BOOLEAN]

\* H are the rights the caller had.  A gate that is no longer ahead was
\* passed, for the list that is being worked on.
Cleared(k, H) ==
    LET A  == Ahead(k.todo)
        op == k.ask.op
    IN  /\ "auth" \notin A => <<"session", 0>> \in H
        /\ op \notin Self \cup Archive /\ "management" \notin A =>
              <<"management", 0>> \in H
        /\ op \in Instance /\ "admin" \notin A => <<"admin", 0>> \in H
        /\ op \in Archive /\ "member" \notin A =>
              "find" \notin A /\ <<"member", k.l>> \in H
        /\ op \in Moderates /\ "either" \notin A =>
              /\ "find" \notin A
              /\ <<"owner", k.l>> \in H \/ <<"moderator", k.l>> \in H
        /\ op \in Moderates /\ k.owns =>
              "find" \notin A /\ <<"owner", k.l>> \in H
        /\ op \in ByOwner /\ "owner" \notin A =>
              /\ <<"owner", k.gated>> \in H /\ k.gated # 0
              /\ op \notin {"add", "import"} =>
                    "find" \notin A /\ k.l = k.gated
        /\ op \in ByOwner /\ "owner" \in A =>
              /\ k.gated # 0 => Head(k.todo) = "owner" /\ k.l = k.gated
              /\ Head(k.todo) = "owner" => k.gated # 0
        /\ op \notin Self \cup Instance /\ "find" \notin A => k.l # 0

\* Enough, for a request by itself
Suffices(k) ==
    CASE k.ask.op \in Self      -> {Signed}
      [] k.ask.op \in Archive   -> {AsMember(k.l)}
      [] k.ask.op \in Instance  -> {AsAdmin}
      [] k.ask.op \in Moderates -> {AsOwner(k.l), AsModerator(k.l)}
      [] OTHER                  -> {AsOwner(k.l)}

\* K are the rights the caller had all the while.
Denial(k, K) ==
    LET A == Ahead(k.todo)
    IN  /\ k.answer = "denied" /\ ~k.struck =>
              \A w \in Suffices(k) : ~(w \subseteq K)
        /\ k.ask.op \in Moderates /\ "isOwner" \notin A
           /\ ~k.owns /\ ~k.struck =>
              "find" \notin A /\ <<"owner", k.l>> \notin K

Ways(H, ways) == \E w \in ways : w \subseteq H

Seen(k, H) ==
    \A x \in k.shown :
        \/ x = <<"log", 0>> /\ AsAdmin \subseteq H
        \/ x[1] \in {"members", "log"} /\ x[2] # 0 /\ AsOwner(x[2]) \subseteq H
        \/ x[1] = "post" /\ AsMember(FiledIn[x[2]]) \subseteq H
        \/ x[1] = "held" /\ Ways(H, {AsOwner(FiledIn[x[2]]),
                                     AsModerator(FiledIn[x[2]])})
        \/ x[1] = "held" /\ SenderOf[x[2]] = k.ask.by /\ Signed \subseteq H

Trailed(k) ==
    /\ k.wrote => k.ask.op \notin Reads
    /\ k.wrote /\ k.answer = "none" => Ahead(k.todo) \subseteq AfterWrite
    /\ k.wrote /\ k.answer # "none" /\ k.ask.op \notin Self =>
          k.recorded \/ k.struck
    /\ k.answer \in {"denied", "rejected"} => ~k.wrote /\ ~k.recorded
    /\ k.recorded => k.answer # "none"

\* What was loaded was the row the request is about.
Checked(k) ==
    LET A  == Ahead(k.todo)
        op == k.ask.op
    IN  /\ op = "moderate" /\ "load" \notin A =>
              "find" \notin A /\ FiledIn[k.ask.n] = k.l
        /\ op \in OfSub /\ "load" \notin A => k.ask.who = k.ask.by
        /\ op \in OfSub \cup {"approve", "reenable", "reset"}
           /\ "load" \notin A => k.sub # 0
        /\ op \in {"add", "import"} /\ "insert" \notin A =>
              /\ "load" \notin A
              /\ "activate" \in A => k.sub # 0

\* The request of a handler
Sane(k, S, H, K) ==
    /\ k \in Procs
    /\ k.ask.op # "none" =>
          /\ k.ask \in S /\ OnWay(k)
          /\ Cleared(k, H) /\ Denial(k, K) /\ Seen(k, H)
          /\ Trailed(k) /\ Checked(k)
    /\ k.ask.op = "none" => k = Idle

\* What a request refers to is there, and the lists found are at its address.
Placed(k) ==
    /\ k.l <= listIds /\ k.gated <= listIds /\ k.sub <= subIds
    /\ k.l # 0 => row[k.l].addr = k.ask.addr
    /\ k.gated # 0 => row[k.gated].addr = k.ask.addr
    /\ k.ask.op = "save" /\ k.l # 0 => k.copy.addr = k.ask.addr

TablesOK ==
    /\ session \subseteq Persons /\ management \in BOOLEAN
    /\ admins \subseteq Persons
    /\ listIds \in 0 .. MaxLists /\ lists \subseteq 1 .. listIds
    /\ row \in [Ids -> RowType]
    /\ \A i, j \in lists : row[i].addr = row[j].addr => i = j
    /\ holders \in [Roles -> [Ids -> SUBSET Persons]]
    /\ subIds \in 0 .. MaxSubs /\ SubsOK(subs, subIds)
    /\ held \in [Rows -> Nat] /\ posts \in [Rows -> Nat]
    /\ \A r \in Rows : {held[r], posts[r]} \subseteq {0, FiledIn[r]}
    /\ events \in 0 .. MaxEvents

IInv ==
    /\ TablesOK
    /\ proc \in [Handlers -> Procs]
    /\ had \in [Handlers -> SUBSET Rights]
    /\ kept \in [Handlers -> SUBSET Rights]
    /\ \A h \in Handlers : /\ Sane(proc[h], Asks[h], had[h], kept[h])
                           /\ Placed(proc[h])

\* What is left of a form of several requests: one of them is saving, was cut
\* short or met another one.
WholeForm(i) == row[i].settings = row[i].description
                /\ row[i].settings = row[i].instructions
Mixing(h, i) == /\ Op(h) = "save" /\ L(h) = i /\ proc[h].wrote
                /\ Saving(h) \/ proc[h].struck \/ proc[h].mixed

\* The parts saved so far are there, if the list is and no other save is.
HalfSaved(h) ==
    Saving(h) /\ ~proc[h].mixed /\ L(h) \in lists =>
        /\ Call(h) = "description" => row[L(h)].settings = h
        /\ Call(h) = "instructions" =>
              row[L(h)].settings = h /\ row[L(h)].description = h

FormInv ==
    /\ \A i \in lists : WholeForm(i) \/ \E h \in Handlers : Mixing(h, i)
    /\ \A h \in Handlers : HalfSaved(h)
-----------------------------------------------------------------------------
(***************************************************************************)
(* The programs                                                            *)
(***************************************************************************)
\* Sequences of up to five calls: what is ahead in them, and when they are in
\* order.
LEMMA Calls1 ==
  ASSUME NEW op, NEW v \in Calls
  PROVE  /\ <<v>> \in Seq(Calls) /\ Len(<<v>>) = 1
         /\ <<v>>[1] = v
         /\ Ahead(<<v>>) = {v}
         /\ Ordered(op, <<v>>)
  <1> DEFINE s == <<v>>
  <1>1. s \in Seq(Calls) /\ Len(s) = 1
    OBVIOUS
  <1>2. 1 .. Len(s) = {1}
    BY <1>1
  <1>3. s[1] = v
    OBVIOUS
  <1> HIDE DEF s
  <1>4. Ahead(s) = {v}
    BY <1>2, <1>3 DEF Ahead
  <1>5. Ordered(op, s)
    BY <1>2 DEF Ordered
  <1> QED
    BY <1>1, <1>3, <1>4, <1>5 DEF s

LEMMA Calls2 ==
  ASSUME NEW op, NEW v \in Calls, NEW w \in Calls
  PROVE  /\ <<v, w>> \in Seq(Calls) /\ Len(<<v, w>>) = 2
         /\ <<v, w>>[2] = w
         /\ Ahead(<<v, w>>) = {v, w}
         /\ /\ Follows(op, v, w)
            => Ordered(op, <<v, w>>)
  <1> DEFINE s == <<v, w>>
  <1>1. s \in Seq(Calls) /\ Len(s) = 2
    OBVIOUS
  <1>2. 1 .. Len(s) = {1, 2}
    BY <1>1
  <1>3. s[1] = v /\ s[2] = w
    OBVIOUS
  <1> HIDE DEF s
  <1>4. Ahead(s) = {v, w}
    BY <1>2, <1>3 DEF Ahead
  <1>5. ASSUME Follows(op, v, w)
        PROVE  Ordered(op, s)
    BY <1>2, <1>3, <1>5 DEF Ordered
  <1> QED
    BY <1>1, <1>3, <1>4, <1>5 DEF s

LEMMA Calls3 ==
  ASSUME NEW op, NEW v \in Calls, NEW w \in Calls, NEW x \in Calls
  PROVE  /\ <<v, w, x>> \in Seq(Calls) /\ Len(<<v, w, x>>) = 3
         /\ <<v, w, x>>[3] = x
         /\ Ahead(<<v, w, x>>) = {v, w, x}
         /\ /\ Follows(op, v, w) /\ Follows(op, v, x) /\ Follows(op, w, x)
            => Ordered(op, <<v, w, x>>)
  <1> DEFINE s == <<v, w, x>>
  <1>1. s \in Seq(Calls) /\ Len(s) = 3
    OBVIOUS
  <1>2. 1 .. Len(s) = {1, 2, 3}
    BY <1>1
  <1>3. s[1] = v /\ s[2] = w /\ s[3] = x
    OBVIOUS
  <1> HIDE DEF s
  <1>4. Ahead(s) = {v, w, x}
    BY <1>2, <1>3 DEF Ahead
  <1>5. ASSUME Follows(op, v, w), Follows(op, v, x), Follows(op, w, x)
        PROVE  Ordered(op, s)
    BY <1>2, <1>3, <1>5 DEF Ordered
  <1> QED
    BY <1>1, <1>3, <1>4, <1>5 DEF s

LEMMA Calls4 ==
  ASSUME NEW op, NEW v \in Calls, NEW w \in Calls, NEW x \in Calls,
         NEW y \in Calls
  PROVE  /\ <<v, w, x, y>> \in Seq(Calls) /\ Len(<<v, w, x, y>>) = 4
         /\ <<v, w, x, y>>[4] = y
         /\ Ahead(<<v, w, x, y>>) = {v, w, x, y}
         /\ /\ Follows(op, v, w) /\ Follows(op, v, x) /\ Follows(op, v, y)
            /\ Follows(op, w, x) /\ Follows(op, w, y) /\ Follows(op, x, y)
            => Ordered(op, <<v, w, x, y>>)
  <1> DEFINE s == <<v, w, x, y>>
  <1>1. s \in Seq(Calls) /\ Len(s) = 4
    OBVIOUS
  <1>2. 1 .. Len(s) = {1, 2, 3, 4}
    BY <1>1
  <1>3. s[1] = v /\ s[2] = w /\ s[3] = x /\ s[4] = y
    OBVIOUS
  <1> HIDE DEF s
  <1>4. Ahead(s) = {v, w, x, y}
    BY <1>2, <1>3 DEF Ahead
  <1>5. ASSUME Follows(op, v, w), Follows(op, v, x), Follows(op, v, y),
               Follows(op, w, x), Follows(op, w, y), Follows(op, x, y)
        PROVE  Ordered(op, s)
    BY <1>2, <1>3, <1>5 DEF Ordered
  <1> QED
    BY <1>1, <1>3, <1>4, <1>5 DEF s

LEMMA Calls5 ==
  ASSUME NEW op, NEW v \in Calls, NEW w \in Calls, NEW x \in Calls,
         NEW y \in Calls, NEW z \in Calls
  PROVE  /\ <<v, w, x, y, z>> \in Seq(Calls) /\ Len(<<v, w, x, y, z>>) = 5
         /\ <<v, w, x, y, z>>[5] = z
         /\ Ahead(<<v, w, x, y, z>>) = {v, w, x, y, z}
         /\ /\ Follows(op, v, w) /\ Follows(op, v, x) /\ Follows(op, v, y)
            /\ Follows(op, v, z) /\ Follows(op, w, x) /\ Follows(op, w, y)
            /\ Follows(op, w, z) /\ Follows(op, x, y) /\ Follows(op, x, z)
            /\ Follows(op, y, z)
            => Ordered(op, <<v, w, x, y, z>>)
  <1> DEFINE s == <<v, w, x, y, z>>
  <1>1. s \in Seq(Calls) /\ Len(s) = 5
    OBVIOUS
  <1>2. 1 .. Len(s) = {1, 2, 3, 4, 5}
    BY <1>1
  <1>3. s[1] = v /\ s[2] = w /\ s[3] = x /\ s[4] = y /\ s[5] = z
    OBVIOUS
  <1> HIDE DEF s
  <1>4. Ahead(s) = {v, w, x, y, z}
    BY <1>2, <1>3 DEF Ahead
  <1>5. ASSUME Follows(op, v, w), Follows(op, v, x), Follows(op, v, y),
               Follows(op, v, z), Follows(op, w, x), Follows(op, w, y),
               Follows(op, w, z), Follows(op, x, y), Follows(op, x, z),
               Follows(op, y, z)
        PROVE  Ordered(op, s)
    BY <1>2, <1>3, <1>5 DEF Ordered
  <1> QED
    BY <1>1, <1>3, <1>4, <1>5 DEF s

\* What two sequences of calls become together.
LEMMA Concat ==
  ASSUME NEW op, NEW s \in Seq(Calls), NEW t \in Seq(Calls)
  PROVE  /\ s \o t \in Seq(Calls) /\ Len(s \o t) = Len(s) + Len(t)
         /\ Ahead(s \o t) = Ahead(s) \cup Ahead(t)
         /\ Len(t) > 0 => (s \o t)[Len(s \o t)] = t[Len(t)]
         /\ Len(t) = 0 => s \o t = s
         /\ /\ Ordered(op, s) /\ Ordered(op, t)
            /\ \A x \in Ahead(s), y \in Ahead(t) : Follows(op, x, y)
            => Ordered(op, s \o t)
         /\ FindOwner(s) /\ "owner" \notin Ahead(t) => FindOwner(s \o t)
         /\ FormOrder(s) /\ FormOrder(t) => FormOrder(s \o t)
  <1>1. /\ s \o t \in Seq(Calls) /\ Len(s \o t) = Len(s) + Len(t)
        /\ Len(s) \in Nat /\ Len(t) \in Nat
    BY ConcatProperties
  <1>2. \A i \in 1 .. Len(s \o t) :
            (s \o t)[i] = IF i <= Len(s) THEN s[i] ELSE t[i - Len(s)]
    BY ConcatProperties
  <1>3. \A i \in 1 .. Len(s) : i \in 1 .. Len(s \o t) /\ (s \o t)[i] = s[i]
    BY <1>1, <1>2
  <1>4. \A i \in 1 .. Len(t) : /\ Len(s) + i \in 1 .. Len(s \o t)
                               /\ (s \o t)[Len(s) + i] = t[i]
    BY <1>1, <1>2
  <1>5. \A i \in 1 .. Len(s \o t) : i > Len(s) =>
            i - Len(s) \in 1 .. Len(t) /\ (s \o t)[i] = t[i - Len(s)]
    BY <1>1, <1>2
  <1>6. Ahead(s \o t) = Ahead(s) \cup Ahead(t)
    <2>1. ASSUME NEW c \in Ahead(s \o t) PROVE c \in Ahead(s) \cup Ahead(t)
      <3>1. PICK i \in 1 .. Len(s \o t) : c = (s \o t)[i]
        BY DEF Ahead
      <3>2. CASE i <= Len(s)
        BY <1>1, <1>2, <3>1, <3>2 DEF Ahead
      <3>3. CASE i > Len(s)
        BY <1>5, <3>1, <3>3 DEF Ahead
      <3> QED
        BY <1>1, <3>2, <3>3
    <2>2. ASSUME NEW c \in Ahead(s) PROVE c \in Ahead(s \o t)
      BY <1>3 DEF Ahead
    <2>3. ASSUME NEW c \in Ahead(t) PROVE c \in Ahead(s \o t)
      BY <1>4 DEF Ahead
    <2> QED
      BY <2>1, <2>2, <2>3
  <1>7. Len(t) > 0 => (s \o t)[Len(s \o t)] = t[Len(t)]
    BY <1>1, <1>4
  <1>8. Len(t) = 0 => s \o t = s
    BY ConcatEmptySeq, EmptySeq
  <1>9. ASSUME Ordered(op, s), Ordered(op, t),
               \A x \in Ahead(s), y \in Ahead(t) : Follows(op, x, y)
        PROVE  Ordered(op, s \o t)
    <2> SUFFICES ASSUME NEW i \in 1 .. Len(s \o t),
                        NEW j \in 1 .. Len(s \o t), i < j
                 PROVE  Follows(op, (s \o t)[i], (s \o t)[j])
      BY DEF Ordered
    <2>1. CASE j <= Len(s)
      BY <1>1, <1>2, <1>9, <2>1 DEF Ordered
    <2>2. CASE i > Len(s)
      <3>1. /\ i - Len(s) \in 1 .. Len(t) /\ (s \o t)[i] = t[i - Len(s)]
            /\ j - Len(s) \in 1 .. Len(t) /\ (s \o t)[j] = t[j - Len(s)]
            /\ i - Len(s) < j - Len(s)
        BY <1>1, <1>5, <2>2
      <3> QED
        BY <1>9, <3>1 DEF Ordered
    <2>3. CASE i <= Len(s) /\ j > Len(s)
      <3>1. (s \o t)[i] \in Ahead(s)
        BY <1>1, <1>2, <2>3 DEF Ahead
      <3>2. (s \o t)[j] \in Ahead(t)
        BY <1>5, <2>3 DEF Ahead
      <3> QED
        BY <1>9, <3>1, <3>2
    <2> QED
      BY <1>1, <2>1, <2>2, <2>3
  <1>10. ASSUME FindOwner(s), "owner" \notin Ahead(t)
         PROVE  FindOwner(s \o t)
    <2> SUFFICES ASSUME NEW j \in 1 .. Len(s \o t), (s \o t)[j] = "owner"
                 PROVE  /\ j > 1 /\ (s \o t)[j - 1] = "find"
                        /\ \A i \in 1 .. Len(s \o t) :
                              i < j /\ (s \o t)[i] = "find" => j = i + 1
      BY DEF FindOwner
    <2>1. j <= Len(s)
      BY <1>1, <1>5, <1>10 DEF Ahead
    <2>2. j \in 1 .. Len(s) /\ s[j] = "owner"
      BY <1>1, <1>2, <2>1
    <2>3. j > 1 /\ (s \o t)[j - 1] = "find"
      <3>1. j > 1 /\ s[j - 1] = "find" /\ j - 1 \in 1 .. Len(s)
        BY <1>1, <1>10, <2>2 DEF FindOwner
      <3> QED
        BY <1>3, <3>1
    <2>4. ASSUME NEW i \in 1 .. Len(s \o t), i < j, (s \o t)[i] = "find"
          PROVE  j = i + 1
      <3>1. i \in 1 .. Len(s) /\ s[i] = "find"
        BY <1>1, <1>2, <2>2, <2>4
      <3> QED
        BY <1>10, <2>2, <2>4, <3>1 DEF FindOwner
    <2> QED
      BY <2>3, <2>4
  <1>11. ASSUME FormOrder(s), FormOrder(t)
         PROVE  FormOrder(s \o t)
    <2> DEFINE u == s \o t
    <2> HIDE DEF u
    <2>1. /\ Len(u) = Len(s) + Len(t)
          /\ \A i \in 1 .. Len(s) : i \in 1 .. Len(u) /\ u[i] = s[i]
          /\ \A i \in 1 .. Len(t) : /\ Len(s) + i \in 1 .. Len(u)
                                   /\ u[Len(s) + i] = t[i]
          /\ \A i \in 1 .. Len(u) : i > Len(s) =>
                i - Len(s) \in 1 .. Len(t) /\ u[i] = t[i - Len(s)]
      BY <1>1, <1>3, <1>4, <1>5 DEF u
    <2> SUFFICES ASSUME NEW j \in 1 .. Len(u)
                 PROVE
          /\ u[j] = "settings" => j < Len(u) /\ u[j + 1] = "description"
          /\ u[j] = "description" =>
                /\ j < Len(u) /\ u[j + 1] = "instructions"
                /\ j > 1 /\ u[j - 1] = "settings"
          /\ u[j] = "instructions" => j > 1 /\ u[j - 1] = "description"
      BY DEF FormOrder, u
    <2>2. CASE j <= Len(s)
      <3>1. j \in 1 .. Len(s) /\ u[j] = s[j]
        BY <1>1, <2>1, <2>2
      <3>2. j < Len(s) => j < Len(u) /\ u[j + 1] = s[j + 1]
        BY SMTT(40), <1>1, <2>1, <3>1
      <3>3. j > 1 => u[j - 1] = s[j - 1]
        BY <1>1, <2>1, <3>1
      <3> QED
        BY <1>11, <3>1, <3>2, <3>3 DEF FormOrder
    <2>3. CASE j > Len(s)
      <3> DEFINE i == j - Len(s)
      <3>1. i \in 1 .. Len(t) /\ u[j] = t[i]
        BY <1>1, <2>1, <2>3
      <3>2. i < Len(t) => j < Len(u) /\ u[j + 1] = t[i + 1]
        <4>1. Len(s) + (i + 1) = j + 1
          BY <1>1, <2>1
        <4> QED
          BY <1>1, <2>1, <3>1, <4>1
      <3>3. i > 1 => j > 1 /\ u[j - 1] = t[i - 1]
        <4>1. Len(s) + (i - 1) = j - 1
          BY <1>1, <2>1
        <4> QED
          BY SMTT(40), <1>1, <2>1, <3>1, <4>1
      <3> HIDE DEF i
      <3> QED
        BY <1>11, <3>1, <3>2, <3>3 DEF FormOrder
    <2> QED
      BY <1>1, <2>1, <2>2, <2>3
  <1> QED
    BY <1>1, <1>6, <1>7, <1>8, <1>9, <1>10, <1>11

\* A sequence of up to four calls that are fit for it is a work.
LEMMA Work1 ==
  ASSUME NEW op, NEW v \in Calls,
         v \in Doing, Workable(op, {v})
  PROVE  WorkOK(op, <<v>>)
  BY Calls1 DEF WorkOK

LEMMA Work2 ==
  ASSUME NEW op, NEW v \in Calls, NEW w \in Calls,
         w \in Doing, Workable(op, {v, w}),
         Follows(op, v, w)
  PROVE  WorkOK(op, <<v, w>>)
  BY Calls2 DEF WorkOK

LEMMA Work3 ==
  ASSUME NEW op, NEW v \in Calls, NEW w \in Calls, NEW x \in Calls,
         x \in Doing, Workable(op, {v, w, x}),
         Follows(op, v, w), Follows(op, v, x), Follows(op, w, x)
  PROVE  WorkOK(op, <<v, w, x>>)
  BY Calls3 DEF WorkOK

LEMMA Work4 ==
  ASSUME NEW op, NEW v \in Calls, NEW w \in Calls, NEW x \in Calls,
         NEW y \in Calls, y \in Doing, Workable(op, {v, w, x, y}),
         Follows(op, v, w), Follows(op, v, x), Follows(op, v, y),
         Follows(op, w, x), Follows(op, w, y), Follows(op, x, y)
  PROVE  WorkOK(op, <<v, w, x, y>>)
  BY Calls4 DEF WorkOK

\* What may follow what, in a work
LEMMA InWork ==
  ASSUME NEW op, NEW x \in (Doing \ Records) \cup {"find"},
         NEW y \in Doing \cup {"find"},
         x # "find" => y # "find" /\ (x \in WriteCalls => y \in AfterWrite)
  PROVE  Follows(op, x, y)
  BY DEF Follows, Doing, Asking, Gates, Records, WriteCalls, FormCalls

\* Short sequences put together
LEMMA JoinIs ==
  ASSUME NEW s \in Seq(Calls), NEW t \in Seq(Calls), NEW u \in Seq(Calls),
         Len(u) = Len(s) + Len(t), \A i \in 1 .. Len(s) : u[i] = s[i],
         \A i \in 1 .. Len(t) : u[Len(s) + i] = t[i]
  PROVE  s \o t = u
  <1>1. s \o t \in Seq(Calls) /\ Len(s \o t) = Len(u)
    BY ConcatProperties
  <1>2. ASSUME NEW i \in 1 .. Len(s \o t) PROVE (s \o t)[i] = u[i]
    <2>1. /\ (s \o t)[i] = IF i <= Len(s) THEN s[i] ELSE t[i - Len(s)]
          /\ Len(s) \in Nat /\ Len(t) \in Nat
      BY <1>1, ConcatProperties
    <2>2. i \in Int /\ 1 <= i /\ i <= Len(s) + Len(t)
      BY <1>1, <2>1
    <2>3. CASE i <= Len(s)
      <3>1. i \in 1 .. Len(s)
        BY <2>1, <2>2, <2>3
      <3>2. u[i] = s[i]
        BY <3>1
      <3>3. (s \o t)[i] = s[i]
        BY ONLY <2>1, <2>3
      <3> QED
        BY ONLY <3>2, <3>3
    <2>4. CASE ~(i <= Len(s))
      <3>1. i - Len(s) \in 1 .. Len(t) /\ Len(s) + (i - Len(s)) = i
        BY <2>1, <2>2, <2>4
      <3>2. u[i] = t[i - Len(s)]
        BY <3>1
      <3>3. (s \o t)[i] = t[i - Len(s)]
        BY ONLY <2>1, <2>4
      <3> QED
        BY ONLY <3>2, <3>3
    <2> QED
      BY <2>3, <2>4
  <1> QED
    BY <1>1, <1>2, SeqEqual

LEMMA Joins ==
  ASSUME NEW v \in Calls, NEW x \in Calls, NEW y \in Calls, NEW z \in Calls
  PROVE  /\ <<v>> \o <<>> = <<v>>
         /\ <<v>> \o <<x>> = <<v, x>>
         /\ <<v, x>> \o <<y>> = <<v, x, y>>
         /\ <<v>> \o <<x, y, z>> = <<v, x, y, z>>
  <1>1. <<v>> \o <<>> = <<v>>
    BY ConcatEmptySeq
  <1>2. <<v>> \o <<x>> = <<v, x>>
    <2> DEFINE s == <<v>>
               t == <<x>>
               u == <<v, x>>
    <2>1. /\ s \in Seq(Calls) /\ t \in Seq(Calls) /\ u \in Seq(Calls)
          /\ Len(s) = 1 /\ Len(t) = 1 /\ Len(u) = 2
      OBVIOUS
    <2>2. s[1] = v
      OBVIOUS
    <2>3. t[1] = x
      OBVIOUS
    <2>4. u[1] = v /\ u[2] = x
      OBVIOUS
    <2> HIDE DEF s, t, u
    <2>5. 1 .. Len(s) = {1} /\ 1 .. Len(t) = {1}
      BY <2>1
    <2>6. /\ Len(u) = Len(s) + Len(t)
          /\ \A i \in 1 .. Len(s) : u[i] = s[i]
          /\ \A i \in 1 .. Len(t) : u[Len(s) + i] = t[i]
      BY <2>1, <2>2, <2>3, <2>4, <2>5
    <2>7. s \in Seq(Calls) /\ t \in Seq(Calls) /\ u \in Seq(Calls)
      BY <2>1
    <2>8. s \o t = u
      BY <2>6, <2>7, JoinIs
    <2> QED
      BY <2>8 DEF s, t, u
  <1>3. <<v, x>> \o <<y>> = <<v, x, y>>
    <2> DEFINE s == <<v, x>>
               t == <<y>>
               u == <<v, x, y>>
    <2>1. /\ s \in Seq(Calls) /\ t \in Seq(Calls) /\ u \in Seq(Calls)
          /\ Len(s) = 2 /\ Len(t) = 1 /\ Len(u) = 3
      OBVIOUS
    <2>2. s[1] = v /\ s[2] = x
      OBVIOUS
    <2>3. t[1] = y
      OBVIOUS
    <2>4. u[1] = v /\ u[2] = x /\ u[3] = y
      OBVIOUS
    <2> HIDE DEF s, t, u
    <2>5. 1 .. Len(s) = {1, 2} /\ 1 .. Len(t) = {1}
      BY <2>1
    <2>6. /\ Len(u) = Len(s) + Len(t)
          /\ \A i \in 1 .. Len(s) : u[i] = s[i]
          /\ \A i \in 1 .. Len(t) : u[Len(s) + i] = t[i]
      BY <2>1, <2>2, <2>3, <2>4, <2>5
    <2>7. s \in Seq(Calls) /\ t \in Seq(Calls) /\ u \in Seq(Calls)
      BY <2>1
    <2>8. s \o t = u
      BY <2>6, <2>7, JoinIs
    <2> QED
      BY <2>8 DEF s, t, u
  <1>4. <<v>> \o <<x, y, z>> = <<v, x, y, z>>
    <2> DEFINE s == <<v>>
               t == <<x, y, z>>
               u == <<v, x, y, z>>
    <2>1. /\ s \in Seq(Calls) /\ t \in Seq(Calls) /\ u \in Seq(Calls)
          /\ Len(s) = 1 /\ Len(t) = 3 /\ Len(u) = 4
      OBVIOUS
    <2>2. s[1] = v
      OBVIOUS
    <2>3. t[1] = x /\ t[2] = y /\ t[3] = z
      OBVIOUS
    <2>4. u[1] = v /\ u[2] = x /\ u[3] = y /\ u[4] = z
      OBVIOUS
    <2> HIDE DEF s, t, u
    <2>5. 1 .. Len(s) = {1} /\ 1 .. Len(t) = {1, 2, 3}
      BY <2>1
    <2>6. /\ Len(u) = Len(s) + Len(t)
          /\ \A i \in 1 .. Len(s) : u[i] = s[i]
          /\ \A i \in 1 .. Len(t) : u[Len(s) + i] = t[i]
      BY <2>1, <2>2, <2>3, <2>4, <2>5
    <2>7. s \in Seq(Calls) /\ t \in Seq(Calls) /\ u \in Seq(Calls)
      BY <2>1
    <2>8. s \o t = u
      BY <2>6, <2>7, JoinIs
    <2> QED
      BY <2>8 DEF s, t, u
  <1> QED
    BY <1>1, <1>2, <1>3, <1>4

\* The work of a settings form
LEMMA SaveWork ==
  ASSUME NEW a, a.op = "save"
  PROVE  Work(a) = <<"load", "settings", "description", "instructions">>
  <1>1. Work(a) = Writes(a)
    BY DEF Work
  <1>2. Writes(a) = handleConsoleSettings
    BY DEF Writes
  <1>3. {"load", "settings", "description", "instructions"} \subseteq Calls
    BY DEF Calls, Doing, WriteCalls, FormCalls
  <1>4. handleConsoleSettings
          = <<"load", "settings", "description", "instructions">>
    <2> DEFINE s == <<"load">>
               t == <<"settings", "description", "instructions">>
               u == <<"load", "settings", "description", "instructions">>
    <2>1. /\ s \in Seq(Calls) /\ t \in Seq(Calls) /\ u \in Seq(Calls)
          /\ Len(s) = 1 /\ Len(t) = 3 /\ Len(u) = 4
      BY ONLY <1>3
    <2>2. /\ s[1] = "load"
          /\ t[1] = "settings" /\ t[2] = "description"
          /\ t[3] = "instructions"
      OBVIOUS
    <2>3. /\ u[1] = "load" /\ u[2] = "settings" /\ u[3] = "description"
          /\ u[4] = "instructions"
      OBVIOUS
    <2>4. handleConsoleSettings = s \o t
      BY DEF handleConsoleSettings, FormParts
    <2> HIDE DEF s, t, u
    <2>5. 1 .. Len(s) = {1} /\ 1 .. Len(t) = {1, 2, 3}
      BY ONLY <2>1
    <2>6. /\ Len(u) = Len(s) + Len(t)
          /\ \A i \in 1 .. Len(s) : u[i] = s[i]
          /\ \A i \in 1 .. Len(t) : u[Len(s) + i] = t[i]
      BY ONLY <2>1, <2>2, <2>3, <2>5
    <2>7. s \o t = u
      BY <2>1, <2>6, JoinIs
    <2> QED
      BY <2>4, <2>7 DEF u
  <1> QED
    BY <1>1, <1>2, <1>4

\* Every page and action has a work.
LEMMA Works ==
  ASSUME NEW a, a.op \in Ops, a.op \in {"grant", "revoke"} => a.role \in Roles
  PROVE  WorkOK(a.op, Work(a))
  <1> USE DEF Calls, Asking, Gates, Doing, WriteCalls, FormCalls, Records

  <1>1. CASE a.op \in {"queue", "roster", "export", "bounces", "log", "logs",
                     "archives", "mine"}
    <2>1. Work(a) = <<"show">>
      BY <1>1
      DEF Work, handleConsoleHeldList, handleConsoleMembers,
             writeAuditEvents, handleConsoleMembersExport, handleConsoleBounces,
             handleArchives, handleMyHeldPosts
    <2>2. {"show"} \subseteq Calls
      OBVIOUS
    <2>3. Workable(a.op, {"show"})
      BY <1>1 DEF Workable, Fit, OfSub, OfRow, Loaders, ByOwner, Ops, Self,
             Reads, Archive, Instance, Moderates
    <2> QED
      BY <2>1, <2>2, <2>3, Work1
  <1>2. CASE a.op \in {"open", "attachment", "entry", "file"}
    <2>1. Work(a) = <<"load">>
      BY <1>2 DEF Work, handleConsoleHeldDetail, handleConsoleHeldAttachment,
             handleArchiveEntry, handleArchiveAttachment
    <2>2. {"load"} \subseteq Calls
      OBVIOUS
    <2>3. Workable(a.op, {"load"})
      BY <1>2 DEF Workable, Fit, OfSub, OfRow, Loaders, ByOwner, Ops, Self,
             Reads, Archive, Instance, Moderates
    <2> QED
      BY <2>1, <2>2, <2>3, Work1
  <1>3. CASE a.op \in {"add", "import"}
    <2>1. Work(a) = <<"find", "load", "insert", "activate">>
      BY <1>3 DEF Work, Writes, AddMember, ImportMembers
    <2>2. {"find", "load", "insert", "activate"} \subseteq Calls
      OBVIOUS
    <2>3. Workable(a.op, {"find", "load", "insert", "activate"})
      BY <1>3 DEF Workable, Fit, OfSub, OfRow, Loaders, ByOwner, Ops, Self,
             Reads, Archive, Instance, Moderates
    <2>4. /\ Follows(a.op, "find", "load")
          /\ Follows(a.op, "find", "insert")
          /\ Follows(a.op, "find", "activate")
          /\ Follows(a.op, "load", "insert")
          /\ Follows(a.op, "load", "activate")
          /\ Follows(a.op, "insert", "activate")
      BY <1>3, InWork DEF AfterWrite
    <2> QED
      BY <2>1, <2>2, <2>3, <2>4, Work4
  <1>4. CASE a.op = "approve"
    <2>1. Work(a) = <<"load", "list", "activate">>
      BY <1>4 DEF Work, Writes, ApproveSubscription
    <2>2. {"load", "list", "activate"} \subseteq Calls
      OBVIOUS
    <2>3. Workable(a.op, {"load", "list", "activate"})
      BY <1>4 DEF Workable, Fit, OfSub, OfRow, Loaders, ByOwner, Ops, Self,
             Reads, Archive, Instance, Moderates
    <2>4. /\ Follows(a.op, "load", "list")
          /\ Follows(a.op, "load", "activate")
          /\ Follows(a.op, "list", "activate")
      BY <1>4, InWork DEF AfterWrite
    <2> QED
      BY <2>1, <2>2, <2>3, <2>4, Work3
  <1>5. CASE a.op \in {"reject", "remove"}
    <2>1. Work(a) = <<"load", "list", "unsubscribe">>
      BY <1>5 DEF Work, Writes, RejectSubscription, RemoveMember
    <2>2. {"load", "list", "unsubscribe"} \subseteq Calls
      OBVIOUS
    <2>3. Workable(a.op, {"load", "list", "unsubscribe"})
      BY <1>5 DEF Workable, Fit, OfSub, OfRow, Loaders, ByOwner, Ops, Self,
             Reads, Archive, Instance, Moderates
    <2>4. /\ Follows(a.op, "load", "list")
          /\ Follows(a.op, "load", "unsubscribe")
          /\ Follows(a.op, "list", "unsubscribe")
      BY <1>5, InWork DEF AfterWrite
    <2> QED
      BY <2>1, <2>2, <2>3, <2>4, Work3
  <1>6. CASE a.op \in {"grant", "revoke"} /\ a.role = "sender"
    <2>1. Work(a) = <<"setRole">>
      BY <1>6 DEF Work, Writes, handleConsoleSenders
    <2>2. {"setRole"} \subseteq Calls
      OBVIOUS
    <2>3. Workable(a.op, {"setRole"})
      BY <1>6 DEF Workable, Fit, OfSub, OfRow, Loaders, ByOwner, Ops, Self,
             Reads, Archive, Instance, Moderates
    <2> QED
      BY <2>1, <2>2, <2>3, Work1
  <1>7. CASE a.op = "grant" /\ a.role # "sender"
    <2>1. Work(a) = <<"list", "setRole">>
      BY <1>7 DEF Work, Writes, GrantRole
    <2>2. {"list", "setRole"} \subseteq Calls
      OBVIOUS
    <2>3. Workable(a.op, {"list", "setRole"})
      BY <1>7 DEF Workable, Fit, OfSub, OfRow, Loaders, ByOwner, Ops, Self,
             Reads, Archive, Instance, Moderates
    <2>4. Follows(a.op, "list", "setRole")
      BY <1>7, InWork DEF AfterWrite
    <2> QED
      BY <2>1, <2>2, <2>3, <2>4, Work2
  <1>8. CASE a.op = "revoke" /\ a.role = "owner"
    <2>1. Work(a) = <<"list", "guard", "setRole">>
      <3>1. Work(a) = <<"list">> \o <<"guard">> \o <<"setRole">>
        BY <1>8 DEF Work, Writes, RevokeRole
      <3>2. <<"list">> \o <<"guard">> = <<"list", "guard">>
        BY Joins
      <3>3. <<"list", "guard">> \o <<"setRole">>
              = <<"list", "guard", "setRole">>
        BY Joins
      <3> QED
        BY <3>1, <3>2, <3>3
    <2>2. {"list", "guard", "setRole"} \subseteq Calls
      OBVIOUS
    <2>3. Workable(a.op, {"list", "guard", "setRole"})
      BY <1>8 DEF Workable, Fit, OfSub, OfRow, Loaders, ByOwner, Ops, Self,
             Reads, Archive, Instance, Moderates
    <2>4. /\ Follows(a.op, "list", "guard")
          /\ Follows(a.op, "list", "setRole")
          /\ Follows(a.op, "guard", "setRole")
      BY <1>8, InWork DEF AfterWrite
    <2> QED
      BY <2>1, <2>2, <2>3, <2>4, Work3
  <1>9. CASE a.op = "revoke" /\ a.role = "moderator"
    <2>1. Work(a) = <<"list", "setRole">>
      <3>1. Work(a) = <<"list">> \o <<>> \o <<"setRole">>
        BY <1>9 DEF Work, Writes, RevokeRole
      <3>2. <<"list">> \o <<>> = <<"list">>
        <4>1. <<"list">> \in Seq(Calls)
          OBVIOUS
        <4> QED
          BY <4>1, ConcatEmptySeq
      <3>3. <<"list">> \o <<"setRole">> = <<"list", "setRole">>
        BY Joins
      <3> QED
        BY <3>1, <3>2, <3>3
    <2>2. {"list", "setRole"} \subseteq Calls
      OBVIOUS
    <2>3. Workable(a.op, {"list", "setRole"})
      BY <1>9 DEF Workable, Fit, OfSub, OfRow, Loaders, ByOwner, Ops, Self,
             Reads, Archive, Instance, Moderates
    <2>4. Follows(a.op, "list", "setRole")
      BY <1>9, InWork DEF AfterWrite
    <2> QED
      BY <2>1, <2>2, <2>3, <2>4, Work2
  <1>10. CASE a.op = "reenable"
    <2>1. Work(a) = <<"load", "reenable">>
      BY <1>10 DEF Work, Writes, handleConsoleBounceAction
    <2>2. {"load", "reenable"} \subseteq Calls
      OBVIOUS
    <2>3. Workable(a.op, {"load", "reenable"})
      BY <1>10 DEF Workable, Fit, OfSub, OfRow, Loaders, ByOwner, Ops, Self,
             Reads, Archive, Instance, Moderates
    <2>4. Follows(a.op, "load", "reenable")
      BY <1>10, InWork DEF AfterWrite
    <2> QED
      BY <2>1, <2>2, <2>3, <2>4, Work2
  <1>11. CASE a.op = "reset"
    <2>1. Work(a) = <<"load", "reset">>
      BY <1>11 DEF Work, Writes, handleConsoleBounceAction
    <2>2. {"load", "reset"} \subseteq Calls
      OBVIOUS
    <2>3. Workable(a.op, {"load", "reset"})
      BY <1>11 DEF Workable, Fit, OfSub, OfRow, Loaders, ByOwner, Ops, Self,
             Reads, Archive, Instance, Moderates
    <2>4. Follows(a.op, "load", "reset")
      BY <1>11, InWork DEF AfterWrite
    <2> QED
      BY <2>1, <2>2, <2>3, <2>4, Work2
  <1>12. CASE a.op = "moderate"
    <2>1. Work(a) = <<"load", "reload", "list", "decide">>
      BY <1>12 DEF Work, Writes, handleConsoleHeldAction
    <2>2. {"load", "reload", "list", "decide"} \subseteq Calls
      OBVIOUS
    <2>3. Workable(a.op, {"load", "reload", "list", "decide"})
      BY <1>12 DEF Workable, Fit, OfSub, OfRow, Loaders, ByOwner, Ops, Self,
             Reads, Archive, Instance, Moderates
    <2>4. /\ Follows(a.op, "load", "reload")
          /\ Follows(a.op, "load", "list")
          /\ Follows(a.op, "load", "decide")
          /\ Follows(a.op, "reload", "list")
          /\ Follows(a.op, "reload", "decide")
          /\ Follows(a.op, "list", "decide")
      BY <1>12, InWork DEF AfterWrite
    <2>5. "decide" \in Doing
      OBVIOUS
    <2> HIDE DEF Calls, Asking, Gates, Doing, WriteCalls, FormCalls, Records
    <2>6. WorkOK(a.op, <<"load", "reload", "list", "decide">>)
      BY ONLY <2>2, <2>3, <2>4, <2>5, Work4
    <2> QED
      BY ONLY <2>1, <2>6
  <1>13. CASE a.op = "save"
    <2>1. Work(a) = <<"load", "settings", "description", "instructions">>
      BY <1>13, SaveWork
    <2>2. {"load", "settings", "description", "instructions"} \subseteq Calls
      OBVIOUS
    <2>3. Workable(a.op, {"load", "settings", "description", "instructions"})
      BY <1>13 DEF Workable, Fit, OfSub, OfRow, Loaders, ByOwner, Ops, Self,
             Reads, Archive, Instance, Moderates
    <2>4. /\ Follows(a.op, "load", "settings")
          /\ Follows(a.op, "load", "description")
          /\ Follows(a.op, "load", "instructions")
          /\ Follows(a.op, "settings", "description")
          /\ Follows(a.op, "settings", "instructions")
          /\ Follows(a.op, "description", "instructions")
      BY <1>13, InWork DEF AfterWrite
    <2>5. "instructions" \in Doing
      OBVIOUS
    <2> HIDE DEF Calls, Asking, Gates, Doing, WriteCalls, FormCalls, Records
    <2>6. WorkOK(a.op, <<"load", "settings", "description", "instructions">>)
      BY ONLY <2>2, <2>3, <2>4, <2>5, Work4
    <2> QED
      BY ONLY <2>1, <2>6
  <1>14. CASE a.op = "delivery"
    <2>1. Work(a) = <<"load", "setMode">>
      BY <1>14 DEF Work, Writes, handleSetDelivery
    <2>2. {"load", "setMode"} \subseteq Calls
      OBVIOUS
    <2>3. Workable(a.op, {"load", "setMode"})
      BY <1>14 DEF Workable, Fit, OfSub, OfRow, Loaders, ByOwner, Ops, Self,
             Reads, Archive, Instance, Moderates
    <2>4. Follows(a.op, "load", "setMode")
      BY <1>14, InWork DEF AfterWrite
    <2> QED
      BY <2>1, <2>2, <2>3, <2>4, Work2
  <1>15. CASE a.op = "resume"
    <2>1. Work(a) = <<"load", "reenable">>
      BY <1>15 DEF Work, Writes, handleReEnable
    <2>2. {"load", "reenable"} \subseteq Calls
      OBVIOUS
    <2>3. Workable(a.op, {"load", "reenable"})
      BY <1>15 DEF Workable, Fit, OfSub, OfRow, Loaders, ByOwner, Ops, Self,
             Reads, Archive, Instance, Moderates
    <2>4. Follows(a.op, "load", "reenable")
      BY <1>15, InWork DEF AfterWrite
    <2> QED
      BY <2>1, <2>2, <2>3, <2>4, Work2
  <1>16. CASE a.op = "leave"
    <2>1. Work(a) = <<"load", "unsubscribe">>
      BY <1>16 DEF Work, Writes, handleUnsubscribeMe
    <2>2. {"load", "unsubscribe"} \subseteq Calls
      OBVIOUS
    <2>3. Workable(a.op, {"load", "unsubscribe"})
      BY <1>16 DEF Workable, Fit, OfSub, OfRow, Loaders, ByOwner, Ops, Self,
             Reads, Archive, Instance, Moderates
    <2>4. Follows(a.op, "load", "unsubscribe")
      BY <1>16, InWork DEF AfterWrite
    <2> QED
      BY <2>1, <2>2, <2>3, <2>4, Work2
  <1>17. CASE a.op = "create"
    <2>1. Work(a) = <<"createList", "firstOwner">>
      BY <1>17 DEF Work, Writes, handleAdminLists
    <2>2. {"createList", "firstOwner"} \subseteq Calls
      OBVIOUS
    <2>3. Workable(a.op, {"createList", "firstOwner"})
      BY <1>17 DEF Workable, Fit, OfSub, OfRow, Loaders, ByOwner, Ops, Self,
             Reads, Archive, Instance, Moderates
    <2>4. Follows(a.op, "createList", "firstOwner")
      BY <1>17, InWork DEF AfterWrite
    <2> QED
      BY <2>1, <2>2, <2>3, <2>4, Work2
  <1>18. CASE a.op = "delete"
    <2>1. Work(a) = <<"find", "find", "deleteList">>
      BY <1>18 DEF Work, Writes, handleAdminListDelete
    <2>2. {"find", "find", "deleteList"} \subseteq Calls
      OBVIOUS
    <2>3. Workable(a.op, {"find", "find", "deleteList"})
      BY <1>18 DEF Workable, Fit, OfSub, OfRow, Loaders, ByOwner, Ops, Self,
             Reads, Archive, Instance, Moderates
    <2>4. /\ Follows(a.op, "find", "find")
          /\ Follows(a.op, "find", "deleteList")
          /\ Follows(a.op, "find", "deleteList")
      BY <1>18, InWork DEF AfterWrite
    <2> QED
      BY <2>1, <2>2, <2>3, <2>4, Work3
  <1>19. CASE a.op = "type"
    <2>1. Work(a) = <<"find", "find", "setType">>
      BY <1>19 DEF Work, Writes, handleAdminListType
    <2>2. {"find", "find", "setType"} \subseteq Calls
      OBVIOUS
    <2>3. Workable(a.op, {"find", "find", "setType"})
      BY <1>19 DEF Workable, Fit, OfSub, OfRow, Loaders, ByOwner, Ops, Self,
             Reads, Archive, Instance, Moderates
    <2>4. /\ Follows(a.op, "find", "find")
          /\ Follows(a.op, "find", "setType")
          /\ Follows(a.op, "find", "setType")
      BY <1>19, InWork DEF AfterWrite
    <2> QED
      BY <2>1, <2>2, <2>3, <2>4, Work3
  <1>20. CASE a.op \in {"designate", "dismiss"}
    <2>1. Work(a) = <<"setAdmin">>
      BY <1>20 DEF Work, Writes, handleAdminAdministrators
    <2>2. {"setAdmin"} \subseteq Calls
      OBVIOUS
    <2>3. Workable(a.op, {"setAdmin"})
      BY <1>20 DEF Workable, Fit, OfSub, OfRow, Loaders, ByOwner, Ops, Self,
             Reads, Archive, Instance, Moderates
    <2> QED
      BY <2>1, <2>2, <2>3, Work1
  <1> QED
    BY <1>1, <1>2, <1>3, <1>4, <1>5, <1>6, <1>7, <1>8,
       <1>9, <1>10, <1>11, <1>12, <1>13, <1>14, <1>15, <1>16,
       <1>17, <1>18, <1>19, <1>20
    DEF Ops, Self, Moderates, Instance, Reads, Archive, Roles

\* Calls that save no form are in order, and so are those of a save.
LEMMA NoForm ==
  ASSUME NEW s, \A c \in Ahead(s) : c \notin FormCalls
  PROVE  FormOrder(s)
  BY DEF FormOrder, Ahead, FormCalls

LEMMA FormsOrdered ==
  ASSUME NEW a, a.op \in Ops, WorkOK(a.op, Work(a))
  PROVE  FormOrder(Work(a))
  <1>1. CASE a.op # "save"
    <2>1. \A c \in Ahead(Work(a)) : c \notin FormCalls
      BY <1>1 DEF WorkOK, Workable, Fit
    <2> QED
      BY <2>1, NoForm
  <1>2. CASE a.op = "save"
    <2>1. Work(a) = <<"load", "settings", "description", "instructions">>
      BY <1>2, SaveWork
    <2> DEFINE s == <<"load", "settings", "description", "instructions">>
    <2>3. /\ Len(s) = 4 /\ 1 .. 4 = {1, 2, 3, 4}
          /\ s[1] = "load" /\ s[2] = "settings" /\ s[3] = "description"
          /\ s[4] = "instructions"
      OBVIOUS
    <2> HIDE DEF s
    <2>4. FormOrder(s)
      BY <2>3 DEF FormOrder
    <2> QED
      BY <2>1, <2>4 DEF s
  <1> QED
    BY <1>1, <1>2

\* The gates of a request, before its work
GateOK(op, s) ==
    /\ s \in Seq(Calls) /\ Len(s) > 0
    /\ Ahead(s) \subseteq Asking
    /\ \A c \in Ahead(s) : Fit(op, c)
    /\ Ordered(op, s) /\ FindOwner(s)
    /\ "auth" \in Ahead(s)
    /\ op \notin Self \cup Archive => "management" \in Ahead(s)
    /\ op \in Instance => "admin" \in Ahead(s)
    /\ op \in Archive => "member" \in Ahead(s)
    /\ op \in Moderates => {"either", "isOwner"} \subseteq Ahead(s)
    /\ op \in ByOwner => "owner" \in Ahead(s)
    /\ op \notin Self \cup Instance => "find" \in Ahead(s)
    /\ op \in Instance \cup Self =>
          Ahead(s) \subseteq {"auth", "management", "admin"}

\* Each kind of request has its gates.
LEMMA GateIs ==
  ASSUME NEW op \in Ops
  PROVE  /\ op \in Self => Gate(op) = <<"auth">>
         /\ op \in Archive => Gate(op) = <<"find", "auth", "member">>
         /\ op \in Instance => Gate(op) = <<"auth", "management", "admin">>
         /\ op \in Moderates => Gate(op) = <<"auth", "management", "find",
                                              "isOwner", "either">>
         /\ op \in ByOwner =>
               Gate(op) = <<"auth", "management", "find", "owner">>
  <1>1. op \in Self => Gate(op) = <<"auth">>
    BY DEF Gate, Self, Archive, Instance, Moderates
  <1>2. op \in Archive => Gate(op) = <<"find", "auth", "member">>
    BY DEF Gate, Self, Archive, Instance, Moderates
  <1>3. op \in Instance => Gate(op) = <<"auth", "management", "admin">>
    BY DEF Gate, Self, Archive, Instance, Moderates
  <1>4. op \in Moderates => Gate(op) = <<"auth", "management", "find",
                                        "isOwner", "either">>
    BY DEF Gate, Self, Archive, Instance, Moderates
  <1>5. op \in ByOwner => Gate(op) = <<"auth", "management", "find", "owner">>
    BY DEF Gate, ByOwner
  <1> QED
    BY <1>1, <1>2, <1>3, <1>4, <1>5

LEMMA GatesOK ==
  ASSUME NEW op \in Ops
  PROVE  GateOK(op, Gate(op))
  <1>0. {"auth", "management", "find", "isOwner", "owner", "either", "member",
         "admin"} \subseteq Calls
    BY DEF Calls, Asking, Gates
  <1>1. CASE op \in Self
    <2>1. Gate(op) = <<"auth">>
      BY <1>1, GateIs
    <2>2. TRUE
      OBVIOUS
    <2>3. /\ <<"auth">> \in Seq(Calls)
          /\ Len(<<"auth">>) = 1
          /\ Ahead(<<"auth">>)
              = {"auth"}
          /\ Ordered(op, <<"auth">>)
      BY <1>0, <2>2, Calls1
    <2> DEFINE s == <<"auth">>
    <2>4. FindOwner(s)
      <3>1. /\ 1 .. Len(s) = {1}
            /\ s[1] = "auth"
        BY <2>3
      <3> HIDE DEF s
      <3> QED
        BY <3>1 DEF FindOwner
    <2> HIDE DEF s
    <2>5. /\ s \in Seq(Calls) /\ Len(s) = 1 /\ Ordered(op, s)
          /\ Ahead(s) = {"auth"}
          /\ Gate(op) = s
      BY <2>1, <2>3 DEF s
    <2>6. \A c \in Ahead(s) : Fit(op, c)
      BY <1>0, <1>1, <2>5 DEF Fit, Self, Archive, Instance, Moderates, ByOwner,
         FormCalls, Records
    <2>7. Ahead(s) \subseteq Asking
      BY <2>5 DEF Asking, Gates
    <2> QED
      BY <1>1, <2>4, <2>5, <2>6, <2>7
      DEF GateOK, Self, Archive, Instance, Moderates, ByOwner
  <1>2. CASE op \in Archive
    <2>1. Gate(op) = <<"find", "auth", "member">>
      BY <1>2, GateIs
    <2>2. /\ Follows(op, "find", "auth")
          /\ Follows(op, "find", "member")
          /\ Follows(op, "auth", "member")
      BY DEF Follows, Doing, WriteCalls, FormCalls, Records, Gates
    <2>3. /\ <<"find", "auth", "member">> \in Seq(Calls)
          /\ Len(<<"find", "auth", "member">>) = 3
          /\ Ahead(<<"find", "auth", "member">>)
              = {"find", "auth", "member"}
          /\ Ordered(op, <<"find", "auth", "member">>)
      BY <1>0, <2>2, Calls3
    <2> DEFINE s == <<"find", "auth", "member">>
    <2>4. FindOwner(s)
      <3>1. /\ 1 .. Len(s) = {1, 2, 3}
            /\ s[1] = "find"
            /\ s[2] = "auth"
            /\ s[3] = "member"
        BY <2>3
      <3> HIDE DEF s
      <3> QED
        BY <3>1 DEF FindOwner
    <2> HIDE DEF s
    <2>5. /\ s \in Seq(Calls) /\ Len(s) = 3 /\ Ordered(op, s)
          /\ Ahead(s) = {"find", "auth", "member"}
          /\ Gate(op) = s
      BY <2>1, <2>3 DEF s
    <2>6. \A c \in Ahead(s) : Fit(op, c)
      BY <1>0, <1>2, <2>5 DEF Fit, Self, Archive, Instance, Moderates, ByOwner,
         FormCalls, Records
    <2>7. Ahead(s) \subseteq Asking
      BY <2>5 DEF Asking, Gates
    <2> QED
      BY <1>2, <2>4, <2>5, <2>6, <2>7
      DEF GateOK, Self, Archive, Instance, Moderates, ByOwner
  <1>3. CASE op \in Instance
    <2>1. Gate(op) = <<"auth", "management", "admin">>
      BY <1>3, GateIs
    <2>2. /\ Follows(op, "auth", "management")
          /\ Follows(op, "auth", "admin")
          /\ Follows(op, "management", "admin")
      BY DEF Follows, Doing, WriteCalls, FormCalls, Records, Gates
    <2>3. /\ <<"auth", "management", "admin">> \in Seq(Calls)
          /\ Len(<<"auth", "management", "admin">>) = 3
          /\ Ahead(<<"auth", "management", "admin">>)
              = {"auth", "management", "admin"}
          /\ Ordered(op, <<"auth", "management", "admin">>)
      BY <1>0, <2>2, Calls3
    <2> DEFINE s == <<"auth", "management", "admin">>
    <2>4. FindOwner(s)
      <3>1. /\ 1 .. Len(s) = {1, 2, 3}
            /\ s[1] = "auth"
            /\ s[2] = "management"
            /\ s[3] = "admin"
        BY <2>3
      <3> HIDE DEF s
      <3> QED
        BY <3>1 DEF FindOwner
    <2> HIDE DEF s
    <2>5. /\ s \in Seq(Calls) /\ Len(s) = 3 /\ Ordered(op, s)
          /\ Ahead(s) = {"auth", "management", "admin"}
          /\ Gate(op) = s
      BY <2>1, <2>3 DEF s
    <2>6. \A c \in Ahead(s) : Fit(op, c)
      BY <1>0, <1>3, <2>5 DEF Fit, Self, Archive, Instance, Moderates, ByOwner,
         FormCalls, Records
    <2>7. Ahead(s) \subseteq Asking
      BY <2>5 DEF Asking, Gates
    <2> QED
      BY <1>3, <2>4, <2>5, <2>6, <2>7
      DEF GateOK, Self, Archive, Instance, Moderates, ByOwner
  <1>4. CASE op \in Moderates
    <2>1. Gate(op) = <<"auth", "management", "find", "isOwner", "either">>
      BY <1>4, GateIs
    <2>2. /\ Follows(op, "auth", "management")
          /\ Follows(op, "auth", "find")
          /\ Follows(op, "auth", "isOwner")
          /\ Follows(op, "auth", "either")
          /\ Follows(op, "management", "find")
          /\ Follows(op, "management", "isOwner")
          /\ Follows(op, "management", "either")
          /\ Follows(op, "find", "isOwner")
          /\ Follows(op, "find", "either")
          /\ Follows(op, "isOwner", "either")
      BY DEF Follows, Doing, WriteCalls, FormCalls, Records, Gates
    <2>3. /\ <<"auth", "management", "find", "isOwner", "either">>
                \in Seq(Calls)
          /\ Len(<<"auth", "management", "find", "isOwner", "either">>) = 5
          /\ Ahead(<<"auth", "management", "find", "isOwner", "either">>)
              = {"auth", "management", "find", "isOwner", "either"}
          /\ Ordered(op, <<"auth", "management", "find", "isOwner", "either">>)
      BY <1>0, <2>2, Calls5
    <2> DEFINE s == <<"auth", "management", "find", "isOwner", "either">>
    <2>4. FindOwner(s)
      <3>1. /\ 1 .. Len(s) = {1, 2, 3, 4, 5}
            /\ s[1] = "auth"
            /\ s[2] = "management"
            /\ s[3] = "find"
            /\ s[4] = "isOwner"
            /\ s[5] = "either"
        BY <2>3
      <3> HIDE DEF s
      <3> QED
        BY <3>1 DEF FindOwner
    <2> HIDE DEF s
    <2>5. /\ s \in Seq(Calls) /\ Len(s) = 5 /\ Ordered(op, s)
          /\ Ahead(s) = {"auth", "management", "find", "isOwner", "either"}
          /\ Gate(op) = s
      BY <2>1, <2>3 DEF s
    <2>6. \A c \in Ahead(s) : Fit(op, c)
      BY <1>0, <1>4, <2>5 DEF Fit, Self, Archive, Instance, Moderates, ByOwner,
         FormCalls, Records
    <2>7. Ahead(s) \subseteq Asking
      BY <2>5 DEF Asking, Gates
    <2> QED
      BY <1>4, <2>4, <2>5, <2>6, <2>7
      DEF GateOK, Self, Archive, Instance, Moderates, ByOwner
  <1>5. CASE op \in ByOwner
    <2>1. Gate(op) = <<"auth", "management", "find", "owner">>
      BY <1>5, GateIs
    <2>2. /\ Follows(op, "auth", "management")
          /\ Follows(op, "auth", "find")
          /\ Follows(op, "auth", "owner")
          /\ Follows(op, "management", "find")
          /\ Follows(op, "management", "owner")
          /\ Follows(op, "find", "owner")
      BY DEF Follows, Doing, WriteCalls, FormCalls, Records, Gates
    <2>3. /\ <<"auth", "management", "find", "owner">> \in Seq(Calls)
          /\ Len(<<"auth", "management", "find", "owner">>) = 4
          /\ Ahead(<<"auth", "management", "find", "owner">>)
              = {"auth", "management", "find", "owner"}
          /\ Ordered(op, <<"auth", "management", "find", "owner">>)
      BY <1>0, <2>2, Calls4
    <2> DEFINE s == <<"auth", "management", "find", "owner">>
    <2>4. FindOwner(s)
      <3>1. /\ 1 .. Len(s) = {1, 2, 3, 4}
            /\ s[1] = "auth"
            /\ s[2] = "management"
            /\ s[3] = "find"
            /\ s[4] = "owner"
        BY <2>3
      <3> HIDE DEF s
      <3> QED
        BY <3>1 DEF FindOwner
    <2> HIDE DEF s
    <2>5. /\ s \in Seq(Calls) /\ Len(s) = 4 /\ Ordered(op, s)
          /\ Ahead(s) = {"auth", "management", "find", "owner"}
          /\ Gate(op) = s
      BY <2>1, <2>3 DEF s
    <2>6. \A c \in Ahead(s) : Fit(op, c)
      BY <1>0, <1>5, <2>5 DEF Fit, Self, Archive, Instance, Moderates, ByOwner,
         FormCalls, Records
    <2>7. Ahead(s) \subseteq Asking
      BY <2>5 DEF Asking, Gates
    <2>8. op \notin Self \cup Archive \cup Instance \cup Moderates
      BY <1>5 DEF ByOwner
    <2>9. GateOK(op, s)
      BY ONLY <2>4, <2>5, <2>6, <2>7, <2>8 DEF GateOK
    <2> QED
      BY <2>5, <2>9
  <1> QED
    BY <1>1, <1>2, <1>3, <1>4, <1>5 DEF ByOwner

\* The record of a request that leaves one
LEMMA Trails ==
  ASSUME NEW a, a.op \in Ops,
         a.op \notin {"grant", "revoke"} => a.role = "none"
  PROVE  /\ a.op \in Self \cup Reads => Trail(a) = <<>>
         /\ a.op \notin Self \cup Reads =>
               \E c \in Records : Trail(a) = <<c>> /\ Fit(a.op, c)
         /\ a.op = "import" => Trail(a) = <<"record">>
  <1>1. a.op \in Self \cup Reads => Trail(a) = <<>>
    BY DEF Trail
  <1>2. ASSUME a.op \notin Self \cup Reads
        PROVE  \E c \in Records : Trail(a) = <<c>> /\ Fit(a.op, c)
    <2>1. \A c \in Records : Fit(a.op, c)
      BY <1>2 DEF Fit, Records, Calls, Doing, FormCalls
    <2>2. CASE a.op \in Instance \cup {"save", "reenable", "reset"}
               \/ a.role = "sender"
      <3>1. Trail(a) = <<"audit">>
        BY <1>2, <2>2 DEF Trail
      <3> QED
        BY <2>1, <3>1 DEF Records
    <2>3. CASE ~(a.op \in Instance \cup {"save", "reenable", "reset"}
                 \/ a.role = "sender")
      <3>1. Trail(a) = <<"record">>
        BY <1>2, <2>3 DEF Trail
      <3> QED
        BY <2>1, <3>1 DEF Records
    <2> QED
      BY <2>2, <2>3
  <1>3. a.op = "import" => Trail(a) = <<"record">>
    BY DEF Trail, Self, Reads, Archive, Instance
  <1> QED
    BY <1>1, <1>2, <1>3

\* Calls that do are none that ask.
LEMMA Apart ==
  /\ \A c \in Doing : c \notin Asking
  /\ \A c \in Records : c \in Doing /\ c \in AfterWrite
  /\ \A c \in Gates : c \in Asking /\ c \notin Doing
  /\ \A c \in WriteCalls : c \in Doing /\ c \notin Asking
  /\ \A c \in AfterWrite : c \in Doing /\ c \notin Asking
  BY DEF Doing, Asking, Gates, Records, WriteCalls, FormCalls, AfterWrite

\* What a request names
LEMMA AskIs ==
  ASSUME NEW a \in AllAsks
  PROVE  /\ a = Ask(a.op, a.by, a.addr, a.role, a.who, a.n)
         /\ a.op \in Ops /\ a.by \in Persons /\ a.addr \in Addrs \cup {"none"}
         /\ a.op \in OfPerson => a.who \in Persons
         /\ a.op \in OfRow => a.n \in Rows
         /\ a.op \in OfSub => a.n \in Ids
         /\ a.op \in {"grant", "revoke"} => a.role \in Roles
         /\ a.op \notin {"grant", "revoke"} => a.role = "none"
  <1>1. PICK h \in Handlers : a \in Asks[h]
    BY DEF AllAsks
  <1> QED
    BY <1>1, AsksAssumption

\* The program of each request has its shape.
LEMMA Shape ==
  ASSUME NEW a \in AllAsks
  PROVE  Shapely(a.op, Program(a)) /\ Has(a.op, Ahead(Program(a)))
  <1> DEFINE op == a.op
             g  == Gate(op)
             w  == Work(a)
             t  == Trail(a)
             gw == g \o w
  <1>1. op \in Ops /\ (op \in {"grant", "revoke"} => a.role \in Roles)
        /\ (op \notin {"grant", "revoke"} => a.role = "none")
    BY AskIs
  <1>2. GateOK(op, g)
    BY <1>1, GatesOK
  <1>3. WorkOK(op, w)
    BY <1>1, Works
  <1>4. /\ op \in Self \cup Reads => t = <<>>
        /\ op \notin Self \cup Reads =>
              \E c \in Records : t = <<c>> /\ Fit(op, c)
        /\ op = "import" => t = <<"record">>
    BY <1>1, Trails
  <1>5. Program(a) = gw \o t
    BY DEF Program
  <1> HIDE DEF op, g, w, t
  <1>6. /\ g \in Seq(Calls) /\ w \in Seq(Calls)
        /\ Ahead(g) \subseteq Asking
        /\ Ahead(w) \subseteq (Doing \ Records) \cup {"find"}
        /\ "find" \in Ahead(w) => op \in {"add", "import"} \cup Instance
        /\ \A c \in Ahead(g) : Fit(op, c)
        /\ \A c \in Ahead(w) : Fit(op, c)
        /\ Ordered(op, g) /\ Ordered(op, w)
        /\ FindOwner(g) /\ Len(w) > 0 /\ w[Len(w)] \in Doing
        /\ Len(g) > 0
    BY <1>2, <1>3 DEF GateOK, WorkOK, Workable
  <1>a. FormOrder(w)
    BY <1>1, <1>3, FormsOrdered DEF op, w
  <1>b. FormOrder(g)
    <2>1. \A c \in Ahead(g) : c \notin FormCalls
      BY <1>6, Apart DEF WriteCalls
    <2> QED
      BY <2>1, NoForm
  <1>7. ASSUME NEW x \in Ahead(g), NEW y \in Ahead(w)
        PROVE  Follows(op, x, y)
    <2>1. /\ x \in Asking /\ Fit(op, x)
          /\ y \in (Doing \ Records) \cup {"find"}
          /\ y = "find" => op \in {"add", "import"} \cup Instance
      BY <1>6
    <2>2. x \notin Doing /\ x \notin Records /\ x \notin WriteCalls
      BY <2>1, Apart
    <2>3. y \notin Gates
      BY <2>1, Apart DEF Gates
    <2>4. x \in {"member", "either", "isOwner", "owner"} =>
             op \in Archive \cup Moderates \cup ByOwner
      BY <2>1 DEF Fit
    <2>5. x \in {"member", "either", "isOwner"} => y # "find"
      BY <2>1 DEF Fit, Archive, Moderates, Instance
    <2>6. x \in {"member", "either"} => y \notin Asking
      BY <2>1, <2>5, Apart
    <2>7. x = "owner" /\ y = "find" => op \in {"add", "import"}
      BY <2>1 DEF Fit, ByOwner
    <2> QED
      BY <2>2, <2>3, <2>5, <2>6, <2>7 DEF Follows
  <1>8. /\ gw \in Seq(Calls) /\ Len(gw) = Len(g) + Len(w)
        /\ Ahead(gw) = Ahead(g) \cup Ahead(w)
        /\ gw[Len(gw)] = w[Len(w)]
        /\ Ordered(op, gw) /\ FindOwner(gw) /\ FormOrder(gw)
    <2>1. "owner" \notin Ahead(w)
      BY <1>6, Apart DEF Asking, Gates
    <2> QED
      BY <1>6, <1>7, <1>a, <1>b, <2>1, Concat
  <1>9. Len(gw) > 0
    BY <1>6, <1>8, LenProperties
  <1> HIDE DEF gw
  <1>10. Has(op, Ahead(gw))
    BY <1>2, <1>3, <1>8 DEF Has, GateOK, WorkOK, Workable
  <1>11. CASE op \in Self \cup Reads
    <2>1. t = <<>> /\ op # "import"
      BY <1>4, <1>11 DEF Self, Reads, Archive
    <2>2. gw \o t = gw
      BY <1>8, <2>1, ConcatEmptySeq
    <2>3. Shapely(op, gw)
      BY <1>6, <1>8, <1>9, <1>11, <2>1 DEF Shapely
    <2> QED
      BY <1>5, <1>10, <2>2, <2>3 DEF op
  <1>12. CASE op \notin Self \cup Reads
    <2>1. PICK c \in Records : t = <<c>> /\ Fit(op, c)
      BY <1>4, <1>12
    <2>2. op = "import" => c = "record"
      <3>1. ASSUME op = "import" PROVE <<c>> = <<"record">>
        BY <1>4, <2>1, <3>1
      <3> QED
        BY <3>1
    <2>3. c \in Calls
      BY DEF Records, Calls, Doing
    <2>4. /\ <<c>> \in Seq(Calls) /\ Len(<<c>>) = 1 /\ <<c>>[1] = c
          /\ Ahead(<<c>>) = {c} /\ Ordered(op, <<c>>)
      BY <2>3, Calls1
    <2> DEFINE r == <<c>>
               p == gw \o r
    <2>5. /\ r \in Seq(Calls) /\ Len(r) = 1 /\ r[Len(r)] = c
          /\ Ahead(r) = {c} /\ Ordered(op, r) /\ t = r
      BY <2>1, <2>4
    <2> HIDE DEF r
    <2>6. ASSUME NEW x \in Ahead(gw), NEW y \in Ahead(r)
          PROVE  Follows(op, x, y)
      <3>1. y \in Records
        BY <2>5
      <3>2. x \notin Records
        BY <1>6, <1>8, Apart DEF Records
      <3>3. y \notin Asking /\ y \in AfterWrite /\ y \notin Gates /\ y # "find"
        BY <3>1, Apart DEF Asking
      <3> QED
        BY <3>2, <3>3 DEF Follows
    <2>7. "owner" \notin Ahead(r)
      BY <2>5, Apart DEF Asking, Gates
    <2>8. /\ p \in Seq(Calls) /\ Len(p) = Len(gw) + Len(r)
          /\ Ahead(p) = Ahead(gw) \cup Ahead(r)
          /\ p[Len(p)] = r[Len(r)]
          /\ Ordered(op, p) /\ FindOwner(p) /\ FormOrder(p)
      <3>1. Len(r) > 0 /\ r \in Seq(Calls) /\ gw \in Seq(Calls)
        BY <1>8, <2>5
      <3>2. \A x \in Ahead(gw), y \in Ahead(r) : Follows(op, x, y)
        BY <2>6
      <3>3. FormOrder(r)
        BY <2>5, NoForm DEF Records, FormCalls
      <3> QED
        BY <1>8, <2>5, <2>7, <3>1, <3>2, <3>3, Concat
    <2>9. Len(p) > 0
      BY <1>8, <2>5, <2>8, LenProperties
    <2>10. Program(a) = p
      BY <1>5, <2>5
    <2> HIDE DEF p
    <2>11. Has(op, Ahead(p))
      BY <1>10, <2>8 DEF Has
    <2>12. \A x \in Ahead(p) : Fit(op, x)
      BY <1>6, <1>8, <2>1, <2>5, <2>8
    <2>13. Shapely(op, p)
      BY <2>2, <2>5, <2>8, <2>9, <2>12, Apart DEF Shapely
    <2> QED
      BY <2>10, <2>11, <2>13 DEF op
  <1> QED
    BY <1>11, <1>12
-----------------------------------------------------------------------------
(***************************************************************************)
(* What a request has still to do                                          *)
(***************************************************************************)
\* The calls still to make, the next one first
Rest(op, s) ==
    LET B == Ahead(Tail(s))
    IN  /\ s \in Seq(Calls) /\ s # <<>>
        /\ Head(s) \in Ahead(s)
        /\ \A c \in Ahead(s) : Fit(op, c)
        /\ Len(s) = 1 =>
              /\ Ahead(s) = {Head(s)} /\ Head(s) \in Doing
              /\ op \notin Self \cup Reads => Head(s) \in Records
        /\ Len(s) # 1 =>
              /\ Ahead(s) = {Head(s)} \cup B /\ Head(Tail(s)) \in B
              /\ \A c \in B : Follows(op, Head(s), c)
              /\ Head(Tail(s)) = "owner" => Head(s) = "find"
              /\ Head(s) = "find" /\ "owner" \in B =>
                    Head(Tail(s)) = "owner"
        /\ Head(s) \in {"settings", "description"} => Len(s) # 1
        /\ Len(s) # 1 =>
              /\ Head(Tail(s)) = "description" <=> Head(s) = "settings"
              /\ Head(Tail(s)) = "instructions" <=> Head(s) = "description"

\* The last part of a sequence of calls, from the n-th on
LEMMA Part ==
  ASSUME NEW s \in Seq(Calls), NEW n \in 1 .. Len(s)
  PROVE  /\ SubSeq(s, n, Len(s)) \in Seq(Calls)
         /\ Len(SubSeq(s, n, Len(s))) = Len(s) - n + 1
         /\ SubSeq(s, n, Len(s)) # <<>>
         /\ Head(SubSeq(s, n, Len(s))) = s[n]
         /\ Ahead(SubSeq(s, n, Len(s))) = {s[i] : i \in n .. Len(s)}
  <1> DEFINE m == Len(s)
             u == SubSeq(s, n, m)
  <1>1. m \in Nat /\ n \in Int /\ m \in Int /\ n <= m /\ 1 <= n
    BY LenProperties
  <1>2. \A i \in n .. m : s[i] \in Calls
    BY <1>1, LenProperties
  <1>3. /\ u \in Seq(Calls)
        /\ Len(u) = IF n <= m THEN m - n + 1 ELSE 0
        /\ \A i \in 1 .. m - n + 1 : u[i] = s[n + i - 1]
    <2> HIDE DEF m
    <2> QED
      BY <1>1, <1>2, SubSeqProperties
  <1>4. Head(u) = s[n]
    BY <1>1, HeadTailOfSubSeq
  <1> HIDE DEF m, u
  <1>5. Len(u) = m - n + 1 /\ u # <<>>
    BY <1>1, <1>3
  <1>6. Ahead(u) = {s[i] : i \in n .. m}
    <2>1. ASSUME NEW c \in Ahead(u) PROVE c \in {s[i] : i \in n .. m}
      <3>1. PICK i \in 1 .. Len(u) : c = u[i]
        BY DEF Ahead
      <3>2. n + i - 1 \in n .. m /\ u[i] = s[n + i - 1]
        BY <1>1, <1>3, <1>5
      <3> QED
        BY <3>1, <3>2
    <2>2. ASSUME NEW i \in n .. m PROVE s[i] \in Ahead(u)
      <3>1. i - n + 1 \in 1 .. Len(u) /\ n + (i - n + 1) - 1 = i
        BY <1>1, <1>5
      <3>2. u[i - n + 1] = s[i]
        BY <1>1, <1>3, <1>5, <3>1
      <3> QED
        BY <3>1, <3>2 DEF Ahead
    <2> QED
      BY <2>1, <2>2
  <1> QED
    BY <1>3, <1>4, <1>5, <1>6 DEF u, m

LEMMA Suffix ==
  ASSUME NEW op, NEW s, Shapely(op, s), NEW n \in 1 .. Len(s)
  PROVE  /\ Rest(op, SubSeq(s, n, Len(s)))
         /\ Len(SubSeq(s, n, Len(s))) # 1 =>
               /\ n + 1 \in 1 .. Len(s)
               /\ Tail(SubSeq(s, n, Len(s))) = SubSeq(s, n + 1, Len(s))
  <1> DEFINE m == Len(s)
             u == SubSeq(s, n, m)
  <1>1. /\ s \in Seq(Calls) /\ m \in Nat /\ n <= m /\ 1 <= n /\ n \in Int
        /\ s \in [1 .. m -> Calls]
    BY LenProperties DEF Shapely
  <1>2. /\ u \in Seq(Calls) /\ Len(u) = m - n + 1 /\ u # <<>>
        /\ Head(u) = s[n] /\ Ahead(u) = {s[i] : i \in n .. m}
    BY <1>1, Part
  <1>3. \A c \in Ahead(u) : Fit(op, c)
    BY <1>1, <1>2 DEF Shapely, Ahead
  <1>4. Tail(u) = SubSeq(s, n + 1, m)
    BY <1>1, HeadTailOfSubSeq
  <1> HIDE DEF m, u
  <1>5. Head(u) \in Ahead(u)
    BY <1>1, <1>2
  <1>6. ASSUME Len(u) = 1
        PROVE  /\ Ahead(u) = {Head(u)} /\ Head(u) \in Doing
               /\ op \notin Self \cup Reads => Head(u) \in Records
    <2>1. n = m
      <3>1. m - n + 1 = 1
        BY <1>2, <1>6
      <3>2. m \in Int /\ n \in Int
        BY <1>1
      <3> QED
        BY <3>1, <3>2
    <2>2. n .. m = {m}
      BY <1>1, <2>1
    <2> QED
      BY <1>2, <2>1, <2>2 DEF Shapely, m
  <1>7. ASSUME Len(u) # 1
        PROVE  /\ n + 1 \in 1 .. m
               /\ Ahead(u) = {Head(u)} \cup Ahead(Tail(u))
               /\ Head(Tail(u)) \in Ahead(Tail(u))
               /\ \A c \in Ahead(Tail(u)) : Follows(op, Head(u), c)
               /\ Head(Tail(u)) = "owner" => Head(u) = "find"
               /\ Head(u) = "find" /\ "owner" \in Ahead(Tail(u)) =>
                     Head(Tail(u)) = "owner"
    <2>1. n + 1 \in 1 .. m /\ n < m
      BY <1>1, <1>2, <1>7
    <2>2. /\ Head(Tail(u)) = s[n + 1]
          /\ Ahead(Tail(u)) = {s[i] : i \in n + 1 .. m}
      BY <1>1, <1>4, <2>1, Part DEF m
    <2>3. n .. m = {n} \cup (n + 1 .. m)
      BY <1>1
    <2>4. Ahead(u) = {Head(u)} \cup Ahead(Tail(u))
      BY <1>2, <2>2, <2>3
    <2>5. Head(Tail(u)) \in Ahead(Tail(u))
      <3>1. n + 1 \in n + 1 .. m
        BY <1>1, <2>1
      <3> QED
        BY <2>2, <3>1
    <2>6. ASSUME NEW c \in Ahead(Tail(u)) PROVE Follows(op, Head(u), c)
      <3>1. PICK i \in n + 1 .. m : c = s[i]
        BY <2>2
      <3>2. i \in 1 .. m /\ n < i /\ n \in 1 .. m
        BY <1>1
      <3> QED
        BY <1>2, <3>1, <3>2 DEF Shapely, Ordered, m
    <2>7. Head(Tail(u)) = "owner" => Head(u) = "find"
      <3>1. (n + 1) - 1 = n
        BY <1>1
      <3> QED
        BY <1>2, <2>1, <2>2, <3>1 DEF Shapely, FindOwner, m
    <2>8. ASSUME Head(u) = "find", "owner" \in Ahead(Tail(u))
          PROVE  Head(Tail(u)) = "owner"
      <3>1. PICK j \in n + 1 .. m : s[j] = "owner"
        BY <2>2, <2>8
      <3>2. j \in 1 .. m /\ n \in 1 .. m /\ n < j /\ s[n] = "find"
        BY <1>1, <1>2, <2>8
      <3>3. j = n + 1
        BY <3>1, <3>2 DEF Shapely, FindOwner, m
      <3> QED
        BY <2>2, <3>1, <3>3
    <2> QED
      BY <2>1, <2>4, <2>5, <2>6, <2>7, <2>8
  <1>8. Head(u) \in {"settings", "description"} => Len(u) # 1
    BY <1>1, <1>2 DEF Shapely, FormOrder, m
  <1>9. ASSUME Len(u) # 1
        PROVE  /\ Head(Tail(u)) = "description" <=> Head(u) = "settings"
               /\ Head(Tail(u)) = "instructions" <=> Head(u) = "description"
    <2>1. n + 1 \in 1 .. m /\ (n + 1) - 1 = n /\ n \in 1 .. m
      BY <1>1, <1>2, <1>9
    <2>2. Head(Tail(u)) = s[n + 1]
      BY <1>1, <1>4, <2>1, Part DEF m
    <2> QED
      BY <1>1, <1>2, <2>1, <2>2 DEF Shapely, FormOrder, m
  <1>10. Rest(op, u)
    BY <1>2, <1>3, <1>5, <1>6, <1>7, <1>8, <1>9 DEF Rest
  <1> QED
    BY <1>4, <1>7, <1>10 DEF u, m

\* What is left of a request under way, after the next call as well
LEMMA Left ==
  ASSUME NEW k, k.ask \in AllAsks, OnWay(k)
  PROVE  /\ Rest(k.ask.op, k.todo)
         /\ Len(k.todo) # 1 =>
               /\ Rest(k.ask.op, Tail(k.todo))
               /\ \A n : n.ask = k.ask /\ n.todo = Tail(k.todo) => OnWay(n)
  <1> DEFINE a == k.ask
             s == Program(a)
  <1>1. Shapely(a.op, s)
    BY Shape
  <1>2. PICK i \in 1 .. Len(s) : k.todo = SubSeq(s, i, Len(s))
    BY DEF OnWay
  <1> HIDE DEF s
  <1>3. /\ Rest(a.op, SubSeq(s, i, Len(s)))
        /\ Len(SubSeq(s, i, Len(s))) # 1 =>
              /\ i + 1 \in 1 .. Len(s)
              /\ Tail(SubSeq(s, i, Len(s))) = SubSeq(s, i + 1, Len(s))
    BY <1>1, Suffix
  <1>4. ASSUME Len(k.todo) # 1
        PROVE  i + 1 \in 1 .. Len(s) /\ Tail(k.todo) = SubSeq(s, i + 1, Len(s))
    BY <1>2, <1>3, <1>4
  <1>5. ASSUME Len(k.todo) # 1
        PROVE  Rest(a.op, Tail(k.todo))
    BY <1>1, <1>4, <1>5, Suffix
  <1>6. ASSUME Len(k.todo) # 1, NEW n, n.ask = k.ask, n.todo = Tail(k.todo)
        PROVE  OnWay(n)
    BY <1>4, <1>6 DEF OnWay, s
  <1> QED
    BY <1>2, <1>3, <1>5, <1>6

\* A request begins at the first of its calls, and no call of an owner's
\* request is that of requireOwner.
LEMMA First ==
  ASSUME NEW a \in AllAsks, NEW k, k.ask = a, k.todo = Program(a)
  PROVE  /\ OnWay(k) /\ Has(a.op, Ahead(k.todo))
         /\ Head(k.todo) \notin {"owner", "description", "instructions"}
  <1> DEFINE s == Program(a)
  <1>1. Shapely(a.op, s) /\ Has(a.op, Ahead(s))
    BY Shape
  <1> HIDE DEF s
  <1>2. s \in Seq(Calls) /\ s # <<>> /\ Len(s) \in Nat /\ 1 \in 1 .. Len(s)
    <2>1. s \in Seq(Calls) /\ s # <<>>
      BY <1>1 DEF Shapely
    <2>2. Len(s) \in Nat /\ Len(s) # 0
      BY <2>1, LenProperties, EmptySeq
    <2> QED
      BY <2>1, <2>2
  <1>3. SubSeq(s, 1, Len(s)) = s
    <2> DEFINE u == SubSeq(s, 1, Len(s))
    <2>1. u \in Seq(Calls) /\ Len(u) = Len(s)
      BY <1>2, Part
    <2>2. \A i \in 1 .. Len(s) : u[i] = s[i]
      <3>1. \A i \in 1 .. Len(s) : s[i] \in Calls
        BY <1>2, LenProperties
      <3>2. 1 \in Int /\ Len(s) \in Int
        BY <1>2
      <3>3. \A i \in 1 .. Len(s) - 1 + 1 : u[i] = s[1 + i - 1]
        BY <3>1, <3>2, SubSeqProperties
      <3> QED
        BY <1>2, <3>3
    <2> HIDE DEF u
    <2>3. u = s
      BY <1>2, <2>1, <2>2, SeqEqual
    <2> QED
      BY <2>3 DEF u
  <1>4. OnWay(k)
    BY <1>2, <1>3 DEF OnWay, s
  <1>5. Head(s) = s[1]
    BY <1>2
  <1>6. s[1] \notin {"owner", "description", "instructions"}
    BY <1>1, <1>2 DEF Shapely, FindOwner, FormOrder
  <1> QED
    BY <1>1, <1>4, <1>5, <1>6 DEF s

\* An import may go on to its record, its last call.
LEMMA LastIsRecord ==
  ASSUME NEW a \in AllAsks, a.op = "import", NEW k, k.ask = a,
         k.todo = <<"record">>
  PROVE  OnWay(k)
  <1> DEFINE s == Program(a)
  <1>1. Shapely(a.op, s)
    BY Shape
  <1> HIDE DEF s
  <1>2. /\ s \in Seq(Calls) /\ Len(s) \in Nat /\ Len(s) \in 1 .. Len(s)
        /\ s[Len(s)] = "record"
    <2>1. s \in Seq(Calls) /\ s # <<>> /\ s[Len(s)] = "record"
      BY <1>1 DEF Shapely
    <2>2. Len(s) \in Nat /\ Len(s) # 0
      BY <2>1, LenProperties, EmptySeq
    <2> QED
      BY <2>1, <2>2
  <1> DEFINE u == SubSeq(s, Len(s), Len(s))
             r == <<"record">>
  <1>3. u \in Seq(Calls) /\ Len(u) = Len(s) - Len(s) + 1 /\ Head(u) = "record"
    BY <1>2, Part
  <1>4. "record" \in Calls
    BY DEF Calls, Doing, Records
  <1>5. r \in Seq(Calls) /\ Len(r) = 1 /\ r[1] = "record"
    BY <1>4
  <1> HIDE DEF u, r
  <1>6. Len(u) = 1 /\ u[1] = "record"
    BY <1>2, <1>3
  <1>7. u = r
    BY <1>3, <1>5, <1>6, SeqEqual
  <1> QED
    BY <1>2, <1>7 DEF OnWay, s, u, r
-----------------------------------------------------------------------------
(***************************************************************************)
(* A request goes on                                                       *)
(***************************************************************************)
\* The next call of k is made, and n is the request after it.
Onward(k, n) ==
    LET c  == Head(k.todo)
        A  == Ahead(k.todo)
        B  == Ahead(n.todo)
        op == k.ask.op
    IN  \/ /\ n.answer = "ok" /\ n.todo = k.todo
           /\ A = {c} /\ c \in Doing \ {"settings", "description"}
           /\ op \notin Self \cup Reads => c \in Records
        \/ /\ n.answer = "none" /\ n.todo = Tail(k.todo)
           /\ A = {c} \cup B /\ Head(n.todo) \in B
           /\ \A y \in B : Follows(op, c, y)
           /\ Head(n.todo) = "owner" => c = "find"
           /\ c = "find" /\ "owner" \in B => Head(n.todo) = "owner"
           /\ Head(n.todo) = "description" <=> c = "settings"
           /\ Head(n.todo) = "instructions" <=> c = "description"

\* Nothing but the calls to make and the answer has changed.
Alike(m, n) ==
    /\ n.ask = m.ask /\ n.l = m.l /\ n.gated = m.gated /\ n.copy = m.copy
    /\ n.owns = m.owns /\ n.sub = m.sub /\ n.shown = m.shown
    /\ n.wrote = m.wrote /\ n.recorded = m.recorded /\ n.struck = m.struck
    /\ n.mixed = m.mixed

LEMMA Advances ==
  ASSUME NEW m \in Procs, m.ask \in AllAsks, OnWay(m), m.answer = "none",
         NEW n, n = Advance(m)
  PROVE  n \in Procs /\ OnWay(n) /\ Alike(m, n) /\ Onward(m, n)
  <1>1. /\ Rest(m.ask.op, m.todo)
        /\ Len(m.todo) # 1 =>
              /\ Rest(m.ask.op, Tail(m.todo))
              /\ \A p : p.ask = m.ask /\ p.todo = Tail(m.todo) => OnWay(p)
    BY Left
  <1>2. CASE Len(m.todo) = 1
    <2>1. n = [m EXCEPT !.answer = "ok"]
      BY <1>2 DEF Advance, Answered
    <2>2. n \in Procs /\ Alike(m, n) /\ n.todo = m.todo /\ n.answer = "ok"
      BY <2>1 DEF Procs, Alike
    <2>3. OnWay(n)
      BY <2>2 DEF OnWay, Alike
    <2>4. Onward(m, n)
      BY <1>1, <1>2, <2>2 DEF Onward, Rest
    <2> QED
      BY <2>2, <2>3, <2>4
  <1>3. CASE Len(m.todo) # 1
    <2>1. n = [m EXCEPT !.todo = Tail(@)]
      BY <1>3 DEF Advance
    <2>2. Tail(m.todo) \in Seq(Calls)
      BY <1>1, <1>3 DEF Rest
    <2>3. /\ n \in Procs /\ Alike(m, n) /\ n.todo = Tail(m.todo)
          /\ n.answer = "none"
      BY <2>1, <2>2 DEF Procs, Alike
    <2>4. OnWay(n)
      BY <1>1, <1>3, <2>3 DEF Alike
    <2>5. Onward(m, n)
      BY <1>1, <1>3, <2>3 DEF Onward, Rest
    <2> QED
      BY <2>3, <2>4, <2>5
  <1> QED
    BY <1>2, <1>3

\* What a call may change in its request
Changes(k, n) ==
    LET c == Head(k.todo)
    IN  /\ n.ask = k.ask
        /\ c # "find" => n.gated = k.gated
        /\ c \notin {"find", "createList"} => n.l = k.l
        /\ c # "isOwner" => n.owns = k.owns
        /\ c = "find" => /\ n.l # 0
                         /\ n.gated = IF k.gated = 0 THEN n.l ELSE k.gated
        /\ c \notin {"load", "insert"} => n.sub = k.sub
        /\ n.wrote => k.wrote \/ c \in WriteCalls
        /\ k.wrote => n.wrote
        /\ n.recorded => k.recorded \/ c \in Records
        /\ k.recorded \/ c \in Records => n.recorded \/ n.struck
        /\ k.struck => n.struck

\* What the call has made sure of: H are the rights the caller had, K the ones
\* all the while.
Gains(k, n, H, K) ==
    LET c == Head(k.todo)
    IN  /\ c = "auth" => <<"session", 0>> \in H
        /\ c = "management" => <<"management", 0>> \in H
        /\ c = "admin" => <<"admin", 0>> \in H
        /\ c = "owner" => <<"owner", k.l>> \in H
        /\ c = "member" => <<"member", k.l>> \in H
        /\ c = "either" => \/ <<"owner", k.l>> \in H
                           \/ <<"moderator", k.l>> \in H
        /\ c = "isOwner" => IF n.owns THEN <<"owner", k.l>> \in H \/ k.owns
                            ELSE n.struck \/ <<"owner", k.l>> \notin K

\* What a load or an insert has found out
Finds(k, n) ==
    LET c  == Head(k.todo)
        op == k.ask.op
    IN  /\ op = "moderate" /\ c = "load" => FiledIn[k.ask.n] = k.l
        /\ op \in OfSub /\ c = "load" => k.ask.who = k.ask.by
        /\ op \in OfSub \cup {"approve", "reenable", "reset"} /\ c = "load" =>
              n.sub # 0
        /\ op \in {"add", "import"} /\ c = "insert" => n.sub # 0

\* The calls of a request fit it.
LEMMA Fits1 ==
  ASSUME NEW k, k.ask \in AllAsks, OnWay(k)
  PROVE  /\ \A c \in Ahead(k.todo) : Fit(k.ask.op, c)
         /\ Head(k.todo) \in Ahead(k.todo)
         /\ k.ask.op \in Ops
  BY Left, AskIs DEF Rest

\* The gates behind a request were passed.
LEMMA ClearedOn ==
  ASSUME NEW k, NEW n, NEW H, NEW G, NEW K, k.ask \in AllAsks, OnWay(k),
         Changes(k, n), Onward(k, n), Gains(k, n, G, K), Cleared(k, H),
         H \subseteq G
  PROVE  Cleared(n, G)
  <1> DEFINE c  == Head(k.todo)
             A  == Ahead(k.todo)
             B  == Ahead(n.todo)
             op == k.ask.op
  <1>1. /\ c \in A /\ op \in Ops /\ n.ask.op = op
        /\ \A x \in A : Fit(op, x)
    BY Fits1 DEF Changes
  <1>2. c = "createList" => op = "create"
    BY <1>1 DEF Fit
  <1>3. /\ c \notin {"find", "createList"} => n.l = k.l
        /\ c # "find" => n.gated = k.gated
        /\ c # "isOwner" => n.owns = k.owns
        /\ c = "find" => n.l # 0 /\ n.gated = IF k.gated = 0 THEN n.l
                                              ELSE k.gated
    BY DEF Changes
  <1>4. CASE n.answer = "ok" /\ n.todo = k.todo /\ A = {c} /\ c \in Doing
    <2>1. /\ c \notin {"auth", "management", "admin", "member", "either",
                       "owner", "find", "isOwner"}
          /\ B = A
      BY <1>4, Apart DEF Asking, Gates
    <2>2. c = "createList" => op \in Instance \ (Moderates \cup Archive
                                                 \cup ByOwner)
      BY <1>2 DEF Instance, Moderates, Archive, ByOwner
    <2>3. n.gated = k.gated /\ n.owns = k.owns
      BY <1>3, <2>1
    <2>4. c # "createList" => n.l = k.l
      BY <1>3, <2>1
    <2> HIDE DEF c, A, B, op
    <2> QED
      BY <1>1, <1>4, <2>1, <2>2, <2>3, <2>4 DEF Cleared, c, A, B, op
  <1>5. CASE /\ n.answer = "none" /\ A = {c} \cup B /\ Head(n.todo) \in B
             /\ \A y \in B : Follows(op, c, y)
             /\ Head(n.todo) = "owner" => c = "find"
             /\ c = "find" /\ "owner" \in B => Head(n.todo) = "owner"
    <2>1. "auth" \notin B => <<"session", 0>> \in G
      BY <1>1, <1>5 DEF Cleared, Gains
    <2>2. op \notin Self \cup Archive /\ "management" \notin B =>
              <<"management", 0>> \in G
      BY <1>1, <1>5 DEF Cleared, Gains
    <2>3. op \in Instance /\ "admin" \notin B => <<"admin", 0>> \in G
      BY <1>1, <1>5 DEF Cleared, Gains
    <2>4. ASSUME op \in Archive, "member" \notin B
          PROVE  "find" \notin B /\ <<"member", n.l>> \in G
      <3>1. CASE c = "member"
        <4>1. "find" \notin B
          BY <1>5, <3>1 DEF Follows, Asking
        <4> QED
          BY <1>3, <3>1, <4>1 DEF Gains
      <3>2. CASE c # "member"
        <4>1. "find" \notin A /\ <<"member", k.l>> \in H
          BY <1>5, <2>4, <3>2 DEF Cleared
        <4>2. c # "createList" /\ c # "find"
          BY <1>1, <1>2, <2>4, <4>1 DEF Archive
        <4> QED
          BY <1>3, <1>5, <4>1, <4>2
      <3> QED
        BY <3>1, <3>2
    <2>5. ASSUME op \in Moderates, "either" \notin B
          PROVE  /\ "find" \notin B
                 /\ <<"owner", n.l>> \in G \/ <<"moderator", n.l>> \in G
      <3>1. CASE c = "either"
        <4>1. "find" \notin B
          BY <1>5, <3>1 DEF Follows, Asking
        <4> QED
          BY <1>3, <3>1, <4>1 DEF Gains
      <3>2. CASE c # "either"
        <4>1. /\ "find" \notin A
              /\ <<"owner", k.l>> \in H \/ <<"moderator", k.l>> \in H
          BY <1>5, <2>5, <3>2 DEF Cleared
        <4>2. c # "createList" /\ c # "find"
          BY <1>1, <1>2, <2>5, <4>1 DEF Moderates
        <4> QED
          BY <1>3, <1>5, <4>1, <4>2
      <3> QED
        BY <3>1, <3>2
    <2>6. ASSUME op \in Moderates, n.owns
          PROVE  "find" \notin B /\ <<"owner", n.l>> \in G
      <3>1. c # "createList"
        BY <1>2, <2>6 DEF Moderates
      <3>2. CASE c = "isOwner" /\ <<"owner", k.l>> \in G
        <4>1. "find" \notin B
          BY <1>5, <3>2 DEF Follows
        <4> QED
          BY <1>3, <3>2, <4>1
      <3>3. CASE k.owns
        <4>1. "find" \notin A /\ <<"owner", k.l>> \in H
          BY <2>6, <3>3 DEF Cleared
        <4>2. c # "find"
          BY <1>1, <4>1
        <4> QED
          BY <1>3, <1>5, <3>1, <4>1, <4>2
      <3>4. c # "isOwner" => k.owns
        BY <1>3, <2>6
      <3>5. c = "isOwner" => <<"owner", k.l>> \in G \/ k.owns
        BY <2>6 DEF Gains
      <3> QED
        BY <3>2, <3>3, <3>4, <3>5
    <2>7. ASSUME op \in ByOwner, "owner" \notin B
          PROVE  /\ <<"owner", n.gated>> \in G /\ n.gated # 0
                 /\ op \notin {"add", "import"} =>
                       "find" \notin B /\ n.l = n.gated
      <3>0. c # "createList"
        BY <1>2, <2>7 DEF ByOwner, Instance
      <3>1. CASE c = "owner"
        <4>1. k.gated # 0 /\ k.l = k.gated
          BY <1>1, <2>7, <3>1 DEF Cleared
        <4>2. op \notin {"add", "import"} => "find" \notin B
          BY <1>5, <3>1 DEF Follows
        <4>3. <<"owner", k.l>> \in G
          BY <3>1 DEF Gains
        <4> QED
          BY <1>3, <3>1, <4>1, <4>2, <4>3
      <3>2. CASE c # "owner"
        <4>1. /\ <<"owner", k.gated>> \in H /\ k.gated # 0
              /\ op \notin {"add", "import"} =>
                    "find" \notin A /\ k.l = k.gated
          BY <1>5, <2>7, <3>2 DEF Cleared
        <4>2. n.gated = k.gated
          BY <1>3, <4>1
        <4>3. op \notin {"add", "import"} => c # "find"
          BY <1>1, <4>1
        <4> QED
          BY <1>3, <1>5, <3>0, <4>1, <4>2, <4>3
      <3> QED
        BY <3>1, <3>2
    <2>8. ASSUME op \in ByOwner, "owner" \in B
          PROVE  /\ n.gated # 0 => Head(n.todo) = "owner" /\ n.l = n.gated
                 /\ Head(n.todo) = "owner" => n.gated # 0
      <3>1. c # "owner"
        BY <1>5, <2>8 DEF Follows, Gates
      <3>2. k.gated = 0
        BY <1>5, <2>8, <3>1 DEF Cleared
      <3>3. CASE c = "find"
        BY <1>3, <1>5, <2>8, <3>2, <3>3
      <3>4. CASE c # "find"
        BY <1>3, <1>5, <3>2, <3>4
      <3> QED
        BY <3>3, <3>4
    <2>9. ASSUME op \notin Self \cup Instance, "find" \notin B
          PROVE  n.l # 0
      <3>1. c # "createList"
        BY <1>2, <2>9 DEF Instance
      <3>2. CASE c = "find"
        BY <1>3, <3>2
      <3>3. CASE c # "find"
        <4>1. k.l # 0
          BY <1>5, <2>9, <3>3 DEF Cleared
        <4> QED
          BY <1>3, <3>1, <3>3, <4>1
      <3> QED
        BY <3>2, <3>3
    <2> HIDE DEF c, A, B, op
    <2>10. /\ B = Ahead(n.todo) /\ op = n.ask.op
      BY <1>1 DEF B, op
    <2> QED
      BY <2>1, <2>2, <2>3, <2>4, <2>5, <2>6, <2>7, <2>8, <2>9, <2>10
      DEF Cleared
  <1> QED
    BY <1>4, <1>5 DEF Onward

\* Of what Denial says of requests that have no answer yet
LEMMA DenialOn ==
  ASSUME NEW k, NEW n, NEW H, NEW K, NEW J, k.ask \in AllAsks, OnWay(k),
         Changes(k, n), Onward(k, n), Gains(k, n, H, J), Denial(k, K),
         J \subseteq K
  PROVE  Denial(n, J)
  <1> DEFINE c  == Head(k.todo)
             A  == Ahead(k.todo)
             B  == Ahead(n.todo)
             op == k.ask.op
  <1>1. /\ c \in A /\ op \in Ops /\ n.ask.op = op
        /\ \A x \in A : Fit(op, x)
    BY Fits1 DEF Changes
  <1>2. n.answer # "denied"
    BY DEF Onward
  <1>3. ASSUME op \in Moderates, "isOwner" \notin B, ~n.owns, ~n.struck
        PROVE  "find" \notin B /\ <<"owner", n.l>> \notin J
    <2>1. c # "createList"
      BY <1>1, <1>3 DEF Fit, Moderates
    <2>2. ~k.struck
      BY <1>3 DEF Changes
    <2>3. CASE c = "isOwner"
      <3>1. c \notin Doing
        BY <2>3, Apart DEF Asking
      <3>2. "find" \notin B
        BY <2>3, <3>1 DEF Onward, Follows
      <3>3. <<"owner", k.l>> \notin J /\ n.l = k.l
        BY <1>3, <2>3 DEF Gains, Changes
      <3> QED
        BY <3>2, <3>3
    <2>4. CASE c # "isOwner"
      <3>1. "isOwner" \notin A /\ B \subseteq A
        BY <1>3, <2>4 DEF Onward
      <3>2. ~k.owns
        BY <1>3, <2>4 DEF Changes
      <3>3. "find" \notin A /\ <<"owner", k.l>> \notin K
        BY <1>3, <2>2, <3>1, <3>2 DEF Denial
      <3>4. n.l = k.l
        BY <1>1, <2>1, <3>3 DEF Changes
      <3> QED
        BY <3>1, <3>3, <3>4
    <2> QED
      BY <2>3, <2>4
  <1> HIDE DEF B, op
  <1> QED
    BY <1>1, <1>2, <1>3 DEF Denial, B, op

\* What a request changed goes on record.
LEMMA TrailedOn ==
  ASSUME NEW k, NEW n, k.ask \in AllAsks, OnWay(k), k.answer = "none",
         Changes(k, n), Onward(k, n), Trailed(k)
  PROVE  Trailed(n)
  <1> DEFINE c  == Head(k.todo)
             A  == Ahead(k.todo)
             B  == Ahead(n.todo)
             op == k.ask.op
  <1>1. /\ c \in A /\ op \in Ops /\ n.ask.op = op
        /\ \A x \in A : Fit(op, x)
    BY Fits1 DEF Changes
  <1>2. n.wrote => op \notin Reads
    <2>1. c \in WriteCalls => op \notin Reads
      BY <1>1 DEF WriteCalls, FormCalls, Fit, Reads, Archive
    <2> QED
      BY <2>1 DEF Trailed, Changes
  <1>3. CASE n.answer = "ok" /\ n.todo = k.todo /\ A = {c}
             /\ (op \notin Self \cup Reads => c \in Records)
    <2>1. n.wrote /\ op \notin Self => n.recorded \/ n.struck
      BY <1>2, <1>3 DEF Changes
    <2> QED
      BY <1>1, <1>2, <1>3, <2>1 DEF Trailed
  <1>4. CASE /\ n.answer = "none" /\ A = {c} \cup B /\ Head(n.todo) \in B
             /\ \A y \in B : Follows(op, c, y)
    <2>1. c \notin Records
      BY <1>4 DEF Follows
    <2>2. ~n.recorded
      BY <2>1 DEF Trailed, Changes
    <2>3. n.wrote => B \subseteq AfterWrite
      <3>1. CASE c \in WriteCalls
        BY <1>4, <3>1 DEF Follows
      <3>2. CASE c \notin WriteCalls
        BY <1>4, <3>2 DEF Changes, Trailed
      <3> QED
        BY <3>1, <3>2
    <2> QED
      BY <1>1, <1>2, <1>4, <2>2, <2>3 DEF Trailed
  <1> QED
    BY <1>3, <1>4 DEF Onward

LEMMA CheckedOn ==
  ASSUME NEW k, NEW n, k.ask \in AllAsks, OnWay(k),
         Changes(k, n), Onward(k, n), Finds(k, n), Checked(k)
  PROVE  Checked(n)
  <1> DEFINE c  == Head(k.todo)
             A  == Ahead(k.todo)
             B  == Ahead(n.todo)
             op == k.ask.op
  <1>1. /\ c \in A /\ op \in Ops /\ n.ask = k.ask
        /\ \A x \in A : Fit(op, x)
    BY Fits1 DEF Changes
  <1>2. A \subseteq B \cup {c} /\ B \subseteq A
    BY DEF Onward
  <1>3. c = "load" => "find" \notin B
    BY <1>1, Apart DEF Onward, Follows, Asking, Doing
  <1>4. c = "insert" => "load" \notin B
    BY <1>1, Apart DEF Onward, Follows, WriteCalls, AfterWrite, Records
  <1>5. ASSUME op = "moderate", "load" \notin B
        PROVE  "find" \notin B /\ FiledIn[n.ask.n] = n.l
    <2>1. c # "createList"
      BY <1>1, <1>5 DEF Fit
    <2>2. CASE c = "load"
      BY <1>1, <1>3, <1>5, <2>2 DEF Finds, Changes
    <2>3. CASE c # "load"
      BY <1>1, <1>2, <1>5, <2>1, <2>3 DEF Checked, Changes
    <2> QED
      BY <2>2, <2>3
  <1>6. op \in OfSub /\ "load" \notin B => n.ask.who = n.ask.by
    BY <1>1, <1>2 DEF Checked, Finds
  <1>7. ASSUME op \in OfSub \cup {"approve", "reenable", "reset"},
               "load" \notin B
        PROVE  n.sub # 0
    <2>1. c # "insert"
      BY <1>1, <1>7 DEF Fit, OfSub
    <2>2. CASE c = "load"
      BY <1>7, <2>2 DEF Finds
    <2>3. CASE c # "load"
      BY <1>2, <1>7, <2>1, <2>3 DEF Checked, Changes
    <2> QED
      BY <2>2, <2>3
  <1>8. ASSUME op \in {"add", "import"}, "insert" \notin B
        PROVE  "load" \notin B /\ ("activate" \in B => n.sub # 0)
    <2>1. CASE c = "insert"
      BY <1>4, <1>8, <2>1 DEF Finds
    <2>2. CASE c # "insert"
      <3>1. /\ "insert" \notin A /\ "load" \notin A
            /\ "activate" \in A => k.sub # 0
        BY <1>2, <1>8, <2>2 DEF Checked
      <3> QED
        BY <1>1, <1>2, <2>2, <3>1 DEF Changes
    <2> QED
      BY <2>1, <2>2
  <1> HIDE DEF B, op
  <1>9. op = n.ask.op
    BY <1>1 DEF op
  <1> QED
    BY <1>5, <1>6, <1>7, <1>8, <1>9 DEF Checked, B

\* What was shown might be seen, with more rights all the more.
LEMMA SeenOn ==
  ASSUME NEW k, NEW n, NEW H, NEW G, Seen(k, H), H \subseteq G,
         n.ask = k.ask, n.shown = k.shown
  PROVE  Seen(n, G)
  BY DEF Seen, Ways

\* A call is made and the request goes on.
LEMMA SaneOn ==
  ASSUME NEW S, S \subseteq AllAsks, NEW H, NEW K, NEW G, NEW J,
         NEW k, NEW m, NEW n, Sane(k, S, H, K), k.ask.op # "none",
         k.answer = "none", m \in Procs, m.answer = "none", m.todo = k.todo,
         Changes(k, m), Gains(k, m, G, J), Finds(k, m), Seen(m, G),
         H \subseteq G, J \subseteq K, n = Advance(m)
  PROVE  Sane(n, S, G, J) /\ Alike(m, n) /\ Onward(k, n)
  <1>1. /\ k.ask \in S /\ k.ask \in AllAsks /\ OnWay(k) /\ Cleared(k, H)
        /\ Denial(k, K) /\ Trailed(k) /\ Checked(k)
    BY DEF Sane
  <1>2. m.ask = k.ask
    BY DEF Changes
  <1>3. m.ask \in AllAsks /\ OnWay(m)
    BY <1>1, <1>2 DEF OnWay
  <1>4. n \in Procs /\ OnWay(n) /\ Alike(m, n) /\ Onward(m, n)
    BY <1>3, Advances
  <1>5. Onward(k, n)
    BY <1>2, <1>4 DEF Onward
  <1>6. Changes(k, n)
    BY <1>4 DEF Changes, Alike
  <1>7. Gains(k, n, G, J)
    BY <1>4 DEF Gains, Alike
  <1>8. Finds(k, n)
    BY <1>4 DEF Finds, Alike
  <1>9. Cleared(n, G)
    BY <1>1, <1>5, <1>6, <1>7, ClearedOn
  <1>10. Denial(n, J)
    BY <1>1, <1>5, <1>6, <1>7, DenialOn
  <1>11. Trailed(n)
    BY <1>1, <1>5, <1>6, TrailedOn
  <1>12. Checked(n)
    BY <1>1, <1>5, <1>6, <1>8, CheckedOn
  <1>13. Seen(n, G)
    BY <1>4, SeenOn DEF Alike
  <1>14. n.ask = k.ask
    BY <1>6 DEF Changes
  <1> QED
    BY <1>1, <1>4, <1>5, <1>9, <1>10, <1>11, <1>12, <1>13, <1>14 DEF Sane

\* A call that must come before any write finds none.
LEMMA NotWritten ==
  ASSUME NEW k, k.ask \in AllAsks, OnWay(k), Trailed(k), k.answer = "none",
         Head(k.todo) \notin AfterWrite
  PROVE  ~k.wrote
  BY Fits1 DEF Trailed

\* A request ends with an answer of its own, or is cut short.
LEMMA SaneEnd ==
  ASSUME NEW S, S \subseteq AllAsks, NEW H, NEW K, NEW G, NEW J,
         NEW k, NEW n, Sane(k, S, H, K), k.ask.op # "none",
         k.answer = "none", n \in Procs, n.ask = k.ask, n.todo = k.todo,
         n.l = k.l, n.gated = k.gated, n.owns = k.owns, n.sub = k.sub,
         n.shown = k.shown, n.wrote = k.wrote, n.recorded = k.recorded,
         k.struck => n.struck,
         n.answer \in {"denied", "rejected", "failed", "lost"},
         n.answer = "denied" /\ ~n.struck =>
            \A w \in Suffices(k) : ~(w \subseteq J),
         n.answer \in {"denied", "rejected"} \/ ~n.struck => ~k.wrote,
         H \subseteq G, J \subseteq K
  PROVE  Sane(n, S, G, J)
  <1>1. /\ k.ask \in S /\ OnWay(k) /\ Cleared(k, H) /\ Seen(k, H)
        /\ Denial(k, K) /\ Trailed(k) /\ Checked(k)
    BY DEF Sane
  <1>2. OnWay(n)
    BY <1>1 DEF OnWay
  <1>3. Cleared(n, G)
    BY <1>1 DEF Cleared
  <1>4. Suffices(n) = Suffices(k)
    BY DEF Suffices
  <1>5. Denial(n, J)
    BY <1>1, <1>4 DEF Denial
  <1>6. Seen(n, G)
    BY <1>1, SeenOn
  <1>7. Trailed(n)
    BY <1>1 DEF Trailed
  <1>8. Checked(n)
    BY <1>1 DEF Checked
  <1> QED
    BY <1>1, <1>2, <1>3, <1>5, <1>6, <1>7, <1>8 DEF Sane

\* A request stays as it is while its caller's rights change; a save may meet
\* another one.
LEMMA SaneStay ==
  ASSUME NEW S, NEW H, NEW K, NEW G, NEW J,
         NEW k, NEW n, Sane(k, S, H, K), H \subseteq G, J \subseteq K,
         n = k \/ (n = [k EXCEPT !.mixed = TRUE] /\ k.ask.op # "none")
  PROVE  Sane(n, S, G, J)
  <1>1. n \in Procs /\ n.ask = k.ask
    BY DEF Sane, Procs
  <1>2. CASE k.ask.op = "none"
    BY <1>1, <1>2 DEF Sane
  <1>3. CASE k.ask.op # "none"
    <2>1. /\ k \in Procs /\ k.ask \in S /\ OnWay(k) /\ Cleared(k, H)
          /\ Seen(k, H) /\ Denial(k, K) /\ Trailed(k) /\ Checked(k)
      BY <1>3 DEF Sane
    <2>2. /\ n.todo = k.todo /\ n.l = k.l /\ n.gated = k.gated
          /\ n.owns = k.owns /\ n.sub = k.sub /\ n.shown = k.shown
          /\ n.wrote = k.wrote /\ n.recorded = k.recorded
          /\ n.struck = k.struck /\ n.answer = k.answer
      BY <2>1 DEF Procs
    <2>3. OnWay(n)
      BY <1>1, <2>1, <2>2 DEF OnWay
    <2>4. Cleared(n, G)
      BY <1>1, <2>1, <2>2 DEF Cleared
    <2>5. Suffices(n) = Suffices(k)
      BY <1>1, <2>2 DEF Suffices
    <2>6. Denial(n, J)
      BY <1>1, <2>1, <2>2, <2>5 DEF Denial
    <2>7. Seen(n, G)
      BY <1>1, <2>1, <2>2, SeenOn
    <2>8. Trailed(n)
      BY <1>1, <2>1, <2>2 DEF Trailed
    <2>9. Checked(n)
      BY <1>1, <2>1, <2>2 DEF Checked
    <2> QED
      BY <1>1, <1>3, <2>1, <2>3, <2>4, <2>6, <2>7, <2>8, <2>9 DEF Sane
  <1> QED
    BY <1>2, <1>3

\* An import goes on to its record.
LEMMA SaneToRecord ==
  ASSUME NEW S, S \subseteq AllAsks, NEW H, NEW K, NEW G, NEW J,
         NEW k, NEW n, Sane(k, S, H, K), k.ask.op = "import",
         k.answer = "none", Head(k.todo) \in {"load", "insert"},
         n \in Procs, n.ask = k.ask, n.todo = <<"record">>,
         n.l = k.l, n.gated = k.gated, n.owns = k.owns, n.sub = k.sub,
         n.shown = k.shown, n.wrote = k.wrote, n.recorded = k.recorded,
         n.answer = "none", H \subseteq G, J \subseteq K
  PROVE  Sane(n, S, G, J)
  <1>1. /\ k.ask \in S /\ OnWay(k) /\ Cleared(k, H) /\ Seen(k, H)
        /\ Denial(k, K) /\ Trailed(k) /\ Checked(k)
    BY DEF Sane
  <1>2. OnWay(n)
    BY <1>1, LastIsRecord
  <1>3. "record" \in Calls
    BY DEF Calls, Doing, Records
  <1>4. Ahead(n.todo) = {"record"}
    BY <1>3, Calls1
  <1>5. \A c \in Ahead(k.todo) : c \notin Asking
    <2>1. Rest(k.ask.op, k.todo)
      BY <1>1, Left
    <2>2. Head(k.todo) \notin Asking /\ Head(k.todo) \in Doing
      BY DEF Asking, Gates, Doing, WriteCalls
    <2> QED
      BY <2>1, <2>2 DEF Rest, Follows
  <1>6. k.ask.op \in ByOwner
    BY DEF ByOwner, Ops, Self, Archive, Instance, Moderates
  <1>7. k.ask.op \notin Self \cup Archive \cup Instance \cup Moderates
    BY <1>6 DEF ByOwner
  <1>8. /\ <<"session", 0>> \in G /\ <<"management", 0>> \in G
        /\ <<"owner", n.gated>> \in G /\ n.gated # 0 /\ n.l # 0
    BY <1>1, <1>5, <1>6, <1>7 DEF Cleared, Asking, Gates
  <1>9. Cleared(n, G)
    BY <1>4, <1>7, <1>8 DEF Cleared
  <1>10. Denial(n, J)
    BY <1>7 DEF Denial
  <1>11. Seen(n, G)
    BY <1>1, SeenOn
  <1>12. ~k.wrote
    BY <1>1, NotWritten DEF AfterWrite, Records
  <1>13. Trailed(n)
    BY <1>1, <1>12 DEF Trailed
  <1>14. Checked(n)
    BY <1>4 DEF Checked, OfSub
  <1> QED
    BY <1>1, <1>2, <1>9, <1>10, <1>11, <1>13, <1>14 DEF Sane

\* A request begins.
LEMMA SaneFirst ==
  ASSUME NEW S, S \subseteq AllAsks, NEW H, NEW K, NEW a \in S, NEW n,
         n = [Idle EXCEPT !.ask = a, !.todo = Program(a)], Idle \in Procs
  PROVE  Sane(n, S, H, K)
  <1>1. a.op \in Ops
    BY AskIs
  <1>2. /\ n.ask = a /\ n.todo = Program(a) /\ n.l = 0 /\ n.gated = 0
        /\ n.owns = FALSE /\ n.answer = "none" /\ n.shown = {}
        /\ n.wrote = FALSE /\ n.recorded = FALSE
    BY DEF Idle
  <1>3. OnWay(n) /\ Has(a.op, Ahead(n.todo)) /\ Head(n.todo) # "owner"
    BY <1>2, First
  <1>4. Program(a) \in Seq(Calls)
    BY Shape DEF Shapely
  <1>5. n \in Procs
    BY <1>4 DEF Procs
  <1>6. Cleared(n, H)
    BY <1>2, <1>3 DEF Cleared, Has
  <1>7. Denial(n, K)
    BY <1>2, <1>3 DEF Denial, Has
  <1>8. Seen(n, H) /\ Trailed(n)
    BY <1>2 DEF Seen, Trailed
  <1>9. Checked(n)
    BY <1>2, <1>3 DEF Checked, Has
  <1>10. a.op # "none"
    BY <1>1 DEF Ops, Self, Moderates, Instance, Reads, Archive
  <1> QED
    BY <1>2, <1>3, <1>5, <1>6, <1>7, <1>8, <1>9, <1>10 DEF Sane
-----------------------------------------------------------------------------
(***************************************************************************)
(* Steps                                                                   *)
(***************************************************************************)
\* The rights a Subscriber has at a time
LEMMA RightsAre ==
  ASSUME NEW p
  PROVE  /\ <<"session", 0>> \in RightsOf(p) <=> p \in session
         /\ <<"management", 0>> \in RightsOf(p) <=> (management = TRUE)
         /\ <<"admin", 0>> \in RightsOf(p) <=> p \in admins
         /\ \A i \in Ids :
              /\ <<"owner", i>> \in RightsOf(p) <=> p \in holders["owner"][i]
              /\ <<"moderator", i>> \in RightsOf(p)
                    <=> p \in holders["moderator"][i]
              /\ <<"member", i>> \in RightsOf(p) <=> IsMember(i, p)
         /\ RightsOf(p) \subseteq {"session", "management", "admin", "owner",
                                   "moderator", "member"} \X ({0} \cup Ids)
  <1>1. <<"session", 0>> \in RightsOf(p) <=> p \in session
    BY DEF RightsOf
  <1>2. <<"management", 0>> \in RightsOf(p) <=> (management = TRUE)
    BY DEF RightsOf
  <1>3. <<"admin", 0>> \in RightsOf(p) <=> p \in admins
    BY DEF RightsOf
  <1>4. \A i \in Ids :
           <<"owner", i>> \in RightsOf(p) <=> p \in holders["owner"][i]
    BY DEF RightsOf
  <1>5. \A i \in Ids : <<"moderator", i>> \in RightsOf(p)
                          <=> p \in holders["moderator"][i]
    BY DEF RightsOf
  <1>6. \A i \in Ids : <<"member", i>> \in RightsOf(p) <=> IsMember(i, p)
    BY DEF RightsOf
  <1>7. RightsOf(p) \subseteq {"session", "management", "admin", "owner",
                               "moderator", "member"} \X ({0} \cup Ids)
    BY DEF RightsOf
  <1> QED
    BY <1>1, <1>2, <1>3, <1>4, <1>5, <1>6, <1>7

\* Ids are never used again, and lists keep their addresses.
Keeps == /\ listIds <= listIds' /\ subIds <= subIds'
         /\ \A i \in 1 .. listIds : row'[i].addr = row[i].addr

LEMMA PlacedOn ==
  ASSUME TablesOK, TablesOK', Keeps, NEW k \in Procs, Placed(k)
  PROVE  Placed(k)'
  <1>1. /\ listIds \in Nat /\ listIds' \in Nat /\ subIds \in Nat
        /\ subIds' \in Nat /\ k.l \in Nat /\ k.gated \in Nat /\ k.sub \in Nat
    BY ConsoleAssumption DEF TablesOK, Procs
  <1>2. k.l # 0 => k.l \in 1 .. listIds
    BY <1>1 DEF Placed
  <1>3. k.gated # 0 => k.gated \in 1 .. listIds
    BY <1>1 DEF Placed
  <1> QED
    BY <1>1, <1>2, <1>3 DEF Placed, Keeps

\* The rights noted
LEMMA Noted ==
  ASSUME IInv, Note, NEW h \in Handlers
  PROVE  /\ had[h] \subseteq had'[h] /\ kept'[h] \subseteq kept[h]
         /\ Running(h) =>
               /\ had'[h] = had[h] \cup RightsOf(proc[h].ask.by)
               /\ kept'[h] = kept[h] \cap RightsOf(proc[h].ask.by)
  BY DEF Note

LEMMA NotedTypes ==
  ASSUME IInv, Note
  PROVE  /\ had' \in [Handlers -> SUBSET Rights]
         /\ kept' \in [Handlers -> SUBSET Rights]
  <1>1. {0} \cup Ids \subseteq 0 .. MaxLists
    BY ConsoleAssumption DEF Ids
  <1>2. ASSUME NEW p PROVE RightsOf(p) \subseteq Rights
    <2> DEFINE R == {"session", "management", "admin", "owner", "moderator",
                     "member"}
    <2>1. RightsOf(p) \subseteq R \X ({0} \cup Ids)
      BY RightsAre
    <2> HIDE DEF R
    <2>2. R \X ({0} \cup Ids) \subseteq R \X (0 .. MaxLists)
      BY <1>1
    <2> QED
      BY <2>1, <2>2 DEF Rights, R
  <1>3. ASSUME NEW h \in Handlers
        PROVE  had[h] \in SUBSET Rights /\ kept[h] \in SUBSET Rights
    BY <1>3 DEF IInv
  <1> QED
    BY <1>2, <1>3 DEF Note

\* A handler's request that is not the one that moves
LEMMA OthersKept ==
  ASSUME IInv, Note, Keeps, TablesOK', NEW g \in Handlers,
         \/ proc'[g] = proc[g]
         \/ proc'[g] = [proc[g] EXCEPT !.mixed = TRUE] /\ Begun(g)
  PROVE  /\ proc'[g] \in Procs
         /\ Sane(proc'[g], Asks[g], had'[g], kept'[g])
         /\ Placed(proc[g])'
  <1>1. PICK k : k = proc[g]
    OBVIOUS
  <1>2. PICK n : n = proc'[g]
    OBVIOUS
  <1>3. k \in Procs /\ Sane(k, Asks[g], had[g], kept[g]) /\ Placed(k)
    BY <1>1 DEF IInv
  <1>4. n = k \/ (n = [k EXCEPT !.mixed = TRUE] /\ k.ask.op # "none")
    BY <1>1, <1>2 DEF Begun
  <1>5. had[g] \subseteq had'[g] /\ kept'[g] \subseteq kept[g]
    BY Noted
  <1>6. Sane(n, Asks[g], had'[g], kept'[g])
    BY <1>3, <1>4, <1>5, SaneStay
  <1>7. /\ n \in Procs /\ n.l = k.l /\ n.gated = k.gated /\ n.sub = k.sub
        /\ n.ask = k.ask /\ n.copy = k.copy
    BY <1>3, <1>4 DEF Procs
  <1>8. Placed(k)'
    BY <1>3, PlacedOn DEF IInv
  <1>9. Placed(n)'
    BY <1>7, <1>8 DEF Placed
  <1> QED
    BY <1>2, <1>6, <1>7, <1>9 DEF Placed

\* The step of one request
LEMMA StepOf ==
  ASSUME IInv, NEW h \in Handlers, NEW n \in Procs, Goto(h, n), Keeps,
         TablesOK', Sane(n, Asks[h], had'[h], kept'[h]), Placed(n)'
  PROVE  /\ IInv' /\ proc'[h] = n
         /\ \A g \in Handlers : g # h => proc'[g] = proc[g]
  <1>1. proc' = [proc EXCEPT ![h] = n] /\ Note
    BY DEF Goto
  <1>2. proc \in [Handlers -> Procs]
    BY DEF IInv
  <1>3. proc' \in [Handlers -> Procs] /\ proc'[h] = n
    BY <1>1, <1>2
  <1>4. ASSUME NEW g \in Handlers
        PROVE  Sane(proc'[g], Asks[g], had'[g], kept'[g]) /\ Placed(proc[g])'
    <2>1. CASE g = h
      BY <1>3, <2>1 DEF Placed
    <2>2. CASE g # h
      <3>1. proc'[g] = proc[g]
        BY <1>1, <1>2, <2>2
      <3> QED
        BY <1>1, <3>1, OthersKept
    <2> QED
      BY <2>1, <2>2
  <1>5. \A g \in Handlers : g # h => proc'[g] = proc[g]
    BY <1>1, <1>2
  <1>6. IInv'
    BY <1>1, <1>3, <1>4, NotedTypes DEF IInv
  <1> QED
    BY <1>3, <1>5, <1>6

\* What a call leaves of the request it is made for, and of the others
Turn(k, n) ==
    /\ n.ask = k.ask
    /\ Head(k.todo) # "find" => n.gated = k.gated
    /\ n.answer = "none" =>
          /\ Head(n.todo) = "description" <=> Head(k.todo) = "settings"
          /\ Head(n.todo) = "instructions" <=> Head(k.todo) = "description"

After(h) == /\ IInv' /\ Turn(proc[h], proc'[h])
            /\ \A g \in Handlers : g # h => proc'[g] = proc[g]

\* A request under way
Live(k, h) ==
    /\ k = proc[h] /\ k \in Procs
    /\ Sane(k, Asks[h], had[h], kept[h]) /\ Placed(k)
    /\ k.ask.op # "none" /\ k.answer = "none"
    /\ k.ask \in AllAsks /\ k.ask.op \in Ops /\ k.ask.by \in Persons
    /\ OnWay(k) /\ Fit(k.ask.op, Head(k.todo))
    /\ Head(k.todo) \in Ahead(k.todo)
    /\ Cleared(k, had[h]) /\ Denial(k, kept[h]) /\ Seen(k, had[h])
    /\ Trailed(k) /\ Checked(k)

LEMMA Lives ==
  ASSUME IInv, NEW h \in Handlers, Running(h)
  PROVE  \E k : Live(k, h)
  <1>1. PICK k : k = proc[h]
    OBVIOUS
  <1>2. k \in Procs /\ Sane(k, Asks[h], had[h], kept[h]) /\ Placed(k)
    BY <1>1 DEF IInv
  <1>3. k.ask.op # "none" /\ k.answer = "none"
    BY <1>1 DEF Running, Begun
  <1>4. /\ k.ask \in Asks[h] /\ OnWay(k) /\ Trailed(k) /\ Checked(k)
        /\ Cleared(k, had[h]) /\ Denial(k, kept[h]) /\ Seen(k, had[h])
    BY <1>2, <1>3 DEF Sane
  <1>5. k.ask \in AllAsks
    BY <1>4 DEF AllAsks
  <1>6. k.ask.op \in Ops /\ k.ask.by \in Persons
    BY <1>5, AskIs
  <1>7. Fit(k.ask.op, Head(k.todo)) /\ Head(k.todo) \in Ahead(k.todo)
    BY <1>4, <1>5, Fits1
  <1>8. Live(k, h)
    BY <1>1, <1>2, <1>3, <1>4, <1>5, <1>6, <1>7 DEF Live
  <1> QED
    BY <1>8

\* The rights noted of a request under way
LEMMA LiveNoted ==
  ASSUME IInv, Note, NEW h \in Handlers, Running(h), NEW k, Live(k, h)
  PROVE  /\ had'[h] = had[h] \cup RightsOf(k.ask.by)
         /\ kept'[h] = kept[h] \cap RightsOf(k.ask.by)
         /\ had[h] \subseteq had'[h] /\ kept'[h] \subseteq kept[h]
  BY Noted DEF Live

\* A call is made, m is what it made of the request.
LEMMA GoOn ==
  ASSUME IInv, NEW h \in Handlers, Running(h), NEW k, Live(k, h),
         NEW m \in Procs, m.answer = "none", m.todo = k.todo, Changes(k, m),
         Goto(h, Advance(m)), Gains(k, m, had'[h], kept'[h]), Finds(k, m),
         Seen(m, had'[h]), Keeps, TablesOK', Placed(m)'
  PROVE  After(h)
  <1>1. PICK n : n = Advance(m)
    OBVIOUS
  <1>2. Goto(h, n) /\ Note
    BY <1>1 DEF Goto
  <1>3. had[h] \subseteq had'[h] /\ kept'[h] \subseteq kept[h]
    BY <1>2, Noted
  <1>4. Asks[h] \subseteq AllAsks
    BY DEF AllAsks
  <1>5. /\ Sane(k, Asks[h], had[h], kept[h]) /\ k.ask.op # "none"
        /\ k.answer = "none"
    BY DEF Live
  <1>6. /\ Sane(n, Asks[h], had'[h], kept'[h]) /\ Alike(m, n)
        /\ Onward(k, n)
    BY <1>1, <1>3, <1>4, <1>5, SaneOn
  <1>7. n \in Procs
    BY <1>6 DEF Sane
  <1>8. Placed(n)'
    BY <1>6 DEF Placed, Alike
  <1>9. /\ n.ask = k.ask
        /\ Head(k.todo) # "find" => n.gated = k.gated
    BY <1>6 DEF Alike, Changes
  <1>10. Turn(k, n)
    BY <1>6, <1>9 DEF Turn, Onward
  <1>11. k = proc[h]
    BY DEF Live
  <1> QED
    BY <1>2, <1>6, <1>7, <1>8, <1>10, <1>11, StepOf DEF After

\* Nothing but the answer, and that a call failed, has changed.
Ends(k, n) ==
    /\ n \in Procs /\ n.ask = k.ask /\ n.todo = k.todo
    /\ n.l = k.l /\ n.gated = k.gated /\ n.owns = k.owns /\ n.sub = k.sub
    /\ n.copy = k.copy /\ n.shown = k.shown /\ n.mixed = k.mixed
    /\ n.wrote = k.wrote /\ n.recorded = k.recorded
    /\ k.struck => n.struck
    /\ n.answer \in {"denied", "rejected", "failed", "lost"}
    /\ n.answer \in {"denied", "rejected"} \/ ~n.struck => ~k.wrote

LEMMA EndSane ==
  ASSUME IInv, Note, NEW h \in Handlers, Running(h), NEW k, Live(k, h),
         NEW n, Ends(k, n), Keeps, TablesOK',
         n.answer = "denied" /\ ~n.struck =>
            \A w \in Suffices(k) : ~(w \subseteq kept'[h])
  PROVE  Sane(n, Asks[h], had'[h], kept'[h]) /\ Placed(n)'
  <1>1. had[h] \subseteq had'[h] /\ kept'[h] \subseteq kept[h]
    BY Noted
  <1>2. Asks[h] \subseteq AllAsks
    BY DEF AllAsks
  <1>3. /\ Sane(k, Asks[h], had[h], kept[h]) /\ k.ask.op # "none"
        /\ k.answer = "none" /\ k \in Procs /\ Placed(k)
    BY DEF Live
  <1>4. Sane(n, Asks[h], had'[h], kept'[h])
    BY <1>1, <1>2, <1>3, SaneEnd DEF Ends
  <1>5. Placed(k)'
    BY <1>3, PlacedOn DEF IInv
  <1>6. Placed(n)'
    BY <1>5 DEF Placed, Ends
  <1> QED
    BY <1>4, <1>6

LEMMA GoEnd ==
  ASSUME IInv, NEW h \in Handlers, Running(h), NEW k, Live(k, h),
         NEW n, Ends(k, n), Goto(h, n), Keeps, TablesOK',
         n.answer = "denied" /\ ~n.struck =>
            \A w \in Suffices(k) : ~(w \subseteq kept'[h])
  PROVE  After(h)
  <1>1. Note
    BY DEF Goto
  <1>2. Sane(n, Asks[h], had'[h], kept'[h]) /\ Placed(n)'
    BY <1>1, EndSane
  <1>3. n \in Procs /\ Turn(k, n) /\ k = proc[h]
    BY DEF Ends, Turn, Live
  <1> QED
    BY <1>2, <1>3, StepOf DEF After

\* An answer of rejected, before any write
LEMMA Rejects ==
  ASSUME IInv, NEW h \in Handlers, Running(h), NEW k, Live(k, h),
         Head(k.todo) \notin AfterWrite, NEW a \in {"rejected", "failed"},
         Answer(h, a), Keeps, TablesOK'
  PROVE  After(h)
  <1>1. PICK n : n = Answered(k, a)
    OBVIOUS
  <1>2. k \in Procs /\ ~k.wrote /\ k = proc[h]
    BY NotWritten DEF Live
  <1>3. n = [k EXCEPT !.answer = a] /\ Goto(h, n)
    BY <1>1, <1>2 DEF Answered, Answer
  <1>4. Ends(k, n) /\ n.answer # "denied"
    BY <1>2, <1>3 DEF Ends, Procs
  <1> QED
    BY <1>3, <1>4, GoEnd

\* Nothing but events has changed, or nothing at all.
LEMMA SameTables ==
  ASSUME IInv, UNCHANGED data,
         UNCHANGED events \/ (events < MaxEvents /\ events' = events + 1)
  PROVE  Keeps /\ TablesOK'
  <1>1. listIds \in Nat /\ subIds \in Nat
    BY ConsoleAssumption DEF IInv, TablesOK
  <1>2. Keeps
    BY <1>1 DEF Keeps, data, table, members
  <1>3. events' \in 0 .. MaxEvents
    BY ConsoleAssumption DEF IInv, TablesOK
  <1> QED
    BY <1>2, <1>3
    DEF IInv, TablesOK, data, access, table, members, mail, SubsOK

\* What may still come after the next call
LEMMA NextThen ==
  ASSUME NEW k, k.ask \in AllAsks, OnWay(k), NEW y \in Ahead(k.todo),
         y # Head(k.todo)
  PROVE  Follows(k.ask.op, Head(k.todo), y)
  BY Left DEF Rest

\* When a request does something, its gates are behind it.
LEMMA GatesBehind ==
  ASSUME NEW h \in Handlers, NEW k, Live(k, h),
         Head(k.todo) \in Doing \cup {"member", "either"}
  PROVE  /\ \A x \in Ahead(k.todo) : x \in Asking => x = Head(k.todo)
         /\ Head(k.todo) \in Doing =>
               \A x \in Ahead(k.todo) : x \notin Asking
  BY NextThen, Apart DEF Live, Follows

\* The rights that made it pass
LEMMA Passed ==
  ASSUME NEW h \in Handlers, NEW k, Live(k, h), Head(k.todo) \in Doing
  PROVE  LET op == k.ask.op
             H  == had[h]
         IN  /\ <<"session", 0>> \in H
             /\ op \notin Self \cup Archive => <<"management", 0>> \in H
             /\ op \in Instance => <<"admin", 0>> \in H
             /\ op \in Archive => <<"member", k.l>> \in H
             /\ op \in Moderates =>
                  <<"owner", k.l>> \in H \/ <<"moderator", k.l>> \in H
             /\ op \in ByOwner =>
                  /\ <<"owner", k.gated>> \in H /\ k.gated # 0
                  /\ op \notin {"add", "import"} => k.l = k.gated
             /\ op \notin Self \cup Instance => k.l # 0
  <1>1. \A x \in Ahead(k.todo) : x \notin Asking
    BY GatesBehind
  <1>2. {"auth", "management", "admin", "member", "either", "owner", "find"}
           \cap Ahead(k.todo) = {}
    BY <1>1 DEF Asking, Gates
  <1>3. Cleared(k, had[h])
    BY DEF Live
  <1> QED
    BY <1>2, <1>3 DEF Cleared

\* The list a request works on has been found.
LEMMA ListFound ==
  ASSUME IInv, NEW h \in Handlers, NEW k, Live(k, h),
         k.ask.op \notin Self \cup Instance,
         Head(k.todo) \in Doing \cup {"member", "either", "isOwner", "owner"}
  PROVE  k.l \in Ids /\ k.l \in 1 .. listIds /\ row[k.l].addr = k.ask.addr
  <1>1. k.l # 0
    <2>1. CASE Head(k.todo) = "owner"
      <3>1. k.ask.op \in ByOwner
        BY <2>1 DEF Live, Fit
      <3> QED
        BY <2>1, <3>1 DEF Live, Cleared
    <2>2. CASE Head(k.todo) # "owner"
      <3>1. "find" \notin Ahead(k.todo)
        <4>1. CASE Head(k.todo) = "isOwner"
          BY <4>1, NextThen DEF Live, Follows
        <4>2. CASE Head(k.todo) # "isOwner"
          BY <2>2, <4>2, GatesBehind, Apart DEF Asking
        <4> QED
          BY <4>1, <4>2
      <3> QED
        BY <3>1 DEF Live, Cleared
    <2> QED
      BY <2>1, <2>2
  <1>2. k.l \in Nat /\ k.l <= listIds /\ listIds \in 0 .. MaxLists
    BY DEF Live, Procs, Placed, IInv, TablesOK
  <1> QED
    BY <1>1, <1>2, ConsoleAssumption DEF Ids, Live, Placed

LEMMA CheckPasses ==
  ASSUME IInv, NEW h \in Handlers, Running(h), Call(h) \in Gates, Allowed(h),
         Proceed(h), UNCHANGED <<data, events>>
  PROVE  After(h)
  <1>1. PICK k : Live(k, h)
    BY Lives
  <1> DEFINE c == Head(k.todo)
  <1>2. /\ k = proc[h] /\ c = Call(h) /\ c \in Gates /\ Fit(k.ask.op, c)
        /\ k \in Procs /\ k.answer = "none" /\ k.ask.op \in Ops
        /\ By(h) = k.ask.by /\ L(h) = k.l
    BY <1>1 DEF Live, Call, By, L
  <1>3. Goto(h, Advance(k)) /\ Note
    BY <1>2 DEF Proceed, Goto
  <1>4. Keeps /\ TablesOK'
    BY SameTables
  <1>5. had'[h] = had[h] \cup RightsOf(k.ask.by) /\ had[h] \subseteq had'[h]
    BY <1>1, <1>3, LiveNoted
  <1>6. c \in {"auth", "management", "admin", "owner", "member", "either"}
    BY <1>2 DEF Gates
  <1>7. Changes(k, k)
    <2>1. c \notin {"find", "createList", "isOwner", "load", "insert"}
          /\ c \notin Records
      BY <1>6 DEF Records
    <2> QED
      BY <2>1 DEF Changes
  <1>8. Finds(k, k)
    BY <1>6 DEF Finds
  <1>9. Seen(k, had'[h])
    BY <1>1, <1>5, SeenOn DEF Live
  <1>10. Placed(k)'
    BY <1>1, <1>4, PlacedOn DEF Live, IInv
  <1>11. Gains(k, k, had'[h], kept'[h])
    <2>1. CASE c \in {"auth", "management", "admin"}
      BY <1>2, <1>5, <2>1, RightsAre
      DEF Gains, Allowed, requireAuth, requireManagement, requireAdmin
    <2>2. CASE c \in {"owner", "member", "either"}
      <3>1. k.ask.op \notin Self \cup Instance
        BY <1>2, <2>2
        DEF Fit, ByOwner, Self, Instance, Archive, Moderates
      <3>2. k.l \in Ids
        BY <1>1, <2>2, <3>1, ListFound
      <3>3. CASE c = "owner"
        BY <1>2, <1>5, <3>2, <3>3, RightsAre DEF Gains, Allowed, requireOwner
      <3>4. CASE c = "member"
        BY <1>2, <1>5, <3>2, <3>4, RightsAre DEF Gains, Allowed, requireMember
      <3>5. CASE c = "either"
        <4>1. k.owns \/ k.ask.by \in holders["moderator"][k.l]
          BY <1>2, <3>5 DEF Allowed, requireRole
        <4>2. k.ask.op \in Moderates
          BY <1>2, <3>5 DEF Fit
        <4>3. k.owns => <<"owner", k.l>> \in had[h]
          BY <1>1, <4>2 DEF Live, Cleared
        <4> QED
          BY <1>5, <3>2, <3>5, <4>1, <4>3, RightsAre DEF Gains
      <3> QED
        BY <2>2, <3>3, <3>4, <3>5
    <2> QED
      BY <1>6, <2>1, <2>2
  <1> QED
    BY <1>1, <1>2, <1>3, <1>4, <1>7, <1>8, <1>9, <1>10, <1>11, GoOn

LEMMA CheckDenies ==
  ASSUME IInv, NEW h \in Handlers, Running(h), Call(h) \in Gates, ~Allowed(h),
         Answer(h, "denied"), UNCHANGED <<data, events>>
  PROVE  After(h)
  <1>1. PICK k : Live(k, h)
    BY Lives
  <1> DEFINE c == Head(k.todo)
  <1>2. /\ k = proc[h] /\ c = Call(h) /\ c \in Gates /\ Fit(k.ask.op, c)
        /\ k \in Procs /\ k.answer = "none" /\ k.ask.op \in Ops
        /\ By(h) = k.ask.by /\ L(h) = k.l
    BY <1>1 DEF Live, Call, By, L
  <1>3. PICK n : n = Answered(k, "denied")
    OBVIOUS
  <1>4. n = [k EXCEPT !.answer = "denied"] /\ Goto(h, n) /\ Note
    BY <1>2, <1>3 DEF Answered, Answer, Goto
  <1>5. Keeps /\ TablesOK'
    BY SameTables
  <1>6. /\ kept'[h] = kept[h] \cap RightsOf(k.ask.by)
    BY <1>1, <1>4, LiveNoted
  <1>7. c \in {"auth", "management", "admin", "owner", "member", "either"}
    BY <1>2 DEF Gates
  <1>8. ~k.wrote
    <2>1. c \notin AfterWrite
      BY <1>7 DEF AfterWrite, Records
    <2> QED
      BY <1>1, <2>1, NotWritten DEF Live
  <1>9. Ends(k, n)
    BY <1>2, <1>4, <1>8 DEF Ends, Procs
  <1>10. ASSUME ~n.struck, NEW w \in Suffices(k)
         PROVE  ~(w \subseteq kept'[h])
    <2>0. ~k.struck
      BY <1>2, <1>4, <1>10 DEF Procs
    <2>1. CASE c = "auth"
      <3>1. <<"session", 0>> \notin kept'[h]
        BY <1>2, <1>6, <2>1, RightsAre DEF Allowed, requireAuth
      <3>2. <<"session", 0>> \in w
        BY <1>10 DEF Suffices, AsMember, AsAdmin, AsOwner, AsModerator,
                     Managing, Signed
      <3> QED
        BY <3>1, <3>2
    <2>2. CASE c = "management"
      <3>1. <<"management", 0>> \notin kept'[h]
        BY <1>2, <1>6, <2>2, RightsAre DEF Allowed, requireManagement
      <3>2. k.ask.op \notin Self \cup Archive
        BY <1>2, <2>2 DEF Fit
      <3>3. <<"management", 0>> \in w
        BY <1>10, <3>2 DEF Suffices, AsAdmin, AsOwner, AsModerator,
                     Managing, Signed
      <3> QED
        BY <3>1, <3>3
    <2>3. CASE c = "admin"
      <3>1. <<"admin", 0>> \notin kept'[h]
        BY <1>2, <1>6, <2>3, RightsAre DEF Allowed, requireAdmin
      <3>2. k.ask.op \in Instance \ (Self \cup Archive \cup Moderates)
        BY <1>2, <2>3 DEF Fit, Instance, Self, Archive, Moderates
      <3>3. <<"admin", 0>> \in w
        BY <1>10, <3>2 DEF Suffices, AsAdmin
      <3> QED
        BY <3>1, <3>3
    <2>4. CASE c \in {"owner", "member", "either"}
      <3>1. k.ask.op \notin Self \cup Instance
        BY <1>2, <2>4
        DEF Fit, ByOwner, Self, Instance, Archive, Moderates
      <3>2. k.l \in Ids
        BY <1>1, <2>4, <3>1, ListFound
      <3>3. CASE c = "owner"
        <4>1. <<"owner", k.l>> \notin kept'[h]
          BY <1>2, <1>6, <3>2, <3>3, RightsAre DEF Allowed, requireOwner
        <4>2. k.ask.op \notin Self \cup Archive \cup Instance \cup Moderates
          BY <1>2, <3>3 DEF Fit, ByOwner
        <4>3. <<"owner", k.l>> \in w
          BY <1>10, <4>2 DEF Suffices, AsOwner
        <4> QED
          BY <4>1, <4>3
      <3>4. CASE c = "member"
        <4>1. <<"member", k.l>> \notin kept'[h]
          BY <1>2, <1>6, <3>2, <3>4, RightsAre DEF Allowed, requireMember
        <4>2. k.ask.op \in Archive \ (Self \cup Instance \cup Moderates)
          BY <1>2, <3>4 DEF Fit, Archive, Self, Instance, Moderates
        <4>3. <<"member", k.l>> \in w
          BY <1>10, <4>2 DEF Suffices, AsMember
        <4> QED
          BY <4>1, <4>3
      <3>5. CASE c = "either"
        <4>1. ~k.owns /\ k.ask.by \notin holders["moderator"][k.l]
          BY <1>2, <3>5 DEF Allowed, requireRole
        <4>2. k.ask.op \in Moderates \ (Self \cup Archive \cup Instance)
          BY <1>2, <3>5 DEF Fit, Moderates, Self, Archive, Instance
        <4>3. "isOwner" \notin Ahead(k.todo)
          BY <1>1, <3>5, GatesBehind DEF Asking
        <4>4. <<"owner", k.l>> \notin kept'[h]
          BY <1>1, <1>6, <2>0, <4>1, <4>2, <4>3 DEF Live, Denial
        <4>5. <<"moderator", k.l>> \notin kept'[h]
          BY <1>6, <3>2, <4>1, RightsAre
        <4>6. <<"owner", k.l>> \in w \/ <<"moderator", k.l>> \in w
          BY <1>10, <4>2 DEF Suffices, AsOwner, AsModerator
        <4> QED
          BY <4>4, <4>5, <4>6
      <3> QED
        BY <2>4, <3>3, <3>4, <3>5
    <2> QED
      BY <1>7, <2>1, <2>2, <2>3, <2>4
  <1> QED
    BY <1>1, <1>4, <1>5, <1>9, <1>10, GoEnd

LEMMA CheckStep ==
  ASSUME IInv, NEW h \in Handlers, Check(h)
  PROVE  After(h)
  BY CheckPasses, CheckDenies DEF Check

\* Of the request, nothing that a later call relies on has changed.
Steady(k, m) ==
    /\ m \in Procs /\ m.ask = k.ask /\ m.todo = k.todo /\ m.answer = k.answer
    /\ m.l = k.l /\ m.gated = k.gated /\ m.copy = k.copy /\ m.owns = k.owns
    /\ m.sub = k.sub /\ m.shown = k.shown
    /\ m.wrote = k.wrote \/ (m.wrote /\ Head(k.todo) \in WriteCalls)
    /\ \/ m.recorded = k.recorded /\ (Head(k.todo) \in Records => m.struck)
       \/ m.recorded /\ Head(k.todo) \in Records
    /\ k.struck => m.struck

LEMMA GoSteady ==
  ASSUME IInv, NEW h \in Handlers, Running(h), NEW k, Live(k, h),
         Head(k.todo) \in Doing, NEW m, Steady(k, m), Finds(k, m),
         Goto(h, Advance(m)), Keeps, TablesOK'
  PROVE  After(h)
  <1> DEFINE c == Head(k.todo)
  <1>1. c \notin Asking
    BY Apart
  <1>2. c \notin {"find", "isOwner", "auth", "management", "admin", "owner",
                  "member", "either"}
    BY <1>1 DEF Asking, Gates
  <1>3. Changes(k, m)
    BY <1>2 DEF Changes, Steady
  <1>4. Gains(k, m, had'[h], kept'[h])
    BY <1>2 DEF Gains
  <1>5. had[h] \subseteq had'[h]
    BY Noted DEF Goto
  <1>6. Seen(m, had'[h])
    BY <1>5, SeenOn DEF Live, Steady
  <1>7. Placed(k)'
    BY PlacedOn DEF Live, IInv
  <1>8. Placed(m)'
    BY <1>7 DEF Placed, Steady
  <1>9. m \in Procs /\ m.answer = "none" /\ m.todo = k.todo
    BY DEF Steady, Live
  <1> QED
    BY <1>3, <1>4, <1>6, <1>8, <1>9, GoOn

\* The call asks, and goes on
LEMMA Proceeds ==
  ASSUME IInv, NEW h \in Handlers, Running(h), NEW k, Live(k, h),
         Head(k.todo) \in {"reload", "list", "guard"}, Proceed(h),
         UNCHANGED <<data, events>>
  PROVE  After(h)
  <1>1. k = proc[h] /\ k \in Procs
    BY DEF Live
  <1>2. Goto(h, Advance(k))
    BY <1>1 DEF Proceed
  <1>3. Head(k.todo) \in Doing /\ Head(k.todo) \notin Records
    BY DEF Doing, Records
  <1>4. Steady(k, k) /\ Finds(k, k)
    BY <1>1, <1>3 DEF Steady, Finds
  <1> QED
    BY <1>2, <1>3, <1>4, SameTables, GoSteady

LEMMA AskSteps ==
  ASSUME IInv, NEW h \in Handlers, Reload(h) \/ LoadList(h) \/ Guard(h)
  PROVE  After(h)
  <1>1. Running(h) /\ Call(h) \in {"reload", "list", "guard"}
    BY DEF Reload, LoadList, Guard, At
  <1>2. PICK k : Live(k, h)
    BY <1>1, Lives
  <1>3. Head(k.todo) \in {"reload", "list", "guard"}
    BY <1>1, <1>2 DEF Live, Call
  <1>4. Head(k.todo) \notin AfterWrite
    BY <1>3 DEF AfterWrite, Records
  <1>5. UNCHANGED <<data, events>>
    BY DEF Reload, LoadList, Guard
  <1>6. Proceed(h) \/ Answer(h, "rejected")
    BY DEF Reload, LoadList, Guard
  <1> QED
    BY <1>1, <1>2, <1>3, <1>4, <1>5, <1>6, Proceeds, Rejects, SameTables

LEMMA RecordStep ==
  ASSUME IInv, NEW h \in Handlers, Record(h)
  PROVE  After(h)
  <1>1. Running(h) /\ Call(h) \in {"record", "audit"}
    BY DEF Record
  <1>2. PICK k : Live(k, h)
    BY <1>1, Lives
  <1>3. /\ Head(k.todo) \in Records /\ Head(k.todo) \in Doing /\ k = proc[h]
        /\ Head(k.todo) \notin {"load", "insert"} /\ k \in Procs
    BY <1>1, <1>2 DEF Live, Call, Records, Doing
  <1>4. PICK m : m = [k EXCEPT !.recorded = TRUE]
    OBVIOUS
  <1>5. Goto(h, Advance(m)) /\ UNCHANGED <<data, events>>
    BY <1>3, <1>4 DEF Record
  <1>6. Steady(k, m) /\ Finds(k, m)
    BY <1>3, <1>4 DEF Steady, Finds, Procs
  <1> QED
    BY <1>1, <1>2, <1>3, <1>5, <1>6, SameTables, GoSteady

LEMMA IsOwnerStep ==
  ASSUME IInv, NEW h \in Handlers, IsOwner(h)
  PROVE  After(h)
  <1>1. Running(h) /\ Call(h) = "isOwner"
    BY DEF IsOwner, At
  <1>2. PICK k : Live(k, h)
    BY <1>1, Lives
  <1>3. /\ Head(k.todo) = "isOwner" /\ k = proc[h] /\ k \in Procs
        /\ By(h) = k.ask.by /\ L(h) = k.l /\ k.ask.op \in Moderates
        /\ k.answer = "none"
    BY <1>1, <1>2 DEF Live, Call, By, L, Fit
  <1>4. PICK b : b = (k.ask.by \in holders["owner"][k.l])
    OBVIOUS
  <1>a. b \in BOOLEAN
    BY <1>4
  <1>5. PICK m : m = [k EXCEPT !.owns = b]
    OBVIOUS
  <1>6. Goto(h, Advance(m)) /\ UNCHANGED <<data, events>> /\ Note
    BY <1>3, <1>4, <1>5 DEF IsOwner, Goto
  <1>7. m \in Procs /\ m.owns = b
    BY <1>3, <1>5, <1>a DEF Procs
  <1>8. /\ m.ask = k.ask /\ m.todo = k.todo /\ m.answer = k.answer
        /\ m.l = k.l /\ m.gated = k.gated /\ m.copy = k.copy /\ m.sub = k.sub
        /\ m.shown = k.shown /\ m.wrote = k.wrote /\ m.recorded = k.recorded
        /\ m.struck = k.struck
    BY <1>3, <1>5 DEF Procs
  <1>9. Changes(k, m) /\ Finds(k, m)
    BY <1>3, <1>8 DEF Changes, Finds, Records
  <1>10. /\ had'[h] = had[h] \cup RightsOf(k.ask.by)
         /\ kept'[h] = kept[h] \cap RightsOf(k.ask.by)
         /\ had[h] \subseteq had'[h]
    BY <1>1, <1>2, <1>6, LiveNoted
  <1>11. k.ask.op \notin Self \cup Instance
    BY <1>3 DEF Moderates, Self, Instance
  <1>12. k.l \in Ids
    BY <1>2, <1>3, <1>11, ListFound
  <1>13. Gains(k, m, had'[h], kept'[h])
    BY <1>3, <1>4, <1>7, <1>10, <1>12, RightsAre DEF Gains
  <1>14. Seen(m, had'[h])
    BY <1>2, <1>8, <1>10, SeenOn DEF Live
  <1>15. Keeps /\ TablesOK'
    BY <1>6, SameTables
  <1>16. Placed(k)'
    BY <1>2, <1>15, PlacedOn DEF Live, IInv
  <1>17. Placed(m)'
    BY <1>8, <1>16 DEF Placed
  <1>18. m.answer = "none"
    BY <1>3, <1>8
  <1> QED
    BY <1>1, <1>2, <1>6, <1>7, <1>8, <1>9, <1>13, <1>14, <1>15, <1>17, <1>18,
       GoOn

LEMMA FindStep ==
  ASSUME IInv, NEW h \in Handlers, Find(h)
  PROVE  After(h)
  <1>1. /\ Running(h) /\ Call(h) = "find" /\ UNCHANGED <<data, events>>
    BY DEF Find, At
  <1>2. PICK k : Live(k, h)
    BY <1>1, Lives
  <1>3. /\ Head(k.todo) = "find" /\ k = proc[h] /\ k \in Procs
        /\ k.answer = "none"
    BY <1>1, <1>2 DEF Live, Call
  <1>4. Keeps /\ TablesOK'
    BY <1>1, SameTables
  <1>5. CASE Answer(h, "rejected")
    BY <1>1, <1>2, <1>3, <1>4, <1>5, Rejects DEF AfterWrite, Records
  <1>6. ASSUME NEW i \in lists, row[i].addr = k.ask.addr,
               NEW gate, gate = IF k.gated = 0 THEN i ELSE k.gated,
               Goto(h, Advance([k EXCEPT !.l = i, !.gated = gate,
                                         !.copy = row[i]]))
        PROVE  After(h)
    <2>1. PICK m : m = [k EXCEPT !.l = i, !.gated = gate, !.copy = row[i]]
      OBVIOUS
    <2>2. /\ i \in Ids /\ i \in Nat /\ i # 0 /\ row[i] \in RowType
          /\ i <= listIds
      BY ConsoleAssumption DEF IInv, TablesOK, Ids
    <2>3. gate \in Nat
      BY <1>3, <1>6, <2>2 DEF Procs
    <2>4. /\ m \in Procs /\ m.l = i /\ m.gated = gate /\ m.copy = row[i]
          /\ m.ask = k.ask /\ m.todo = k.todo /\ m.answer = k.answer
          /\ m.owns = k.owns /\ m.sub = k.sub /\ m.shown = k.shown
          /\ m.wrote = k.wrote /\ m.recorded = k.recorded
          /\ m.struck = k.struck
      BY <1>3, <2>1, <2>2, <2>3 DEF Procs
    <2>5. Changes(k, m) /\ Finds(k, m) /\ Gains(k, m, had'[h], kept'[h])
      BY <1>3, <1>6, <2>2, <2>4 DEF Changes, Finds, Gains, Records
    <2>6. had[h] \subseteq had'[h]
      BY <1>6, Noted DEF Goto
    <2>7. Seen(m, had'[h])
      BY <1>2, <2>4, <2>6, SeenOn DEF Live
    <2>8. Placed(k)'
      BY <1>2, <1>4, PlacedOn DEF Live, IInv
    <2>9. row' = row /\ listIds' = listIds
      BY <1>1 DEF data, table
    <2>10. Placed(m)'
      BY <1>6, <2>2, <2>4, <2>8, <2>9 DEF Placed
    <2> QED
      BY <1>1, <1>2, <1>3, <1>4, <1>6, <2>1, <2>4, <2>5, <2>7, <2>10, GoOn
  <1> QED
    BY <1>3, <1>5, <1>6 DEF Find

\* The subscription a request is about
OnSubs == OfSub \cup {"add", "import", "approve", "reject", "remove",
                      "reenable", "reset"}

LEMMA SubIs ==
  ASSUME IInv, NEW h \in Handlers, NEW k, Live(k, h), Head(k.todo) \in Doing,
         k.ask.op \in OnSubs
  PROVE  /\ SubList(h) \in Ids /\ Who(h) \in Persons /\ Who(h) = k.ask.who
         /\ k.ask.op \in Self => SubList(h) = k.ask.n
         /\ k.ask.op \notin Self => SubList(h) = k.l
         /\ Sub(h) \in SubsUpTo(subIds)
         /\ (Sub(h).row = 0) <=> (Sub(h).status = "none")
  <1>1. k = proc[h] /\ k.ask \in AllAsks /\ k.ask.op = Op(h)
    BY DEF Live, Op
  <1>2. Who(h) = k.ask.who /\ Who(h) \in Persons
    BY <1>1, AskIs DEF Who, OnSubs, OfSub, OfPerson
  <1>3. CASE k.ask.op \in Self
    <2>1. k.ask.op \in OfSub
      BY <1>3 DEF Self, OnSubs, OfSub
    <2>2. SubList(h) = k.ask.n /\ SubList(h) \in Ids
      BY <1>1, <1>3, <2>1, AskIs DEF SubList
    <2> QED
      BY <1>2, <1>3, <2>2 DEF Sub, IInv, TablesOK, SubsOK
  <1>4. CASE k.ask.op \notin Self
    <2>1. k.ask.op \notin Self \cup Instance
      BY <1>4 DEF OnSubs, Instance, Self, OfSub
    <2>2. SubList(h) = k.l /\ SubList(h) \in Ids
      BY <1>1, <1>4, <2>1, ListFound DEF SubList, L
    <2> QED
      BY <1>2, <1>4, <2>2 DEF Sub, IInv, TablesOK, SubsOK
  <1> QED
    BY <1>3, <1>4

\* An import goes on to its record.
LEMMA GoToRecord ==
  ASSUME IInv, NEW h \in Handlers, Running(h), NEW k, Live(k, h),
         k.ask.op = "import", Head(k.todo) \in {"load", "insert"},
         NEW n, n = ToRecord(k) \/ n = ToRecord([k EXCEPT !.struck = TRUE]),
         Goto(h, n), Keeps, TablesOK'
  PROVE  After(h)
  <1>1. k \in Procs /\ Placed(k) /\ k.answer = "none"
        /\ Sane(k, Asks[h], had[h], kept[h])
    BY DEF Live
  <1>2. "record" \in Calls
    BY DEF Calls, Doing, Records
  <1>3. <<"record">> \in Seq(Calls)
    BY <1>2
  <1>4. /\ n \in Procs /\ n.ask = k.ask /\ n.todo = <<"record">>
        /\ n.l = k.l /\ n.gated = k.gated /\ n.owns = k.owns /\ n.sub = k.sub
        /\ n.shown = k.shown /\ n.wrote = k.wrote
        /\ n.recorded = k.recorded /\ n.answer = "none" /\ n.copy = k.copy
    <2>1. ASSUME NEW m, m = k \/ m = [k EXCEPT !.struck = TRUE]
          PROVE  /\ m \in Procs /\ m.ask = k.ask /\ m.l = k.l
                 /\ m.gated = k.gated /\ m.owns = k.owns /\ m.sub = k.sub
                 /\ m.shown = k.shown /\ m.wrote = k.wrote
                 /\ m.recorded = k.recorded /\ m.answer = k.answer
                 /\ m.copy = k.copy
      BY ONLY <1>1, <2>1 DEF Procs
    <2>2. PICK m : /\ m = k \/ m = [k EXCEPT !.struck = TRUE]
                   /\ n = ToRecord(m)
      OBVIOUS
    <2>3. n = [m EXCEPT !.todo = <<"record">>]
      BY <2>2 DEF ToRecord
    <2>4. m \in Procs
      BY <2>1, <2>2
    <2>5. /\ n \in Procs /\ n.ask = m.ask /\ n.todo = <<"record">>
          /\ n.l = m.l /\ n.gated = m.gated /\ n.owns = m.owns
          /\ n.sub = m.sub /\ n.shown = m.shown /\ n.wrote = m.wrote
          /\ n.recorded = m.recorded /\ n.answer = m.answer
          /\ n.copy = m.copy
      BY ONLY <1>3, <2>3, <2>4 DEF Procs
    <2> QED
      BY <1>1, <2>1, <2>2, <2>5
  <1>5. had[h] \subseteq had'[h] /\ kept'[h] \subseteq kept[h]
    BY Noted DEF Goto
  <1>6. Asks[h] \subseteq AllAsks
    BY DEF AllAsks
  <1>7. Sane(n, Asks[h], had'[h], kept'[h])
    BY <1>1, <1>4, <1>5, <1>6, SaneToRecord
  <1>8. Placed(k)'
    BY <1>1, PlacedOn DEF IInv
  <1>9. Placed(n)'
    BY <1>4, <1>8 DEF Placed
  <1>10. Head(n.todo) = "record"
    BY <1>2, <1>4
  <1>11. Turn(k, n) /\ k = proc[h]
    BY <1>4, <1>10 DEF Turn, Live
  <1> QED
    BY <1>4, <1>7, <1>9, <1>11, StepOf DEF After

\* What is held or filed on the list found is of that list.
LEMMA RowOfList ==
  ASSUME IInv, NEW h \in Handlers, NEW k, Live(k, h), Head(k.todo) \in Doing,
         k.ask.op \notin Self \cup Instance, NEW r \in Rows
  PROVE  /\ held[r] = k.l => FiledIn[r] = k.l
         /\ posts[r] = k.l => FiledIn[r] = k.l
  <1>1. k.l # 0
    BY Passed
  <1> QED
    BY <1>1 DEF IInv, TablesOK

\* What a load makes of its request
Loaded(h, k, x, y, z) ==
    /\ x = IF OfHeld(h) \/ OfPost(h) \/ Op(h) = "save" THEN 0 ELSE Sub(h).row
    /\ y = IF Op(h) = "save" THEN row[L(h)] ELSE k.copy
    /\ z = IF Op(h) = "moderate" THEN {}
           ELSE IF OfHeld(h) THEN {<<"held", k.ask.n>>}
           ELSE IF OfPost(h) THEN {<<"post", k.ask.n>>} ELSE {}

LEMMA LoadFits ==
  ASSUME IInv, NEW h \in Handlers, Running(h), NEW k, Live(k, h),
         Head(k.todo) = "load", k.ask.op # "import", Fits(h),
         NEW x, NEW y, NEW z, Loaded(h, k, x, y, z),
         NEW m, m = [k EXCEPT !.sub = x, !.copy = y, !.shown = z],
         Goto(h, Advance(m)), UNCHANGED <<data, events>>
  PROVE  After(h)
  <1>1. /\ k = proc[h] /\ k \in Procs /\ k.answer = "none" /\ Op(h) = k.ask.op
        /\ L(h) = k.l /\ k.ask.op \in Loaders /\ k.ask \in AllAsks
        /\ By(h) = k.ask.by
    BY DEF Live, Op, L, By, Fit
  <1>2. Head(k.todo) \in Doing
    BY DEF Doing
  <1>3. Keeps /\ TablesOK'
    BY SameTables
  <1>4. k.ask.op \in Loaders \ OnSubs => k.ask.op \in OfRow \cup {"save"}
    BY DEF Loaders, OnSubs
  <1>5. k.ask.op \in OfRow => k.ask.n \in Rows
    BY <1>1, AskIs
  <1>6. k.ask.op \in OfRow \cup {"save"} =>
           k.ask.op \notin Self \cup Instance
    BY DEF OfRow, Self, Instance
  <1>7. CASE k.ask.op \in OnSubs
    <2>1. OfHeld(h) = FALSE /\ OfPost(h) = FALSE /\ k.ask.op # "save"
          /\ k.ask.op # "moderate"
      BY <1>1, <1>7 DEF OfHeld, OfPost, OnSubs, OfSub
    <2>2. x = Sub(h).row /\ y = k.copy /\ z = {}
      BY <1>1, <2>1 DEF Loaded
    <2>3. /\ Sub(h).row \in 0 .. subIds /\ subIds \in Nat
          /\ (Sub(h).row = 0) <=> (Sub(h).status = "none")
      BY <1>2, <1>7, SubIs, ConsoleAssumption DEF SubsUpTo, IInv, TablesOK
    <2>4. /\ m \in Procs /\ m.ask = k.ask /\ m.todo = k.todo
          /\ m.answer = k.answer /\ m.l = k.l /\ m.gated = k.gated
          /\ m.copy = k.copy /\ m.owns = k.owns /\ m.shown = {}
          /\ m.sub = Sub(h).row /\ m.wrote = k.wrote
          /\ m.recorded = k.recorded /\ m.struck = k.struck
      <3>1. x \in Nat /\ y \in RowType /\ z \in SUBSET Things
        BY <1>1, <2>2, <2>3 DEF Procs
      <3> QED
        BY <1>1, <2>2, <3>1 DEF Procs
    <2>5. Changes(k, m) /\ Gains(k, m, had'[h], kept'[h])
      BY <2>4 DEF Changes, Gains, Records
    <2>6. Finds(k, m)
      <3>1. k.ask.op \in OfSub => k.ask.who = k.ask.by
        BY <1>1, <1>2, <1>7, <2>1, SubIs DEF Fits, OfSub
      <3>2. k.ask.op \in OfSub \cup {"approve", "reenable", "reset"} =>
               Sub(h).status # "none"
        BY <1>1, <2>1 DEF Fits, OfSub
      <3> QED
        BY <1>1, <2>1, <2>3, <2>4, <3>1, <3>2 DEF Finds
    <2>7. Seen(m, had'[h])
      BY <2>4 DEF Seen
    <2>8. Placed(k)'
      BY <1>1, <1>3, PlacedOn DEF Live, IInv
    <2>9. subIds' = subIds
      BY DEF data, members
    <2>10. Placed(m)'
      BY <2>3, <2>4, <2>8, <2>9 DEF Placed
    <2> QED
      BY <1>1, <1>3, <2>4, <2>5, <2>6, <2>7, <2>10, GoOn
  <1>8. CASE k.ask.op = "save"
    <2>1. OfHeld(h) = FALSE /\ OfPost(h) = FALSE
      BY <1>1, <1>8 DEF OfHeld, OfPost
    <2>2. x = 0 /\ y = row[k.l] /\ z = {}
      BY <1>1, <1>8, <2>1 DEF Loaded
    <2>3. /\ k.l \in Ids /\ row[k.l] \in RowType
          /\ row[k.l].addr = k.ask.addr
      BY <1>2, <1>6, <1>8, ListFound DEF IInv, TablesOK
    <2>4. /\ m \in Procs /\ m.ask = k.ask /\ m.todo = k.todo
          /\ m.answer = k.answer /\ m.l = k.l /\ m.gated = k.gated
          /\ m.copy = row[k.l] /\ m.owns = k.owns /\ m.shown = {}
          /\ m.sub = 0 /\ m.wrote = k.wrote
          /\ m.recorded = k.recorded /\ m.struck = k.struck
      <3>1. x \in Nat /\ y \in RowType /\ z \in SUBSET Things
        BY <2>2, <2>3
      <3> QED
        BY <1>1, <2>2, <3>1 DEF Procs
    <2>5. Changes(k, m) /\ Gains(k, m, had'[h], kept'[h])
      BY <2>4 DEF Changes, Gains, Records
    <2>6. Finds(k, m)
      BY <1>8 DEF Finds, OfSub
    <2>7. Seen(m, had'[h])
      BY <2>4 DEF Seen
    <2>8. Placed(k)'
      BY <1>1, <1>3, PlacedOn DEF Live, IInv
    <2>9. subIds' \in Nat
      BY <1>3, ConsoleAssumption DEF TablesOK
    <2>10. Placed(m)'
      BY <2>3, <2>4, <2>8, <2>9 DEF Placed
    <2> QED
      BY <1>1, <1>3, <2>4, <2>5, <2>6, <2>7, <2>10, GoOn
  <1>9. CASE k.ask.op \in OfRow
    <2>0. k.ask.n \in Rows /\ k.ask.op \notin Self \cup Instance
      BY <1>5, <1>6, <1>9
    <2>1. /\ OfHeld(h) \/ OfPost(h)
          /\ OfHeld(h) <=> k.ask.op \in {"open", "attachment", "moderate"}
          /\ OfPost(h) <=> k.ask.op \in {"entry", "file"}
          /\ k.ask.op # "save"
      BY <1>1, <1>9 DEF OfHeld, OfPost, OfRow
    <2>2. /\ x = 0 /\ y = k.copy
          /\ z = IF k.ask.op = "moderate" THEN {}
                 ELSE IF k.ask.op \in {"open", "attachment"}
                 THEN {<<"held", k.ask.n>>} ELSE {<<"post", k.ask.n>>}
      BY <1>1, <1>9, <2>1 DEF OfRow, Loaded
    <2>3. z \in SUBSET Things
      BY <2>0, <2>2 DEF Things
    <2>4. FiledIn[k.ask.n] = k.l
      BY <1>1, <1>2, <2>0, <2>1, RowOfList DEF Fits
    <2>5. /\ m \in Procs /\ m.ask = k.ask /\ m.todo = k.todo
          /\ m.answer = k.answer /\ m.l = k.l /\ m.gated = k.gated
          /\ m.copy = k.copy /\ m.owns = k.owns /\ m.shown = z
          /\ m.sub = 0 /\ m.wrote = k.wrote
          /\ m.recorded = k.recorded /\ m.struck = k.struck
      <3>1. x \in Nat /\ y \in RowType
        BY <1>1, <2>2 DEF Procs
      <3> QED
        BY <1>1, <2>2, <2>3, <3>1 DEF Procs
    <2>6. Changes(k, m) /\ Gains(k, m, had'[h], kept'[h])
      BY <2>5 DEF Changes, Gains, Records
    <2>7. Finds(k, m)
      BY <1>9, <2>4 DEF Finds, OfSub, OfRow
    <2>8. had[h] \subseteq had'[h]
      BY Noted DEF Goto
    <2>9. Seen(m, had'[h])
      <3>1. CASE k.ask.op = "moderate"
        BY <2>2, <2>5, <3>1 DEF Seen
      <3>2. CASE k.ask.op \in {"open", "attachment"}
        <4>1. /\ <<"session", 0>> \in had[h] /\ <<"management", 0>> \in had[h]
              /\ \/ <<"owner", k.l>> \in had[h]
                 \/ <<"moderator", k.l>> \in had[h]
          BY <1>2, <3>2, Passed DEF Moderates, Self, Archive
        <4>2. Ways(had'[h], {AsOwner(k.l), AsModerator(k.l)})
          BY <2>8, <4>1 DEF Ways, AsOwner, AsModerator, Managing, Signed
        <4> QED
          BY SMTT(40), <2>2, <2>4, <2>5, <3>2, <4>2 DEF Seen
      <3>3. CASE k.ask.op \in {"entry", "file"}
        <4>1. <<"session", 0>> \in had[h] /\ <<"member", k.l>> \in had[h]
          BY <1>2, <3>3, Passed DEF Archive
        <4>2. AsMember(k.l) \subseteq had'[h]
          BY <2>8, <4>1 DEF AsMember, Signed
        <4> QED
          BY <2>2, <2>4, <2>5, <3>3, <4>2 DEF Seen
      <3> QED
        BY <1>9, <3>1, <3>2, <3>3 DEF OfRow
    <2>10. Placed(k)'
      BY <1>1, <1>3, PlacedOn DEF Live, IInv
    <2>11. subIds' \in Nat
      BY <1>3, ConsoleAssumption DEF TablesOK
    <2>12. Placed(m)'
      BY <1>9, <2>5, <2>10, <2>11 DEF Placed, OfRow
    <2> QED
      BY <1>1, <1>3, <2>5, <2>6, <2>7, <2>9, <2>12, GoOn
  <1> QED
    BY <1>1, <1>4, <1>7, <1>8, <1>9

LEMMA LoadStep ==
  ASSUME IInv, NEW h \in Handlers, Load(h)
  PROVE  After(h)
  <1>1. /\ Running(h) /\ Call(h) = "load" /\ UNCHANGED <<data, events>>
    BY DEF Load, At
  <1>2. PICK k : Live(k, h)
    BY <1>1, Lives
  <1>3. /\ Head(k.todo) = "load" /\ k = proc[h] /\ k \in Procs
        /\ k.answer = "none" /\ Op(h) = k.ask.op
    BY <1>1, <1>2 DEF Live, Call, Op
  <1>4. Keeps /\ TablesOK'
    BY <1>1, SameTables
  <1>5. CASE Op(h) = "import" /\ Proceed(h)
    <2>1. Goto(h, Advance(k)) /\ Head(k.todo) \in Doing
      BY <1>3, <1>5 DEF Proceed, Doing
    <2>2. Steady(k, k) /\ Finds(k, k)
      BY <1>3, <1>5 DEF Steady, Finds, Records, OfSub
    <2> QED
      BY <1>1, <1>2, <1>4, <2>1, <2>2, GoSteady
  <1>6. CASE Op(h) = "import" /\ Goto(h, ToRecord(proc[h]))
    <2>1. PICK n : n = ToRecord(k)
      OBVIOUS
    <2>2. /\ Goto(h, n) /\ k.ask.op = "import"
          /\ Head(k.todo) \in {"load", "insert"}
          /\ n = ToRecord(k) \/ n = ToRecord([k EXCEPT !.struck = TRUE])
      BY <1>3, <1>6, <2>1
    <2> QED
      BY <1>1, <1>2, <1>4, <2>2, GoToRecord
  <1>7. CASE Op(h) # "import" /\ Fits(h)
    <2>1. PICK x : x = IF OfHeld(h) \/ OfPost(h) \/ Op(h) = "save"
                       THEN 0 ELSE Sub(h).row
      OBVIOUS
    <2>2. PICK y : y = IF Op(h) = "save" THEN row[L(h)] ELSE k.copy
      OBVIOUS
    <2>3. PICK z : z = IF Op(h) = "moderate" THEN {}
                       ELSE IF OfHeld(h) THEN {<<"held", k.ask.n>>}
                       ELSE IF OfPost(h) THEN {<<"post", k.ask.n>>} ELSE {}
      OBVIOUS
    <2>4. Loaded(h, k, x, y, z)
      BY <2>1, <2>2, <2>3 DEF Loaded
    <2>5. PICK m : m = [k EXCEPT !.sub = x, !.copy = y, !.shown = z]
      OBVIOUS
    <2>6. Goto(h, Advance(m)) /\ Fits(h) /\ k.ask.op # "import"
      BY <1>3, <1>7, <2>1, <2>2, <2>3, <2>5 DEF Load
    <2> QED
      BY <1>1, <1>2, <1>3, <2>4, <2>5, <2>6, LoadFits
  <1>8. CASE Answer(h, "rejected")
    BY <1>1, <1>2, <1>3, <1>4, <1>8, Rejects DEF AfterWrite, Records
  <1> QED
    BY <1>5, <1>6, <1>7, <1>8 DEF Load
LEMMA ShowStep ==
  ASSUME IInv, NEW h \in Handlers, Show(h)
  PROVE  After(h)
  <1>1. /\ Running(h) /\ Call(h) = "show" /\ UNCHANGED <<data, events>>
    BY DEF Show, At
  <1>2. PICK k : Live(k, h)
    BY <1>1, Lives
  <1>3. /\ Head(k.todo) = "show" /\ k = proc[h] /\ k \in Procs
        /\ k.answer = "none" /\ Op(h) = k.ask.op /\ By(h) = k.ask.by
        /\ L(h) = k.l /\ k.ask.op \in Reads \ OfRow
    BY <1>1, <1>2 DEF Live, Call, Op, By, L, Fit
  <1>4. Head(k.todo) \in Doing
    BY <1>3 DEF Doing
  <1>5. PICK z : z = Contents(h)
    OBVIOUS
  <1>6. PICK m : m = [k EXCEPT !.shown = z]
    OBVIOUS
  <1>7. Goto(h, Advance(m)) /\ Note
    BY <1>3, <1>5, <1>6 DEF Show, Goto
  <1>8. had[h] \subseteq had'[h]
    BY <1>7, Noted
  <1>9. Keeps /\ TablesOK'
    BY <1>1, SameTables
  <1>10. k.l \in Nat
    BY <1>3 DEF Procs
  <1>11. z \in SUBSET Things /\ \A n : n.shown = z /\ n.ask = k.ask =>
                                       Seen(n, had'[h])
    <2>1. CASE k.ask.op = "queue"
      <3>1. z = {<<"held", r>> : r \in {x \in Rows : held[x] = k.l}}
        BY <1>3, <1>5, <2>1 DEF Contents
      <3>2. k.ask.op \notin Self \cup Instance /\ k.ask.op \in Moderates
            /\ k.ask.op \notin Self \cup Archive
        BY <2>1 DEF Self, Instance, Moderates, Archive
      <3>3. \A r \in Rows : held[r] = k.l => FiledIn[r] = k.l
        BY <1>2, <1>4, <3>2, RowOfList
      <3>4. Ways(had'[h], {AsOwner(k.l), AsModerator(k.l)})
        BY <1>2, <1>4, <1>8, <3>2, Passed
        DEF Ways, AsOwner, AsModerator, Managing, Signed
      <3>5. z \in SUBSET Things
        BY <3>1 DEF Things
      <3> QED
        BY SMTT(40), <3>1, <3>3, <3>4, <3>5 DEF Seen
    <2>2. CASE k.ask.op \in {"roster", "export", "bounces", "log"}
      <3>1. z \in {{<<"members", k.l>>}, {<<"log", k.l>>}}
        BY <1>3, <1>5, <2>2 DEF Contents
      <3>2. k.ask.op \in ByOwner /\ k.ask.op \notin Self \cup Archive
            /\ k.ask.op \notin {"add", "import"}
        BY <2>2
        DEF ByOwner, Ops, Self, Archive, Instance, Moderates, Reads
      <3>3. k.l # 0 /\ AsOwner(k.l) \subseteq had'[h]
        BY <1>2, <1>4, <1>8, <3>2, Passed DEF AsOwner, Managing, Signed
      <3>4. z \in SUBSET Things
        BY <1>10, <3>1 DEF Things
      <3> QED
        BY <3>1, <3>3, <3>4 DEF Seen
    <2>3. CASE k.ask.op = "logs"
      <3>1. z = {<<"log", 0>>}
        BY <1>3, <1>5, <2>3 DEF Contents
      <3>2. k.ask.op \in Instance /\ k.ask.op \notin Self \cup Archive
        BY <2>3 DEF Self, Archive, Instance
      <3>3. AsAdmin \subseteq had'[h]
        BY <1>2, <1>4, <1>8, <3>2, Passed DEF AsAdmin, Managing, Signed
      <3>4. z \in SUBSET Things
        BY <3>1 DEF Things
      <3> QED
        BY <3>1, <3>3, <3>4 DEF Seen
    <2>4. CASE k.ask.op = "archives"
      <3>1. z = {<<"post", r>> : r \in {x \in Rows : posts[x] = k.l}}
        BY <1>3, <1>5, <2>4 DEF Contents
      <3>2. k.ask.op \notin Self \cup Instance /\ k.ask.op \in Archive
        BY <2>4 DEF Self, Instance, Archive
      <3>3. \A r \in Rows : posts[r] = k.l => FiledIn[r] = k.l
        BY <1>2, <1>4, <3>2, RowOfList
      <3>4. AsMember(k.l) \subseteq had'[h]
        BY <1>2, <1>4, <1>8, <3>2, Passed DEF AsMember, Signed
      <3>5. z \in SUBSET Things
        BY <3>1 DEF Things
      <3> QED
        BY <3>1, <3>3, <3>4, <3>5 DEF Seen
    <2>5. CASE k.ask.op = "mine"
      <3>1. z \subseteq {<<"held", r>> :
                           r \in {x \in Rows : SenderOf[x] = k.ask.by}}
        BY <1>3, <1>5, <2>5 DEF Contents
      <3>2. Signed \subseteq had'[h]
        BY <1>2, <1>4, <1>8, Passed DEF Signed
      <3>3. z \in SUBSET Things
        BY <3>1 DEF Things
      <3> QED
        BY <3>1, <3>2, <3>3 DEF Seen
    <2> QED
      BY <1>3, <2>1, <2>2, <2>3, <2>4, <2>5 DEF Reads, OfRow, Archive
  <1>12. /\ m \in Procs /\ m.ask = k.ask /\ m.todo = k.todo
         /\ m.answer = "none" /\ m.l = k.l /\ m.gated = k.gated
         /\ m.copy = k.copy /\ m.owns = k.owns /\ m.sub = k.sub
         /\ m.shown = z /\ m.wrote = k.wrote /\ m.recorded = k.recorded
         /\ m.struck = k.struck
    BY <1>3, <1>6, <1>11 DEF Procs
  <1>13. Changes(k, m) /\ Gains(k, m, had'[h], kept'[h]) /\ Finds(k, m)
    BY <1>3, <1>12 DEF Changes, Gains, Finds, Records
  <1>14. Seen(m, had'[h])
    BY <1>11, <1>12
  <1>15. Placed(k)'
    BY <1>2, <1>9, PlacedOn DEF Live, IInv
  <1>16. Placed(m)'
    BY <1>12, <1>15 DEF Placed
  <1> QED
    BY <1>1, <1>2, <1>7, <1>9, <1>12, <1>13, <1>14, <1>16, GoOn

LEMMA BeginStep ==
  ASSUME IInv, NEW h \in Handlers, Begin(h)
  PROVE  /\ IInv' /\ Head(proc'[h].todo) \notin {"description", "instructions"}
         /\ \A g \in Handlers : g # h => proc'[g] = proc[g]
         /\ UNCHANGED data /\ ~Begun(h)
  <1>1. ~Begun(h) /\ UNCHANGED <<data, events>>
    BY DEF Begin
  <1>2. PICK a \in Asks[h] :
           Goto(h, [Idle EXCEPT !.ask = a, !.todo = Program(a)])
    BY DEF Begin
  <1>3. PICK n : n = [Idle EXCEPT !.ask = a, !.todo = Program(a)]
    OBVIOUS
  <1>4. Goto(h, n)
    BY <1>2, <1>3
  <1>5. Asks[h] \subseteq AllAsks
    BY DEF AllAsks
  <1>6. proc[h].ask.op = "none" /\ proc[h] \in Procs
        /\ Sane(proc[h], Asks[h], had[h], kept[h])
    BY <1>1 DEF Begun, IInv
  <1>7. Idle \in Procs
    BY <1>6 DEF Sane
  <1>8. Sane(n, Asks[h], had'[h], kept'[h])
    BY <1>3, <1>5, <1>7, SaneFirst
  <1>9. n \in Procs
    BY <1>8 DEF Sane
  <1>10. Keeps /\ TablesOK'
    BY <1>1, SameTables
  <1>11. n.l = 0 /\ n.gated = 0 /\ n.sub = 0
    BY <1>3 DEF Idle
  <1>12. listIds' \in Nat /\ subIds' \in Nat
    BY <1>10, ConsoleAssumption DEF TablesOK
  <1>13. Placed(n)'
    BY <1>11, <1>12 DEF Placed
  <1>14. Head(n.todo) \notin {"description", "instructions"}
    <2>1. a \in AllAsks /\ n.ask = a /\ n.todo = Program(a)
      BY <1>3, <1>5 DEF Idle
    <2> QED
      BY <2>1, First
  <1> QED
    BY <1>1, <1>4, <1>8, <1>9, <1>10, <1>13, <1>14, StepOf DEF data
-----------------------------------------------------------------------------
(***************************************************************************)
(* Changes of the tables                                                   *)
(***************************************************************************)
EventsOn == UNCHANGED events \/ (events < MaxEvents /\ events' = events + 1)

LEMMA EventsOK ==
  ASSUME TablesOK, EventsOn
  PROVE  events' \in 0 .. MaxEvents
  BY ConsoleAssumption DEF TablesOK, EventsOn

\* Sessions, the switch and the Administrators
LEMMA AccessSet ==
  ASSUME TablesOK, EventsOn, UNCHANGED <<table, holders, members, mail>>,
         session' \subseteq Persons, management' \in BOOLEAN,
         admins' \subseteq Persons
  PROVE  Keeps /\ TablesOK'
  <1>1. /\ UNCHANGED <<lists, listIds, row, subs, subIds, held, posts>>
        /\ UNCHANGED holders
    BY DEF table, members, mail
  <1>2. Keeps
    BY <1>1, ConsoleAssumption DEF Keeps, TablesOK
  <1>3. events' \in 0 .. MaxEvents
    BY EventsOK
  <1> QED
    BY <1>1, <1>2, <1>3 DEF TablesOK, SubsOK

LEMMA HoldersSet ==
  ASSUME TablesOK, EventsOn, UNCHANGED <<access, table, members, mail>>,
         holders' \in [Roles -> [Ids -> SUBSET Persons]]
  PROVE  Keeps /\ TablesOK'
  <1>1. /\ UNCHANGED <<lists, listIds, row, subs, subIds, held, posts>>
        /\ UNCHANGED <<session, management, admins>>
    BY DEF access, table, members, mail
  <1>2. Keeps
    BY <1>1, ConsoleAssumption DEF Keeps, TablesOK
  <1>3. events' \in 0 .. MaxEvents
    BY EventsOK
  <1> QED
    BY <1>1, <1>2, <1>3 DEF TablesOK, SubsOK

LEMMA SubsSet ==
  ASSUME TablesOK, EventsOn, UNCHANGED <<access, table, holders, mail>>,
         subIds <= subIds', subIds' \in 0 .. MaxSubs, SubsOK(subs, subIds)'
  PROVE  Keeps /\ TablesOK'
  <1>1. /\ UNCHANGED <<lists, listIds, row, holders, held, posts>>
        /\ UNCHANGED <<session, management, admins>>
    BY DEF access, table, mail
  <1>2. Keeps
    BY <1>1, ConsoleAssumption DEF Keeps, TablesOK
  <1>3. events' \in 0 .. MaxEvents
    BY EventsOK
  <1> QED
    BY <1>1, <1>2, <1>3 DEF TablesOK

LEMMA MailSet ==
  ASSUME TablesOK, EventsOn, UNCHANGED <<access, table, holders, members>>,
         held' \in [Rows -> Nat], UNCHANGED posts,
         \A r \in Rows : held'[r] \in {0, held[r]}
  PROVE  Keeps /\ TablesOK'
  <1>1. /\ UNCHANGED <<lists, listIds, row, holders, subs, subIds>>
        /\ UNCHANGED <<session, management, admins>>
    BY DEF access, table, members
  <1>2. Keeps
    BY <1>1, ConsoleAssumption DEF Keeps, TablesOK
  <1>3. events' \in 0 .. MaxEvents
    BY EventsOK
  <1> QED
    BY <1>1, <1>2, <1>3 DEF TablesOK, SubsOK

\* The table lists
LEMMA TableSet ==
  ASSUME TablesOK, EventsOn, UNCHANGED <<access, holders, members, mail>>,
         listIds <= listIds', listIds' \in 0 .. MaxLists,
         lists' \subseteq 1 .. listIds', row' \in [Ids -> RowType],
         \A i, j \in lists' : row'[i].addr = row'[j].addr => i = j,
         \A i \in 1 .. listIds : row'[i].addr = row[i].addr
  PROVE  Keeps /\ TablesOK'
  <1>1. /\ UNCHANGED <<holders, subs, subIds, held, posts>>
        /\ UNCHANGED <<session, management, admins>>
    BY DEF access, members, mail
  <1>2. Keeps
    BY <1>1, ConsoleAssumption DEF Keeps, TablesOK
  <1>3. events' \in 0 .. MaxEvents
    BY EventsOK
  <1> QED
    BY <1>1, <1>2, <1>3 DEF TablesOK, SubsOK

\* One subscription changes.
LEMMA OneSub ==
  ASSUME TablesOK, NEW i \in Ids, NEW p \in Persons, NEW n \in Nat,
         subIds <= n, NEW x \in SubsUpTo(n),
         (x.row = 0) <=> (x.status = "none"), NEW t,
         t = [subs EXCEPT ![i][p] = x]
  PROVE  SubsOK(t, n)
  <1>1. subIds \in Nat /\ SubsOK(subs, subIds)
    BY ConsoleAssumption DEF TablesOK
  <1>2. SubsUpTo(subIds) \subseteq SubsUpTo(n)
    BY <1>1 DEF SubsUpTo
  <1>3. subs \in [Ids -> [Persons -> SubsUpTo(n)]]
    BY <1>1, <1>2 DEF SubsOK
  <1>4. t \in [Ids -> [Persons -> SubsUpTo(n)]]
    BY <1>3
  <1>5. ASSUME NEW j \in Ids, NEW q \in Persons
        PROVE  (t[j][q].row = 0) = (t[j][q].status = "none")
    <2>1. CASE j = i /\ q = p
      BY <1>3, <2>1
    <2>2. CASE ~(j = i /\ q = p)
      <3>1. t[j][q] = subs[j][q]
        BY <1>3, <2>2
      <3> QED
        BY <1>1, <3>1 DEF SubsOK
    <2> QED
      BY <2>1, <2>2
  <1> QED
    BY <1>4, <1>5 DEF SubsOK

\* A list and its rows are removed.
LEMMA ListRemoved ==
  ASSUME TablesOK, EventsOn, NEW i \in Ids, RemoveList(i)
  PROVE  Keeps /\ TablesOK'
  <1>1. /\ UNCHANGED <<listIds, row, subIds, session, management, admins>>
        /\ lists' = lists \ {i}
    BY DEF RemoveList, access
  <1>2. Keeps
    BY <1>1, ConsoleAssumption DEF Keeps, TablesOK
  <1>3. holders' \in [Roles -> [Ids -> SUBSET Persons]]
    BY DEF RemoveList, TablesOK
  <1>4. SubsOK(subs', subIds)
    <2>1. subIds \in Nat /\ subs \in [Ids -> [Persons -> SubsUpTo(subIds)]]
      BY ConsoleAssumption DEF TablesOK, SubsOK
    <2>2. NoSub \in SubsUpTo(subIds) /\ NoSub.row = 0 /\ NoSub.status = "none"
      BY <2>1 DEF NoSub, SubsUpTo, Statuses
    <2>3. subs' = [subs EXCEPT ![i] = [p \in Persons |-> NoSub]]
      BY DEF RemoveList
    <2>4. subs' \in [Ids -> [Persons -> SubsUpTo(subIds)]]
      BY <2>1, <2>2, <2>3
    <2>5. ASSUME NEW j \in Ids, NEW q \in Persons
          PROVE  (subs'[j][q].row = 0) = (subs'[j][q].status = "none")
      <3>1. subs'[j][q] \in {NoSub, subs[j][q]}
        BY <2>1, <2>3
      <3> QED
        BY <2>2, <3>1 DEF TablesOK, SubsOK
    <2> QED
      BY <2>4, <2>5 DEF SubsOK
  <1>5. /\ held' \in [Rows -> Nat] /\ posts' \in [Rows -> Nat]
        /\ \A r \in Rows : {held'[r], posts'[r]} \subseteq {0, FiledIn[r]}
    BY DEF RemoveList, TablesOK
  <1>6. events' \in 0 .. MaxEvents
    BY EventsOK
  <1> QED
    BY <1>1, <1>2, <1>3, <1>4, <1>5, <1>6 DEF TablesOK
-----------------------------------------------------------------------------
(***************************************************************************)
(* Writes                                                                  *)
(***************************************************************************)
\* A write that changes nothing of its request but that it has written
LEMMA Writes1 ==
  ASSUME IInv, NEW h \in Handlers, Running(h), NEW k, Live(k, h),
         Head(k.todo) \in WriteCalls \ {"insert", "createList"}, Wrote(h),
         Keeps, TablesOK'
  PROVE  After(h)
  <1>1. k = proc[h] /\ k \in Procs
    BY DEF Live
  <1>2. PICK m : m = [k EXCEPT !.wrote = TRUE]
    OBVIOUS
  <1>3. Goto(h, Advance(m))
    BY <1>1, <1>2 DEF Wrote
  <1>4. Head(k.todo) \in Doing /\ Head(k.todo) \notin Records
        /\ Head(k.todo) # "load" /\ Head(k.todo) # "insert"
    BY DEF Doing, Records, WriteCalls, FormCalls
  <1>5. Steady(k, m) /\ Finds(k, m)
    BY <1>1, <1>2, <1>4 DEF Steady, Finds, Procs
  <1> QED
    BY <1>3, <1>4, <1>5, GoSteady

LEMMA SetRoleStep ==
  ASSUME IInv, NEW h \in Handlers, SetRole(h)
  PROVE  After(h)
  <1>1. Running(h) /\ Call(h) = "setRole"
    BY DEF SetRole, At
  <1>2. PICK k : Live(k, h)
    BY <1>1, Lives
  <1>3. /\ Head(k.todo) = "setRole" /\ k = proc[h] /\ Op(h) = k.ask.op
        /\ L(h) = k.l /\ k.ask.op \in {"grant", "revoke"}
        /\ k.ask \in AllAsks /\ Who(h) = k.ask.who
    BY <1>1, <1>2 DEF Live, Call, Op, L, Who, Fit
  <1>4. Head(k.todo) \in WriteCalls \ {"insert", "createList"}
        /\ Head(k.todo) \notin AfterWrite /\ Head(k.todo) \in Doing
    BY <1>3 DEF WriteCalls, FormCalls, AfterWrite, Records, Doing
  <1>5. k.ask.role \in Roles /\ k.ask.who \in Persons
    BY <1>3, AskIs DEF OfPerson
  <1>6. EventsOn /\ UNCHANGED <<access, table, members, mail>>
    BY DEF SetRole, EventsOn
  <1>7. CASE Answer(h, "rejected") /\ UNCHANGED holders
    <2>1. holders' \in [Roles -> [Ids -> SUBSET Persons]]
      BY <1>7 DEF IInv, TablesOK
    <2>2. Keeps /\ TablesOK'
      BY <1>6, <2>1, HoldersSet DEF IInv
    <2> QED
      BY <1>1, <1>2, <1>4, <1>7, <2>2, Rejects
  <1>8. CASE /\ holders' = [holders EXCEPT ![k.ask.role][L(h)] =
                   IF Op(h) = "grant" THEN @ \cup {Who(h)} ELSE @ \ {Who(h)}]
             /\ Wrote(h)
    <2>1. PICK x : x = IF Op(h) = "grant"
                       THEN holders[k.ask.role][k.l] \cup {Who(h)}
                       ELSE holders[k.ask.role][k.l] \ {Who(h)}
      OBVIOUS
    <2>2. k.l \in Ids
      BY <1>2, <1>3, <1>4, ListFound DEF Self, Instance
    <2>3. holders \in [Roles -> [Ids -> SUBSET Persons]]
      BY DEF IInv, TablesOK
    <2>4. holders[k.ask.role][k.l] \in SUBSET Persons
      BY <1>5, <2>2, <2>3
    <2>5. x \in SUBSET Persons
      BY <1>3, <1>5, <2>1, <2>4
    <2>6. holders' = [holders EXCEPT ![k.ask.role][k.l] = x]
      BY <1>3, <1>8, <2>1
    <2>7. holders' \in [Roles -> [Ids -> SUBSET Persons]]
      BY <1>5, <2>2, <2>3, <2>5, <2>6
    <2>8. Keeps /\ TablesOK'
      BY <1>6, <2>7, HoldersSet DEF IInv
    <2> QED
      BY <1>1, <1>2, <1>4, <1>8, <2>8, Writes1
  <1> QED
    BY <1>3, <1>7, <1>8 DEF SetRole

LEMMA DecideStep ==
  ASSUME IInv, NEW h \in Handlers, Decide(h)
  PROVE  After(h)
  <1>1. Running(h) /\ Call(h) = "decide" /\ Wrote(h)
    BY DEF Decide, At
  <1>2. PICK k : Live(k, h)
    BY <1>1, Lives
  <1>3. Head(k.todo) = "decide" /\ k = proc[h]
    BY <1>1, <1>2 DEF Live, Call
  <1>4. Head(k.todo) \in WriteCalls \ {"insert", "createList"}
    BY <1>3 DEF WriteCalls, FormCalls
  <1>5. /\ EventsOn /\ UNCHANGED <<access, table, holders, members>>
        /\ UNCHANGED posts /\ held' = [held EXCEPT ![proc[h].ask.n] = 0]
    BY DEF Decide, EventsOn
  <1>6. /\ held' \in [Rows -> Nat]
        /\ \A r \in Rows : held'[r] \in {0, held[r]}
    BY <1>5 DEF IInv, TablesOK
  <1>7. Keeps /\ TablesOK'
    BY <1>5, <1>6, MailSet DEF IInv
  <1> QED
    BY <1>1, <1>2, <1>4, <1>7, Writes1

LEMMA FirstOwnerStep ==
  ASSUME IInv, NEW h \in Handlers, FirstOwner(h)
  PROVE  After(h)
  <1>1. Running(h) /\ Call(h) = "firstOwner" /\ Wrote(h)
    BY DEF FirstOwner, At
  <1>2. PICK k : Live(k, h)
    BY <1>1, Lives
  <1>3. Head(k.todo) = "firstOwner" /\ k.ask \in AllAsks
        /\ k.ask.op = "create" /\ Who(h) = k.ask.who
    BY <1>1, <1>2 DEF Live, Call, Fit, Who
  <1>4. Head(k.todo) \in WriteCalls \ {"insert", "createList"}
    BY <1>3 DEF WriteCalls, FormCalls
  <1>5. Who(h) \in Persons
    BY <1>3, AskIs DEF OfPerson
  <1>6. /\ EventsOn /\ UNCHANGED <<access, table, members, mail>>
        /\ holders' = [holders EXCEPT !["owner"][L(h)] = @ \cup {Who(h)}]
    BY DEF FirstOwner, EventsOn
  <1>7. holders \in [Roles -> [Ids -> SUBSET Persons]] /\ "owner" \in Roles
    BY DEF IInv, TablesOK, Roles
  <1>8. holders' \in [Roles -> [Ids -> SUBSET Persons]]
    BY <1>5, <1>6, <1>7
  <1>9. Keeps /\ TablesOK'
    BY <1>6, <1>8, HoldersSet DEF IInv
  <1> QED
    BY <1>1, <1>2, <1>4, <1>9, Writes1

LEMMA SetAdminStep ==
  ASSUME IInv, NEW h \in Handlers, SetAdmin(h)
  PROVE  After(h)
  <1>1. Running(h) /\ Call(h) = "setAdmin" /\ Wrote(h)
    BY DEF SetAdmin, At
  <1>2. PICK k : Live(k, h)
    BY <1>1, Lives
  <1>3. Head(k.todo) = "setAdmin" /\ k.ask \in AllAsks
        /\ k.ask.op \in {"designate", "dismiss"} /\ Who(h) = k.ask.who
    BY <1>1, <1>2 DEF Live, Call, Fit, Who
  <1>4. Head(k.todo) \in WriteCalls \ {"insert", "createList"}
    BY <1>3 DEF WriteCalls, FormCalls
  <1>5. Who(h) \in Persons
    BY <1>3, AskIs DEF OfPerson
  <1>6. /\ EventsOn /\ UNCHANGED <<table, holders, members, mail>>
        /\ UNCHANGED <<session, management>>
        /\ admins' \in {admins \cup {Who(h)}, admins \ {Who(h)}}
    BY DEF SetAdmin, EventsOn
  <1>7. /\ session' \subseteq Persons /\ management' \in BOOLEAN
        /\ admins' \subseteq Persons
    BY <1>5, <1>6 DEF IInv, TablesOK
  <1>8. Keeps /\ TablesOK'
    BY <1>6, <1>7, AccessSet DEF IInv
  <1> QED
    BY <1>1, <1>2, <1>4, <1>8, Writes1

LEMMA SetTypeStep ==
  ASSUME IInv, NEW h \in Handlers, SetType(h)
  PROVE  After(h)
  <1>1. Running(h) /\ Call(h) = "setType" /\ Wrote(h)
    BY DEF SetType, At
  <1>2. PICK k : Live(k, h)
    BY <1>1, Lives
  <1>3. Head(k.todo) = "setType"
    BY <1>1, <1>2 DEF Live, Call
  <1>4. Head(k.todo) \in WriteCalls \ {"insert", "createList"}
    BY <1>3 DEF WriteCalls, FormCalls
  <1>5. /\ EventsOn /\ UNCHANGED <<access, holders, members, mail>>
        /\ lists' = lists /\ listIds' = listIds
    BY DEF SetType, EventsOn
  <1>6. PICK t \in Types : row' = IF L(h) \in lists
                                  THEN [row EXCEPT ![L(h)].type = t] ELSE row
    BY DEF SetType
  <1>7. /\ row \in [Ids -> RowType] /\ lists \subseteq 1 .. listIds
        /\ listIds \in 0 .. MaxLists /\ listIds \in Nat
        /\ \A i, j \in lists : row[i].addr = row[j].addr => i = j
    BY ConsoleAssumption DEF IInv, TablesOK
  <1>8. row' \in [Ids -> RowType] /\ \A i \in Ids : row'[i].addr = row[i].addr
    <2>1. CASE row' = row
      BY ONLY <1>7, <2>1
    <2>2. CASE L(h) \in Ids /\ row' = [row EXCEPT ![L(h)].type = t]
      <3>1. PICK x : x = [row[L(h)] EXCEPT !.type = t]
        OBVIOUS
      <3>2. x \in RowType /\ x.addr = row[L(h)].addr
        BY ONLY <1>6, <1>7, <2>2, <3>1 DEF RowType
      <3>3. row' = [row EXCEPT ![L(h)] = x]
        BY <1>7, <2>2, <3>1
      <3> QED
        BY ONLY <1>7, <2>2, <3>2, <3>3
    <2>3. CASE L(h) \notin Ids
      BY <1>6, <1>7, <2>1, <2>3
    <2> QED
      BY <1>6, <2>1, <2>2, <2>3
  <1>9. 1 .. listIds \subseteq Ids
    BY <1>7, ConsoleAssumption DEF Ids
  <1>10. \A i, j \in lists' : row'[i].addr = row'[j].addr => i = j
    BY <1>5, <1>7, <1>8, <1>9
  <1>11. listIds <= listIds' /\ listIds' \in 0 .. MaxLists
         /\ lists' \subseteq 1 .. listIds'
         /\ \A i \in 1 .. listIds : row'[i].addr = row[i].addr
    BY <1>5, <1>7, <1>8, <1>9
  <1>12. Keeps /\ TablesOK'
    BY <1>5, <1>8, <1>10, <1>11, TableSet DEF IInv
  <1> QED
    BY <1>1, <1>2, <1>4, <1>12, Writes1

LEMMA DeleteListStep ==
  ASSUME IInv, NEW h \in Handlers, DeleteList(h)
  PROVE  After(h)
  <1>1. Running(h) /\ Call(h) = "deleteList" /\ UNCHANGED events
    BY DEF DeleteList, At
  <1>2. PICK k : Live(k, h)
    BY <1>1, Lives
  <1>3. Head(k.todo) = "deleteList"
    BY <1>1, <1>2 DEF Live, Call
  <1>4. Head(k.todo) \in WriteCalls \ {"insert", "createList"}
        /\ Head(k.todo) \notin AfterWrite
    BY <1>3 DEF WriteCalls, FormCalls, AfterWrite, Records
  <1>5. CASE Answer(h, "failed") /\ UNCHANGED data
    <2>1. Keeps /\ TablesOK'
      BY <1>1, <1>5, SameTables
    <2> QED
      BY <1>1, <1>2, <1>4, <1>5, <2>1, Rejects
  <1>6. ASSUME NEW i \in lists, RemoveList(i), Wrote(h) PROVE After(h)
    <2>1. i \in Ids
      BY ConsoleAssumption DEF IInv, TablesOK, Ids
    <2>2. EventsOn
      BY <1>1 DEF EventsOn
    <2>3. Keeps /\ TablesOK'
      BY <1>6, <2>1, <2>2, ListRemoved DEF IInv
    <2> QED
      BY <1>1, <1>2, <1>4, <1>6, <2>3, Writes1
  <1> QED
    BY <1>5, <1>6 DEF DeleteList
\* A load is behind the calls that change what it has loaded.
LEMMA Loaded1 ==
  ASSUME NEW h \in Handlers, NEW k, Live(k, h),
         Head(k.todo) \in WriteCalls \ {"insert"}
  PROVE  "load" \notin Ahead(k.todo) /\ "insert" \notin Ahead(k.todo)
  BY NextThen DEF Live, Follows, AfterWrite, Records, WriteCalls, FormCalls

LEMMA UpdateSubStep ==
  ASSUME IInv, NEW h \in Handlers, UpdateSub(h)
  PROVE  After(h)
  <1>1. /\ Running(h) /\ Wrote(h)
        /\ Call(h) \in {"activate", "reenable", "reset", "setMode"}
    BY DEF UpdateSub
  <1>2. PICK k : Live(k, h)
    BY <1>1, Lives
  <1>3. /\ Head(k.todo) = Call(h) /\ k = proc[h]
        /\ Head(k.todo) \in {"activate", "reenable", "reset", "setMode"}
    BY <1>1, <1>2 DEF Live, Call
  <1>4. Head(k.todo) \in WriteCalls \ {"insert", "createList"}
        /\ Head(k.todo) \in Doing
    BY <1>3 DEF WriteCalls, FormCalls, Doing
  <1>5. k.ask.op \in OfSub \cup {"approve", "reenable", "reset", "add",
                                 "import"}
    BY <1>2, <1>3 DEF Live, Fit, OfSub
  <1>6. k.sub # 0
    BY <1>2, <1>3, <1>4, <1>5, Loaded1 DEF Live, Checked, Fit
  <1>7. /\ SubList(h) \in Ids /\ Who(h) \in Persons
        /\ Sub(h) \in SubsUpTo(subIds)
        /\ (Sub(h).row = 0) <=> (Sub(h).status = "none")
    BY <1>2, <1>4, <1>5, SubIs DEF OnSubs
  <1>8. /\ EventsOn /\ UNCHANGED <<access, table, holders, mail>>
        /\ subIds' = subIds /\ subIds \in Nat /\ subIds \in 0 .. MaxSubs
        /\ subIds <= subIds'
    BY ConsoleAssumption DEF UpdateSub, EventsOn, IInv, TablesOK
  <1>9. SubsOK(subs', subIds)
    <2>1. CASE UNCHANGED subs
      BY <2>1 DEF IInv, TablesOK
    <2>2. CASE /\ Sub(h).row = proc[h].sub
               /\ subs' = [subs EXCEPT ![SubList(h)][Who(h)] =
                                          Updated(@, Call(h))]
      <3>1. PICK x : x = Updated(Sub(h), Call(h))
        OBVIOUS
      <3>2. Sub(h).status # "none" /\ Sub(h).row # 0
        BY <1>3, <1>6, <1>7, <2>2
      <3>3. x.row = Sub(h).row /\ x.status # "none"
            /\ x \in SubsUpTo(subIds)
        <4>1. PICK s : s = Sub(h)
          OBVIOUS
        <4>2. /\ s \in SubsUpTo(subIds) /\ s.status # "none"
              /\ "active" \in Statuses /\ "active" # "none"
              /\ "nomail" \in {"regular", "nomail"} /\ 0 \in 0 .. 1
          BY <1>7, <3>2, <4>1 DEF Statuses
        <4>3. \/ x = [s EXCEPT !.status = "active"]
              \/ x = [s EXCEPT !.status = "active", !.bounces = 0]
              \/ x = [s EXCEPT !.bounces = 0]
              \/ x = [s EXCEPT !.mode = "nomail"]
          BY <1>1, <3>1, <4>1 DEF Updated
        <4>4. x.row = s.row /\ x.status # "none" /\ x \in SubsUpTo(subIds)
          BY <4>2, <4>3 DEF SubsUpTo
        <4> QED
          BY <4>1, <4>4
      <3>4. subs' = [subs EXCEPT ![SubList(h)][Who(h)] = x]
        BY <2>2, <3>1 DEF Sub
      <3>5. subIds <= subIds /\ ((x.row = 0) <=> (x.status = "none"))
        BY <1>8, <3>2, <3>3
      <3> QED
        BY <1>7, <1>8, <3>3, <3>4, <3>5, OneSub DEF IInv
    <2> QED
      BY <2>1, <2>2 DEF UpdateSub
  <1>10. subIds' \in 0 .. MaxSubs /\ SubsOK(subs, subIds)'
    BY <1>8, <1>9
  <1>11. Keeps /\ TablesOK'
    BY <1>8, <1>10, SubsSet DEF IInv
  <1> QED
    BY <1>1, <1>2, <1>4, <1>11, Writes1

LEMMA UnsubscribeStep ==
  ASSUME IInv, NEW h \in Handlers, Unsubscribe(h)
  PROVE  After(h)
  <1>1. /\ Running(h) /\ Wrote(h) /\ Call(h) = "unsubscribe"
    BY DEF Unsubscribe, At
  <1>2. PICK k : Live(k, h)
    BY <1>1, Lives
  <1>3. Head(k.todo) = "unsubscribe"
    BY <1>1, <1>2 DEF Live, Call
  <1>4. Head(k.todo) \in WriteCalls \ {"insert", "createList"}
        /\ Head(k.todo) \in Doing
    BY <1>3 DEF WriteCalls, FormCalls, Doing
  <1>5. k.ask.op \in OnSubs
    BY <1>2, <1>3 DEF Live, Fit, OfSub, OnSubs
  <1>6. SubList(h) \in Ids /\ Who(h) \in Persons
    BY <1>2, <1>4, <1>5, SubIs
  <1>7. /\ EventsOn /\ UNCHANGED <<access, table, holders, mail>>
        /\ subIds' = subIds /\ subIds \in Nat /\ subIds \in 0 .. MaxSubs
        /\ subIds <= subIds' /\ subIds <= subIds
        /\ subs' = [subs EXCEPT ![SubList(h)][Who(h)] = NoSub]
    BY ConsoleAssumption DEF Unsubscribe, EventsOn, IInv, TablesOK
  <1>8. NoSub \in SubsUpTo(subIds)
        /\ ((NoSub.row = 0) <=> (NoSub.status = "none"))
    BY <1>7 DEF NoSub, SubsUpTo, Statuses
  <1>9. SubsOK(subs', subIds)
    BY <1>6, <1>7, <1>8, OneSub DEF IInv
  <1>10. subIds' \in 0 .. MaxSubs /\ SubsOK(subs, subIds)'
    BY <1>7, <1>9
  <1>11. Keeps /\ TablesOK'
    BY <1>7, <1>10, SubsSet DEF IInv
  <1> QED
    BY <1>1, <1>2, <1>4, <1>11, Writes1

LEMMA InsertSubStep ==
  ASSUME IInv, NEW h \in Handlers, InsertSub(h)
  PROVE  After(h)
  <1>1. /\ Running(h) /\ Call(h) = "insert" /\ EventsOn
        /\ UNCHANGED <<access, table, holders, mail, events>>
    BY DEF InsertSub, At, EventsOn
  <1>2. PICK k : Live(k, h)
    BY <1>1, Lives
  <1>3. /\ Head(k.todo) = "insert" /\ k = proc[h] /\ Op(h) = k.ask.op
        /\ k.ask.op \in {"add", "import"} /\ k \in Procs /\ L(h) = k.l
        /\ k.answer = "none"
    BY <1>1, <1>2 DEF Live, Call, Op, Fit, L
  <1>4. /\ Head(k.todo) \notin AfterWrite /\ Head(k.todo) \in Doing
        /\ Head(k.todo) \in WriteCalls /\ Head(k.todo) \notin Records
    BY <1>3 DEF AfterWrite, Records, Doing, WriteCalls
  <1>5. /\ SubList(h) = k.l /\ SubList(h) \in Ids /\ Who(h) \in Persons
    BY <1>2, <1>3, <1>4, SubIs DEF OnSubs, Self
  <1>6. CASE UNCHANGED members
    <2>1. UNCHANGED <<data, events>>
      BY <1>1, <1>6 DEF data
    <2>2. Keeps /\ TablesOK'
      BY <2>1, SameTables
    <2>3. CASE Op(h) = "import" /\ Goto(h, ToRecord(proc[h]))
      <3>1. PICK n : n = ToRecord(k)
        OBVIOUS
      <3>2. /\ Goto(h, n) /\ k.ask.op = "import"
            /\ Head(k.todo) \in {"load", "insert"}
            /\ n = ToRecord(k) \/ n = ToRecord([k EXCEPT !.struck = TRUE])
        BY <1>3, <2>3, <3>1
      <3> QED
        BY <1>1, <1>2, <2>2, <3>2, GoToRecord
    <2>4. CASE Answer(h, "rejected")
      BY <1>1, <1>2, <1>4, <2>2, <2>4, Rejects
    <2>5. CASE Sub(h).status = "none" /\ subIds' = subIds + 1
      <3>1. subIds' = subIds /\ subIds \in Nat
        BY <1>6, ConsoleAssumption DEF members, IInv, TablesOK
      <3> QED
        BY <2>5, <3>1
    <2> QED
      BY <2>3, <2>4, <2>5 DEF InsertSub
  <1>7. CASE /\ subIds < MaxSubs
             /\ subIds' = subIds + 1
             /\ subs' = [subs EXCEPT ![L(h)][Who(h)] =
                      [NoSub EXCEPT !.row = subIds', !.status = "pending"]]
             /\ Goto(h, Advance([proc[h] EXCEPT !.wrote = TRUE,
                                                !.sub = subIds']))
    <2>1. PICK n : n = subIds'
      OBVIOUS
    <2>2. /\ n \in Nat /\ n # 0 /\ subIds <= n /\ n \in 0 .. MaxSubs
          /\ subIds <= subIds'
      BY <1>7, <2>1, ConsoleAssumption DEF IInv, TablesOK
    <2>3. PICK x : x = [NoSub EXCEPT !.row = n, !.status = "pending"]
      OBVIOUS
    <2>4. x.row = n /\ x.status = "pending" /\ x \in SubsUpTo(n)
      <3>1. x = [row |-> n, status |-> "pending", mode |-> "regular",
                 bounces |-> 0]
        BY <2>3 DEF NoSub
      <3>2. n \in 0 .. n /\ 0 \in 0 .. 1 /\ "pending" \in Statuses
            /\ "regular" \in {"regular", "nomail"}
        BY <2>2 DEF Statuses
      <3>3. x \in SubsUpTo(n)
        BY <3>1, <3>2 DEF SubsUpTo
      <3> QED
        BY <3>1, <3>3
    <2>5. subs' = [subs EXCEPT ![SubList(h)][Who(h)] = x]
      BY <1>3, <1>5, <1>7, <2>1, <2>3
    <2>6. (x.row = 0) <=> (x.status = "none")
      BY <2>2, <2>4
    <2>7. SubsOK(subs', n)
      BY <1>5, <2>2, <2>4, <2>5, <2>6, OneSub DEF IInv
    <2>8. subIds' \in 0 .. MaxSubs /\ SubsOK(subs, subIds)'
      BY <2>1, <2>2, <2>7
    <2>9. Keeps /\ TablesOK'
      BY <1>1, <2>2, <2>8, SubsSet DEF IInv
    <2>10. PICK m : m = [k EXCEPT !.wrote = TRUE, !.sub = n]
      OBVIOUS
    <2>11. Goto(h, Advance(m))
      BY <1>3, <1>7, <2>1, <2>10
    <2>12. /\ m \in Procs /\ m.ask = k.ask /\ m.todo = k.todo
           /\ m.answer = "none" /\ m.l = k.l /\ m.gated = k.gated
           /\ m.copy = k.copy /\ m.owns = k.owns /\ m.sub = n
           /\ m.shown = k.shown /\ m.wrote = TRUE
           /\ m.recorded = k.recorded /\ m.struck = k.struck
      BY <1>3, <2>2, <2>10 DEF Procs
    <2>13. Changes(k, m) /\ Gains(k, m, had'[h], kept'[h]) /\ Finds(k, m)
      BY <1>3, <1>4, <2>2, <2>12 DEF Changes, Gains, Finds
    <2>14. had[h] \subseteq had'[h]
      BY <2>11, Noted DEF Goto
    <2>15. Seen(m, had'[h])
      BY <1>2, <2>12, <2>14, SeenOn DEF Live
    <2>16. Placed(k)'
      BY <1>2, <2>9, PlacedOn DEF Live, IInv
    <2>17. Placed(m)'
      BY <2>1, <2>2, <2>12, <2>16 DEF Placed
    <2> QED
      BY <1>1, <1>2, <2>9, <2>11, <2>12, <2>13, <2>15, <2>17, GoOn
  <1> QED
    BY <1>6, <1>7 DEF InsertSub

LEMMA CreateListStep ==
  ASSUME IInv, NEW h \in Handlers, CreateList(h)
  PROVE  After(h)
  <1>1. /\ Running(h) /\ Call(h) = "createList" /\ EventsOn
        /\ UNCHANGED <<access, holders, members, mail>>
    BY DEF CreateList, At, EventsOn
  <1>2. PICK k : Live(k, h)
    BY <1>1, Lives
  <1>3. /\ Head(k.todo) = "createList" /\ k = proc[h] /\ k \in Procs
        /\ k.ask.op = "create" /\ k.answer = "none" /\ k.ask \in AllAsks
    BY <1>1, <1>2 DEF Live, Call, Fit
  <1>4. /\ Head(k.todo) \notin AfterWrite /\ Head(k.todo) \in WriteCalls
        /\ Head(k.todo) \notin Records
    BY <1>3 DEF AfterWrite, Records, WriteCalls
  <1>5. k.ask.addr \in Addrs \cup {"none"}
    BY <1>3, AskIs
  <1>6. /\ row \in [Ids -> RowType] /\ lists \subseteq 1 .. listIds
        /\ listIds \in 0 .. MaxLists /\ listIds \in Nat
        /\ \A i, j \in lists : row[i].addr = row[j].addr => i = j
    BY ConsoleAssumption DEF IInv, TablesOK
  <1>7. CASE Answer(h, "rejected") /\ UNCHANGED table
    <2>1. UNCHANGED <<data, events>>
      BY <1>7 DEF CreateList, data
    <2>2. Keeps /\ TablesOK'
      BY <2>1, SameTables
    <2> QED
      BY <1>1, <1>2, <1>4, <1>7, <2>2, Rejects
  <1>8. CASE /\ \A i \in lists : row[i].addr # proc[h].ask.addr
             /\ listIds < MaxLists
             /\ listIds' = listIds + 1
             /\ lists' = lists \cup {listIds'}
             /\ row' = [row EXCEPT ![listIds'] =
                          NewRow(proc[h].ask.addr, "discussion")]
             /\ Goto(h, Advance([proc[h] EXCEPT !.l = listIds',
                                                !.wrote = TRUE]))
    <2>1. PICK i : i = listIds'
      OBVIOUS
    <2>2. PICK x : x = NewRow(k.ask.addr, "discussion")
      OBVIOUS
    <2>3. x \in RowType /\ x.addr = k.ask.addr
      BY <1>5, <2>2 DEF NewRow, RowType, Types
    <2>4. /\ i \in Nat /\ i # 0 /\ i \in Ids /\ i \notin 1 .. listIds
          /\ i \in 0 .. MaxLists /\ listIds <= i /\ 1 .. listIds \subseteq Ids
          /\ i \in 1 .. i /\ 1 .. listIds \subseteq 1 .. i
      BY <1>6, <1>8, <2>1, ConsoleAssumption DEF Ids
    <2>5. row' = [row EXCEPT ![i] = x] /\ lists' = lists \cup {i}
      BY <1>3, <1>8, <2>1, <2>2
    <2>6. /\ row' \in [Ids -> RowType] /\ row'[i].addr = k.ask.addr
          /\ \A j \in 1 .. listIds : row'[j] = row[j]
      BY <1>6, <2>3, <2>4, <2>5
    <2>7. \A j, g \in lists' : row'[j].addr = row'[g].addr => j = g
      BY <1>3, <1>6, <1>8, <2>5, <2>6
    <2>8. lists' \subseteq 1 .. listIds'
      BY <1>6, <2>1, <2>4, <2>5
    <2>9. /\ listIds <= listIds' /\ listIds' \in 0 .. MaxLists
          /\ \A j \in 1 .. listIds : row'[j].addr = row[j].addr
      BY <2>1, <2>4, <2>6
    <2>10. Keeps /\ TablesOK'
      BY <1>1, <2>6, <2>7, <2>8, <2>9, TableSet DEF IInv
    <2>11. PICK m : m = [k EXCEPT !.l = i, !.wrote = TRUE]
      OBVIOUS
    <2>12. Goto(h, Advance(m))
      BY <1>3, <1>8, <2>1, <2>11
    <2>13. /\ m \in Procs /\ m.ask = k.ask /\ m.todo = k.todo
           /\ m.answer = "none" /\ m.l = i /\ m.gated = k.gated
           /\ m.copy = k.copy /\ m.owns = k.owns /\ m.sub = k.sub
           /\ m.shown = k.shown /\ m.wrote = TRUE
           /\ m.recorded = k.recorded /\ m.struck = k.struck
      BY <1>3, <2>4, <2>11 DEF Procs
    <2>14. Changes(k, m) /\ Gains(k, m, had'[h], kept'[h]) /\ Finds(k, m)
      BY <1>3, <1>4, <2>13 DEF Changes, Gains, Finds
    <2>15. had[h] \subseteq had'[h]
      BY <2>12, Noted DEF Goto
    <2>16. Seen(m, had'[h])
      BY <1>2, <2>13, <2>15, SeenOn DEF Live
    <2>17. Placed(k)'
      BY <1>2, <2>10, PlacedOn DEF Live, IInv
    <2>18. Placed(m)'
      BY <1>3, <2>1, <2>4, <2>6, <2>13, <2>17 DEF Placed
    <2> QED
      BY <1>1, <1>2, <2>10, <2>12, <2>13, <2>14, <2>16, <2>18, GoOn
  <1> QED
    BY <1>7, <1>8 DEF CreateList
\* A part of a form is saved, which other saves of the list's form notice.
MeetsSave(h) == \E g \in Handlers \ {h} : Saving(g) /\ L(g) = L(h)

PartSaved(h) ==
    /\ Turn(proc[h], proc'[h])
    /\ proc'[h].l = proc[h].l /\ proc'[h].wrote
    /\ proc'[h].mixed <=> (proc[h].mixed \/ MeetsSave(h))
    /\ Call(h) \in {"settings", "description"} => proc'[h].answer = "none"
    /\ \A g \in Handlers : g # h =>
          IF Saving(g) /\ L(g) = L(h)
          THEN proc'[g] = [proc[g] EXCEPT !.mixed = TRUE]
          ELSE proc'[g] = proc[g]

LEMMA SavesPart ==
  ASSUME IInv, NEW h \in Handlers, Running(h), NEW k, Live(k, h),
         Head(k.todo) \in FormCalls, SavedPart(h), Keeps, TablesOK'
  PROVE  IInv' /\ PartSaved(h)
  <1>1. k = proc[h] /\ k \in Procs /\ Note
    BY DEF Live, SavedPart
  <1>2. PICK b : b = (k.mixed \/ MeetsSave(h))
    OBVIOUS
  <1>3. b \in BOOLEAN
    BY <1>2
  <1>4. PICK m : m = [k EXCEPT !.wrote = TRUE, !.mixed = b]
    OBVIOUS
  <1>5. PICK n : n = Advance(m)
    OBVIOUS
  <1>6. proc' = [g \in Handlers |->
                   IF g = h THEN n
                   ELSE IF Saving(g) /\ L(g) = L(h)
                   THEN [proc[g] EXCEPT !.mixed = TRUE] ELSE proc[g]]
    BY <1>1, <1>2, <1>4, <1>5 DEF SavedPart, MeetsSave
  <1>7. /\ Head(k.todo) \in WriteCalls /\ Head(k.todo) \notin Records
        /\ Head(k.todo) \notin {"load", "insert"}
        /\ Head(k.todo) \notin {"find", "isOwner", "auth", "management",
                                "admin", "owner", "member", "either",
                                "createList"}
    BY DEF FormCalls, WriteCalls, Records
  <1>8. /\ m \in Procs /\ m.ask = k.ask /\ m.todo = k.todo
        /\ m.answer = k.answer /\ m.l = k.l /\ m.gated = k.gated
        /\ m.copy = k.copy /\ m.owns = k.owns /\ m.sub = k.sub
        /\ m.shown = k.shown /\ m.wrote = TRUE
        /\ m.recorded = k.recorded /\ m.struck = k.struck /\ m.mixed = b
    BY <1>1, <1>3, <1>4 DEF Procs
  <1>9. Changes(k, m) /\ Gains(k, m, had'[h], kept'[h]) /\ Finds(k, m)
    BY <1>7, <1>8 DEF Changes, Gains, Finds
  <1>10. had[h] \subseteq had'[h] /\ kept'[h] \subseteq kept[h]
    BY <1>1, Noted
  <1>11. Seen(m, had'[h])
    BY <1>8, <1>10, SeenOn DEF Live
  <1>12. Asks[h] \subseteq AllAsks
    BY DEF AllAsks
  <1>13. /\ Sane(k, Asks[h], had[h], kept[h]) /\ k.ask.op # "none"
         /\ k.answer = "none" /\ m.answer = "none"
    BY <1>8 DEF Live
  <1>14. /\ Sane(n, Asks[h], had'[h], kept'[h]) /\ Alike(m, n)
         /\ Onward(k, n)
    BY <1>5, <1>8, <1>9, <1>10, <1>11, <1>12, <1>13, SaneOn
  <1>15. n \in Procs
    BY <1>14 DEF Sane
  <1>16. Placed(k)'
    BY <1>1, PlacedOn DEF Live, IInv
  <1>17. Placed(n)'
    BY <1>8, <1>14, <1>16 DEF Placed, Alike
  <1>18. ASSUME NEW g \in Handlers
         PROVE  /\ proc'[g] \in Procs
                /\ Sane(proc'[g], Asks[g], had'[g], kept'[g])
                /\ Placed(proc[g])'
    <2>1. CASE g = h
      <3>1. proc'[g] = n
        BY <1>6, <2>1
      <3> QED
        BY <1>14, <1>15, <1>17, <2>1, <3>1 DEF Placed
    <2>2. CASE g # h
      <3>1. \/ proc'[g] = proc[g]
            \/ proc'[g] = [proc[g] EXCEPT !.mixed = TRUE] /\ Begun(g)
        BY <1>6, <2>2 DEF Saving, Running
      <3> QED
        BY <1>1, <3>1, OthersKept
    <2> QED
      BY <2>1, <2>2
  <1>19. proc' \in [Handlers -> Procs]
    BY <1>6, <1>18
  <1>20. IInv'
    BY <1>1, <1>18, <1>19, NotedTypes DEF IInv
  <1>21. /\ n.ask = k.ask /\ n.gated = k.gated /\ n.l = k.l /\ n.wrote
         /\ n.mixed = b
    BY <1>8, <1>14 DEF Alike
  <1>22. Turn(k, n)
    BY <1>14, <1>21 DEF Turn, Onward
  <1>23. Head(k.todo) \in {"settings", "description"} => n.answer = "none"
    BY <1>14 DEF Onward
  <1>24. proc'[h] = n /\ Call(h) = Head(k.todo)
    BY <1>1, <1>6 DEF Call
  <1>25. \A g \in Handlers : g # h =>
           IF Saving(g) /\ L(g) = L(h)
           THEN proc'[g] = [proc[g] EXCEPT !.mixed = TRUE]
           ELSE proc'[g] = proc[g]
    BY <1>6
  <1> QED
    BY <1>1, <1>2, <1>20, <1>21, <1>22, <1>23, <1>24, <1>25 DEF PartSaved

\* A list's row, or a list, comes back with the address it had.
LEMMA RowBack ==
  ASSUME TablesOK, NEW i \in 1 .. listIds, NEW x \in RowType,
         x.addr = row[i].addr, EventsOn, listIds' = listIds,
         UNCHANGED <<access, holders, members, mail>>,
         row' = [row EXCEPT ![i] = x],
         \/ lists' = lists
         \/ /\ lists' = lists \cup {i}
            /\ \A j \in lists \ {i} : row[j].addr # row[i].addr
  PROVE  Keeps /\ TablesOK'
  <1>1. /\ row \in [Ids -> RowType] /\ lists \subseteq 1 .. listIds
        /\ listIds \in 0 .. MaxLists /\ listIds \in Nat
        /\ \A j, g \in lists : row[j].addr = row[g].addr => j = g
    BY ConsoleAssumption DEF TablesOK
  <1>2. 1 .. listIds \subseteq Ids
    BY <1>1, ConsoleAssumption DEF Ids
  <1>3. /\ row' \in [Ids -> RowType]
        /\ \A j \in Ids : row'[j].addr = row[j].addr
    BY <1>1, <1>2
  <1>4. \A j, g \in lists' : row'[j].addr = row'[g].addr => j = g
    <2>1. i \in Ids /\ lists \subseteq Ids /\ lists' \subseteq Ids
      BY <1>1, <1>2
    <2>2. \A j, g \in lists' : row[j].addr = row[g].addr => j = g
      <3>1. CASE lists' = lists
        BY <1>1, <3>1
      <3>2. CASE /\ lists' = lists \cup {i}
                 /\ \A j \in lists \ {i} : row[j].addr # row[i].addr
        BY <1>1, <3>2
      <3> QED
        BY <3>1, <3>2
    <2> QED
      BY <1>3, <2>1, <2>2
  <1>5. lists' \subseteq 1 .. listIds
    BY <1>1
  <1>6. listIds <= listIds
    BY <1>1
  <1>7. /\ listIds <= listIds' /\ listIds' \in 0 .. MaxLists
        /\ lists' \subseteq 1 .. listIds'
        /\ \A j \in 1 .. listIds : row'[j].addr = row[j].addr
    BY <1>1, <1>2, <1>3, <1>5, <1>6
  <1> QED
    BY <1>3, <1>4, <1>7, TableSet

\* The form is not saved, or a part of it is.
FormLeft(h) == /\ Answer(h, "failed") /\ Call(h) = "settings"
               /\ UNCHANGED <<lists, row>>
FormWritten(h) ==
    \/ /\ Call(h) = "settings" /\ lists' = lists \cup {L(h)}
       /\ row' = [row EXCEPT ![L(h)] = [proc[h].copy EXCEPT !.settings = h]]
    \/ /\ Call(h) # "settings" /\ lists' = lists
       /\ row' = IF L(h) \in lists THEN [row EXCEPT ![L(h)][Call(h)] = h]
                                    ELSE row

LEMMA SaveFormStep ==
  ASSUME IInv, NEW h \in Handlers, SaveForm(h)
  PROVE  /\ IInv'
         /\ \/ After(h) /\ FormLeft(h)
            \/ PartSaved(h) /\ FormWritten(h)
  <1>1. /\ Running(h) /\ Call(h) \in FormCalls /\ EventsOn
        /\ UNCHANGED <<access, holders, members, mail>> /\ listIds' = listIds
    BY DEF SaveForm, Saving, EventsOn
  <1>2. PICK k : Live(k, h)
    BY <1>1, Lives
  <1>3. /\ Head(k.todo) = Call(h) /\ Head(k.todo) \in FormCalls
        /\ k = proc[h] /\ k \in Procs /\ L(h) = k.l /\ k.ask.op = "save"
    BY <1>1, <1>2 DEF Live, Call, L, Fit
  <1>4. Head(k.todo) \in Doing
    BY <1>3 DEF Doing, WriteCalls
  <1>5. k.l \in 1 .. listIds /\ k.l \in Ids /\ row[k.l].addr = k.ask.addr
        /\ k.l # 0
    BY <1>2, <1>3, <1>4, ListFound, Passed DEF Self, Instance
  <1>6. k.copy \in RowType /\ k.copy.addr = row[k.l].addr
    BY <1>2, <1>3, <1>5 DEF Live, Placed, Procs
  <1>7. CASE /\ Call(h) = "settings" /\ Answer(h, "failed")
             /\ UNCHANGED <<lists, row>>
    <2>1. UNCHANGED <<data, events>>
      BY <1>1, <1>7 DEF SaveForm, data, table
    <2>2. Keeps /\ TablesOK'
      BY <2>1, SameTables
    <2>3. Head(k.todo) \notin AfterWrite
      BY <1>3, <1>7 DEF AfterWrite, Records
    <2> QED
      BY <1>1, <1>2, <1>7, <2>2, <2>3, Rejects DEF After, FormLeft
  <1>8. CASE /\ Call(h) = "settings"
             /\ \/ k.l \in lists
                \/ \A j \in lists \ {k.l} : row[j].addr # row[k.l].addr
             /\ lists' = lists \cup {k.l}
             /\ row' = [row EXCEPT ![k.l] = [k.copy EXCEPT !.settings = h]]
             /\ SavedPart(h)
    <2>1. PICK x : x = [k.copy EXCEPT !.settings = h]
      OBVIOUS
    <2>2. x \in RowType /\ x.addr = row[k.l].addr
      BY <1>6, <2>1 DEF RowType
    <2>3. row' = [row EXCEPT ![k.l] = x]
      BY <1>8, <2>1
    <2>4. \/ lists' = lists
          \/ /\ lists' = lists \cup {k.l}
             /\ \A j \in lists \ {k.l} : row[j].addr # row[k.l].addr
      BY <1>8
    <2>5. Keeps /\ TablesOK'
      BY <1>1, <1>5, <2>2, <2>3, <2>4, RowBack DEF IInv
    <2> QED
      BY <1>1, <1>2, <1>3, <1>8, <2>5, SavesPart DEF FormWritten
  <1>9. CASE /\ Call(h) # "settings"
             /\ row' = IF k.l \in lists THEN [row EXCEPT ![k.l][Call(h)] = h]
                                       ELSE row
             /\ SavedPart(h) /\ UNCHANGED lists
    <2>1. PICK x : x = IF k.l \in lists THEN [row[k.l] EXCEPT ![Call(h)] = h]
                                       ELSE row[k.l]
      OBVIOUS
    <2>2. row[k.l] \in RowType /\ row \in [Ids -> RowType]
      BY <1>5 DEF IInv, TablesOK
    <2>3. x \in RowType /\ x.addr = row[k.l].addr
      <3>1. CASE Call(h) = "description"
        <4>1. x \in {[row[k.l] EXCEPT !.description = h], row[k.l]}
          BY <2>1, <3>1
        <4> QED
          BY <2>2, <4>1 DEF RowType
      <3>2. CASE Call(h) = "instructions"
        <4>1. x \in {[row[k.l] EXCEPT !.instructions = h], row[k.l]}
          BY <2>1, <3>2
        <4> QED
          BY <2>2, <4>1 DEF RowType
      <3> QED
        BY <1>1, <1>9, <3>1, <3>2 DEF FormCalls
    <2>4. row' = [row EXCEPT ![k.l] = x]
      BY <1>5, <1>9, <2>1, <2>2
    <2>5. \/ lists' = lists
          \/ /\ lists' = lists \cup {k.l}
             /\ \A j \in lists \ {k.l} : row[j].addr # row[k.l].addr
      BY <1>9
    <2>6. Keeps /\ TablesOK'
      BY <1>1, <1>5, <2>3, <2>4, <2>5, RowBack DEF IInv
    <2> QED
      BY <1>1, <1>2, <1>3, <1>9, <2>6, SavesPart DEF FormWritten
  <1> QED
    BY <1>3, <1>7, <1>8, <1>9 DEF SaveForm
-----------------------------------------------------------------------------
(***************************************************************************)
(* Failing calls, restarts, and what else changes the tables               *)
(***************************************************************************)
LEMMA FaultStep ==
  ASSUME IInv, NEW h \in Handlers, Fault(h)
  PROVE  After(h)
  <1>1. /\ Running(h) /\ UNCHANGED data /\ Goto(h, AfterError(h))
        /\ events < MaxEvents /\ events' = events + 1
    BY DEF Fault
  <1>2. PICK k : Live(k, h)
    BY <1>1, Lives
  <1>3. /\ Head(k.todo) = Call(h) /\ k = proc[h] /\ Op(h) = k.ask.op
        /\ k \in Procs /\ k.answer = "none" /\ k.ask \in AllAsks
        /\ Fit(k.ask.op, Call(h)) /\ OnWay(k) /\ Trailed(k)
    BY <1>2 DEF Live, Call, Op
  <1>4. Keeps /\ TablesOK'
    BY <1>1, SameTables
  <1>5. PICK p : p = [k EXCEPT !.struck = TRUE]
    OBVIOUS
  <1>6. /\ p \in Procs /\ p.ask = k.ask /\ p.todo = k.todo
        /\ p.answer = "none" /\ p.l = k.l /\ p.gated = k.gated
        /\ p.copy = k.copy /\ p.owns = k.owns /\ p.sub = k.sub
        /\ p.shown = k.shown /\ p.wrote = k.wrote
        /\ p.recorded = k.recorded /\ p.struck = TRUE /\ p.mixed = k.mixed
    BY <1>3, <1>5 DEF Procs
  <1>7. PICK n : n = AfterError(h)
    OBVIOUS
  <1>8. Goto(h, n) /\ Note
    BY <1>1, <1>7 DEF Goto
  <1>9. CASE n = Advance(p) /\ Call(h) = "isOwner"
    <2>1. Changes(k, p) /\ Gains(k, p, had'[h], kept'[h]) /\ Finds(k, p)
      BY <1>3, <1>6, <1>9 DEF Changes, Gains, Finds, Records
    <2>2. had[h] \subseteq had'[h]
      BY <1>8, Noted
    <2>3. Seen(p, had'[h])
      BY <1>2, <1>6, <2>2, SeenOn DEF Live
    <2>4. Placed(k)'
      BY <1>2, <1>4, PlacedOn DEF Live, IInv
    <2>5. Placed(p)'
      BY <1>6, <2>4 DEF Placed
    <2>6. Goto(h, Advance(p))
      BY <1>8, <1>9
    <2> QED
      BY <1>1, <1>2, <1>4, <1>6, <2>1, <2>3, <2>5, <2>6, GoOn
  <1>10. CASE /\ n = Advance(p)
              /\ \/ Call(h) \in {"audit", "firstOwner"}
                 \/ Call(h) \in {"load", "activate"}
                    /\ k.ask.op \in {"add", "import"}
    <2>1. Head(k.todo) \in Doing
      BY <1>3, <1>10 DEF Doing, Records, WriteCalls
    <2>2. Steady(k, p)
      BY <1>3, <1>6 DEF Steady
    <2>3. Finds(k, p)
      BY <1>3, <1>10 DEF Finds, OfSub
    <2>4. Goto(h, Advance(p))
      BY <1>8, <1>10
    <2> QED
      BY <1>1, <1>2, <1>4, <2>1, <2>2, <2>3, <2>4, GoSteady
  <1>11. CASE n = ToRecord(p) /\ Call(h) = "insert" /\ k.ask.op = "import"
    <2>1. /\ Head(k.todo) \in {"load", "insert"}
          /\ n = ToRecord(k) \/ n = ToRecord([k EXCEPT !.struck = TRUE])
      BY <1>3, <1>5, <1>11
    <2> QED
      BY <1>1, <1>2, <1>4, <1>8, <1>11, <2>1, GoToRecord
  <1>12. CASE \/ n = Answered(p, "failed")
              \/ /\ n \in {Answered(p, "denied"), Answered(p, "rejected")}
                 /\ Call(h) \notin AfterWrite
    <2>1. Call(h) \notin AfterWrite => ~k.wrote
      BY <1>3, NotWritten
    <2>2. PICK a \in {"failed", "denied", "rejected"} :
             n = [p EXCEPT !.answer = a] /\ (a = "failed" \/ ~k.wrote)
      BY <1>12, <2>1 DEF Answered
    <2>3. Ends(k, n) /\ n.struck
      BY <1>6, <2>2 DEF Ends, Procs
    <2> QED
      BY <1>1, <1>2, <1>4, <1>8, <2>3, GoEnd
  <1> DEFINE c == Call(h)
  <1>13. CASE c \in Gates
    <2>1. n = Answered(p, "denied")
      BY <1>3, <1>5, <1>7, <1>13 DEF AfterError, Gates
    <2>2. Call(h) \notin AfterWrite
      BY <1>13 DEF Gates, AfterWrite, Records
    <2> QED
      BY <1>12, <2>1, <2>2
  <1>14. CASE c \in {"isOwner", "audit", "firstOwner"}
    <2>1. n = Advance(p)
      BY <1>3, <1>5, <1>7, <1>14 DEF AfterError, Gates
    <2> QED
      BY <1>9, <1>10, <1>14, <2>1
  <1>15. CASE c = "load" /\ k.ask.op \in {"add", "import"}
    <2>1. n = Advance(p)
      BY <1>3, <1>5, <1>7, <1>15 DEF AfterError, Gates
    <2> QED
      BY <1>10, <1>15, <2>1
  <1>16. CASE c = "insert" /\ k.ask.op = "import"
    <2>1. n = ToRecord(p)
      BY <1>3, <1>5, <1>7, <1>16 DEF AfterError, Gates
    <2> QED
      BY <1>11, <1>16, <2>1
  <1>17. CASE c = "activate" /\ k.ask.op = "import"
    <2>1. n = Advance(p)
      BY <1>3, <1>5, <1>7, <1>17 DEF AfterError, Gates
    <2> QED
      BY <1>10, <1>17, <2>1
  <1>18. CASE \/ c \in {"find", "list"}
              \/ c = "load" /\ k.ask.op \notin {"add", "import"}
    <2>1. n = Answered(p, "rejected")
      BY <1>3, <1>5, <1>7, <1>18 DEF AfterError, Gates
    <2>2. Call(h) \notin AfterWrite
      BY <1>18 DEF AfterWrite, Records
    <2> QED
      BY <1>12, <2>1, <2>2
  <1>19. CASE /\ c \notin Gates
              /\ c \notin {"isOwner", "audit", "firstOwner", "find", "list",
                           "load"}
              /\ ~(c = "insert" /\ k.ask.op = "import")
              /\ ~(c = "activate" /\ k.ask.op = "import")
    <2>1. n = Answered(p, "failed")
      BY <1>3, <1>5, <1>7, <1>19 DEF AfterError
    <2> QED
      BY <1>12, <2>1
  <1> QED
    BY <1>13, <1>14, <1>15, <1>16, <1>17, <1>18, <1>19

\* A request is lost.
LEMMA LostEnds ==
  ASSUME NEW h \in Handlers, NEW k, Live(k, h), NEW n, n = Lost(k)
  PROVE  Ends(k, n) /\ n.struck
  <1>1. k \in Procs
    BY DEF Live
  <1>2. n = [[k EXCEPT !.answer = "lost"] EXCEPT !.struck = TRUE]
    BY DEF Lost, Answered
  <1>3. /\ n \in Procs /\ n.ask = k.ask /\ n.todo = k.todo
        /\ n.answer = "lost" /\ n.l = k.l /\ n.gated = k.gated
        /\ n.copy = k.copy /\ n.owns = k.owns /\ n.sub = k.sub
        /\ n.shown = k.shown /\ n.wrote = k.wrote
        /\ n.recorded = k.recorded /\ n.struck = TRUE /\ n.mixed = k.mixed
    BY <1>1, <1>2 DEF Procs
  <1> QED
    BY <1>3 DEF Ends

LEMMA HangUpStep ==
  ASSUME IInv, NEW h \in Handlers, HangUp(h)
  PROVE  After(h)
  <1>1. /\ Running(h) /\ UNCHANGED data /\ Goto(h, Lost(proc[h]))
        /\ events < MaxEvents /\ events' = events + 1
    BY DEF HangUp
  <1>2. PICK k : Live(k, h)
    BY <1>1, Lives
  <1>3. PICK n : n = Lost(k)
    OBVIOUS
  <1>4. Goto(h, n) /\ Note
    BY <1>1, <1>2, <1>3 DEF Live, Goto
  <1>5. Ends(k, n) /\ n.struck
    BY <1>2, <1>3, LostEnds
  <1>6. Keeps /\ TablesOK'
    BY <1>1, SameTables
  <1> QED
    BY <1>1, <1>2, <1>4, <1>5, <1>6, GoEnd

LEMMA RestartStep ==
  ASSUME IInv, Restart
  PROVE  IInv'
  <1>1. /\ UNCHANGED data /\ Note /\ events < MaxEvents
        /\ events' = events + 1
        /\ proc' = [h \in Handlers |-> IF Running(h) THEN Lost(proc[h])
                                                   ELSE proc[h]]
    BY DEF Restart
  <1>2. Keeps /\ TablesOK'
    BY <1>1, SameTables
  <1>3. ASSUME NEW h \in Handlers
        PROVE  /\ proc'[h] \in Procs
               /\ Sane(proc'[h], Asks[h], had'[h], kept'[h])
               /\ Placed(proc[h])'
    <2>1. CASE Running(h)
      <3>1. PICK k : Live(k, h)
        BY <2>1, Lives
      <3>2. PICK n : n = Lost(k)
        OBVIOUS
      <3>3. proc'[h] = n
        BY <1>1, <2>1, <3>1, <3>2 DEF Live
      <3>4. Ends(k, n) /\ n.struck
        BY <3>1, <3>2, LostEnds
      <3>5. Sane(n, Asks[h], had'[h], kept'[h]) /\ Placed(n)'
        BY <1>1, <1>2, <2>1, <3>1, <3>4, EndSane
      <3>6. n \in Procs
        BY <3>4 DEF Ends
      <3> QED
        BY <3>3, <3>5, <3>6 DEF Placed
    <2>2. CASE ~Running(h)
      <3>1. proc'[h] = proc[h]
        BY <1>1, <2>2
      <3> QED
        BY <1>1, <1>2, <3>1, OthersKept
    <2> QED
      BY <2>1, <2>2
  <1>4. proc' \in [Handlers -> Procs]
    BY <1>1, <1>3
  <1> QED
    BY <1>1, <1>2, <1>3, <1>4, NotedTypes DEF IInv

\* The requests stay as they are.
LEMMA Outsiders ==
  ASSUME IInv, Note, UNCHANGED proc, Keeps, TablesOK'
  PROVE  IInv'
  <1>1. ASSUME NEW h \in Handlers
        PROVE  /\ proc'[h] \in Procs
               /\ Sane(proc'[h], Asks[h], had'[h], kept'[h])
               /\ Placed(proc[h])'
    BY OthersKept
  <1>2. proc' \in [Handlers -> Procs]
    BY DEF IInv
  <1> QED
    BY <1>1, <1>2, NotedTypes DEF IInv

LEMMA OutsideStep ==
  ASSUME IInv, Outside
  PROVE  IInv'
  <1>1. TablesOK
    BY DEF IInv
  <1>2. Change => Note /\ UNCHANGED proc /\ EventsOn
    BY DEF Change, EventsOn
  <1>3. CASE SwitchManagement
    <2>1. /\ Change /\ management' \in BOOLEAN /\ UNCHANGED session
          /\ UNCHANGED admins /\ UNCHANGED <<table, holders, members, mail>>
      BY <1>1, <1>3 DEF SwitchManagement, TablesOK
    <2>2. session' \subseteq Persons /\ admins' \subseteq Persons
      BY <1>1, <2>1 DEF TablesOK
    <2> QED
      BY <1>1, <1>2, <2>1, <2>2, AccessSet, Outsiders
  <1>4. ASSUME NEW p \in Persons, EndSession(p) \/ CommandAdmin(p)
        PROVE  IInv'
    <2>1. /\ Change /\ UNCHANGED <<table, holders, members, mail>>
          /\ UNCHANGED management
          /\ session' \in {session, session \ {p}}
          /\ admins' \in {admins, admins \ {p}, admins \cup {p}}
      BY <1>4 DEF EndSession, CommandAdmin
    <2>2. /\ session' \subseteq Persons /\ admins' \subseteq Persons
          /\ management' \in BOOLEAN
      BY <1>1, <2>1 DEF TablesOK
    <2> QED
      BY <1>1, <1>2, <2>1, <2>2, AccessSet, Outsiders
  <1>5. ASSUME NEW i \in Ids, NEW p \in Persons, MailSub(i, p)
        PROVE  IInv'
    <2>1. /\ Change /\ UNCHANGED <<access, table, holders, mail>>
          /\ subIds' = subIds /\ subs[i][p].status # "none"
          /\ \/ subs' = [subs EXCEPT ![i][p] = NoSub]
             \/ subs' = [subs EXCEPT ![i][p].status = "disabled",
                                     ![i][p].bounces = 1]
      BY <1>5 DEF MailSub
    <2>2. /\ subIds \in Nat /\ subIds \in 0 .. MaxSubs /\ subIds <= subIds
          /\ subs \in [Ids -> [Persons -> SubsUpTo(subIds)]]
          /\ (subs[i][p].row = 0) = (subs[i][p].status = "none")
      BY <1>1, ConsoleAssumption DEF TablesOK, SubsOK
    <2>3. PICK x : x = [[subs[i][p] EXCEPT !.status = "disabled"]
                           EXCEPT !.bounces = 1]
      OBVIOUS
    <2>4. /\ NoSub \in SubsUpTo(subIds)
          /\ ((NoSub.row = 0) <=> (NoSub.status = "none"))
      BY <2>2 DEF NoSub, SubsUpTo, Statuses
    <2>5. subs[i][p] \in SubsUpTo(subIds)
      BY <2>2
    <2>6. x \in SubsUpTo(subIds) /\ x.row = subs[i][p].row
          /\ x.status = "disabled"
      <3>1. PICK s : s = subs[i][p]
        OBVIOUS
      <3>2. s \in SubsUpTo(subIds) /\ "disabled" \in Statuses /\ 1 \in 0 .. 1
        BY <2>5, <3>1 DEF Statuses
      <3>3. x = [[s EXCEPT !.status = "disabled"] EXCEPT !.bounces = 1]
        BY <2>3, <3>1
      <3>4. x \in SubsUpTo(subIds) /\ x.row = s.row
            /\ x.status = "disabled"
        BY <3>2, <3>3 DEF SubsUpTo
      <3> QED
        BY <3>1, <3>4
    <2>7. (x.row = 0) <=> (x.status = "none")
      BY <2>1, <2>2, <2>6
    <2>8. subs' = [subs EXCEPT ![i][p] = NoSub]
          \/ subs' = [subs EXCEPT ![i][p] = x]
      BY <2>1, <2>2, <2>3
    <2>9. SubsOK(subs', subIds)
      BY <1>1, <2>2, <2>4, <2>6, <2>7, <2>8, OneSub
    <2>10. subIds <= subIds' /\ subIds' \in 0 .. MaxSubs
           /\ SubsOK(subs, subIds)'
      BY <2>1, <2>2, <2>9
    <2> QED
      BY <1>1, <1>2, <2>1, <2>10, SubsSet, Outsiders
  <1>6. ASSUME NEW r \in {"owner", "moderator"}, NEW i \in Ids,
               NEW p \in Persons, CommandRole(r, i, p)
        PROVE  IInv'
    <2>1. /\ Change /\ UNCHANGED <<access, table, members, mail>>
          /\ holders' = [holders EXCEPT ![r][i] =
                           IF p \in @ THEN @ \ {p} ELSE @ \cup {p}]
      BY <1>6 DEF CommandRole
    <2>2. r \in Roles /\ holders \in [Roles -> [Ids -> SUBSET Persons]]
      BY <1>1 DEF Roles, TablesOK
    <2>3. holders' \in [Roles -> [Ids -> SUBSET Persons]]
      BY <2>1, <2>2
    <2> QED
      BY <1>1, <1>2, <2>1, <2>3, HoldersSet, Outsiders
  <1>7. ASSUME NEW i \in Ids, CommandDelete(i)
        PROVE  IInv'
    <2>1. Change /\ RemoveList(i)
      BY <1>7 DEF CommandDelete
    <2> QED
      BY <1>1, <1>2, <2>1, ListRemoved, Outsiders
  <1>8. ASSUME NEW r \in Rows, DropHeld(r)
        PROVE  IInv'
    <2>1. /\ Change /\ UNCHANGED <<access, table, holders, members>>
          /\ UNCHANGED posts /\ held' = [held EXCEPT ![r] = 0]
      BY <1>8 DEF DropHeld
    <2>2. /\ held' \in [Rows -> Nat]
          /\ \A q \in Rows : held'[q] \in {0, held[q]}
      BY <1>1, <2>1 DEF TablesOK
    <2> QED
      BY <1>1, <1>2, <2>1, <2>2, MailSet, Outsiders
  <1> QED
    BY <1>3, <1>4, <1>5, <1>6, <1>7, <1>8 DEF Outside
LEMMA InitIs ==
  ASSUME Init
  PROVE  IInv
  <1>1. /\ session = Persons /\ management = TRUE /\ admins = Start.admins
        /\ lists = Start.lists /\ listIds = Cardinality(Start.lists)
        /\ row = Start.row /\ holders = Start.holders
        /\ subs = Start.subs /\ subIds = Start.subIds
        /\ held = FiledIn /\ posts = FiledIn /\ events = 0
        /\ proc = [h \in Handlers |-> Idle]
        /\ had = [h \in Handlers |-> {}] /\ kept = [h \in Handlers |-> Rights]
    BY DEF Init
  <1>2. listIds \in 0 .. MaxLists /\ lists = 1 .. listIds /\ listIds \in Nat
    BY <1>1, StartAssumption, ConsoleAssumption
  <1>3. FiledIn \in [Rows -> Nat]
    BY ConsoleAssumption
  <1>4. TablesOK
    <2>1. /\ session \subseteq Persons /\ management \in BOOLEAN
          /\ admins \subseteq Persons
          /\ row \in [Ids -> RowType]
          /\ holders \in [Roles -> [Ids -> SUBSET Persons]]
      BY <1>1, StartAssumption
    <2>2. \A i, j \in lists : row[i].addr = row[j].addr => i = j
      BY <1>1, StartAssumption
    <2>3. subIds \in 0 .. MaxSubs /\ SubsOK(subs, subIds)
      BY <1>1, StartAssumption
    <2>4. /\ held \in [Rows -> Nat] /\ posts \in [Rows -> Nat]
          /\ \A r \in Rows : {held[r], posts[r]} \subseteq {0, FiledIn[r]}
      BY <1>1, <1>3
    <2>5. events \in 0 .. MaxEvents
      BY <1>1, ConsoleAssumption
    <2>6. listIds \in 0 .. MaxLists /\ lists \subseteq 1 .. listIds
      BY <1>2
    <2> QED
      BY <2>1, <2>2, <2>3, <2>4, <2>5, <2>6 DEF TablesOK
  <1>5. Idle \in Procs /\ Idle.ask.op = "none" /\ Idle.l = 0
        /\ Idle.gated = 0 /\ Idle.sub = 0
    <2>1. <<>> \in Seq(Calls)
      OBVIOUS
    <2>2. NewRow("none", "none") \in RowType
      BY DEF NewRow, RowType
    <2> QED
      BY <2>1, <2>2 DEF Idle, Procs, Ask
  <1>6. \A h \in Handlers : Sane(Idle, Asks[h], {}, Rights) /\ Placed(Idle)
    <2>1. subIds \in Nat
      BY <1>4, ConsoleAssumption DEF TablesOK
    <2> QED
      BY <1>2, <1>5, <2>1 DEF Sane, Placed
  <1> QED
    BY <1>1, <1>4, <1>5, <1>6 DEF IInv

LEMMA NextKeeps ==
  ASSUME IInv, [Next]_vars
  PROVE  IInv'
  <1>1. CASE UNCHANGED vars
    <2>1. /\ UNCHANGED <<data, proc, had, kept, events>>
      BY <1>1 DEF vars
    <2>2. Keeps /\ TablesOK'
      BY <2>1, SameTables
    <2>3. /\ proc' \in [Handlers -> Procs]
          /\ had' \in [Handlers -> SUBSET Rights]
          /\ kept' \in [Handlers -> SUBSET Rights]
      BY <2>1 DEF IInv
    <2>4. ASSUME NEW h \in Handlers
          PROVE  /\ Sane(proc'[h], Asks[h], had'[h], kept'[h])
                 /\ Placed(proc[h])'
      <3>1. Sane(proc'[h], Asks[h], had'[h], kept'[h])
        BY <2>1 DEF IInv
      <3>2. PICK k : k = proc[h]
        OBVIOUS
      <3>3. k \in Procs /\ Placed(k) /\ proc'[h] = k
        BY <2>1, <3>2 DEF IInv
      <3>4. Placed(k)'
        BY <2>2, <3>3, PlacedOn DEF IInv
      <3> QED
        BY <3>1, <3>3, <3>4 DEF Placed
    <2> QED
      BY <2>2, <2>3, <2>4 DEF IInv
  <1>2. ASSUME NEW h \in Handlers, Step(h) PROVE IInv'
    BY <1>2, BeginStep, CheckStep, IsOwnerStep, FindStep, LoadStep, AskSteps,
       ShowStep, SetRoleStep, DecideStep, InsertSubStep, UpdateSubStep,
       UnsubscribeStep, SaveFormStep, CreateListStep, FirstOwnerStep,
       DeleteListStep, SetTypeStep, SetAdminStep, RecordStep DEF Step, After
  <1>3. ASSUME NEW h \in Handlers, Fault(h) \/ HangUp(h) PROVE IInv'
    BY <1>3, FaultStep, HangUpStep DEF After
  <1>4. Restart => IInv'
    BY RestartStep
  <1>5. Outside => IInv'
    BY OutsideStep
  <1> QED
    BY <1>1, <1>2, <1>3, <1>4, <1>5 DEF Next

\* Every state keeps the inductive invariant.
THEOREM Inductive == Spec => []IInv
  <1>1. Init => IInv
    BY InitIs
  <1>2. IInv /\ [Next]_vars => IInv'
    BY NextKeeps
  <1> QED
    BY <1>1, <1>2, PTL DEF Spec
-----------------------------------------------------------------------------
(***************************************************************************)
(* What follows of the states                                              *)
(***************************************************************************)
\* A request of a handler, or Idle
LEMMA Requests ==
  ASSUME IInv, NEW h \in Handlers
  PROVE  \E k : /\ k = proc[h] /\ k \in Procs /\ Placed(k)
                /\ Begun(h) <=> k.ask.op # "none"
                /\ ~Begun(h) => /\ k.answer = "none" /\ k.shown = {}
                                /\ ~k.wrote /\ ~k.recorded /\ k = Idle
                /\ Begun(h) => /\ k.ask \in Asks[h] /\ OnWay(k)
                               /\ Cleared(k, had[h]) /\ Denial(k, kept[h])
                               /\ Seen(k, had[h]) /\ Trailed(k)
  <1>1. PICK k : k = proc[h]
    OBVIOUS
  <1>2. k \in Procs /\ Placed(k) /\ Sane(k, Asks[h], had[h], kept[h])
    BY <1>1 DEF IInv
  <1>3. Begun(h) <=> k.ask.op # "none"
    BY <1>1 DEF Begun
  <1>4. ~Begun(h) => k = Idle
    BY <1>2, <1>3 DEF Sane
  <1>5. /\ Idle.answer = "none" /\ Idle.shown = {} /\ ~Idle.wrote
        /\ ~Idle.recorded
    BY DEF Idle
  <1>6. Begun(h) => /\ k.ask \in Asks[h] /\ OnWay(k)
                    /\ Cleared(k, had[h]) /\ Denial(k, kept[h])
                    /\ Seen(k, had[h]) /\ Trailed(k)
    BY <1>2, <1>3 DEF Sane
  <1> QED
    BY <1>1, <1>2, <1>3, <1>4, <1>5, <1>6

\* Types, and addresses are of one list each.
THEOREM TypeCorrect == Spec => []CTypeOK
  <1>1. IInv => CTypeOK
    <2>1. SUFFICES ASSUME IInv PROVE CTypeOK
      OBVIOUS
    <2>2. TablesOK
      BY <2>1 DEF IInv
    <2>3. ASSUME NEW h \in Handlers
          PROVE  /\ Begun(h) => proc[h].ask \in Asks[h]
                 /\ proc[h].answer \in {"none", "ok", "denied", "rejected",
                                        "failed", "lost"}
                 /\ Begun(h) => OnWay(proc[h])
                 /\ proc[h].l \in 0 .. listIds /\ proc[h].sub \in 0 .. subIds
      <3>1. PICK k : /\ k = proc[h] /\ k \in Procs /\ Placed(k)
                     /\ Begun(h) => k.ask \in Asks[h] /\ OnWay(k)
        BY <2>1, Requests
      <3>2. k.l \in Nat /\ k.sub \in Nat /\ k.l <= listIds /\ k.sub <= subIds
            /\ k.answer \in {"none", "ok", "denied", "rejected", "failed",
                             "lost"}
        BY <3>1 DEF Procs, Placed
      <3>3. listIds \in Nat /\ subIds \in Nat
        BY <2>2, ConsoleAssumption DEF TablesOK
      <3>4. k.l \in 0 .. listIds /\ k.sub \in 0 .. subIds
        BY <3>2, <3>3
      <3> QED
        BY <3>1, <3>2, <3>4
    <2> QED
      BY <2>2, <2>3 DEF CTypeOK, TablesOK
  <1> QED
    BY <1>1, Inductive, PTL

\* ADR 0016: whoever is shown the members, the mail or the log of a list, or
\* a held message, has had the right to see it while the request ran.
THEOREM SeesHolds == Spec => []SeesWithinRights
  <1>1. IInv => SeesWithinRights
    <2>1. SUFFICES ASSUME IInv, NEW h \in Handlers, NEW x \in proc[h].shown
                   PROVE  CASE x = <<"log", 0>> -> Held(h, {AsAdmin})
                            [] x[1] \in {"members", "log"} /\ x[2] # 0 ->
                                  Held(h, {AsOwner(x[2])})
                            [] x[1] = "post" ->
                                  Held(h, {AsMember(FiledIn[x[2]])})
                            [] x[1] = "held" ->
                                  \/ Held(h, {AsOwner(FiledIn[x[2]]),
                                              AsModerator(FiledIn[x[2]])})
                                  \/ SenderOf[x[2]] = By(h)
                                     /\ Held(h, {Signed})
      BY DEF SeesWithinRights
    <2>2. PICK k : /\ k = proc[h]
                   /\ ~Begun(h) => k.shown = {}
                   /\ Begun(h) => Seen(k, had[h])
      BY <2>1, Requests
    <2>3. Seen(k, had[h]) /\ x \in k.shown /\ By(h) = k.ask.by
      BY <2>1, <2>2 DEF By
    <2>4. \/ x = <<"log", 0>> /\ AsAdmin \subseteq had[h]
          \/ /\ x[1] \in {"members", "log"} /\ x[2] # 0
             /\ AsOwner(x[2]) \subseteq had[h]
          \/ x[1] = "post" /\ AsMember(FiledIn[x[2]]) \subseteq had[h]
          \/ x[1] = "held" /\ Ways(had[h], {AsOwner(FiledIn[x[2]]),
                                            AsModerator(FiledIn[x[2]])})
          \/ /\ x[1] = "held" /\ SenderOf[x[2]] = k.ask.by
             /\ Signed \subseteq had[h]
      BY <2>3 DEF Seen
    <2>5. x = <<"log", 0>> => x[1] = "log" /\ x[2] = 0
      OBVIOUS
    <2>6. CASE x = <<"log", 0>> /\ AsAdmin \subseteq had[h]
      BY <2>5, <2>6 DEF Held
    <2>7. CASE x[1] \in {"members", "log"} /\ x[2] # 0
               /\ AsOwner(x[2]) \subseteq had[h]
      BY <2>5, <2>7 DEF Held
    <2>8. CASE x[1] = "post" /\ AsMember(FiledIn[x[2]]) \subseteq had[h]
      BY <2>5, <2>8 DEF Held
    <2>9. CASE x[1] = "held"
               /\ \/ Ways(had[h], {AsOwner(FiledIn[x[2]]),
                                   AsModerator(FiledIn[x[2]])})
                  \/ SenderOf[x[2]] = By(h) /\ Signed \subseteq had[h]
      BY <2>5, <2>9 DEF Held, Ways
    <2> QED
      BY <2>3, <2>4, <2>6, <2>7, <2>8, <2>9
  <1> QED
    BY <1>1, Inductive, PTL

\* Nobody who had the rights all the while is turned down with 401 or 403.
THEOREM DeniedHolds == Spec => []NoneDeniedWrongly
  <1>1. IInv => NoneDeniedWrongly
    <2>1. SUFFICES ASSUME IInv, NEW h \in Handlers,
                          proc[h].answer = "denied", ~proc[h].struck
                   PROVE  \A w \in Enough(h) : ~(w \subseteq kept[h])
      BY DEF NoneDeniedWrongly
    <2>2. PICK k : /\ k = proc[h]
                   /\ ~Begun(h) => k.answer = "none"
                   /\ Begun(h) => Denial(k, kept[h])
      BY <2>1, Requests
    <2>3. Denial(k, kept[h])
      BY <2>1, <2>2
    <2>4. Enough(h) = Suffices(k)
      BY <2>2 DEF Enough, Suffices, Op, L
    <2> QED
      BY <2>1, <2>2, <2>3, <2>4 DEF Denial
  <1> QED
    BY <1>1, Inductive, PTL

\* ADR 0018: what was changed with a right is on record when the request ends,
\* and what was turned down leaves neither.
THEOREM RecordedHolds == Spec => []ChangesRecorded
  <1>1. IInv => ChangesRecorded
    <2>1. SUFFICES ASSUME IInv, NEW h \in Handlers
                   PROVE  /\ proc[h].wrote /\ ~Running(h) /\ Op(h) \notin Self
                                => proc[h].recorded \/ proc[h].struck
                          /\ proc[h].answer \in {"denied", "rejected"}
                                => ~proc[h].wrote /\ ~proc[h].recorded
      BY DEF ChangesRecorded
    <2>2. PICK k : /\ k = proc[h]
                   /\ ~Begun(h) => k.answer = "none" /\ ~k.wrote
                   /\ Begun(h) => Trailed(k)
      BY <2>1, Requests
    <2> QED
      BY <2>2 DEF Trailed, Running, Op
  <1> QED
    BY <1>1, Inductive, PTL
-----------------------------------------------------------------------------
(***************************************************************************)
(* What a request changes, its caller had the right to                     *)
(***************************************************************************)
\* The steps of the requests
LEMMA StepAfter ==
  ASSUME IInv, NEW g \in Handlers, Step(g)
  PROVE  /\ IInv'
         /\ \/ After(g)
            \/ PartSaved(g) /\ FormWritten(g) /\ SaveForm(g)
            \/ /\ Begin(g) /\ Head(proc'[g].todo)
                                \notin {"description", "instructions"}
               /\ \A h \in Handlers : h # g => proc'[h] = proc[h]
  <1>1. CASE Begin(g)
    BY <1>1, BeginStep
  <1>2. CASE SaveForm(g)
    BY <1>2, SaveFormStep
  <1>3. CASE ~Begin(g) /\ ~SaveForm(g)
    <2>1. After(g)
      BY <1>3, CheckStep, IsOwnerStep, FindStep, LoadStep, AskSteps,
         ShowStep, SetRoleStep, DecideStep, InsertSubStep, UpdateSubStep,
         UnsubscribeStep, CreateListStep, FirstOwnerStep,
         DeleteListStep, SetTypeStep, SetAdminStep, RecordStep DEF Step
    <2> QED
      BY <2>1 DEF After
  <1> QED
    BY <1>1, <1>2, <1>3

\* Only its own steps move a request; a failing call changes no table.
LEMMA Movers ==
  ASSUME IInv, NEW h \in Handlers, Moves(h), [Next]_vars
  PROVE  \/ UNCHANGED data
         \/ /\ Step(h) /\ Running(h) /\ IInv'
            /\ Turn(proc[h], proc'[h])
  <1>1. proc[h] \in Procs
    BY DEF IInv
  <1>2. ASSUME NEW g \in Handlers, Step(g), g # h PROVE FALSE
    <2>1. proc'[h] = proc[h] \/ proc'[h] = [proc[h] EXCEPT !.mixed = TRUE]
      BY <1>2, StepAfter DEF After, PartSaved
    <2>2. proc'[h].todo = proc[h].todo /\ proc'[h].answer = proc[h].answer
      BY <1>1, <2>1 DEF Procs
    <2> QED
      BY <2>2 DEF Moves
  <1>3. CASE Step(h)
    <2>1. Running(h)
      BY DEF Moves
    <2>2. ~Begin(h)
      BY <2>1 DEF Begin, Running
    <2> QED
      BY <1>3, <2>1, <2>2, StepAfter DEF After, PartSaved
  <1>4. CASE UNCHANGED vars
    BY <1>4 DEF vars
  <1>5. (\E g \in Handlers : Fault(g) \/ HangUp(g)) \/ Restart
           => UNCHANGED data
    BY DEF Fault, HangUp, Restart
  <1>6. ASSUME Outside PROVE FALSE
    <2>1. UNCHANGED proc
      BY <1>6 DEF Outside, SwitchManagement, EndSession, CommandAdmin, MailSub,
                  CommandRole, CommandDelete, DropHeld, Change
    <2> QED
      BY <2>1 DEF Moves
  <1> QED
    BY <1>2, <1>3, <1>4, <1>5, <1>6 DEF Next

\* What ActsWithinRights says of a list, and of a step of h
ActsOn(h, i) ==
    /\ Gone(i) => Held(h, {AsAdmin})'
    /\ Came(i) => Held(h, {AsAdmin, AsOwner(i)})'
    /\ row'[i].type # row[i].type =>
         \/ Held(h, {AsAdmin})'
         \/ Held(h, {AsOwner(i)})' /\ row'[i].type = proc[h].copy.type
    /\ ~Gone(i) =>
         /\ \A c \in FormCalls :
              row'[i][c] # row[i][c] => Held(h, {AsOwner(i)})' \/ Came(i)
         /\ \A r \in Roles :
              holders'[r][i] # holders[r][i] =>
                Held(h, {IF Op(h) = "create" THEN AsAdmin ELSE AsOwner(i)})'
         /\ \A r \in Rows :
              FiledIn[r] = i /\ held'[r] # held[r] =>
                Held(h, {AsOwner(i), AsModerator(i)})'
         /\ \A p \in Persons :
              subs'[i][p] # subs[i][p] =>
                \/ Held(h, {AsOwner(i)})'
                \/ p = By(h) /\ Held(h, {Signed})'
                \/ AtReusedAddress(h, i)'

Acts(h) == /\ admins' # admins => Held(h, {AsAdmin})'
           /\ \A i \in Ids : ActsOn(h, i)

LEMMA SameActs ==
  ASSUME NEW h \in Handlers, UNCHANGED data
  PROVE  Acts(h)
  BY DEF data, access, table, members, mail, Acts, ActsOn, Gone, Came

\* The rights of a request that does something
LEMMA RightsNow ==
  ASSUME IInv, NEW h \in Handlers, NEW k, Live(k, h), Note,
         Head(k.todo) \in Doing
  PROVE  LET op == k.ask.op
             H  == had'[h]
         IN  /\ Signed \subseteq H
             /\ op \in Instance => AsAdmin \subseteq H
             /\ op \in Moderates =>
                   AsOwner(k.l) \subseteq H \/ AsModerator(k.l) \subseteq H
             /\ op \in ByOwner =>
                   /\ AsOwner(k.gated) \subseteq H
                   /\ op \notin {"add", "import"} => k.l = k.gated
  <1>1. had[h] \subseteq had'[h]
    BY Noted
  <1>2. /\ Instance \cap (Self \cup Archive) = {}
        /\ Moderates \cap (Self \cup Archive) = {}
        /\ ByOwner \cap (Self \cup Archive) = {}
    BY DEF Instance, Moderates, ByOwner, Self, Archive
  <1> QED
    BY <1>1, <1>2, Passed
    DEF Signed, AsAdmin, AsOwner, AsModerator, Managing

\* The owner of one list acts.
LEMMA OwnerActs ==
  ASSUME NEW h \in Handlers, NEW l, AsOwner(l) \subseteq had'[h],
         UNCHANGED admins, Op(h)' # "create", lists \subseteq lists',
         UNCHANGED held, lists' \subseteq lists \cup {l},
         \A i \in Ids : i # l => /\ row'[i] = row[i] /\ subs'[i] = subs[i]
                                 /\ \A r \in Roles :
                                       holders'[r][i] = holders[r][i],
         l \in Ids /\ row'[l].type # row[l].type =>
            row'[l].type = proc[h].copy.type
  PROVE  Acts(h)
  <1>1. ASSUME NEW i \in Ids PROVE ActsOn(h, i)
    <2>1. ~Gone(i)
      BY DEF Gone
    <2>2. CASE i = l
      <3>1. Held(h, {AsOwner(i)})' /\ Held(h, {AsAdmin, AsOwner(i)})'
            /\ Held(h, {IF Op(h) = "create" THEN AsAdmin ELSE AsOwner(i)})'
        BY <2>2 DEF Held
      <3> QED
        BY <1>1, <2>1, <2>2, <3>1 DEF ActsOn
    <2>3. CASE i # l
      <3>1. ~Came(i)
        BY <2>3 DEF Came
      <3> QED
        BY <1>1, <2>1, <2>3, <3>1 DEF ActsOn
    <2> QED
      BY <2>2, <2>3
  <1> QED
    BY <1>1 DEF Acts

\* An Administrator acts.
LEMMA AdminActs ==
  ASSUME NEW h \in Handlers, AsAdmin \subseteq had'[h],
         \A i \in Ids : ~Gone(i) =>
            /\ \A c \in FormCalls : row'[i][c] # row[i][c] => Came(i)
            /\ \A r \in Roles : holders'[r][i] # holders[r][i] =>
                  Op(h)' = "create"
            /\ \A r \in Rows : FiledIn[r] = i => held'[r] = held[r]
            /\ \A p \in Persons : subs'[i][p] = subs[i][p]
  PROVE  Acts(h)
  <1>1. /\ Held(h, {AsAdmin})'
        /\ Op(h)' = "create" => \A i : Held(h, {IF Op(h) = "create" THEN AsAdmin
                                                ELSE AsOwner(i)})'
        /\ \A i : Held(h, {AsAdmin, AsOwner(i)})'
    BY DEF Held
  <1>2. ASSUME NEW i \in Ids PROVE ActsOn(h, i)
    BY <1>1, <1>2 DEF ActsOn
  <1> QED
    BY <1>1, <1>2 DEF Acts

\* Subscriptions of one Subscriber to one list change.
LEMMA SubActs ==
  ASSUME NEW h \in Handlers, UNCHANGED <<admins, lists, row, holders, held>>,
         NEW l \in Ids, NEW q \in Persons,
         \A i \in Ids, p \in Persons :
            ~(i = l /\ p = q) => subs'[i][p] = subs[i][p],
         \/ AsOwner(l) \subseteq had'[h]
         \/ q = By(h) /\ Signed \subseteq had'[h]
         \/ AtReusedAddress(h, l)'
  PROVE  Acts(h)
  <1>1. \/ Held(h, {AsOwner(l)})'
        \/ q = By(h) /\ Held(h, {Signed})'
        \/ AtReusedAddress(h, l)'
    BY DEF Held
  <1>2. ASSUME NEW i \in Ids PROVE ActsOn(h, i)
    <2>1. ~Gone(i) /\ ~Came(i)
      BY DEF Gone, Came
    <2> QED
      BY <1>1, <1>2, <2>1 DEF ActsOn
  <1> QED
    BY <1>2 DEF Acts

\* The writes with the rights of an owner or a moderator of the list found
LEMMA ListWritesAct ==
  ASSUME IInv, NEW h \in Handlers, Running(h), Turn(proc[h], proc'[h]),
         SetRole(h) \/ Decide(h) \/ SaveForm(h)
  PROVE  Acts(h)
  <1>1. PICK k : Live(k, h)
    BY Lives
  <1>2. /\ Head(k.todo) = Call(h) /\ k = proc[h] /\ Op(h) = k.ask.op
        /\ L(h) = k.l /\ Fit(k.ask.op, Call(h)) /\ k.ask \in AllAsks
        /\ Op(h)' = k.ask.op
    BY <1>1 DEF Live, Call, Op, L, Turn
  <1>3. CASE SetRole(h)
    <2>1. Call(h) = "setRole" /\ Note
          /\ UNCHANGED <<access, table, members, mail>>
      BY <1>3 DEF SetRole, At, Answer, Wrote, Goto
    <2>2. k.ask.op \in {"grant", "revoke"} /\ Head(k.todo) \in Doing
      BY <1>2, <2>1 DEF Fit, Doing, WriteCalls
    <2>3. k.ask.op \in ByOwner /\ k.ask.op \notin {"add", "import", "create"}
          /\ k.ask.op \notin Self \cup Instance
      BY <2>2 DEF ByOwner, Ops, Self, Archive, Instance, Moderates
    <2>4. AsOwner(k.l) \subseteq had'[h]
      BY <1>1, <2>1, <2>2, <2>3, RightsNow
    <2>5. /\ UNCHANGED <<admins, lists, row, subs, held>>
      BY <2>1 DEF access, table, members, mail
    <2>6. k.ask.role \in Roles /\ k.l \in Ids
      BY <1>1, <1>2, <2>2, <2>3, AskIs, ListFound
    <2>7. \A i \in Ids : i # k.l =>
             \A r \in Roles : holders'[r][i] = holders[r][i]
      <3>1. holders \in [Roles -> [Ids -> SUBSET Persons]]
        BY DEF IInv, TablesOK
      <3>2. \/ holders' = holders
            \/ holders' = [holders EXCEPT ![k.ask.role][k.l] =
                             IF Op(h) = "grant" THEN @ \cup {Who(h)}
                                                ELSE @ \ {Who(h)}]
        BY <1>2, <1>3 DEF SetRole
      <3> QED
        BY <2>6, <3>1, <3>2
    <2>8. lists \subseteq lists' /\ lists' \subseteq lists \cup {k.l}
      BY <2>5
    <2>9. Op(h)' # "create"
      BY <1>2, <2>3
    <2> QED
      BY <2>4, <2>5, <2>7, <2>8, <2>9, OwnerActs
  <1>4. CASE Decide(h)
    <2>1. /\ Call(h) = "decide" /\ Note
          /\ UNCHANGED <<access, table, holders, members>>
          /\ held' = [held EXCEPT ![k.ask.n] = 0]
      BY <1>2, <1>4 DEF Decide, At, Wrote, Goto
    <2>2. k.ask.op = "moderate" /\ Head(k.todo) \in Doing
          /\ Head(k.todo) \in WriteCalls \ {"insert"}
      BY <1>2, <2>1 DEF Fit, Doing, WriteCalls
    <2>3. k.ask.op \in Moderates
      BY <2>2 DEF Moderates
    <2>4. AsOwner(k.l) \subseteq had'[h] \/ AsModerator(k.l) \subseteq had'[h]
      BY <1>1, <2>1, <2>2, <2>3, RightsNow
    <2>5. FiledIn[k.ask.n] = k.l
      BY <1>1, <2>2, Loaded1 DEF Live, Checked
    <2>6. UNCHANGED <<admins, lists, row, holders, subs>>
      BY <2>1 DEF access, table, members
    <2>7. ASSUME NEW r \in Rows, held'[r] # held[r]
          PROVE  Held(h, {AsOwner(FiledIn[r]), AsModerator(FiledIn[r])})'
      <3>1. r = k.ask.n
        BY <2>1, <2>7 DEF IInv, TablesOK
      <3> QED
        BY <2>4, <2>5, <3>1 DEF Held
    <2>8. ASSUME NEW i \in Ids PROVE ActsOn(h, i)
      <3>1. ~Gone(i) /\ ~Came(i)
        BY <2>6 DEF Gone, Came
      <3>2. \A r \in Rows : FiledIn[r] = i /\ held'[r] # held[r] =>
                Held(h, {AsOwner(i), AsModerator(i)})'
        BY <2>7
      <3> QED
        BY <2>6, <3>1, <3>2 DEF ActsOn
    <2> QED
      BY <2>6, <2>8 DEF Acts
  <1>5. CASE SaveForm(h)
    <2>1. /\ Call(h) \in FormCalls /\ Note
          /\ UNCHANGED <<access, holders, members, mail>>
      BY <1>5 DEF SaveForm, Saving, SavedPart, Answer, Goto
    <2>2. k.ask.op = "save" /\ Head(k.todo) \in Doing
      BY <1>2, <2>1 DEF Fit, Doing, WriteCalls
    <2>3. k.ask.op \in ByOwner /\ k.ask.op \notin {"add", "import", "create"}
          /\ k.ask.op \notin Self \cup Instance
      BY <2>2 DEF ByOwner, Ops, Self, Archive, Instance, Moderates
    <2>4. AsOwner(k.l) \subseteq had'[h]
      BY <1>1, <2>1, <2>2, <2>3, RightsNow
    <2>5. UNCHANGED <<admins, holders, subs, held>>
      BY <2>1 DEF access, members, mail
    <2>6. k.l \in Ids /\ row \in [Ids -> RowType] /\ k.copy \in RowType
      BY <1>1, <2>2, <2>3, ListFound DEF IInv, TablesOK, Live, Procs
    <2>7. lists' \in {lists, lists \cup {k.l}}
      BY <1>2, <1>5 DEF SaveForm
    <2>8. \/ row' = row
          \/ row' = [row EXCEPT ![k.l] = [k.copy EXCEPT !.settings = h]]
          \/ row' = [row EXCEPT ![k.l][Call(h)] = h] /\ Call(h) # "settings"
      BY <1>2, <1>5 DEF SaveForm
    <2>9. \A i \in Ids : i # k.l => row'[i] = row[i]
      BY <2>6, <2>8
    <2>10. row'[k.l].type # row[k.l].type => row'[k.l].type = k.copy.type
      <3>1. CASE row' = [row EXCEPT ![k.l] = [k.copy EXCEPT !.settings = h]]
        <4>1. row'[k.l] = [k.copy EXCEPT !.settings = h]
          BY <2>6, <3>1
        <4> QED
          BY <2>6, <4>1 DEF RowType
      <3>2. CASE row' = [row EXCEPT ![k.l][Call(h)] = h]
                 /\ Call(h) # "settings"
        <4>1. PICK x : x = row[k.l]
          OBVIOUS
        <4>2. x \in RowType
          BY <2>6, <4>1
        <4>3. row'[k.l] = [x EXCEPT ![Call(h)] = h]
          BY <2>6, <3>2, <4>1
        <4>4. \/ row'[k.l] = [x EXCEPT !.description = h]
              \/ row'[k.l] = [x EXCEPT !.instructions = h]
          BY <2>1, <3>2, <4>3 DEF FormCalls
        <4>5. row'[k.l].type = x.type
          BY <4>2, <4>4 DEF RowType
        <4> QED
          BY <4>1, <4>5
      <3> QED
        BY <2>8, <3>1, <3>2
    <2>11. lists \subseteq lists' /\ lists' \subseteq lists \cup {k.l}
      BY <2>7
    <2>12. Op(h)' # "create"
      BY <1>2, <2>3
    <2> QED
      BY <1>2, <2>4, <2>5, <2>9, <2>10, <2>11, <2>12, OwnerActs
  <1> QED
    BY <1>3, <1>4, <1>5

\* The writes of an Administrator
LEMMA InstanceWritesAct ==
  ASSUME IInv, NEW h \in Handlers, Running(h), Turn(proc[h], proc'[h]),
         \/ CreateList(h) \/ FirstOwner(h) \/ DeleteList(h) \/ SetType(h)
         \/ SetAdmin(h)
  PROVE  Acts(h)
  <1>1. PICK k : Live(k, h)
    BY Lives
  <1>2. /\ Head(k.todo) = Call(h) /\ k = proc[h] /\ Op(h) = k.ask.op
        /\ L(h) = k.l /\ Fit(k.ask.op, Call(h)) /\ Op(h)' = k.ask.op
    BY <1>1 DEF Live, Call, Op, L, Turn
  <1>3. /\ Call(h) \in {"createList", "firstOwner", "deleteList", "setType",
                        "setAdmin"}
        /\ Note
    BY DEF CreateList, FirstOwner, DeleteList, SetType, SetAdmin, At, Answer,
           Wrote, Goto
  <1>4. k.ask.op \in Instance /\ Head(k.todo) \in Doing
    BY <1>2, <1>3 DEF Fit, Instance, Doing, WriteCalls
  <1>5. AsAdmin \subseteq had'[h]
    BY <1>1, <1>3, <1>4, RightsNow
  <1>6. /\ row \in [Ids -> RowType] /\ lists \subseteq 1 .. listIds
        /\ listIds \in Nat /\ held \in [Rows -> Nat]
        /\ holders \in [Roles -> [Ids -> SUBSET Persons]]
        /\ subs \in [Ids -> [Persons -> SubsUpTo(subIds)]]
        /\ \A r \in Rows : held[r] \in {0, FiledIn[r]}
    BY ConsoleAssumption DEF IInv, TablesOK, SubsOK
  <1>7. CASE CreateList(h)
    <2>1. /\ UNCHANGED <<holders, subs, held>>
          /\ \/ row' = row
             \/ /\ listIds' = listIds + 1 /\ lists' = lists \cup {listIds'}
                /\ row' = [row EXCEPT ![listIds'] =
                             NewRow(proc[h].ask.addr, "discussion")]
      BY <1>7 DEF CreateList, table, members, mail
    <2>2. ASSUME NEW i \in Ids, row'[i] # row[i] PROVE Came(i)
      <3>1. i = listIds' /\ listIds' = listIds + 1
            /\ lists' = lists \cup {listIds'}
        BY <1>6, <2>1, <2>2
      <3>2. i \notin lists
        BY <1>6, <3>1
      <3> QED
        BY <3>1, <3>2 DEF Came
    <2> QED
      BY <1>5, <2>1, <2>2, AdminActs
  <1>8. CASE FirstOwner(h)
    <2>1. UNCHANGED <<row, subs, held>> /\ Op(h)' = "create"
      BY <1>2, <1>3, <1>8 DEF FirstOwner, table, members, mail, At, Fit
    <2> QED
      BY <1>5, <2>1, AdminActs
  <1>9. CASE DeleteList(h)
    <2>1. CASE UNCHANGED data
      BY <2>1, SameActs
    <2>2. ASSUME NEW j \in lists, RemoveList(j) PROVE Acts(h)
      <3>1. /\ lists' = lists \ {j} /\ row' = row
            /\ holders' = [r \in Roles |-> [holders[r] EXCEPT ![j] = {}]]
            /\ subs' = [subs EXCEPT ![j] = [p \in Persons |-> NoSub]]
            /\ held' = [r \in Rows |-> IF held[r] = j THEN 0 ELSE held[r]]
        BY <2>2 DEF RemoveList
      <3>2. Gone(j) /\ j # 0
        BY <1>6, <2>2, <3>1 DEF Gone
      <3>3. ASSUME NEW i \in Ids, ~Gone(i)
            PROVE  /\ \A r \in Roles : holders'[r][i] = holders[r][i]
                   /\ \A r \in Rows : FiledIn[r] = i => held'[r] = held[r]
                   /\ \A p \in Persons : subs'[i][p] = subs[i][p]
        <4>1. i # j
          BY <3>2, <3>3
        <4>2. \A r \in Roles : holders'[r][i] = holders[r][i]
          BY <1>6, <3>1, <4>1
        <4>3. \A r \in Rows : FiledIn[r] = i => held'[r] = held[r]
          BY <1>6, <3>1, <3>2, <4>1
        <4>4. \A p \in Persons : subs'[i][p] = subs[i][p]
          BY <1>6, <3>1, <4>1
        <4> QED
          BY <4>2, <4>3, <4>4
      <3> QED
        BY <1>5, <3>1, <3>3, AdminActs
    <2> QED
      BY <1>9, <2>1, <2>2 DEF DeleteList
  <1>10. CASE SetType(h)
    <2>1. UNCHANGED <<holders, subs, held>>
      BY <1>10 DEF SetType, members, mail
    <2>2. PICK t \in Types : row' = IF L(h) \in lists
                                    THEN [row EXCEPT ![L(h)].type = t]
                                    ELSE row
      BY <1>10 DEF SetType
    <2>3. ASSUME NEW i \in Ids, NEW c \in FormCalls
          PROVE  row'[i][c] = row[i][c]
      <3>1. PICK x : x = row[i]
        OBVIOUS
      <3>2. x \in RowType
        BY <1>6, <3>1
      <3>3. row'[i] = x \/ row'[i] = [x EXCEPT !.type = t]
        BY <1>6, <2>2, <3>1
      <3>4. /\ row'[i].settings = x.settings
            /\ row'[i].description = x.description
            /\ row'[i].instructions = x.instructions
        BY <3>2, <3>3 DEF RowType
      <3> QED
        BY <2>3, <3>1, <3>4 DEF FormCalls
    <2> QED
      BY <1>5, <2>1, <2>3, AdminActs
  <1>11. CASE SetAdmin(h)
    <2>1. UNCHANGED <<row, holders, subs, held>>
      BY <1>11 DEF SetAdmin, table, members, mail
    <2> QED
      BY <1>5, <2>1, AdminActs
  <1> QED
    BY <1>7, <1>8, <1>9, <1>10, <1>11

\* The writes to a subscription
LEMMA SubWritesAct ==
  ASSUME IInv, IInv', NEW h \in Handlers, Running(h),
         Turn(proc[h], proc'[h]),
         InsertSub(h) \/ UpdateSub(h) \/ Unsubscribe(h)
  PROVE  Acts(h)
  <1>1. PICK k : Live(k, h)
    BY Lives
  <1>2. /\ Head(k.todo) = Call(h) /\ k = proc[h] /\ Op(h) = k.ask.op
        /\ L(h) = k.l /\ Fit(k.ask.op, Call(h)) /\ By(h) = k.ask.by
        /\ Placed(k)
    BY <1>1 DEF Live, Call, Op, L, By
  <1>3. /\ Call(h) \in {"insert", "activate", "reenable", "reset", "setMode",
                        "unsubscribe"}
        /\ Note /\ UNCHANGED <<admins, lists, row, holders, held>>
        /\ UNCHANGED <<table, listIds>>
    BY DEF InsertSub, UpdateSub, Unsubscribe, At, Answer, Wrote, Goto,
           access, table, mail
  <1>4. k.ask.op \in OnSubs /\ Head(k.todo) \in Doing
    BY <1>2, <1>3 DEF Fit, OnSubs, OfSub, Doing, WriteCalls
  <1>5. /\ SubList(h) \in Ids /\ Who(h) \in Persons /\ Who(h) = k.ask.who
        /\ k.ask.op \notin Self => SubList(h) = k.l
    BY <1>1, <1>4, SubIs
  <1>6. \A i \in Ids, p \in Persons :
           ~(i = SubList(h) /\ p = Who(h)) => subs'[i][p] = subs[i][p]
    <2>1. subs \in [Ids -> [Persons -> SubsUpTo(subIds)]]
      BY DEF IInv, TablesOK, SubsOK
    <2>2. InsertSub(h) => SubList(h) = L(h)
      <3>1. InsertSub(h) => k.ask.op \in {"add", "import"}
        BY <1>2 DEF InsertSub, At, Fit
      <3> QED
        BY <1>2, <1>5, <3>1 DEF Self
    <2>3. \/ subs' = subs
          \/ subs' = [subs EXCEPT ![SubList(h)][Who(h)] =
                        [NoSub EXCEPT !.row = subIds', !.status = "pending"]]
          \/ subs' = [subs EXCEPT ![SubList(h)][Who(h)] = Updated(@, Call(h))]
          \/ subs' = [subs EXCEPT ![SubList(h)][Who(h)] = NoSub]
      BY <2>2 DEF InsertSub, UpdateSub, Unsubscribe, members
    <2> QED
      BY <1>5, <2>1, <2>3
  <1>7. CASE k.ask.op \in Self
    <2>1. k.ask.op \in OfSub /\ Head(k.todo) \in WriteCalls \ {"insert"}
      BY <1>2, <1>3, <1>4, <1>7 DEF OnSubs, Self, OfSub, Fit, WriteCalls
    <2>2. Who(h) = By(h)
      BY <1>1, <1>2, <1>5, <2>1, Loaded1 DEF Live, Checked
    <2>3. Signed \subseteq had'[h]
      BY <1>1, <1>3, <1>4, RightsNow
    <2> QED
      BY <1>3, <1>5, <1>6, <2>2, <2>3, SubActs
  <1>8. CASE k.ask.op \notin Self
    <2>1. k.ask.op \in ByOwner /\ k.ask.op \notin Self \cup Instance
      BY <1>4, <1>8 DEF OnSubs, OfSub, ByOwner, Ops, Self, Archive, Instance,
                        Moderates
    <2>2. SubList(h) = k.l
      BY <1>5, <1>8
    <2>3. /\ AsOwner(k.gated) \subseteq had'[h]
          /\ k.ask.op \notin {"add", "import"} => k.l = k.gated
      BY <1>1, <1>3, <1>4, <2>1, RightsNow
    <2>4. CASE k.l = k.gated
      <3>1. AsOwner(SubList(h)) \subseteq had'[h]
        BY <2>2, <2>3, <2>4
      <3> QED
        BY <1>3, <1>5, <1>6, <3>1, SubActs
    <2>5. CASE k.l # k.gated
      <3>1. k.ask.op \in {"add", "import"} /\ k.gated # 0 /\ k.l # 0
        BY <1>1, <1>4, <2>1, <2>3, <2>5, Passed
      <3>2. row[k.gated].addr = row[k.l].addr
        BY <1>2, <3>1 DEF Placed
      <3>3. proc'[h].ask = k.ask /\ proc'[h].gated = k.gated
        BY <1>2, <1>3 DEF Turn
      <3>4. row'[k.gated].addr = row'[k.l].addr
        BY <1>3, <3>2
      <3>5. AtReusedAddress(h, k.l)'
        BY <2>3, <2>5, <3>1, <3>3, <3>4 DEF AtReusedAddress, Op
      <3>6. k.l \in Ids
        BY <1>5, <2>2
      <3>7. \A i \in Ids, p \in Persons :
              ~(i = k.l /\ p = Who(h)) => subs'[i][p] = subs[i][p]
        BY <1>6, <2>2
      <3> QED
        BY <1>3, <1>5, <3>5, <3>6, <3>7, SubActs
    <2> QED
      BY <2>4, <2>5
  <1> QED
    BY <1>7, <1>8

\* ADR 0016 and 0017: whatever a request changes, its caller had the right to
\* at some time while it ran, for the very list, message or subscription; with
\* the exceptions ActsWithinRights names.
THEOREM ActsHolds == Spec => ActsWithinRights
  <1>1. ASSUME IInv, [Next]_vars, NEW h \in Handlers, Moves(h)
        PROVE  Acts(h)
    <2>1. CASE UNCHANGED data
      BY <2>1, SameActs
    <2>2. CASE /\ Step(h) /\ Running(h) /\ IInv'
               /\ Turn(proc[h], proc'[h])
      <3>1. ~Begin(h)
        BY <2>2 DEF Begin, Running
      <3>2. CASE \/ Check(h) \/ IsOwner(h) \/ Find(h) \/ Load(h)
                 \/ Reload(h) \/ LoadList(h) \/ Guard(h) \/ Show(h)
                 \/ Record(h)
        <4>1. UNCHANGED data
          BY <3>2 DEF Check, IsOwner, Find, Load, Reload, LoadList, Guard,
                      Show, Record
        <4> QED
          BY <4>1, SameActs
      <3>3. CASE SetRole(h) \/ Decide(h) \/ SaveForm(h)
        BY <1>1, <2>2, <3>3, ListWritesAct
      <3>4. CASE InsertSub(h) \/ UpdateSub(h) \/ Unsubscribe(h)
        BY <1>1, <2>2, <3>4, SubWritesAct
      <3>5. CASE \/ CreateList(h) \/ FirstOwner(h) \/ DeleteList(h)
                 \/ SetType(h) \/ SetAdmin(h)
        BY <1>1, <2>2, <3>5, InstanceWritesAct
      <3> QED
        BY <2>2, <3>1, <3>2, <3>3, <3>4, <3>5 DEF Step
    <2> QED
      BY <1>1, <2>1, <2>2, Movers
  <1>2. ASSUME IInv, [Next]_vars
        PROVE  [\A h \in Handlers : Moves(h) => Acts(h)]_vars
    BY <1>1, <1>2
  <1> QED
    BY <1>2, Inductive, PTL DEF Spec, ActsWithinRights, Acts, ActsOn
-----------------------------------------------------------------------------
(***************************************************************************)
(* The parts of a form                                                     *)
(***************************************************************************)
\* The forms of the lists stay, and new ones are whole.
FormKept(i) == /\ row'[i].settings = row[i].settings
               /\ row'[i].description = row[i].description
               /\ row'[i].instructions = row[i].instructions
FormsKept == \A i \in lists' : \/ i \in lists /\ FormKept(i)
                               \/ i \notin 1 .. listIds /\ WholeForm(i)'

\* A request saves no part, and does not stop being one that did.
Calm(g) == \/ proc'[g] = proc[g]
           \/ /\ \A i : Mixing(g, i) => Mixing(g, i)'
              /\ Saving(g)' => Call(g)' = "settings"

LEMMA SameMixing ==
  ASSUME NEW g \in Handlers, proc'[g] = proc[g]
  PROVE  /\ \A i : Mixing(g, i) => Mixing(g, i)'
         /\ Saving(g)' <=> Saving(g)
         /\ L(g)' = L(g) /\ Call(g)' = Call(g)
  BY DEF Mixing, Op, L, Saving, Running, Begun, Call

LEMMA FormRest ==
  ASSUME IInv, FormInv, FormsKept, \A g \in Handlers : Calm(g)
  PROVE  FormInv'
  <1>1. ASSUME NEW i \in lists'
        PROVE  WholeForm(i)' \/ \E g \in Handlers : Mixing(g, i)'
    <2>1. CASE i \in lists /\ FormKept(i)
      <3>1. CASE WholeForm(i)
        BY <2>1, <3>1 DEF FormKept, WholeForm
      <3>2. ASSUME NEW g \in Handlers, Mixing(g, i)
            PROVE  Mixing(g, i)'
        BY <3>2, SameMixing DEF Calm
      <3> QED
        BY <2>1, <3>1, <3>2 DEF FormInv
    <2> QED
      BY <1>1, <2>1 DEF FormsKept
  <1>2. ASSUME NEW g \in Handlers PROVE HalfSaved(g)'
    <2>1. CASE proc'[g] = proc[g]
      <3>1. SUFFICES ASSUME Saving(g), ~proc[g].mixed, L(g) \in lists'
                     PROVE  /\ Call(g) = "description" =>
                                  row'[L(g)].settings = g
                            /\ Call(g) = "instructions" =>
                                  /\ row'[L(g)].settings = g
                                  /\ row'[L(g)].description = g
        BY <2>1, SameMixing DEF HalfSaved
      <3>2. PICK k : Live(k, g)
        BY <3>1, Lives DEF Saving
      <3>3. L(g) = k.l /\ k.l <= listIds /\ k.l \in Nat /\ listIds \in Nat
            /\ Head(k.todo) \in Doing /\ k.ask.op = "save"
        BY <3>1, <3>2, ConsoleAssumption
        DEF Live, L, Placed, Procs, IInv, TablesOK, Saving, Call, Fit, Doing,
            WriteCalls
      <3>4. k.l # 0
        BY <3>2, <3>3, Passed DEF Self, Instance
      <3>5. L(g) \in lists /\ FormKept(L(g))
        BY <3>1, <3>3, <3>4 DEF FormsKept
      <3> QED
        BY <3>1, <3>5 DEF FormInv, HalfSaved, FormKept
    <2>2. CASE Saving(g)' => Call(g)' = "settings"
      BY <2>2 DEF HalfSaved
    <2> QED
      BY <2>1, <2>2 DEF Calm
  <1> QED
    BY <1>1, <1>2 DEF FormInv

LEMMA TablesForms ==
  ASSUME UNCHANGED row, lists' \subseteq lists
  PROVE  FormsKept
  BY DEF FormsKept, FormKept

\* What a request that has saved a part still does
LEMMA SavedThen ==
  ASSUME NEW h \in Handlers, NEW k, Live(k, h), k.ask.op = "save", k.wrote
  PROVE  Head(k.todo) \in {"description", "instructions"} \cup Records
  BY DEF Live, Trailed, AfterWrite, Fit, Records

\* A step that saves no part
LEMMA StepsCalm ==
  ASSUME IInv, NEW h \in Handlers, Step(h), ~SaveForm(h)
  PROVE  \A g \in Handlers : Calm(g)
  <1>1. CASE Begin(h)
    <2>1. ~Begun(h)
      BY <1>1 DEF Begin
    <2>2. proc[h].wrote = FALSE
      BY <2>1, Requests
    <2>3. \A i : ~Mixing(h, i)
      BY <2>2 DEF Mixing
    <2>4. /\ Head(proc'[h].todo) \notin {"description", "instructions"}
          /\ \A g \in Handlers : g # h => proc'[g] = proc[g]
      BY <1>1, BeginStep
    <2>5. Saving(h)' => Call(h)' = "settings"
      BY <2>4 DEF Saving, Call, FormCalls
    <2> QED
      BY <2>3, <2>4, <2>5 DEF Calm
  <1>2. CASE ~Begin(h)
    <2>1. Running(h) /\ Call(h) \notin FormCalls
          /\ (Call(h) \in Records => Record(h))
      BY <1>2 DEF Step, Check, IsOwner, Find, Load, Reload, LoadList, Guard,
                  Show, SetRole, Decide, InsertSub, UpdateSub, Unsubscribe,
                  CreateList, FirstOwner, DeleteList, SetType, SetAdmin,
                  Record, At, FormCalls, Records, Gates
    <2>2. After(h)
      BY <1>2, StepAfter
    <2>3. PICK k : Live(k, h)
      BY <2>1, Lives
    <2>4. Head(k.todo) = Call(h) /\ k = proc[h] /\ k \in Procs
          /\ Op(h) = k.ask.op /\ L(h) = k.l
      BY <2>3 DEF Live, Call, Op, L
    <2>5. Saving(h)' => Call(h)' = "settings"
      BY <2>1, <2>2, <2>4
      DEF After, Turn, Saving, Running, Call, FormCalls
    <2>6. ASSUME NEW i, Mixing(h, i) PROVE Mixing(h, i)'
      <3>1. k.ask.op = "save" /\ k.wrote /\ k.l = i /\ (k.struck \/ k.mixed)
        BY <2>1, <2>4, <2>6 DEF Mixing, Saving
      <3>2. Head(k.todo) \in {"description", "instructions"} \cup Records
        BY <2>3, <3>1, SavedThen
      <3>3. Record(h)
        BY <2>1, <2>4, <3>2 DEF FormCalls
      <3>4. PICK m : m = [k EXCEPT !.recorded = TRUE]
        OBVIOUS
      <3>5. m \in Procs /\ m.ask = k.ask /\ m.l = k.l /\ m.wrote = k.wrote
            /\ m.struck = k.struck /\ m.mixed = k.mixed
            /\ m.todo = k.todo /\ m.answer = k.answer
        BY <2>4, <3>4 DEF Procs
      <3>6. m.ask \in AllAsks /\ OnWay(m) /\ m.answer = "none"
        BY <2>3, <3>5 DEF Live, OnWay
      <3>7. PICK n : n = Advance(m)
        OBVIOUS
      <3>8. Alike(m, n)
        BY <3>5, <3>6, <3>7, Advances
      <3>9. proc'[h] = n
        BY <2>4, <3>3, <3>4, <3>7 DEF Record, Goto, IInv
      <3> QED
        BY <3>1, <3>5, <3>8, <3>9 DEF Alike, Mixing, Op, L
    <2> QED
      BY <2>2, <2>5, <2>6 DEF After, Calm
  <1> QED
    BY <1>1, <1>2

\* A failing call, a hang-up and a restart
LEMMA StruckCalm ==
  ASSUME NEW h \in Handlers, NEW n, n = proc'[h],
         n.ask = proc[h].ask, n.l = proc[h].l, n.wrote = proc[h].wrote,
         n.struck, Saving(h)' => Call(h)' = "settings"
  PROVE  Calm(h)
  BY DEF Calm, Mixing, Op, L

LEMMA FaultCalm ==
  ASSUME IInv, NEW h \in Handlers, Fault(h)
  PROVE  \A g \in Handlers : Calm(g)
  <1>1. After(h)
    BY FaultStep
  <1>2. Running(h) /\ Goto(h, AfterError(h))
    BY DEF Fault
  <1>3. PICK k : k = proc[h]
    OBVIOUS
  <1>4. k \in Procs
    BY <1>3 DEF IInv
  <1>5. PICK p : p = [k EXCEPT !.struck = TRUE]
    OBVIOUS
  <1>6. PICK n : n = AfterError(h)
    OBVIOUS
  <1>7. proc'[h] = n
    BY <1>2, <1>6 DEF Goto, IInv
  <1>8. /\ n \in {Advance(p), ToRecord(p), Answered(p, "denied"),
                  Answered(p, "rejected"), Answered(p, "failed")}
        /\ Call(h) \in FormCalls => n = Answered(p, "failed")
    BY <1>3, <1>5, <1>6 DEF AfterError, FormCalls, Gates
  <1>9. /\ p.ask = k.ask /\ p.l = k.l /\ p.wrote = k.wrote /\ p.struck = TRUE
        /\ p \in Procs
    BY <1>4, <1>5 DEF Procs
  <1>10. n.ask = k.ask /\ n.l = k.l /\ n.wrote = k.wrote /\ n.struck = TRUE
    BY <1>8, <1>9 DEF Advance, ToRecord, Answered, Procs
  <1>11. Call(h) \in FormCalls => n.answer = "failed"
    BY <1>8, <1>9 DEF Answered, Procs
  <1>12. Saving(h)' => Call(h)' = "settings"
    <2>1. SUFFICES ASSUME Saving(h)' PROVE Call(h)' = "settings"
      OBVIOUS
    <2>2. n.answer = "none" /\ Call(h)' = Head(n.todo)
          /\ Call(h)' \in FormCalls
      BY <1>7, <2>1 DEF Saving, Running, Call
    <2>3. Call(h) \notin FormCalls /\ Call(h) = Head(k.todo)
      BY <1>3, <1>11, <2>2 DEF Call
    <2> QED
      BY <1>1, <1>3, <1>7, <2>2, <2>3 DEF After, Turn, FormCalls
  <1>13. Calm(h)
    BY <1>3, <1>7, <1>10, <1>12, StruckCalm
  <1> QED
    BY <1>1, <1>13 DEF After, Calm

LEMMA LostCalm ==
  ASSUME IInv, NEW h \in Handlers, proc'[h] = Lost(proc[h]), Running(h)
  PROVE  Calm(h)
  <1>1. PICK k : Live(k, h)
    BY Lives
  <1>2. PICK n : n = Lost(k)
    OBVIOUS
  <1>3. Ends(k, n) /\ n.struck /\ k = proc[h] /\ proc'[h] = n
    BY <1>1, <1>2, LostEnds DEF Live
  <1>4. ~(Saving(h)')
    BY <1>3 DEF Ends, Saving, Running
  <1> QED
    BY <1>3, <1>4, StruckCalm DEF Ends

\* The lists' forms, when no part is saved
LEMMA StepsForms ==
  ASSUME IInv, NEW h \in Handlers, Step(h), ~SaveForm(h)
  PROVE  FormsKept
  <1>1. /\ row \in [Ids -> RowType] /\ lists \subseteq 1 .. listIds
        /\ listIds \in Nat /\ listIds <= MaxLists
    BY ConsoleAssumption DEF IInv, TablesOK
  <1>2. lists \subseteq Ids
    BY <1>1, ConsoleAssumption DEF Ids
  <1>3. CASE CreateList(h)
    <2>1. CASE UNCHANGED table
      BY <2>1, TablesForms DEF table
    <2>2. CASE /\ listIds < MaxLists /\ listIds' = listIds + 1
               /\ lists' = lists \cup {listIds'}
               /\ row' = [row EXCEPT ![listIds'] =
                            NewRow(proc[h].ask.addr, "discussion")]
      <3>1. PICK i : i = listIds'
        OBVIOUS
      <3>2. i \in Ids /\ i \notin 1 .. listIds
        BY <1>1, <2>2, <3>1, ConsoleAssumption DEF Ids
      <3>3. row'[i] = NewRow(proc[h].ask.addr, "discussion")
        BY <1>1, <2>2, <3>1, <3>2
      <3>4. WholeForm(i)'
        BY <3>3 DEF WholeForm, NewRow
      <3>5. \A j \in lists : row'[j] = row[j]
        BY <1>1, <1>2, <2>2, <3>1, <3>2
      <3>6. lists' = lists \cup {i}
        BY <2>2, <3>1
      <3> QED
        BY <3>2, <3>4, <3>5, <3>6 DEF FormsKept, FormKept
    <2> QED
      BY <1>3, <2>1, <2>2 DEF CreateList
  <1>4. CASE SetType(h)
    <2>1. PICK t \in Types : row' = IF L(h) \in lists
                                    THEN [row EXCEPT ![L(h)].type = t]
                                    ELSE row
      BY <1>4 DEF SetType
    <2>2. lists' = lists
      BY <1>4 DEF SetType
    <2>3. ASSUME NEW i \in lists PROVE FormKept(i)
      <3>1. PICK x : x = row[i]
        OBVIOUS
      <3>2. x \in RowType
        BY <1>1, <1>2, <3>1
      <3>3. row'[i] = x \/ row'[i] = [x EXCEPT !.type = t]
        BY <1>1, <1>2, <2>1, <3>1
      <3> QED
        BY <3>1, <3>2, <3>3 DEF RowType, FormKept
    <2> QED
      BY <2>2, <2>3 DEF FormsKept
  <1>5. CASE ~CreateList(h) /\ ~SetType(h)
    <2>1. UNCHANGED row /\ lists' \subseteq lists
      BY <1>5 DEF Step, Begin, Check, IsOwner, Find, Load, Reload, LoadList,
                  Guard, Show, SetRole, Decide, InsertSub, UpdateSub,
                  Unsubscribe, FirstOwner, DeleteList, RemoveList, SetAdmin,
                  Record, data, table
    <2> QED
      BY <2>1, TablesForms
  <1> QED
    BY <1>3, <1>4, <1>5

\* The step that saves a part
LEMMA SaveForms ==
  ASSUME IInv, FormInv, NEW h \in Handlers, SaveForm(h)
  PROVE  FormInv'
  <1>1. /\ Running(h) /\ Saving(h) /\ Call(h) \in FormCalls
    BY DEF SaveForm, Saving
  <1>2. PICK k : Live(k, h)
    BY <1>1, Lives
  <1>3. /\ Head(k.todo) = Call(h) /\ Head(k.todo) \in FormCalls
        /\ k = proc[h] /\ k \in Procs /\ L(h) = k.l /\ k.ask.op = "save"
    BY <1>1, <1>2 DEF Live, Call, L, Fit
  <1>4. Head(k.todo) \in Doing
    BY <1>3 DEF Doing, WriteCalls
  <1>5. k.l \in Ids
    BY <1>2, <1>3, <1>4, ListFound, Passed DEF Self, Instance
  <1>6. /\ row \in [Ids -> RowType] /\ lists \subseteq Ids
    BY ConsoleAssumption DEF IInv, TablesOK, Ids
  <1>7. CASE After(h) /\ FormLeft(h)
    <2>1. Head(k.todo) \notin AfterWrite
      BY <1>3, <1>7 DEF AfterWrite, Records, FormLeft
    <2>2. ~proc[h].wrote
      BY <1>2, <1>3, <2>1, NotWritten DEF Live
    <2>3. PICK n : n = Answered(k, "failed")
      OBVIOUS
    <2>4. n.answer = "failed"
      BY <1>3, <2>3 DEF Answered, Procs
    <2>5. proc'[h] = n
      BY <1>3, <1>7, <2>3 DEF FormLeft, Answer, Goto, IInv
    <2>6. ~(Saving(h)')
      BY <2>4, <2>5 DEF Saving, Running
    <2>7. Calm(h)
      BY <2>2, <2>6 DEF Calm, Mixing
    <2>8. \A g \in Handlers : Calm(g)
      BY <1>7, <2>7 DEF After, Calm
    <2>9. FormsKept
      BY <1>7, TablesForms DEF FormLeft
    <2> QED
      BY <2>8, <2>9, FormRest
  <1>8. CASE PartSaved(h) /\ FormWritten(h)
    <2>1. PICK i : i = L(h)
      OBVIOUS
    <2>2. PICK n : n = proc'[h]
      OBVIOUS
    <2>3. /\ n.ask = k.ask /\ n.l = k.l /\ n.wrote
          /\ n.mixed <=> (k.mixed \/ MeetsSave(h))
          /\ Call(h) \in {"settings", "description"} => n.answer = "none"
          /\ Turn(k, n) /\ i \in Ids /\ i = k.l
      <3>1. i \in Ids /\ i = k.l
        BY <1>3, <1>5, <2>1
      <3>2. Turn(k, n)
        BY <1>3, <1>8, <2>2 DEF PartSaved
      <3>3. n.ask = k.ask /\ n.l = k.l
        BY <1>3, <1>8, <2>2, <3>2 DEF PartSaved, Turn
      <3>4. /\ n.wrote
            /\ n.mixed <=> (k.mixed \/ MeetsSave(h))
        BY <1>3, <1>8, <2>2 DEF PartSaved
      <3>5. Call(h) \in {"settings", "description"} => n.answer = "none"
        BY <1>8, <2>2 DEF PartSaved
      <3> QED
        BY <3>1, <3>2, <3>3, <3>4, <3>5
    <2>4. /\ Op(h)' = "save" /\ L(h)' = i /\ proc'[h].wrote
          /\ Call(h)' = Head(n.todo)
      BY <1>3, <2>2, <2>3 DEF Op, L, Call
    <2>5. PICK x : /\ row' = [row EXCEPT ![i] = x] \/ row' = row
                   /\ Call(h) = "settings" => x.settings = h
                                              /\ row' = [row EXCEPT ![i] = x]
                   /\ Call(h) # "settings" /\ i \in lists =>
                         /\ row' = [row EXCEPT ![i] = x]
                         /\ x = [row[i] EXCEPT ![Call(h)] = h]
      <3>1. CASE Call(h) = "settings"
        <4>1. k.copy \in RowType
          BY <1>3 DEF Procs
        <4>2. PICK x : x = [k.copy EXCEPT !.settings = h]
          OBVIOUS
        <4>3. x.settings = h
          BY <4>1, <4>2 DEF RowType
        <4>4. row' = [row EXCEPT ![i] = x]
          BY <1>3, <1>8, <2>1, <3>1, <4>2 DEF FormWritten
        <4> QED
          BY <3>1, <4>3, <4>4
      <3>2. CASE Call(h) # "settings"
        <4>1. PICK x : x = [row[i] EXCEPT ![Call(h)] = h]
          OBVIOUS
        <4>2. i \in lists => row' = [row EXCEPT ![i] = x]
          BY <1>6, <1>8, <2>1, <2>3, <3>2, <4>1 DEF FormWritten
        <4>3. i \notin lists => row' = row
          BY <1>8, <2>1, <3>2 DEF FormWritten
        <4> QED
          BY <3>2, <4>1, <4>2, <4>3
      <3> QED
        BY <3>1, <3>2
    <2>6. /\ lists' \subseteq lists \cup {i}
          /\ Call(h) # "settings" => lists' = lists
      BY <1>8, <2>1 DEF FormWritten
    <2>7. \A j \in Ids : j # i => row'[j] = row[j]
      BY <1>6, <2>5
    <2>8. /\ Call(h) = "settings" => row'[i].settings = h
          /\ Call(h) = "description" /\ i \in lists =>
                /\ row'[i].description = h
                /\ row'[i].settings = row[i].settings
          /\ Call(h) = "instructions" /\ i \in lists =>
                /\ row'[i].instructions = h
                /\ row'[i].settings = row[i].settings
                /\ row'[i].description = row[i].description
      <3>1. row[i] \in RowType
        BY <1>6, <2>3
      <3>2. row' = [row EXCEPT ![i] = x] => row'[i] = x
        BY <1>6, <2>3
      <3>3. CASE Call(h) = "settings"
        BY <2>5, <3>2, <3>3
      <3>4. CASE Call(h) = "description"
        <4>1. i \in lists => row'[i] = [row[i] EXCEPT !.description = h]
          BY <2>5, <3>2, <3>4
        <4> QED
          BY <3>1, <3>4, <4>1 DEF RowType
      <3>5. CASE Call(h) = "instructions"
        <4>1. i \in lists => row'[i] = [row[i] EXCEPT !.instructions = h]
          BY <2>5, <3>2, <3>5
        <4> QED
          BY <3>1, <3>5, <4>1 DEF RowType
      <3> QED
        BY <1>1, <3>3, <3>4, <3>5 DEF FormCalls
    <2>9. ASSUME NEW g \in Handlers, g # h
          PROVE  IF Saving(g) /\ L(g) = i
                 THEN proc'[g].mixed ELSE proc'[g] = proc[g]
      <3>1. CASE Saving(g) /\ L(g) = i
        <4>1. PICK p : p = proc[g]
          OBVIOUS
        <4>2. p \in Procs
          BY <4>1 DEF IInv
        <4>3. proc'[g] = [p EXCEPT !.mixed = TRUE]
          BY <1>8, <2>1, <2>9, <3>1, <4>1 DEF PartSaved
        <4> QED
          BY <3>1, <4>2, <4>3 DEF Procs
      <3>2. CASE ~(Saving(g) /\ L(g) = i)
        BY <1>8, <2>1, <2>9, <3>2 DEF PartSaved
      <3> QED
        BY <3>1, <3>2
    <2>10. Running(h)' <=> n.answer = "none"
      BY <1>3, <2>2, <2>3 DEF Running, Begun
    <2>11. ASSUME NEW j \in lists'
           PROVE  WholeForm(j)' \/ \E g \in Handlers : Mixing(g, j)'
      <3>1. CASE j # i
        <4>1. j \in lists /\ j \in Ids /\ row'[j] = row[j]
          BY <1>6, <2>6, <2>7, <2>11, <3>1
        <4>2. CASE WholeForm(j)
          BY <4>1, <4>2 DEF WholeForm
        <4>3. ASSUME NEW g \in Handlers, Mixing(g, j)
              PROVE  Mixing(g, j)'
          <5>1. L(g) = j /\ g # h
            BY <2>1, <3>1, <4>3 DEF Mixing
          <5>2. proc'[g] = proc[g]
            BY <2>9, <3>1, <5>1
          <5> QED
            BY <4>3, <5>2, SameMixing
        <4> QED
          BY <4>1, <4>2, <4>3 DEF FormInv
      <3>2. CASE j = i /\ Call(h) \in {"settings", "description"}
        <4>1. Head(n.todo) \in FormCalls
          BY <1>3, <2>3, <3>2 DEF Turn, FormCalls
        <4>2. Saving(h)'
          BY <2>3, <2>4, <2>10, <3>2, <4>1 DEF Saving
        <4> QED
          BY <2>4, <3>2, <4>2 DEF Mixing
      <3>3. CASE j = i /\ Call(h) = "instructions"
        <4>1. CASE n.mixed
          BY <2>2, <2>4, <3>3, <4>1 DEF Mixing
        <4>2. CASE ~n.mixed
          <5>1. ~proc[h].mixed /\ i \in lists
            BY <1>3, <2>3, <2>6, <2>11, <3>3, <4>2
          <5>2. row[i].settings = h /\ row[i].description = h
            BY <1>1, <2>1, <3>3, <5>1 DEF FormInv, HalfSaved
          <5> QED
            BY <2>8, <3>3, <5>1, <5>2 DEF WholeForm
        <4> QED
          BY <4>1, <4>2
      <3> QED
        BY <1>1, <3>1, <3>2, <3>3 DEF FormCalls
    <2>12. HalfSaved(h)'
      <3>1. SUFFICES ASSUME Running(h)', ~proc'[h].mixed, i \in lists'
                     PROVE  /\ Call(h)' = "description" =>
                                  row'[i].settings = h
                            /\ Call(h)' = "instructions" =>
                                  /\ row'[i].settings = h
                                  /\ row'[i].description = h
        BY <2>4 DEF HalfSaved, Saving
      <3>2. ~proc[h].mixed /\ n.answer = "none"
        BY <1>3, <2>2, <2>3, <2>10, <3>1
      <3>3. CASE Call(h)' = "description"
        <4>1. Call(h) = "settings"
          BY <1>3, <2>3, <2>4, <3>2, <3>3 DEF Turn
        <4> QED
          BY <2>8, <3>3, <4>1
      <3>4. CASE Call(h)' = "instructions"
        <4>1. Call(h) = "description"
          BY <1>3, <2>3, <2>4, <3>2, <3>4 DEF Turn
        <4>2. i \in lists
          BY <2>6, <3>1, <4>1
        <4>3. row[i].settings = h
          BY <1>1, <2>1, <3>2, <4>1, <4>2 DEF FormInv, HalfSaved
        <4> QED
          BY <2>8, <3>4, <4>1, <4>2, <4>3
      <3> QED
        BY <3>3, <3>4
    <2>13. ASSUME NEW g \in Handlers, g # h
           PROVE  HalfSaved(g)'
      <3>1. CASE Saving(g) /\ L(g) = i
        BY <2>9, <2>13, <3>1 DEF HalfSaved
      <3>2. CASE ~(Saving(g) /\ L(g) = i)
        <4>1. proc'[g] = proc[g]
          BY <2>9, <2>13, <3>2
        <4>2. SUFFICES ASSUME Saving(g), ~proc[g].mixed, L(g) \in lists'
                       PROVE  /\ Call(g) = "description" =>
                                    row'[L(g)].settings = g
                              /\ Call(g) = "instructions" =>
                                    /\ row'[L(g)].settings = g
                                    /\ row'[L(g)].description = g
          BY <4>1, SameMixing DEF HalfSaved
        <4>3. L(g) # i /\ L(g) \in lists
          BY <2>6, <3>2, <4>2
        <4>4. row'[L(g)] = row[L(g)]
          BY <1>6, <2>7, <4>3
        <4> QED
          BY <4>2, <4>3, <4>4 DEF FormInv, HalfSaved
      <3> QED
        BY <3>1, <3>2
    <2> QED
      BY <2>11, <2>12, <2>13 DEF FormInv
  <1> QED
    BY <1>7, <1>8, SaveFormStep

\* A step of the commands, of mail or of the sweep
LEMMA OutsideForms ==
  ASSUME Outside
  PROVE  UNCHANGED <<row, proc>> /\ lists' \subseteq lists
  BY DEF Outside, SwitchManagement, EndSession, CommandAdmin, MailSub,
         CommandRole, CommandDelete, DropHeld, Change, RemoveList, table

LEMMA NextForms ==
  ASSUME IInv, FormInv, [Next]_vars
  PROVE  FormInv'
  <1>1. CASE UNCHANGED vars
    <2>1. UNCHANGED row /\ lists' \subseteq lists
      BY <1>1 DEF vars, data, table
    <2>2. \A g \in Handlers : Calm(g)
      BY <1>1 DEF vars, Calm
    <2> QED
      BY <2>1, <2>2, TablesForms, FormRest
  <1>2. ASSUME NEW h \in Handlers, Step(h) PROVE FormInv'
    <2>1. CASE SaveForm(h)
      BY <2>1, SaveForms
    <2>2. CASE ~SaveForm(h)
      BY <1>2, <2>2, StepsForms, StepsCalm, FormRest
    <2> QED
      BY <2>1, <2>2
  <1>3. ASSUME NEW h \in Handlers, Fault(h) PROVE FormInv'
    <2>1. UNCHANGED row /\ lists' \subseteq lists
      BY <1>3 DEF Fault, data, table
    <2> QED
      BY <1>3, <2>1, TablesForms, FaultCalm, FormRest
  <1>4. ASSUME NEW h \in Handlers, HangUp(h) PROVE FormInv'
    <2>1. UNCHANGED row /\ lists' \subseteq lists
      BY <1>4 DEF HangUp, data, table
    <2>2. Running(h) /\ proc'[h] = Lost(proc[h])
      BY <1>4 DEF HangUp, Goto, IInv
    <2>3. Calm(h)
      BY <2>2, LostCalm
    <2>4. \A g \in Handlers : Calm(g)
      BY <1>4, <2>3, HangUpStep DEF After, Calm
    <2> QED
      BY <2>1, <2>4, TablesForms, FormRest
  <1>5. CASE Restart
    <2>1. UNCHANGED row /\ lists' \subseteq lists
      BY <1>5 DEF Restart, data, table
    <2>2. ASSUME NEW g \in Handlers PROVE Calm(g)
      <3>1. CASE Running(g)
        <4>1. proc'[g] = Lost(proc[g])
          BY <1>5, <3>1 DEF Restart
        <4> QED
          BY <3>1, <4>1, LostCalm
      <3>2. CASE ~Running(g)
        BY <1>5, <3>2 DEF Restart, Calm
      <3> QED
        BY <3>1, <3>2
    <2> QED
      BY <2>1, <2>2, TablesForms, FormRest
  <1>6. CASE Outside
    <2>1. UNCHANGED <<row, proc>> /\ lists' \subseteq lists
      BY <1>6, OutsideForms
    <2>2. \A g \in Handlers : Calm(g)
      BY <2>1 DEF Calm
    <2> QED
      BY <2>1, <2>2, TablesForms, FormRest
  <1> QED
    BY <1>1, <1>2, <1>3, <1>4, <1>5, <1>6 DEF Next

LEMMA InitForms ==
  ASSUME Init
  PROVE  FormInv
  <1>1. /\ lists = Start.lists /\ row = Start.row
        /\ proc = [h \in Handlers |-> Idle]
    BY DEF Init
  <1>2. lists \subseteq Ids
    BY <1>1, StartAssumption, ConsoleAssumption DEF Ids
  <1>3. ASSUME NEW i \in lists PROVE WholeForm(i)
    <2>1. row[i] = NewRow(row[i].addr, row[i].type)
      BY <1>1, <1>2, <1>3, StartAssumption
    <2> QED
      BY <2>1 DEF NewRow, WholeForm
  <1>4. ASSUME NEW h \in Handlers PROVE ~Saving(h)
    <2>1. proc[h].ask.op = "none"
      BY <1>1 DEF Idle, Ask
    <2> QED
      BY <2>1 DEF Saving, Running, Begun
  <1> QED
    BY <1>3, <1>4 DEF FormInv, HalfSaved

\* handleConsoleSettings saves a form with three calls (UpdateListSettings,
\* UpdateListDescription, UpdateListInstructions): the three parts of a list are
\* of one request, unless a save is under way, was cut short or met another.
THEOREM FormHolds == Spec => []FormIsWhole
  <1>1. Init => IInv /\ FormInv
    BY InitIs, InitForms
  <1>2. IInv /\ FormInv /\ [Next]_vars => (IInv /\ FormInv)'
    <2>1. IInv /\ FormInv /\ [Next]_vars => IInv'
      BY NextKeeps
    <2>2. IInv /\ FormInv /\ [Next]_vars => FormInv'
      BY NextForms
    <2> QED
      BY <2>1, <2>2
  <1>3. IInv /\ FormInv => FormIsWhole
    BY DEF FormInv, FormIsWhole, WholeForm, Mixing, Saving
  <1> QED
    BY <1>1, <1>2, <1>3, PTL DEF Spec
=============================================================================
