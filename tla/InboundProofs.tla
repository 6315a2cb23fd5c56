---------------------------- MODULE InboundProofs ----------------------------
(***************************************************************************)
(* The safety properties of Inbound, for any messages, connections, lists  *)
(* and owners and any number of faults.                                    *)
(***************************************************************************)
EXTENDS Inbound, FiniteSetTheorems, SequenceTheorems,
        WellFoundedInduction, TLAPS

Stages == {"free", "command", "data", "relay", "process"}
Links  == [at : Stages, pipe : BOOLEAN, mailSet : BOOLEAN,
           rcpts : Seq(AllTasks), next : Nat, line : Nat,
           seen : Statuses \cup {"unread"}, text : Seq(STRING),
           whole : BOOLEAN, peer : BOOLEAN, msg : Msgs \cup {None},
           asked : Seq(AllTasks)]

\* The commands that read and write the sender's subscription.
Orders == Modes \cup {"unsubscribe", "re-enable"}

\* A transaction belongs to one message, and has the recipients that were
\* accepted for it, each of them once.
OwnRcpts(k) ==
    k.msg # None =>
        /\ k.rcpts = k.asked
        /\ \A i \in 1 .. Len(k.rcpts) : k.rcpts[i] \in Tasks(k.msg)
        /\ \A i, j \in 1 .. Len(k.rcpts) : k.rcpts[i] = k.rcpts[j] => i = j

\* Only a relay that was killed leaves part of a message.
WholeOrKilled(k) ==
    k.at = "process" /\ ~k.whole =>
        k.pipe /\ <<k.msg, k.rcpts[1]>> \in killed

\* A command mail is for a list that is there, and what it has read the
\* subscription for is a command that may change it.
InOrder(k) ==
    /\ k.line > 0 => LET t == Goes[k.rcpts[k.next]]
                     IN  /\ k.at = "process"
                         /\ t.kind = "request" /\ t.list \in Lists
    /\ k.seen # "unread" => /\ k.line > 0
                            /\ k.text[k.line] \in Orders

Staged(k) ==
    /\ k.at = "free" => k = Free
    /\ k.at \in {"data", "relay", "process"} => k.msg # None
    /\ k.at \in {"command", "data", "relay"} => k.next = 1 /\ k.peer
    /\ k.at = "command" /\ k.msg # None => k.mailSet
    /\ k.msg = None => k.asked = <<>>
    /\ k.at \in {"data", "relay", "process"} => k.next \in 1 .. Len(k.rcpts)
    /\ k.pipe => Len(k.rcpts) = 1 /\ k.at \in {"relay", "process"}
    /\ k.at = "relay" => k.pipe

\* A connection in order.
Sound(k) == Staged(k) /\ OwnRcpts(k) /\ WholeOrKilled(k) /\ InOrder(k)

\* The MTA makes one attempt at a message at a time.
OneSender ==
    \A c, d \in Conns :
        /\ conn[c].peer /\ conn[d].peer
        /\ conn[c].msg = conn[d].msg /\ conn[c].msg # None
        => c = d

\* The connection may yet hand x to its handler.
May(k, x) ==
    /\ k.msg = x[1]
    /\ \E i \in 1 .. Len(k.rcpts) : i >= k.next /\ k.rcpts[i] = x[2]

Trying(x) == {c \in Conns : May(conn[c], x)}

\* Every attempt but the last has cost a fault, and the last one too if the
\* MTA has no answer and nobody at the other end to get it from.
CountOK(x) ==
    /\ handled[x] + Cardinality(Trying(x)) <= 1 + faults
    /\ x[2] \in todo[x[1]] /\ (\A c \in Trying(x) : ~conn[c].peer)
          => handled[x] + Cardinality(Trying(x)) <= faults

\* An owner's mail that was handled has reached the owners.
ReachedOK ==
    RoutedAsPrinted =>
        \A m \in Msgs : \A t \in Tasks(m) :
            handled[<<m, t>>] > 0 /\ t.kind = "owner" /\ Unambiguous(t) =>
                \A o \in Others : o \in reached[m] \/ <<m, o>> \in skipped

TakenOK ==
    \A m \in Msgs : \A t \in taken[m] :
        \/ handled[<<m, t>>] > 0 \/ <<m, t>> \in unsaid
        \/ /\ <<m, t>> \in overlooked
           /\ Goes[t].kind \in {"bounce", "unsubscribe"}

\* The handler of the recipient is done: at its end, at an error, or because
\* it overlooked the mail.
Ended(c, ok) == Finish(c, ok) \/ (Overlook(c) /\ ok)

TablesOK ==
    /\ \E s \in Scenarios : mail = s.mail
    /\ todo \in [Msgs -> SUBSET AllTasks]
    /\ taken \in [Msgs -> SUBSET AllTasks]
    /\ refused \in [Msgs -> SUBSET AllTasks]
    /\ \A m \in Msgs : /\ todo[m] \subseteq Tasks(m)
                       /\ taken[m] \subseteq Tasks(m) \ todo[m]
                       /\ refused[m] \subseteq Tasks(m) \ todo[m]
    /\ up \in BOOLEAN
    /\ sub \in [Lists -> Subs] /\ was \in [Lists -> Subs]
    /\ reached \in [Msgs -> SUBSET Owners]
    /\ faults \in Nat /\ faults <= MaxFaults
    /\ handled \in [Pairs -> Nat]
    /\ failed \subseteq Pairs /\ cut \subseteq Pairs /\ killed \subseteq Pairs
    /\ unsaid \subseteq Pairs /\ spoilt \subseteq Pairs
    /\ overlooked \subseteq Pairs
    /\ skipped \subseteq Msgs \X Owners

LinksOK == conn \in [Conns -> Links] /\ \A c \in Conns : Sound(conn[c])

OwnTask == \A x \in Pairs : handled[x] > 0 => x[2] \in Tasks(x[1])

IInv ==
    /\ TablesOK /\ LinksOK /\ OneSender
    /\ \A x \in Pairs : CountOK(x)
    /\ OwnTask /\ NothingCutShort /\ RefusedForCause
    /\ TakenOK /\ ReachedOK
-----------------------------------------------------------------------------
(***************************************************************************)
(* Command mail: what its copies have done, as long as others may be at    *)
(* them.                                                                   *)
(***************************************************************************)

\* The handler of the recipient is at it, whether or not it has begun.
Doing(k, m, t) == k.at = "process" /\ k.msg = m /\ k.rcpts[k.next] = t

\* The lines of a mail's body that set a delivery mode.
Settings(m) ==
    {i \in parseCommands(mail[m].body) : mail[m].body[i] \in Modes}

Asked(m, cmd) ==
    \E i \in parseCommands(mail[m].body) : mail[m].body[i] = cmd

\* What a carried out line i of the body leaves behind, while others may be
\* at it: the last of the settings holds, or somebody has yet to come to it.
Obeyed(m, t, i) ==
    LET s   == sub[t.list]
        cmd == mail[m].body[i]
    IN  /\ cmd = "unsubscribe" => s.status = "none"
        /\ cmd = "re-enable" => s.status # "disabled"
        /\ cmd \in Modes /\ (\A j \in Settings(m) : j <= i) =>
              \/ s.status = "none" \/ s.mode = cmd
              \/ \E c \in Conns : /\ Doing(conn[c], m, t)
                                  /\ conn[c].line \in 1 .. i

\* The subscription is as it was, but for what the mail asks for.
Wanted(m, t) ==
    LET s == sub[t.list]
        w == was[t.list]
    IN  /\ s.status = "none" =>
              /\ s.mode = "regular"
              /\ w.status = "none" \/ Asked(m, "unsubscribe")
        /\ s.status # "none" =>
              /\ w.status # "none"
              /\ \/ s.status = w.status
                 \/ s.status = "active" /\ Asked(m, "re-enable")
              /\ \/ s.mode = w.mode
                 \/ \E i \in Settings(m) : s.mode = mail[m].body[i]

\* Whoever has passed a line has carried it out; the MTA's answer comes after
\* the last one.
Performed(m, t) ==
    \A i \in parseCommands(mail[m].body) :
        (\/ t \in taken[m] /\ <<m, t>> \notin unsaid
         \/ \E c \in Conns : Doing(conn[c], m, t) /\ conn[c].line > i)
        => Obeyed(m, t, i)

\* Mail with commands for a list, which no other mail has.
Target(m, t) ==
    Goes[t] = t /\ t.kind = "request" /\ t.list \in Lists /\ Sole(m, t)

RedoneOK ==
    \A m \in Msgs : \A t \in Tasks(m) :
        Target(m, t) /\ <<m, t>> \notin spoilt =>
            Wanted(m, t) /\ Performed(m, t)

\* The text of a mail that is at its handler, unless its relay was killed.
TextOK(k) ==
    /\ k.at = "relay" => ~k.whole
    /\ k.at = "process" /\ k.whole => k.text = mail[k.msg].body
    /\ k.line > 0 =>
          k.line \in parseCommands(k.text) \cup {Len(k.text) + 1}

\* An MTA that is there waits for the answers to come.
AwaitedOK(k) ==
    k.peer /\ k.msg # None =>
        \A i \in k.next .. Len(k.rcpts) : k.rcpts[i] \in todo[k.msg]

AskedOK ==
    /\ \A c \in Conns : TextOK(conn[c]) /\ AwaitedOK(conn[c])
    /\ killed \subseteq spoilt
    /\ \A x \in Pairs : handled[x] > 0 /\ Goes[x[2]].kind = "request" =>
          Goes[x[2]].list \in Lists
    /\ \A l \in Lists : was[l].status = "none" => was[l].mode = "regular"

RInv == AskedOK /\ RedoneOK
-----------------------------------------------------------------------------
(***************************************************************************)
(* Addresses: what is printed for a task leads back to it.  The names of a *)
(* sequence's places are those of their neighbours: n is the name of a     *)
(* list, v the "@" with its domain, q the part after a "+".                *)
(***************************************************************************)

\* What addresses are made of, the tokens the code puts in included.
Suffixes == {"-bounces", "-confirm", "-moderate", "-request", "-owner",
             "-subscribe", "-unsubscribe"}
Tokens   == STRING \cup Suffixes \cup {"@", "+", "="}

LEMMA SeqTokens ==
    ASSUME NEW a \in Seq(STRING)
    PROVE  a \in Seq(Tokens)
  <1>1. a \in [1 .. Len(a) -> STRING] /\ Len(a) \in Nat
    BY LenProperties
  <1>2. a \in [1 .. Len(a) -> Tokens]
    BY <1>1 DEF Tokens
  <1> QED
    BY <1>1, <1>2, IsASeq

LEMMA TokensAre ==
    /\ "@" \in Tokens /\ "+" \in Tokens /\ "=" \in Tokens
    /\ \A k \in DOMAIN PlusSuffix :
          PlusSuffix[k] \in Tokens /\ PlusSuffix[k] \notin {"@", "+", "="}
    /\ \A k \in DOMAIN DashSuffix :
          DashSuffix[k] \in Tokens /\ DashSuffix[k] \notin {"@", "+", "="}
  <1>1. \A x \in Suffixes : x \in Tokens /\ x \notin {"@", "+", "="}
    BY DEF Tokens, Suffixes
  <1>2. \A k \in DOMAIN PlusSuffix : PlusSuffix[k] \in Suffixes
    BY DEF PlusSuffix, Suffixes
  <1>3. \A k \in DOMAIN DashSuffix : DashSuffix[k] \in Suffixes
    BY DEF DashSuffix, Suffixes
  <1> QED
    BY <1>1, <1>2, <1>3 DEF Tokens

LEMMA LastIs ==
    ASSUME NEW s \in Seq(Tokens), NEW t, NEW i \in 1 .. Len(s), s[i] = t,
           \A j \in 1 .. Len(s) : s[j] = t => j <= i
    PROVE  Last(s, t) = i
  <1> DEFINE S == Spots(s, t) \cup {0}
  <1>1. i \in S /\ \A j \in S : j \in Nat /\ j <= i
    BY LenProperties DEF Spots
  <1>2. \E x \in S : \A y \in S : x >= y
    BY <1>1
  <1> HIDE DEF S
  <1>3. Max(S) \in S /\ \A y \in S : Max(S) >= y
    BY <1>2 DEF Max
  <1>4. PICK x \in S : x = Max(S)
    BY <1>3
  <1>5. x \in Nat /\ i \in Nat
    BY <1>1
  <1>6. x <= i /\ i <= x
    BY <1>1, <1>3, <1>4, <1>5
  <1>7. Max(S) = i
    BY <1>1, <1>4, <1>5, <1>6
  <1> QED
    BY <1>7 DEF Last, S

LEMMA FirstIs ==
    ASSUME NEW s \in Seq(Tokens), NEW t, NEW i \in 1 .. Len(s), s[i] = t,
           \A j \in 1 .. Len(s) : s[j] = t => j >= i
    PROVE  First(s, t) = i
  <1> DEFINE S == Spots(s, t)
  <1>1. i \in S /\ \A j \in S : j \in Nat /\ j >= i
    BY LenProperties DEF Spots
  <1>2. \E x \in S : \A y \in S : x <= y
    BY <1>1
  <1> HIDE DEF S
  <1>3. Min(S) \in S /\ \A y \in S : Min(S) <= y
    BY <1>2 DEF Min
  <1>4. PICK x \in S : x = Min(S)
    BY <1>3
  <1>5. x \in Nat /\ i \in Nat
    BY <1>1
  <1>6. x <= i /\ i <= x
    BY <1>1, <1>3, <1>4, <1>5
  <1>7. Min(S) = i /\ S # {}
    BY <1>1, <1>4, <1>5, <1>6
  <1> QED
    BY <1>7 DEF First, S

\* Parts of two joined sequences.
LEMMA Joined ==
    ASSUME NEW u \in Seq(Tokens), NEW v \in Seq(Tokens)
    PROVE  /\ u \o v \in Seq(Tokens)
           /\ Len(u \o v) = Len(u) + Len(v) /\ Len(u) \in Nat /\ Len(v) \in Nat
           /\ \A i \in 1 .. Len(u) : (u \o v)[i] = u[i]
           /\ \A i \in 1 .. Len(v) : (u \o v)[Len(u) + i] = v[i]
           /\ \A i \in 1 .. Len(u) + Len(v) :
                 i > Len(u) => i - Len(u) \in 1 .. Len(v)
                               /\ (u \o v)[i] = v[i - Len(u)]
           /\ Before(u \o v, Len(u) + 1) = u
           /\ After(u \o v, Len(u)) = v
  <1>1. Len(u) \in Nat /\ Len(v) \in Nat
    OBVIOUS
  <1> DEFINE w == u \o v
  <1>2. /\ w \in Seq(Tokens) /\ Len(w) = Len(u) + Len(v)
        /\ \A i \in 1 .. Len(u) + Len(v) :
              w[i] = IF i <= Len(u) THEN u[i] ELSE v[i - Len(u)]
    BY ConcatProperties
  <1> HIDE DEF w
  <1>3. /\ \A i \in 1 .. Len(u) : w[i] = u[i]
        /\ \A i \in 1 .. Len(v) : w[Len(u) + i] = v[i]
        /\ \A i \in 1 .. Len(u) + Len(v) :
              i > Len(u) => i - Len(u) \in 1 .. Len(v) /\ w[i] = v[i - Len(u)]
    <2>1. \A i \in 1 .. Len(u) : w[i] = u[i]
      BY <1>1, <1>2
    <2>2. ASSUME NEW i \in 1 .. Len(v) PROVE w[Len(u) + i] = v[i]
      <3>1. /\ Len(u) + i \in 1 .. Len(u) + Len(v)
            /\ ~(Len(u) + i <= Len(u)) /\ Len(u) + i - Len(u) = i
        BY <1>1
      <3> QED
        BY <1>2, <3>1
    <2>3. ASSUME NEW i \in 1 .. Len(u) + Len(v), i > Len(u)
          PROVE  i - Len(u) \in 1 .. Len(v) /\ w[i] = v[i - Len(u)]
      <3>1. ~(i <= Len(u)) /\ i - Len(u) \in 1 .. Len(v)
        BY <1>1, <2>3
      <3> QED
        BY <1>2, <3>1
    <2> QED
      BY <2>1, <2>2, <2>3
  <1>4. Before(w, Len(u) + 1) = u
    <2>1. Before(w, Len(u) + 1) = SubSeq(w, 1, Len(u))
      BY <1>1 DEF Before
    <2>2. \A i \in 1 .. Len(u) : w[i] \in Tokens
      BY <1>3
    <2> DEFINE b == SubSeq(w, 1, Len(u))
    <2>3. /\ b \in Seq(Tokens) /\ Len(b) = Len(u)
          /\ \A i \in 1 .. Len(u) : b[i] = w[i]
      BY <1>1, <2>2, SubSeqProperties
    <2> HIDE DEF b
    <2>4. b = u
      BY <1>3, <2>3, SeqEqual
    <2> QED
      BY <2>1, <2>4 DEF b
  <1>5. After(w, Len(u)) = v
    <2> DEFINE m == Len(u) + 1
               n == Len(u) + Len(v)
    <2>1. After(w, Len(u)) = SubSeq(w, m, n)
      BY <1>2 DEF After
    <2>2. m \in Int /\ n \in Int /\ n - m + 1 = Len(v)
          /\ (m <= n <=> Len(v) # 0)
      BY <1>1
    <2>3. \A i \in m .. n : w[i] \in Tokens
      BY <1>1, <1>2
    <2> DEFINE b == SubSeq(w, m, n)
    <2>4. /\ b \in Seq(Tokens) /\ Len(b) = IF m <= n THEN n - m + 1 ELSE 0
          /\ \A i \in 1 .. n - m + 1 : b[i] = w[m + i - 1]
      BY <2>2, <2>3, SubSeqProperties
    <2> HIDE DEF b
    <2>5. \A i \in 1 .. Len(v) : b[i] = v[i]
      BY <1>1, <1>3, <2>2, <2>4
    <2>6. b = v
      BY <2>2, <2>4, <2>5, SeqEqual
    <2> QED
      BY <2>1, <2>6 DEF b
  <1> QED
    BY <1>1, <1>2, <1>3, <1>4, <1>5 DEF w

\* The end of an address from its "@" on.
Host(v) == /\ v \in Seq(Tokens) /\ Len(v) >= 2 /\ v[1] = "@"
           /\ \A i \in 1 .. Len(v) : v[i] = "@" => i = 1

\* An address taken apart at its "@".
LEMMA Apart ==
    ASSUME NEW u \in Seq(Tokens), u # <<>>, NEW v, Host(v)
    PROVE  LET a  == u \o v
               at == Last(a, "@")
           IN  /\ a \in Seq(Tokens) /\ at = Len(u) + 1
               /\ at \in 2 .. Len(a) - 1
               /\ Before(a, at) = u /\ After(a, at - 1) = v
  <1> DEFINE a == u \o v
             i == Len(u) + 1
  <1>1. /\ v \in Seq(Tokens) /\ Len(v) >= 2 /\ v[1] = "@"
        /\ \A j \in 1 .. Len(v) : v[j] = "@" => j = 1
    BY DEF Host
  <1>2. Len(u) \in Nat /\ Len(u) >= 1 /\ Len(v) \in Nat
    OBVIOUS
  <1>3. /\ a \in Seq(Tokens) /\ Len(a) = Len(u) + Len(v)
        /\ \A j \in 1 .. Len(v) : a[Len(u) + j] = v[j]
        /\ \A j \in 1 .. Len(u) + Len(v) :
              j > Len(u) => j - Len(u) \in 1 .. Len(v) /\ a[j] = v[j - Len(u)]
        /\ Before(a, i) = u /\ After(a, Len(u)) = v
    BY <1>1, Joined
  <1> HIDE DEF a
  <1>4. i \in 1 .. Len(a) /\ i \in 2 .. Len(a) - 1 /\ i - 1 = Len(u)
    BY <1>1, <1>2, <1>3
  <1>5. a[i] = "@"
    BY <1>1, <1>2, <1>3
  <1>6. ASSUME NEW j \in 1 .. Len(a), a[j] = "@", ~(j <= i) PROVE FALSE
    <2>1. j - Len(u) \in 1 .. Len(v) /\ a[j] = v[j - Len(u)]
      BY <1>2, <1>3, <1>6
    <2>2. j - Len(u) = 1
      BY <1>1, <1>6, <2>1
    <2> QED
      BY <1>2, <1>3, <1>6, <2>2
  <1> HIDE DEF i
  <1>7. Last(a, "@") = i
    BY <1>3, <1>4, <1>5, <1>6, LastIs, SMTT(30)
  <1> QED
    BY <1>3, <1>4, <1>7 DEF a, i

\* A list's name and the rest of its address.
LEMMA ListParts ==
    ASSUME NEW a, ListAddress(a)
    PROVE  \E n \in Seq(Tokens), v \in Seq(Tokens) :
              /\ a = n \o v /\ n # <<>> /\ Host(v)
              /\ \A i \in 1 .. Len(n) : n[i] # "@"
              /\ First(a, "@") = Len(n) + 1 /\ Last(a, "@") = Len(n) + 1
              /\ Before(a, Len(n) + 1) = n /\ After(a, Len(n)) = v
  <1>1. /\ a \in Seq(Tokens) /\ Len(a) \in Nat
    BY SeqTokens DEF ListAddress
  <1>2. PICK p \in 2 .. Len(a) - 1 : Spots(a, "@") = {p}
    BY DEF ListAddress
  <1>3. a[p] = "@" /\ \A i \in 1 .. Len(a) : a[i] = "@" => i = p
    BY <1>1, <1>2, LenProperties DEF Spots
  <1> DEFINE n == SubSeq(a, 1, p - 1)
             v == SubSeq(a, p, Len(a))
             b == n \o v
  <1>4. \A i \in 1 .. Len(a) : a[i] \in Tokens
    BY <1>1
  <1>5. /\ n \in Seq(Tokens) /\ Len(n) = p - 1
        /\ \A i \in 1 .. p - 1 : n[i] = a[i]
    <2>1. /\ 1 \in Int /\ p - 1 \in Int /\ 1 <= p - 1
          /\ p - 1 - 1 + 1 = p - 1
          /\ \A i \in 1 .. p - 1 : a[i] \in Tokens /\ 1 + i - 1 = i
      BY <1>1, <1>4
    <2>2. /\ SubSeq(a, 1, p - 1) \in Seq(Tokens)
          /\ Len(SubSeq(a, 1, p - 1)) =
                IF 1 <= p - 1 THEN p - 1 - 1 + 1 ELSE 0
          /\ \A i \in 1 .. p - 1 - 1 + 1 :
                SubSeq(a, 1, p - 1)[i] = a[1 + i - 1]
      BY <2>1, SubSeqProperties
    <2> QED
      BY <2>1, <2>2
  <1>6. /\ v \in Seq(Tokens) /\ Len(v) = Len(a) - p + 1
        /\ \A i \in 1 .. Len(a) - p + 1 : v[i] = a[p + i - 1]
    <2>1. /\ p \in Int /\ Len(a) \in Int /\ p <= Len(a)
          /\ \A i \in p .. Len(a) : a[i] \in Tokens
      BY <1>1, <1>4
    <2> QED
      BY <2>1, SubSeqProperties
  <1>7. /\ b \in Seq(Tokens) /\ Len(b) = Len(n) + Len(v)
        /\ \A i \in 1 .. Len(n) + Len(v) :
              b[i] = IF i <= Len(n) THEN n[i] ELSE v[i - Len(n)]
    BY <1>5, <1>6, ConcatProperties
  <1> HIDE DEF n, v, b
  <1>8. Len(b) = Len(a) /\ \A i \in 1 .. Len(a) : b[i] = a[i]
    <2>1. Len(b) = Len(a)
      BY <1>1, <1>5, <1>6, <1>7
    <2>2. ASSUME NEW i \in 1 .. Len(a) PROVE b[i] = a[i]
      <3>1. b[i] = IF i <= Len(n) THEN n[i] ELSE v[i - Len(n)]
        BY <1>7, <2>1
      <3>2. CASE i <= p - 1
        BY <1>5, <3>1, <3>2
      <3>3. CASE ~(i <= p - 1)
        <4>1. i - Len(n) \in 1 .. Len(a) - p + 1
          BY <1>1, <1>5, <3>3
        <4>2. p + (i - Len(n)) - 1 = i
          BY <1>1, <1>5
        <4> QED
          BY <1>5, <1>6, <3>1, <3>3, <4>1, <4>2
      <3> QED
        BY <3>2, <3>3
    <2> QED
      BY <2>1, <2>2
  <1>9. b = a
    BY <1>1, <1>7, <1>8, SeqEqual
  <1>10. a = n \o v
    BY <1>9 DEF b
  <1>11. n # <<>>
    BY <1>5
  <1>12. Host(v)
    <2>1. Len(v) >= 2 /\ v[1] = a[p]
      BY <1>1, <1>6
    <2>2. ASSUME NEW i \in 1 .. Len(v), v[i] = "@" PROVE i = 1
      <3>1. p + i - 1 \in 1 .. Len(a) /\ v[i] = a[p + i - 1]
        BY <1>1, <1>6
      <3>2. p + i - 1 = p
        BY <1>3, <2>2, <3>1
      <3> QED
        BY <3>2
    <2> QED
      BY <1>3, <1>6, <2>1, <2>2 DEF Host
  <1>13. \A i \in 1 .. Len(n) : n[i] # "@"
    BY <1>1, <1>3, <1>5
  <1>14. Len(n) + 1 = p /\ p \in 1 .. Len(a)
    BY <1>1, <1>5
  <1>15. First(a, "@") = p
    BY <1>1, <1>3, <1>14, FirstIs
  <1>16. Last(a, "@") = p
    BY <1>1, <1>3, <1>14, LastIs
  <1>17. Before(a, Len(n) + 1) = n /\ After(a, Len(n)) = v
    BY <1>5, <1>6, <1>10, Joined
  <1> QED
    BY <1>5, <1>6, <1>10, <1>11, <1>12, <1>13, <1>14, <1>15, <1>16, <1>17

PlusOf(p) == {k \in DOMAIN PlusSuffix : EndsIn(p, PlusSuffix[k])}
DashOf(u) == {k \in DOMAIN DashSuffix : /\ EndsIn(u, DashSuffix[k])
                                        /\ Len(u) > 1}

\* What ParseAddress makes of a local part u.
LEMMA Parsed ==
    ASSUME NEW u \in Seq(Tokens), u # <<>>, NEW v, Host(v)
    PROVE  LET a == u \o v
               f == First(u, "+")
               p == Before(u, f)
           IN  /\ PlusOf(p) # {} =>
                     ParseAddress(a) =
                        Task(CHOOSE k \in PlusOf(p) : TRUE,
                             Before(p, Len(p)) \o v, After(u, f))
               /\ PlusOf(p) = {} /\ DashOf(u) # {} =>
                     ParseAddress(a) =
                        Task(CHOOSE k \in DashOf(u) : TRUE,
                             Before(u, Len(u)) \o v, <<>>)
               /\ PlusOf(p) = {} /\ DashOf(u) = {} =>
                     ParseAddress(a) = Task("post", a, <<>>)
  <1> DEFINE a  == u \o v
             at == Last(a, "@")
             f  == First(u, "+")
             p  == Before(u, f)
  <1>1. /\ at \in 2 .. Len(a) - 1
        /\ Before(a, at) = u /\ After(a, at - 1) = v
    BY Apart
  <1> HIDE DEF a, f, p
  <1>2. ParseAddress(a) =
            CASE at \notin 2 .. Len(a) - 1 -> NoTask
              [] at \in 2 .. Len(a) - 1 /\ PlusOf(p) # {} ->
                    Task(CHOOSE k \in PlusOf(p) : TRUE,
                         Before(p, Len(p)) \o v, After(u, f))
              [] at \in 2 .. Len(a) - 1 /\ PlusOf(p) = {} /\ DashOf(u) # {} ->
                    Task(CHOOSE k \in DashOf(u) : TRUE,
                         Before(u, Len(u)) \o v, <<>>)
              [] OTHER -> Task("post", a, <<>>)
    BY <1>1 DEF ParseAddress, PlusOf, DashOf, f, p
  <1> HIDE DEF at
  <1>3. ASSUME PlusOf(p) # {}
        PROVE  ParseAddress(a) =
                  Task(CHOOSE k \in PlusOf(p) : TRUE,
                       Before(p, Len(p)) \o v, After(u, f))
    BY <1>1, <1>2, <1>3
  <1>4. ASSUME PlusOf(p) = {}, DashOf(u) # {}
        PROVE  ParseAddress(a) =
                  Task(CHOOSE k \in DashOf(u) : TRUE,
                       Before(u, Len(u)) \o v, <<>>)
    BY <1>1, <1>2, <1>4
  <1>5. ASSUME PlusOf(p) = {}, DashOf(u) = {}
        PROVE  ParseAddress(a) = Task("post", a, <<>>)
    BY <1>1, <1>2, <1>5
  <1> QED
    BY <1>3, <1>4, <1>5 DEF a, f, p

\* One more token.
LEMMA Lengthened ==
    ASSUME NEW n \in Seq(Tokens), NEW x \in Tokens
    PROVE  LET u == n \o <<x>>
           IN  /\ u \in Seq(Tokens) /\ u # <<>> /\ Len(u) = Len(n) + 1
               /\ u[Len(u)] = x /\ Before(u, Len(u)) = n
               /\ \A i \in 1 .. Len(n) : u[i] = n[i]
  <1>1. /\ <<x>> \in Seq(Tokens) /\ Len(<<x>>) = 1 /\ <<x>>[1] = x
        /\ Len(n) \in Nat
    OBVIOUS
  <1> DEFINE e == <<x>>
             u == n \o e
  <1> HIDE DEF e
  <1>2. /\ e \in Seq(Tokens) /\ Len(e) = 1 /\ e[1] = x
    BY <1>1 DEF e
  <1>3. /\ u \in Seq(Tokens) /\ Len(u) = Len(n) + 1
        /\ \A i \in 1 .. Len(n) : u[i] = n[i]
        /\ u[Len(n) + 1] = e[1]
        /\ Before(u, Len(n) + 1) = n
    <2>1. /\ u \in Seq(Tokens) /\ Len(u) = Len(n) + Len(e)
          /\ \A i \in 1 .. Len(n) : u[i] = n[i]
          /\ \A i \in 1 .. Len(e) : u[Len(n) + i] = e[i]
          /\ Before(u, Len(n) + 1) = n
      BY <1>2, Joined
    <2>2. 1 \in 1 .. Len(e)
      BY <1>2
    <2> HIDE DEF u
    <2> QED
      BY <1>2, <2>1, <2>2
  <1> HIDE DEF u
  <1>4. u # <<>>
    BY <1>1, <1>3
  <1> QED
    BY <1>2, <1>3, <1>4 DEF e, u

LEMMA PlusNamed ==
    ASSUME NEW n \in Seq(Tokens), NEW k \in DOMAIN PlusSuffix
    PROVE  PlusOf(n \o <<PlusSuffix[k]>>) = {k}
  <1>1. PlusSuffix[k] \in Tokens
    BY TokensAre
  <1> DEFINE u == n \o <<PlusSuffix[k]>>
  <1>2. u # <<>> /\ u[Len(u)] = PlusSuffix[k]
    BY <1>1, Lengthened
  <1> HIDE DEF u
  <1>3. \A j \in DOMAIN PlusSuffix : PlusSuffix[j] = PlusSuffix[k] <=> j = k
    BY DEF PlusSuffix
  <1>4. PlusOf(u) = {k}
    BY <1>2, <1>3 DEF PlusOf, EndsIn
  <1> QED
    BY <1>4 DEF u

LEMMA DashNamed ==
    ASSUME NEW n \in Seq(Tokens), n # <<>>, NEW k \in DOMAIN DashSuffix
    PROVE  DashOf(n \o <<DashSuffix[k]>>) = {k}
  <1>1. DashSuffix[k] \in Tokens
    BY TokensAre
  <1> DEFINE u == n \o <<DashSuffix[k]>>
  <1>2. /\ u # <<>> /\ u[Len(u)] = DashSuffix[k] /\ Len(u) = Len(n) + 1
        /\ Len(n) > 0 /\ Len(n) \in Nat
    BY <1>1, Lengthened
  <1> HIDE DEF u
  <1>3. \A j \in DOMAIN DashSuffix : DashSuffix[j] = DashSuffix[k] <=> j = k
    BY DEF DashSuffix
  <1>4. DashOf(u) = {k}
    BY <1>2, <1>3 DEF DashOf, EndsIn
  <1> QED
    BY <1>4 DEF u

\* Without a "+" nothing is asked for with a part.
LEMMA NoPlus ==
    ASSUME NEW u \in Seq(Tokens), \A i \in 1 .. Len(u) : u[i] # "+"
    PROVE  First(u, "+") = 0 /\ PlusOf(Before(u, 0)) = {}
  <1>1. Spots(u, "+") = {}
    BY LenProperties DEF Spots
  <1>2. Before(u, 0) = <<>>
    BY SubSeqEmpty DEF Before
  <1> QED
    BY <1>1, <1>2 DEF First, PlusOf, EndsIn

\* An address with a part.
LEMMA ParsedPlus ==
    ASSUME NEW n \in Seq(Tokens), \A i \in 1 .. Len(n) : n[i] # "+",
           NEW k \in DOMAIN PlusSuffix, NEW q \in Seq(Tokens),
           NEW v, Host(v)
    PROVE  ParseAddress((n \o <<PlusSuffix[k], "+">>) \o q \o v)
              = Task(k, n \o v, q)
  <1> DEFINE p == n \o <<PlusSuffix[k]>>
             r == p \o <<"+">>
             u == r \o q
  <1>1. PlusSuffix[k] \in Tokens /\ "+" \in Tokens /\ PlusSuffix[k] # "+"
    BY TokensAre
  <1>2. /\ p \in Seq(Tokens) /\ Len(p) = Len(n) + 1
        /\ p[Len(p)] = PlusSuffix[k] /\ Before(p, Len(p)) = n
        /\ \A i \in 1 .. Len(n) : p[i] = n[i]
    BY <1>1, Lengthened
  <1>3. PlusOf(p) = {k}
    BY PlusNamed
  <1> HIDE DEF p
  <1>4. /\ r \in Seq(Tokens) /\ r # <<>> /\ Len(r) = Len(p) + 1
        /\ r[Len(r)] = "+" /\ Before(r, Len(r)) = p
        /\ \A i \in 1 .. Len(p) : r[i] = p[i]
    BY <1>1, <1>2, Lengthened
  <1> HIDE DEF r
  <1>5. /\ u \in Seq(Tokens) /\ Len(u) = Len(r) + Len(q)
        /\ \A i \in 1 .. Len(r) : u[i] = r[i]
        /\ After(u, Len(r)) = q
        /\ Len(r) \in Nat /\ Len(q) \in Nat
    BY <1>4, Joined
  <1> HIDE DEF u
  <1>6. Len(n) \in Nat /\ Len(p) \in Nat
    BY <1>2
  <1>7. Len(r) \in 1 .. Len(u) /\ u[Len(r)] = "+"
    BY <1>2, <1>4, <1>5, <1>6
  <1>8. \A i \in 1 .. Len(p) : u[i] # "+"
    <2>1. ASSUME NEW i \in 1 .. Len(p) PROVE u[i] = p[i] /\ p[i] # "+"
      <3>1. u[i] = p[i]
        BY <1>4, <1>5, <1>6
      <3>2. i \in 1 .. Len(n) \/ i = Len(p)
        BY <1>2, <1>6
      <3> QED
        BY <1>1, <1>2, <3>1, <3>2
    <2> QED
      BY <2>1
  <1>9. \A i \in 1 .. Len(u) : u[i] = "+" => i >= Len(r)
    BY <1>4, <1>5, <1>6, <1>8
  <1>10. First(u, "+") = Len(r)
    <2>1. PICK i \in 1 .. Len(u) : i = Len(r)
      BY <1>7
    <2>2. u \in Seq(Tokens)
      BY <1>5
    <2>3. u[i] = "+"
      BY <1>7, <2>1
    <2>4. \A j \in 1 .. Len(u) : u[j] = "+" => j >= i
      BY <1>9, <2>1
    <2>5. First(u, "+") = i
      BY <2>2, <2>3, <2>4, FirstIs
    <2> QED
      BY <2>1, <2>5
  <1>11. Before(u, Len(r)) = p
    <2>1. Before(u, Len(r)) = SubSeq(u, 1, Len(r) - 1)
      BY DEF Before
    <2>2. p = SubSeq(r, 1, Len(r) - 1)
      BY <1>4 DEF Before
    <2>3. \A i \in 1 .. Len(r) - 1 : u[i] = p[i] /\ u[i] \in Tokens
      BY <1>2, <1>4, <1>5, <1>6
    <2> DEFINE b == SubSeq(u, 1, Len(r) - 1)
    <2>4. /\ 1 \in Int /\ Len(r) - 1 \in Int
          /\ Len(r) - 1 - 1 + 1 = Len(p) /\ Len(r) - 1 = Len(p)
          /\ 1 <= Len(r) - 1
      BY <1>2, <1>4, <1>6
    <2>5. /\ b \in Seq(Tokens) /\ Len(b) = Len(p)
          /\ \A i \in 1 .. Len(p) : b[i] = u[1 + i - 1]
      BY <2>3, <2>4, SubSeqProperties
    <2> HIDE DEF b
    <2>6. \A i \in 1 .. Len(p) : b[i] = p[i]
      BY <1>6, <2>3, <2>4, <2>5
    <2>7. b = p
      BY <1>2, <2>5, <2>6, SeqEqual
    <2> QED
      BY <2>1, <2>7 DEF b
  <1>12. u # <<>>
    BY <1>5, <1>7
  <1>13. ParseAddress(u \o v) =
            Task(CHOOSE j \in PlusOf(p) : TRUE, Before(p, Len(p)) \o v,
                 After(u, Len(r)))
    <2> DEFINE f == First(u, "+")
               b == Before(u, f)
    <2>1. PlusOf(b) # {} =>
             ParseAddress(u \o v) =
                Task(CHOOSE j \in PlusOf(b) : TRUE, Before(b, Len(b)) \o v,
                     After(u, f))
      BY <1>5, <1>12, Parsed
    <2>2. f = Len(r) /\ b = p
      BY <1>10, <1>11
    <2> QED
      BY <1>3, <2>1, <2>2
  <1>14. (CHOOSE j \in PlusOf(p) : TRUE) = k
    BY <1>3
  <1>15. ParseAddress(u \o v) = Task(k, n \o v, q)
    BY <1>2, <1>5, <1>13, <1>14
  <1>16. r = n \o <<PlusSuffix[k], "+">>
    <2> DEFINE e == <<PlusSuffix[k], "+">>
               w == n \o e
    <2>1. /\ e \in Seq(Tokens) /\ Len(e) = 2
          /\ e[1] = PlusSuffix[k] /\ e[2] = "+"
      BY <1>1
    <2> HIDE DEF e
    <2>2. /\ w \in Seq(Tokens) /\ Len(w) = Len(n) + 2
          /\ \A i \in 1 .. Len(n) : w[i] = n[i]
          /\ w[Len(n) + 1] = e[1] /\ w[Len(n) + 2] = e[2]
      <3>1. 1 \in 1 .. Len(e) /\ 2 \in 1 .. Len(e)
        BY <2>1
      <3>2. /\ w \in Seq(Tokens) /\ Len(w) = Len(n) + Len(e)
            /\ \A i \in 1 .. Len(n) : w[i] = n[i]
            /\ \A i \in 1 .. Len(e) : w[Len(n) + i] = e[i]
        BY <2>1, Joined
      <3> HIDE DEF w
      <3> QED
        BY <2>1, <3>1, <3>2
    <2> HIDE DEF w
    <2>3. Len(w) = Len(r)
      BY <1>2, <1>4, <2>2
    <2>4. ASSUME NEW i \in 1 .. Len(r) PROVE r[i] = w[i]
      <3>1. \/ i \in 1 .. Len(n) \/ i = Len(n) + 1 \/ i = Len(n) + 2
        BY <1>2, <1>4, <1>6
      <3>2. CASE i \in 1 .. Len(n)
        BY <1>2, <1>4, <1>6, <2>2, <3>2
      <3>3. CASE i = Len(n) + 1
        BY <1>2, <1>4, <1>6, <2>1, <2>2, <3>3
      <3>4. CASE i = Len(n) + 2
        BY <1>2, <1>4, <1>6, <2>1, <2>2, <3>4
      <3> QED
        BY <3>1, <3>2, <3>3, <3>4
    <2>5. r = w
      BY <1>4, <2>2, <2>3, <2>4, SeqEqual
    <2> QED
      BY <2>5 DEF w, e
  <1> QED
    BY <1>15, <1>16 DEF u

\* An address with a suffix and no part.
LEMMA ParsedDash ==
    ASSUME NEW n \in Seq(Tokens), n # <<>>,
           \A i \in 1 .. Len(n) : n[i] # "+",
           NEW k \in DOMAIN DashSuffix, NEW v, Host(v)
    PROVE  ParseAddress(n \o <<DashSuffix[k]>> \o v) = Task(k, n \o v, <<>>)
  <1> DEFINE u == n \o <<DashSuffix[k]>>
  <1>1. DashSuffix[k] \in Tokens /\ DashSuffix[k] # "+"
    BY TokensAre
  <1>2. /\ u \in Seq(Tokens) /\ u # <<>> /\ Len(u) = Len(n) + 1
        /\ u[Len(u)] = DashSuffix[k] /\ Before(u, Len(u)) = n
        /\ \A i \in 1 .. Len(n) : u[i] = n[i]
    BY <1>1, Lengthened
  <1>3. DashOf(u) = {k}
    BY DashNamed
  <1> HIDE DEF u
  <1>4. Len(n) \in Nat
    OBVIOUS
  <1>5. \A i \in 1 .. Len(u) : u[i] # "+"
    BY <1>1, <1>2, <1>4
  <1>6. First(u, "+") = 0 /\ PlusOf(Before(u, 0)) = {}
    BY <1>2, <1>5, NoPlus
  <1> DEFINE b == Before(u, First(u, "+"))
  <1>7. PlusOf(b) = {} /\ DashOf(u) # {} =>
            ParseAddress(u \o v) =
                Task(CHOOSE j \in DashOf(u) : TRUE, Before(u, Len(u)) \o v,
                     <<>>)
    BY <1>2, Parsed
  <1>8. (CHOOSE j \in DashOf(u) : TRUE) = k
    BY <1>3
  <1>9. ParseAddress(u \o v) = Task(k, n \o v, <<>>)
    BY <1>2, <1>3, <1>6, <1>7, <1>8
  <1> QED
    BY <1>9 DEF u

\* The list's own address.
LEMMA ParsedPost ==
    ASSUME NEW n \in Seq(Tokens), n # <<>>,
           \A i \in 1 .. Len(n) : n[i] # "+",
           \A k \in DOMAIN DashSuffix : ~EndsIn(n, DashSuffix[k]),
           NEW v, Host(v)
    PROVE  ParseAddress(n \o v) = Task("post", n \o v, <<>>)
  <1>1. First(n, "+") = 0 /\ PlusOf(Before(n, 0)) = {}
    BY NoPlus
  <1>2. DashOf(n) = {}
    BY DEF DashOf
  <1> DEFINE b == Before(n, First(n, "+"))
  <1>3. PlusOf(b) = {} /\ DashOf(n) = {} =>
            ParseAddress(n \o v) = Task("post", n \o v, <<>>)
    BY Parsed
  <1> QED
    BY <1>1, <1>2, <1>3

\* A token between two parts.
Parts(t, n, x, w) ==
    /\ t \in Seq(Tokens) /\ Len(t) = Len(n) + 1 + Len(w)
    /\ Len(n) \in Nat /\ Len(w) \in Nat
    /\ \A i \in 1 .. Len(n) : t[i] = n[i]
    /\ t[Len(n) + 1] = x
    /\ \A i \in 1 .. Len(w) : t[Len(n) + 1 + i] = w[i]
    /\ Before(t, Len(n) + 1) = n /\ After(t, Len(n) + 1) = w
    /\ t = n \o (<<x>> \o w) /\ After(t, Len(n)) = <<x>> \o w

LEMMA Between ==
    ASSUME NEW n \in Seq(Tokens), NEW x \in Tokens, NEW w \in Seq(Tokens)
    PROVE  Parts(n \o <<x>> \o w, n, x, w)
  <1> DEFINE e == <<x>>
             u == n \o e
             t == u \o w
             s == e \o w
  <1>1. /\ u \in Seq(Tokens) /\ Len(u) = Len(n) + 1 /\ u[Len(u)] = x
        /\ \A i \in 1 .. Len(n) : u[i] = n[i]
        /\ Len(n) \in Nat /\ Len(w) \in Nat
    BY Lengthened
  <1>2. e \in Seq(Tokens)
    OBVIOUS
  <1> HIDE DEF e, u
  <1>3. /\ t \in Seq(Tokens) /\ Len(t) = Len(u) + Len(w)
        /\ \A i \in 1 .. Len(u) : t[i] = u[i]
        /\ \A i \in 1 .. Len(w) : t[Len(u) + i] = w[i]
        /\ After(t, Len(u)) = w
    BY <1>1, Joined
  <1>4. s \in Seq(Tokens)
    BY <1>2, ConcatProperties
  <1>5. t = n \o s
    BY <1>2, ConcatAssociative DEF u
  <1> HIDE DEF s
  <1>6. Before(n \o s, Len(n) + 1) = n /\ After(n \o s, Len(n)) = s
    BY <1>4, Joined
  <1> HIDE DEF t
  <1>7. /\ \A i \in 1 .. Len(n) : t[i] = n[i]
        /\ t[Len(n) + 1] = x
    BY <1>1, <1>3
  <1>8. /\ \A i \in 1 .. Len(w) : t[Len(n) + 1 + i] = w[i]
        /\ Len(t) = Len(n) + 1 + Len(w) /\ After(t, Len(n) + 1) = w
    BY <1>1, <1>3
  <1> QED
    BY <1>1, <1>3, <1>5, <1>6, <1>7, <1>8 DEF Parts, t, u, e, s

LEMMA Divided ==
    ASSUME NEW a \in Seq(Tokens), NEW p \in 1 .. Len(a)
    PROVE  LET n == Before(a, p)
               w == After(a, p)
           IN  /\ n \in Seq(Tokens) /\ w \in Seq(Tokens)
               /\ Len(n) = p - 1 /\ Len(w) = Len(a) - p
               /\ a[p] \in Tokens /\ a = n \o <<a[p]>> \o w
  <1>1. Len(a) \in Nat /\ \A i \in 1 .. Len(a) : a[i] \in Tokens
    OBVIOUS
  <1> DEFINE n == SubSeq(a, 1, p - 1)
             m == p + 1
             l == Len(a)
             w == SubSeq(a, m, l)
  <1>2. /\ n \in Seq(Tokens) /\ Len(n) = p - 1
        /\ \A i \in 1 .. p - 1 : n[i] = a[i]
    <2> DEFINE h == p - 1
    <2>1. /\ 1 \in Int /\ h \in Int /\ \A i \in 1 .. h : a[i] \in Tokens
          /\ h - 1 + 1 = h /\ (IF 1 <= h THEN h - 1 + 1 ELSE 0) = h
      BY <1>1
    <2>2. /\ SubSeq(a, 1, h) \in Seq(Tokens)
          /\ Len(SubSeq(a, 1, h)) = IF 1 <= h THEN h - 1 + 1 ELSE 0
          /\ \A i \in 1 .. h - 1 + 1 : SubSeq(a, 1, h)[i] = a[1 + i - 1]
      BY <2>1, SubSeqProperties
    <2> QED
      BY <2>1, <2>2
  <1>3. /\ w \in Seq(Tokens) /\ Len(w) = Len(a) - p
        /\ \A i \in 1 .. Len(a) - p : w[i] = a[p + i]
    <2>1. /\ m \in Int /\ l \in Int /\ \A i \in m .. l : a[i] \in Tokens
          /\ l - m + 1 = Len(a) - p
          /\ (IF m <= l THEN l - m + 1 ELSE 0) = Len(a) - p
          /\ \A i \in 1 .. Len(a) - p : m + i - 1 = p + i
      BY <1>1
    <2> HIDE DEF m, l
    <2>2. /\ w \in Seq(Tokens)
          /\ Len(w) = IF m <= l THEN l - m + 1 ELSE 0
          /\ \A i \in 1 .. l - m + 1 : w[i] = a[m + i - 1]
      BY <2>1, SubSeqProperties
    <2> HIDE DEF w
    <2> QED
      BY <2>1, <2>2
  <1> DEFINE x == a[p]
             t == n \o <<x>> \o w
  <1> HIDE DEF n, w, x
  <1>4. /\ t \in Seq(Tokens) /\ Len(t) = Len(n) + 1 + Len(w)
        /\ \A i \in 1 .. Len(n) : t[i] = n[i]
        /\ t[Len(n) + 1] = x
        /\ \A i \in 1 .. Len(w) : t[Len(n) + 1 + i] = w[i]
    <2>1. x \in Tokens
      BY <1>1 DEF x
    <2>2. Parts(t, n, x, w)
      BY <1>2, <1>3, <2>1, Between
    <2> QED
      BY <2>2 DEF Parts
  <1> HIDE DEF t
  <1>5. Len(t) = Len(a)
    BY <1>1, <1>2, <1>3, <1>4
  <1>6. ASSUME NEW i \in 1 .. Len(a) PROVE t[i] = a[i]
    <2>1. i < p \/ i = p \/ i > p
      BY <1>1
    <2>2. CASE i < p
      BY <1>1, <1>2, <1>4, <2>2
    <2>3. CASE i = p
      BY <1>1, <1>2, <1>4, <2>3 DEF x
    <2>4. CASE i > p
      <3> DEFINE j == i - p
      <3>1. j \in 1 .. Len(w) /\ j \in 1 .. Len(a) - p /\ p + j = i
            /\ Len(n) + 1 + j = i
        BY <1>1, <1>2, <1>3, <2>4
      <3> HIDE DEF j
      <3> QED
        BY <1>3, <1>4, <3>1
    <2> QED
      BY <2>1, <2>2, <2>3, <2>4
  <1>7. t = a
    BY <1>4, <1>5, <1>6, SeqEqual
  <1> QED
    BY <1>1, <1>2, <1>3, <1>7 DEF t, n, w, x, m, l, Before, After

\* The marker, after the list's name.
Marks(u, n, e) ==
    /\ u \in Seq(Tokens) /\ Len(u) = Len(n) + 2 + Len(e)
    /\ Len(n) \in Nat /\ Len(e) \in Nat
    /\ u[Len(n) + 1] = "-bounces" /\ u[Len(n) + 2] = "+"
    /\ \A i \in 1 .. Len(e) : u[Len(n) + 2 + i] = e[i]
    /\ After(u, Len(n) + 2) = e

LEMMA Marked ==
    ASSUME NEW n \in Seq(Tokens), NEW e \in Seq(Tokens)
    PROVE  Marks(n \o <<"-bounces", "+">> \o e, n, e)
  <1> DEFINE b == <<"-bounces", "+">>
             h == n \o b
             u == h \o e
  <1>1. "-bounces" \in Tokens /\ "+" \in Tokens
    BY DEF Tokens, Suffixes
  <1>2. /\ b \in Seq(Tokens) /\ Len(b) = 2 /\ b[1] = "-bounces" /\ b[2] = "+"
    BY <1>1
  <1> HIDE DEF b
  <1>3. /\ h \in Seq(Tokens) /\ Len(h) = Len(n) + Len(b)
        /\ Len(n) \in Nat
        /\ \A i \in 1 .. Len(b) : h[Len(n) + i] = b[i]
    BY <1>2, Joined
  <1> HIDE DEF h
  <1>4. /\ u \in Seq(Tokens) /\ Len(u) = Len(h) + Len(e)
        /\ Len(h) \in Nat /\ Len(e) \in Nat
        /\ \A i \in 1 .. Len(h) : u[i] = h[i]
        /\ \A i \in 1 .. Len(e) : u[Len(h) + i] = e[i]
        /\ After(u, Len(h)) = e
    BY <1>3, Joined
  <1> HIDE DEF u
  <1>5. Len(h) = Len(n) + 2
    BY <1>2, <1>3
  <1>6. u[Len(n) + 1] = "-bounces" /\ u[Len(n) + 2] = "+"
    <2>1. 1 \in 1 .. Len(b) /\ 2 \in 1 .. Len(b)
      BY <1>2
    <2>2. /\ Len(n) + 1 \in 1 .. Len(h) /\ Len(n) + 2 \in 1 .. Len(h)
      BY <1>3, <1>5
    <2> QED
      BY <1>2, <1>3, <1>4, <2>1, <2>2
  <1> QED
    BY <1>3, <1>4, <1>5, <1>6 DEF Marks, u, h, b

\* No "-bounces+" in an address.
Unmarked(q) ==
    \A i \in 1 .. Len(q) : q[i] = "-bounces" =>
        i < Len(q) /\ q[i + 1] # "+"

\* DecodeVERP undoes what EncodeVERP did: the marker it finds is the one that
\* was printed, and the last "=" the one that stands for the "@".
LEMMA Decoded ==
    ASSUME NEW n \in Seq(Tokens), n # <<>>,
           NEW q1 \in Seq(Tokens), q1 # <<>>,
           NEW q2 \in Seq(Tokens), q2 # <<>>,
           \A i \in 1 .. Len(q2) : q2[i] # "=",
           Unmarked(q1 \o <<"@">> \o q2),
           NEW v, Host(v)
    PROVE  DecodeVERP(n \o <<"-bounces", "+">> \o (q1 \o <<"=">> \o q2) \o v)
              = q1 \o <<"@">> \o q2
  <1> DEFINE q  == q1 \o <<"@">> \o q2
             e  == q1 \o <<"=">> \o q2
             u  == n \o <<"-bounces", "+">> \o e
             a  == u \o v
             at == Last(a, "@")
  <1>1. "@" \in Tokens /\ "=" \in Tokens
    BY TokensAre
  <1>2. /\ q \in Seq(Tokens) /\ Len(q) = Len(q1) + 1 + Len(q2)
        /\ Len(q1) \in Nat /\ Len(q2) \in Nat
        /\ \A i \in 1 .. Len(q1) : q[i] = q1[i]
        /\ \A i \in 1 .. Len(q2) : q[Len(q1) + 1 + i] = q2[i]
    <2>1. Parts(q, q1, "@", q2)
      BY <1>1, Between
    <2> QED
      BY <2>1 DEF Parts
  <1>3. /\ e \in Seq(Tokens) /\ Len(e) = Len(q1) + 1 + Len(q2)
        /\ \A i \in 1 .. Len(q1) : e[i] = q1[i]
        /\ e[Len(q1) + 1] = "="
        /\ \A i \in 1 .. Len(q2) : e[Len(q1) + 1 + i] = q2[i]
        /\ Before(e, Len(q1) + 1) = q1 /\ After(e, Len(q1) + 1) = q2
    <2>1. Parts(e, q1, "=", q2)
      BY <1>1, Between
    <2> QED
      BY <2>1 DEF Parts
  <1>4. Unmarked(q)
    OBVIOUS
  <1> HIDE DEF q, e
  <1>5. /\ u \in Seq(Tokens) /\ Len(u) = Len(n) + 2 + Len(e)
        /\ Len(n) \in Nat /\ Len(e) \in Nat
        /\ u[Len(n) + 1] = "-bounces" /\ u[Len(n) + 2] = "+"
        /\ \A i \in 1 .. Len(e) : u[Len(n) + 2 + i] = e[i]
        /\ After(u, Len(n) + 2) = e
    <2>1. Marks(u, n, e)
      BY <1>3, Marked
    <2> QED
      BY <2>1 DEF Marks
  <1> HIDE DEF u
  <1>6. Len(n) >= 1 /\ Len(q1) >= 1 /\ Len(q2) >= 1
    OBVIOUS
  <1>7. u # <<>>
    BY <1>5
  <1>8. /\ at \in 2 .. Len(a) - 1 /\ Before(a, at) = u
    BY <1>5, <1>7, Apart
  <1> HIDE DEF a, at
  <1> DEFINE marks == {i \in Spots(u, "-bounces") : i + 1 \in Spots(u, "+")}
             M     == marks \cup {0}
             p     == Len(n) + 1
  <1>9. p \in marks
    BY <1>5, LenProperties DEF Spots
  <1>10. ASSUME NEW i \in marks PROVE i \in Nat /\ i <= p
    <2>1. /\ i \in 1 .. Len(u) /\ i + 1 \in 1 .. Len(u)
          /\ u[i] = "-bounces" /\ u[i + 1] = "+"
      BY <1>5, LenProperties DEF Spots
    <2>2. SUFFICES ASSUME i > p PROVE FALSE
      BY <1>5, <2>1
    <2>3. i # p + 1
      BY <1>5, <2>1
    <2> DEFINE j == i - (Len(n) + 2)
    <2>4. /\ j \in 1 .. Len(e) /\ j + 1 \in 1 .. Len(e)
          /\ Len(n) + 2 + j = i /\ Len(n) + 2 + (j + 1) = i + 1
      BY <1>5, <2>1, <2>2, <2>3
    <2> HIDE DEF j
    <2>5. e[j] = "-bounces" /\ e[j + 1] = "+"
      BY <1>5, <2>1, <2>4
    <2>6. ASSUME NEW l \in 1 .. Len(e), e[l] # "=" PROVE q[l] = e[l]
      <3>1. l # Len(q1) + 1
        BY <1>3, <2>6
      <3>2. CASE l <= Len(q1)
        BY <1>2, <1>3, <3>2
      <3>3. CASE ~(l <= Len(q1))
        <4> DEFINE r == l - (Len(q1) + 1)
        <4>1. r \in 1 .. Len(q2) /\ Len(q1) + 1 + r = l
          BY <1>2, <1>3, <3>1, <3>3
        <4> HIDE DEF r
        <4> QED
          BY <1>2, <1>3, <4>1
      <3> QED
        BY <3>2, <3>3
    <2>7. q[j] = "-bounces" /\ q[j + 1] = "+" /\ j \in 1 .. Len(q)
      BY <1>2, <1>3, <2>4, <2>5, <2>6
    <2> QED
      BY <1>4, <2>7 DEF Unmarked
  <1>11. p \in M /\ p \in Nat /\ \A y \in M : y \in Nat /\ y <= p
    BY <1>5, <1>9, <1>10
  <1> HIDE DEF marks, M
  <1>12. Max(M) = p
    <2>1. \E x \in M : \A y \in M : x >= y
      BY <1>11
    <2>2. Max(M) \in M /\ \A y \in M : Max(M) >= y
      BY <2>1 DEF Max
    <2>3. PICK x \in M : x = Max(M)
      BY <2>2
    <2>4. x \in Nat /\ x <= p /\ p <= x
      BY <1>11, <2>2, <2>3
    <2> QED
      BY <1>11, <2>3, <2>4
  <1>13. p + 1 = Len(n) + 2 /\ p > 1
    BY <1>5, <1>6
  <1>14. After(u, p + 1) = e
    BY <1>5, <1>13
  <1> DEFINE x == Len(q1) + 1
  <1>15. x \in 1 .. Len(e) /\ e[x] = "=" /\ x \in 2 .. Len(e) - 1
    BY <1>2, <1>3, <1>6
  <1>16. \A i \in 1 .. Len(e) : e[i] = "=" => i <= x
    <2>1. ASSUME NEW i \in 1 .. Len(e), i > x PROVE e[i] # "="
      <3> DEFINE r == i - x
      <3>1. r \in 1 .. Len(q2) /\ Len(q1) + 1 + r = i
        BY <1>2, <1>3, <2>1
      <3> HIDE DEF r
      <3> QED
        BY <1>3, <3>1
    <2> QED
      BY <1>2, <1>3, <2>1
  <1>17. Last(e, "=") = x
    BY <1>3, <1>15, <1>16, LastIs, SMTT(30)
  <1>18. DecodeVERP(a) = Before(e, x) \o <<"@">> \o After(e, x)
    <2>1. Max({i \in Spots(u, "-bounces") : i + 1 \in Spots(u, "+")}
              \cup {0}) = p
      BY <1>12 DEF M, marks
    <2> HIDE DEF p, x
    <2> QED
      BY <1>8, <1>13, <1>14, <1>15, <1>17, <2>1 DEF DecodeVERP, at
  <1> QED
    BY <1>3, <1>18 DEF q, a, u, e

\* A set of numbers has a least one.
LEMMA LeastOf ==
    ASSUME NEW S \in SUBSET Nat, S # {}
    PROVE  Min(S) \in S /\ \A y \in S : Min(S) <= y
  <1>1. \E x \in S : \A y \in S : ~(<<y, x>> \in OpToRel(<, Nat))
    BY NatLessThanWellFounded, WFMin
  <1>2. \A x, y \in Nat : ~(<<y, x>> \in OpToRel(<, Nat)) => x <= y
    BY DEF OpToRel
  <1>3. \E x \in S : \A y \in S : x <= y
    BY <1>1, <1>2
  <1> QED
    BY <1>3 DEF Min

LEMMA FirstSpot ==
    ASSUME NEW s \in Seq(Tokens), NEW t
    PROVE  \/ First(s, t) = 0
           \/ First(s, t) \in 1 .. Len(s) /\ s[First(s, t)] = t
  <1> DEFINE S == Spots(s, t)
  <1>1. S \in SUBSET Nat /\ \A i \in S : i \in 1 .. Len(s) /\ s[i] = t
    BY LenProperties DEF Spots
  <1>2. S # {} => Min(S) \in S
    BY <1>1, LeastOf
  <1> QED
    BY <1>1, <1>2 DEF First, S

\* What has two "@" is no list's address.
LEMMA TwoAts ==
    ASSUME NEW x \in Seq(Tokens), NEW i \in 1 .. Len(x), x[i] = "@",
           NEW v, Host(v)
    PROVE  ~ListAddress(x \o v)
  <1> DEFINE a == x \o v
             j == Len(x) + 1
  <1>1. v \in Seq(Tokens) /\ Len(v) >= 2 /\ v[1] = "@" /\ 1 \in 1 .. Len(v)
    BY DEF Host
  <1>2. /\ a \in Seq(Tokens) /\ Len(a) = Len(x) + Len(v) /\ Len(x) \in Nat
        /\ \A l \in 1 .. Len(x) : a[l] = x[l]
        /\ \A l \in 1 .. Len(v) : a[Len(x) + l] = v[l]
        /\ Len(v) \in Nat
    BY <1>1, Joined
  <1> HIDE DEF a
  <1>3. i \in 1 .. Len(a) /\ a[i] = "@"
    BY <1>1, <1>2
  <1>4. j \in 1 .. Len(a) /\ a[j] = "@" /\ i # j
    BY <1>1, <1>2
  <1> HIDE DEF j
  <1>5. i \in Spots(a, "@") /\ j \in Spots(a, "@")
    BY <1>2, <1>3, <1>4, LenProperties DEF Spots
  <1>6. ~ListAddress(a)
    BY <1>4, <1>5 DEF ListAddress
  <1> QED
    BY <1>6 DEF a

\* The Reply-To of the notices of a list leads to no list.
LEMMA RepliedNowhere ==
    ASSUME NEW n \in Seq(Tokens), \A i \in 1 .. Len(n) : n[i] # "+",
           NEW v, Host(v)
    PROVE  ~ListAddress(ParseAddress(n \o v \o <<"-owner">> \o v).list)
  <1> DEFINE a == n \o v
             u == a \o <<"-owner">>
             f == First(u, "+")
             p == Before(u, f)
             x == Len(n) + 1
  <1>1. "-owner" \in Tokens
    BY DEF Tokens, Suffixes
  <1>2. v \in Seq(Tokens) /\ Len(v) >= 2 /\ v[1] = "@" /\ 1 \in 1 .. Len(v)
    BY DEF Host
  <1>3. /\ a \in Seq(Tokens) /\ Len(a) = Len(n) + Len(v)
        /\ Len(n) \in Nat /\ Len(v) \in Nat
        /\ \A i \in 1 .. Len(n) : a[i] = n[i]
        /\ \A i \in 1 .. Len(v) : a[Len(n) + i] = v[i]
    BY <1>2, Joined
  <1> HIDE DEF a
  <1>4. /\ u \in Seq(Tokens) /\ u # <<>> /\ Len(u) = Len(a) + 1
        /\ Before(u, Len(u)) = a
        /\ \A i \in 1 .. Len(a) : u[i] = a[i]
    BY <1>1, <1>3, Lengthened
  <1> HIDE DEF u
  <1>5. x \in 1 .. Len(a) /\ a[x] = "@" /\ x \in 1 .. Len(u) /\ u[x] = "@"
    <2>1. Len(n) + 1 \in 1 .. Len(a) /\ Len(n) + 1 \in 1 .. Len(u)
      BY <1>2, <1>3, <1>4
    <2>2. a[Len(n) + 1] = v[1]
      BY <1>2, <1>3
    <2>3. u[Len(n) + 1] = a[Len(n) + 1]
      BY <1>4, <2>1
    <2> QED
      BY <1>2, <2>1, <2>2, <2>3
  <1>6. /\ PlusOf(p) # {} =>
              ParseAddress(u \o v) =
                 Task(CHOOSE k \in PlusOf(p) : TRUE,
                      Before(p, Len(p)) \o v, After(u, f))
        /\ PlusOf(p) = {} /\ DashOf(u) # {} =>
              ParseAddress(u \o v) =
                 Task(CHOOSE k \in DashOf(u) : TRUE,
                      Before(u, Len(u)) \o v, <<>>)
        /\ PlusOf(p) = {} /\ DashOf(u) = {} =>
              ParseAddress(u \o v) = Task("post", u \o v, <<>>)
    BY <1>4, Parsed
  <1> DEFINE l == ParseAddress(u \o v).list
  <1>7. CASE PlusOf(p) # {}
    <2>1. l = Before(p, Len(p)) \o v
      BY <1>6, <1>7 DEF Task
    <2> HIDE DEF l
    <2>2. PICK k \in DOMAIN PlusSuffix : p # <<>> /\ p[Len(p)] = PlusSuffix[k]
      BY <1>7 DEF PlusOf, EndsIn
    <2>3. p = SubSeq(u, 1, f - 1)
      BY DEF Before
    <2>4. f # 0
      <3>1. ASSUME f = 0 PROVE SubSeq(u, 1, f - 1) = <<>>
        BY <3>1, SubSeqEmpty
      <3> QED
        BY <2>2, <2>3, <3>1
    <2>5. f \in 1 .. Len(u) /\ u[f] = "+"
      BY <1>4, <2>4, FirstSpot
    <2> DEFINE m == f - 1
    <2>6. f > x
      <3>1. \A i \in 1 .. Len(n) : u[i] # "+"
        <4>1. \A i \in 1 .. Len(n) : i \in 1 .. Len(a)
          BY <1>3
        <4>2. \A i \in 1 .. Len(n) : u[i] = a[i] /\ a[i] = n[i]
          BY <1>3, <1>4, <4>1
        <4> QED
          BY <4>2
      <3> QED
        BY <1>3, <1>4, <1>5, <2>5, <3>1
    <2>7. /\ 1 \in Int /\ m \in Int /\ \A i \in 1 .. m : u[i] \in Tokens
          /\ m - 1 + 1 = m /\ 1 <= m /\ x <= m /\ m \in Nat
          /\ \A i \in 1 .. m : 1 + i - 1 = i
      BY <1>3, <1>4, <2>5, <2>6
    <2> HIDE DEF m, f, p
    <2>8. p = SubSeq(u, 1, m)
      BY <2>3 DEF m
    <2>9. /\ p \in Seq(Tokens) /\ Len(p) = m
          /\ \A i \in 1 .. m : p[i] = u[i]
      <3>1. /\ SubSeq(u, 1, m) \in Seq(Tokens)
            /\ Len(SubSeq(u, 1, m)) = IF 1 <= m THEN m - 1 + 1 ELSE 0
            /\ \A i \in 1 .. m - 1 + 1 : SubSeq(u, 1, m)[i] = u[1 + i - 1]
        BY <2>7, SubSeqProperties
      <3> QED
        BY <2>7, <2>8, <3>1
    <2>10. p[x] = "@" /\ p[m] # "@" /\ x \in 1 .. m
      BY <1>3, <1>5, <2>2, <2>7, <2>9, TokensAre
    <2>11. x < m
      BY <1>3, <2>7, <2>10
    <2> DEFINE b == Before(p, Len(p))
    <2>12. b \in Seq(Tokens) /\ x \in 1 .. Len(b) /\ b[x] = "@"
      <3>1. /\ Len(p) \in 1 .. Len(p)
        BY <2>7, <2>9
      <3> DEFINE y == p[Len(p)]
                 w == After(p, Len(p))
      <3>2. /\ b \in Seq(Tokens) /\ w \in Seq(Tokens) /\ y \in Tokens
            /\ Len(b) = Len(p) - 1 /\ p = b \o <<y>> \o w
        BY <2>9, <3>1, Divided
      <3> HIDE DEF b, y, w
      <3>3. Parts(b \o <<y>> \o w, b, y, w)
        BY <3>2, Between
      <3>4. \A i \in 1 .. Len(b) : p[i] = b[i]
        BY <3>2, <3>3 DEF Parts
      <3> QED
        BY <1>3, <2>9, <2>10, <2>11, <3>2, <3>4
    <2> HIDE DEF b, x
    <2>13. ~ListAddress(b \o v)
      BY <2>12, TwoAts
    <2> QED
      BY <2>1, <2>13 DEF b, l, u, a
  <1>8. CASE PlusOf(p) = {} /\ DashOf(u) # {}
    <2>1. l = a \o v
      BY <1>4, <1>6, <1>8 DEF Task
    <2>2. ~ListAddress(a \o v)
      BY <1>3, <1>5, TwoAts
    <2> QED
      BY <2>1, <2>2 DEF u, a
  <1>9. CASE PlusOf(p) = {} /\ DashOf(u) = {}
    <2>1. l = u \o v
      BY <1>6, <1>9 DEF Task
    <2>2. ~ListAddress(u \o v)
      BY <1>4, <1>5, TwoAts
    <2> QED
      BY <2>1, <2>2 DEF u, a
  <1> QED
    BY <1>7, <1>8, <1>9

\* What an address is parsed as is a task.
LEMMA ParsedTask ==
    ASSUME NEW a
    PROVE  \E k, l, p : ParseAddress(a) = Task(k, l, p)
  <1>1. \E k, l, p : NoTask = Task(k, l, p)
    BY DEF NoTask
  <1> QED
    BY <1>1 DEF ParseAddress

\* The address printed for a task of each kind.
PrintedThus(t, n, v) ==
    /\ t.kind = "post" => Printed(t) = t.list
    /\ t.kind = "bounce" => Printed(t) = EncodeVERP(t.list, t.part)
    /\ t.kind \in {"confirm", "moderate"} =>
          Printed(t) = (n \o <<PlusSuffix[t.kind], "+">>) \o t.part \o v
    /\ t.kind \in DOMAIN DashSuffix =>
          Printed(t) = n \o <<DashSuffix[t.kind]>> \o v
    /\ t.kind = "reply" => Printed(t) = t.list \o <<"-owner">> \o v

LEMMA PrintedAs ==
    ASSUME NEW t, NEW i, NEW n, NEW v, First(t.list, "@") = i,
           Before(t.list, i) = n, After(t.list, i - 1) = v
    PROVE  PrintedThus(t, n, v)
  <1> DEFINE a == Before(t.list, i)
             b == After(t.list, i - 1)
             e == EncodeVERP(t.list, t.part)
             f == (a \o <<PlusSuffix[t.kind], "+">>) \o t.part \o b
             g == a \o <<DashSuffix[t.kind]>> \o b
             h == t.list \o <<"-owner">> \o b
  <1>1. Printed(t) =
           CASE t.kind = "post" -> t.list
             [] t.kind = "bounce" -> e
             [] t.kind \in {"confirm", "moderate"} -> f
             [] t.kind \in DOMAIN DashSuffix -> g
             [] t.kind = "reply" -> h
    BY Zenon DEF Printed
  <1>2. DOMAIN DashSuffix = {"request", "owner", "subscribe", "unsubscribe"}
    BY DEF DashSuffix
  <1>3. f = (n \o <<PlusSuffix[t.kind], "+">>) \o t.part \o v
        /\ g = n \o <<DashSuffix[t.kind]>> \o v
        /\ h = t.list \o <<"-owner">> \o v
    BY Zenon
  <1> HIDE DEF e, f, g, h
  <1>4. t.kind = "post" => Printed(t) = t.list
    BY <1>1, <1>2
  <1>5. t.kind = "bounce" => Printed(t) = e
    BY <1>1, <1>2
  <1>6. t.kind \in {"confirm", "moderate"} => Printed(t) = f
    BY <1>1, <1>2
  <1>7. t.kind \in DOMAIN DashSuffix => Printed(t) = g
    BY <1>1, <1>2
  <1>8. t.kind = "reply" => Printed(t) = h
    BY <1>1, <1>2
  <1> QED
    BY <1>3, <1>4, <1>5, <1>6, <1>7, <1>8, Zenon DEF e, PrintedThus

Regrouped(n, q, e, w, m, d) ==
    n \o q \o e \o w \o m \o d = n \o (q \o e \o w) \o (m \o d)

LEMMA Shuffled ==
    ASSUME NEW n \in Seq(Tokens), NEW q \in Seq(Tokens), NEW e \in Seq(Tokens),
           NEW w \in Seq(Tokens), NEW m \in Seq(Tokens), NEW d \in Seq(Tokens)
    PROVE  Regrouped(n, q, e, w, m, d)
  <1> DEFINE x == q \o e
             y == x \o w
             z == n \o y
  <1>1. n \o q \o e = n \o x
    BY SMT
  <1>2. x \in Seq(Tokens)
    BY SMT
  <1> HIDE DEF x
  <1>3. n \o x \o w = n \o y
    BY <1>2, SMTT(30)
  <1>4. y \in Seq(Tokens)
    BY <1>2, SMT
  <1> HIDE DEF y
  <1>5. z \in Seq(Tokens)
    BY <1>4, SMT
  <1> HIDE DEF z
  <1>6. z \o m \o d = z \o (m \o d)
    BY <1>5, SMTT(30)
  <1> QED
    BY <1>1, <1>3, <1>6 DEF Regrouped, x, y, z

\* The list of a task that is printed without ambiguity.
LEMMA UnambiguousList ==
    ASSUME NEW t, ListAddress(t.list), Unambiguous(t)
    PROVE  \E n \in Seq(Tokens), v \in Seq(Tokens) :
              /\ t.list = n \o v /\ n # <<>> /\ Host(v)
              /\ First(t.list, "@") = Len(n) + 1
              /\ Last(t.list, "@") = Len(n) + 1
              /\ Before(t.list, Len(n) + 1) = n /\ After(t.list, Len(n)) = v
              /\ \A i \in 1 .. Len(n) : n[i] # "+"
              /\ t.kind = "post" =>
                    \A k \in DOMAIN DashSuffix : ~EndsIn(n, DashSuffix[k])
  <1>1. PICK n \in Seq(Tokens), v \in Seq(Tokens) :
           /\ t.list = n \o v /\ n # <<>> /\ Host(v)
           /\ First(t.list, "@") = Len(n) + 1
           /\ Last(t.list, "@") = Len(n) + 1
           /\ Before(t.list, Len(n) + 1) = n /\ After(t.list, Len(n)) = v
    BY ListParts
  <1>2. /\ Spots(n, "+") = {}
        /\ t.kind = "post" =>
              \A k \in DOMAIN DashSuffix : ~EndsIn(n, DashSuffix[k])
    BY <1>1 DEF Unambiguous
  <1>3. \A i \in 1 .. Len(n) : n[i] # "+"
    BY <1>2, LenProperties DEF Spots
  <1> QED
    BY <1>1, <1>2, <1>3

\* The lemmas above in a form the provers can instantiate.
Splits(q1, q2) ==
    /\ q1 \in Seq(Tokens) /\ q1 # <<>>
    /\ q2 \in Seq(Tokens) /\ q2 # <<>>
    /\ \A i \in 1 .. Len(q2) : q2[i] # "="
    /\ Unmarked(q1 \o <<"@">> \o q2)
DecodesTo(n, q1, q2, v) ==
    DecodeVERP(n \o <<"-bounces", "+">> \o (q1 \o <<"=">> \o q2) \o v)
       = q1 \o <<"@">> \o q2

LEMMA Decodes ==
    ASSUME NEW n \in Seq(Tokens), n # <<>>, NEW q1, NEW q2, Splits(q1, q2),
           NEW v, Host(v)
    PROVE  DecodesTo(n, q1, q2, v)
  <1> QED
    BY Decoded DEF Splits, DecodesTo

ParsesTo(n, k, q, v) ==
    ParseAddress((n \o <<PlusSuffix[k], "+">>) \o q \o v) = Task(k, n \o v, q)

LEMMA ParsesPlus ==
    ASSUME NEW n \in Seq(Tokens), \A i \in 1 .. Len(n) : n[i] # "+",
           NEW k \in DOMAIN PlusSuffix, NEW q \in Seq(Tokens),
           NEW v, Host(v)
    PROVE  ParsesTo(n, k, q, v)
  <1> QED
    BY ParsedPlus DEF ParsesTo

\* Mail to an address that is printed for a task leads to that task; the
\* Reply-To of the notices leads to no list.
LEMMA Routed ==
    ASSUME NEW t \in [kind : Kinds, list : Seq(STRING), part : Seq(STRING)],
           ListAddress(t.list), Unambiguous(t),
           t.kind \notin DOMAIN PlusSuffix => t.part = <<>>,
           t.kind = "bounce" => First(t.part, "@") \in 2 .. Len(t.part) - 1
    PROVE  IF t.kind = "reply" THEN ~ListAddress(Route(Printed(t)).list)
                               ELSE Route(Printed(t)) = t
  <1> DEFINE part == t.part
  <1>1. PICK n \in Seq(Tokens), v \in Seq(Tokens) :
           /\ t.list = n \o v /\ n # <<>> /\ Host(v)
           /\ First(t.list, "@") = Len(n) + 1
           /\ Last(t.list, "@") = Len(n) + 1
           /\ Before(t.list, Len(n) + 1) = n /\ After(t.list, Len(n)) = v
           /\ \A i \in 1 .. Len(n) : n[i] # "+"
           /\ t.kind = "post" =>
                 \A k \in DOMAIN DashSuffix : ~EndsIn(n, DashSuffix[k])
    BY UnambiguousList
  <1>2. t = Task(t.kind, n \o v, part)
    BY <1>1 DEF Task
  <1>3. Len(n) \in Nat /\ Len(n) + 1 - 1 = Len(n)
    BY LenProperties
  <1>4. part \in Seq(Tokens)
    BY SeqTokens
  <1> DEFINE top == Len(n) + 1
  <1>10. /\ First(t.list, "@") = top /\ Before(t.list, top) = n
         /\ After(t.list, top - 1) = v
    BY <1>1, <1>3
  <1> HIDE DEF top, part
  <1>11. PrintedThus(t, n, v)
    BY <1>10, PrintedAs
  <1>5. CASE t.kind = "post"
    <2>1. Printed(t) = n \o v
      BY <1>1, <1>5, <1>11 DEF PrintedThus
    <2>2. ParseAddress(n \o v) = Task("post", n \o v, <<>>)
      BY <1>1, <1>5, ParsedPost
    <2>3. part = <<>>
      BY <1>5 DEF PlusSuffix, part
    <2> QED
      BY <1>2, <1>5, <2>1, <2>2, <2>3 DEF Route, Task
  <1>6. CASE t.kind \in DOMAIN DashSuffix
    <2>1. t.kind \notin {"post", "bounce", "confirm", "moderate", "reply"}
      BY <1>6 DEF DashSuffix
    <2>2. Printed(t) = n \o <<DashSuffix[t.kind]>> \o v
      BY <1>6, <1>11 DEF PrintedThus
    <2>3. ParseAddress(n \o <<DashSuffix[t.kind]>> \o v)
             = Task(t.kind, n \o v, <<>>)
      BY <1>1, <1>6, ParsedDash
    <2>4. part = <<>>
      BY <2>1 DEF PlusSuffix, part
    <2> QED
      BY <1>2, <2>1, <2>2, <2>3, <2>4 DEF Route, Task
  <1>7. CASE t.kind \in {"confirm", "moderate"}
    <2>1. t.kind \notin {"post", "bounce", "reply"}
          /\ t.kind \in DOMAIN PlusSuffix /\ t.kind \notin DOMAIN DashSuffix
      BY <1>7 DEF PlusSuffix, DashSuffix
    <2>2. Printed(t) = (n \o <<PlusSuffix[t.kind], "+">>) \o part \o v
      BY <1>7, <1>11 DEF part, PrintedThus
    <2> DEFINE kind == t.kind
    <2> HIDE DEF kind
    <2>3. ParseAddress((n \o <<PlusSuffix[kind], "+">>) \o part \o v)
             = Task(kind, n \o v, part)
      <3>1. kind \in DOMAIN PlusSuffix
        BY <2>1 DEF kind
      <3> QED
        BY <1>1, <1>4, <3>1, ParsesPlus, SMTT(30) DEF ParsesTo
    <2> QED
      BY <1>2, <2>1, <2>2, <2>3 DEF Route, Task, kind
  <1>8. CASE t.kind = "reply"
    <2> DEFINE x == ParseAddress(n \o v \o <<"-owner">> \o v)
    <2>1. t.kind \notin DOMAIN DashSuffix
      BY <1>8 DEF DashSuffix
    <2>2. Printed(t) = n \o v \o <<"-owner">> \o v
      BY <1>1, <1>8, <1>11 DEF PrintedThus
    <2>3. ~ListAddress(x.list)
      BY <1>1, RepliedNowhere
    <2>4. PICK k, l, p : x = Task(k, l, p)
      BY ParsedTask
    <2> HIDE DEF x
    <2>5. ParseAddress(Printed(t)) = x
      BY <2>2 DEF x
    <2>6. Route(Printed(t)).list = x.list
      BY <2>4, <2>5 DEF Route, Task
    <2> QED
      BY <1>8, <2>3, <2>6
  <1>9. CASE t.kind = "bounce"
    <2> DEFINE r  == First(part, "@")
               q1 == Before(part, r)
               q2 == After(part, r)
               q  == q1 \o <<"=">> \o q2
               d  == After(t.list, Len(n) + 1)
               b  == <<"-bounces", "+">>
    <2>1. r \in 2 .. Len(part) - 1 /\ Len(part) \in Nat /\ r \in 1 .. Len(part)
          /\ part[r] = "@"
      <3>1. Len(part) \in Nat
        BY <1>4, LenProperties
      <3>2. r \in 2 .. Len(part) - 1 /\ r \in 1 .. Len(part)
        BY <1>9, <3>1 DEF part
      <3>3. r # 0
        BY <3>2
      <3> QED
        BY <1>4, <3>1, <3>2, <3>3, FirstSpot
    <2>2. /\ q1 \in Seq(Tokens) /\ q2 \in Seq(Tokens)
          /\ Len(q1) = r - 1 /\ Len(q2) = Len(part) - r
          /\ part = q1 \o <<"@">> \o q2
      BY <1>4, <2>1, Divided
    <2>3. q1 # <<>> /\ q2 # <<>>
      BY <2>1, <2>2, SMTT(30)
    <2>4. Spots(q2, "=") = {} /\ \A i \in DOMAIN part :
             part[i] = "-bounces" => i < Len(part) /\ part[i + 1] # "+"
      BY <1>9 DEF Unambiguous, part
    <2>5. \A i \in 1 .. Len(q2) : q2[i] # "="
      BY <2>2, <2>4, LenProperties DEF Spots
    <2>6. Unmarked(part)
      BY <1>4, <2>4, LenProperties DEF Unmarked
    <2> HIDE DEF q1, q2
    <2>7. DecodeVERP(n \o <<"-bounces", "+">> \o q \o v) = part
      <3>1. Splits(q1, q2)
        BY <2>2, <2>3, <2>5, <2>6 DEF Splits
      <3>2. DecodesTo(n, q1, q2, v)
        BY <1>1, <3>1, Decodes
      <3> QED
        BY <2>2, <3>2 DEF DecodesTo
    <2>8. q \in Seq(Tokens) /\ b \in Seq(Tokens)
      BY <2>2, TokensAre DEF Tokens, Suffixes
    <2>9. d \in Seq(Tokens) /\ v = <<"@">> \o d
      <3> DEFINE a == t.list
                 w == After(a, top)
                 x == Before(a, top)
      <3>1. a \in Seq(Tokens) /\ top \in 1 .. Len(a) /\ a[top] = v[1]
        BY <1>1, <1>3, Joined DEF Host, top
      <3> HIDE DEF a
      <3>2. w \in Seq(Tokens) /\ a = x \o <<a[top]>> \o w
        BY <3>1, Divided
      <3>3. a[top] = "@" /\ x = n
        BY <1>1, <1>10, <3>1 DEF Host, a
      <3> HIDE DEF w, x
      <3>5. w \in Seq(Tokens) /\ a = n \o <<"@">> \o w
        BY <3>2, <3>3
      <3>6. Parts(n \o <<"@">> \o w, n, "@", w)
        BY <3>5, Between, TokensAre
      <3>7. After(a, Len(n)) = <<"@">> \o w
        BY <3>5, <3>6 DEF Parts
      <3> QED
        BY <1>1, <3>5, <3>7 DEF a, w, top
    <2> HIDE DEF d
    <2>10. EncodeVERP(t.list, part)
              = n \o b \o q1 \o <<"=">> \o q2 \o <<"@">> \o d
      BY <1>1 DEF EncodeVERP, q1, q2, d
    <2> HIDE DEF b, r
    <2>11. <<"=">> \in Seq(Tokens) /\ <<"@">> \in Seq(Tokens)
      BY TokensAre
    <2>12. n \o b \o q1 \o <<"=">> \o q2 \o <<"@">> \o d = n \o b \o q \o v
      <3> DEFINE e == <<"=">>
                 m == <<"@">>
                 nb == n \o b
      <3>1. e \in Seq(Tokens) /\ m \in Seq(Tokens) /\ nb \in Seq(Tokens)
        BY <2>8, <2>11, ConcatProperties
      <3> HIDE DEF e, m, nb
      <3>2. Regrouped(nb, q1, e, q2, m, d)
        BY <2>2, <2>9, <3>1, Shuffled
      <3> QED
        BY <2>9, <3>2 DEF e, m, nb, Regrouped
    <2>13. Printed(t) = n \o b \o q \o v
      BY <1>9, <1>11, <2>10, <2>12 DEF part, PrintedThus
    <2>14. PlusSuffix["bounce"] = "-bounces" /\ "bounce" \in DOMAIN PlusSuffix
      BY DEF PlusSuffix
    <2>15. ParseAddress(n \o b \o q \o v) = Task("bounce", n \o v, q)
      <3> HIDE DEF q
      <3> DEFINE k == "bounce"
      <3>1. k \in DOMAIN PlusSuffix
        BY <2>14
      <3> HIDE DEF k
      <3>2. ParsesTo(n, k, q, v)
        BY <1>1, <2>8, <3>1, ParsesPlus
      <3>3. PlusSuffix[k] = "-bounces"
        BY <2>14 DEF k
      <3> QED
        BY <3>2, <3>3 DEF b, k, ParsesTo
    <2> HIDE DEF q
    <2>16. Route(n \o b \o q \o v)
              = [Task("bounce", n \o v, q) EXCEPT !.part =
                    DecodeVERP(n \o <<"-bounces", "+">> \o q \o v)]
      <3> DEFINE a == n \o b \o q \o v
                 p == Task("bounce", n \o v, q)
      <3>1. p.kind = "bounce" /\ p.list = t.list /\ p.part = q
        BY <1>1 DEF Task
      <3>2. /\ Last(p.list, "@") = top /\ Before(p.list, top) = n
            /\ After(p.list, top - 1) = v
        BY <1>1, <1>10, <3>1 DEF top
      <3>3. ParseAddress(a) = p
        BY <2>15
      <3> HIDE DEF a, p
      <3>4. Route(a) = [p EXCEPT !.part =
               DecodeVERP(n \o <<"-bounces", "+">> \o q \o v)]
        BY <3>1, <3>2, <3>3 DEF Route
      <3> QED
        BY <3>4 DEF a, p
    <2> QED
      BY <1>2, <1>9, <2>7, <2>13, <2>16 DEF Task
  <1> QED
    BY <1>5, <1>6, <1>7, <1>8, <1>9 DEF Kinds, PlusSuffix
-----------------------------------------------------------------------------
(***************************************************************************)
(* Lemmas on connections and on the count of attempts                      *)
(***************************************************************************)
LEMMA FreeIsLink == Free \in Links /\ Open \in Links
  <1>1. <<>> \in Seq(AllTasks) /\ <<>> \in Seq(STRING)
    OBVIOUS
  <1>2. Free \in Links
    BY <1>1 DEF Free, Links, Stages
  <1>3. Open \in Links
    BY <1>2 DEF Open, Links, Stages
  <1> QED
    BY <1>2, <1>3

LEMMA FreeIsSound == Sound(Free) /\ Sound(Open)
  BY DEF Sound, Staged, OwnRcpts, WholeOrKilled, InOrder, Free, Open

\* No step rewrites a message.
LEMMA MailStays == [Next]_vars => mail' = mail
  BY ZenonT(60)
  DEF Next, vars, Serve, Converse, Handle, handleOwnerForward,
     RequestBegins, ReadSubscription, WriteSubscription, OtherCommand,
     RequestEnds, Connect, handleData, DataEnds, handleQuit, RelayEnds,
     handleMail, handleRcpt, CommandFails, Abandon, Lose, RelayKilled,
     RelayFindsNoDaemon, Relay, DaemonStops, DaemonStarts, Overlook

\* No step forgets a relay that was killed.
LEMMA KilledStays == [Next]_vars => killed \subseteq killed'
  BY ZenonT(60)
  DEF Next, vars, history, Serve, Converse, Handle, handleOwnerForward,
     RequestBegins, ReadSubscription, WriteSubscription, OtherCommand,
     RequestEnds, Connect, handleData, DataEnds, handleQuit, RelayEnds,
     handleMail, handleRcpt, CommandFails, Abandon, Lose, RelayKilled,
     RelayFindsNoDaemon, Relay, DaemonStops, DaemonStarts, Overlook

\* What a step makes sound stays sound.
LEMMA SoundStays ==
    ASSUME NEW k, Sound(k), mail' = mail, killed \subseteq killed'
    PROVE  Sound(k)'
  <1>1. Staged(k)' /\ InOrder(k)'
    BY DEF Sound, Staged, InOrder
  <1>2. OwnRcpts(k)'
    BY DEF Sound, OwnRcpts, Tasks
  <1>3. WholeOrKilled(k)'
    BY DEF Sound, WholeOrKilled
  <1> QED
    BY <1>1, <1>2, <1>3 DEF Sound

LEMMA TryingFinite ==
    ASSUME NEW x
    PROVE  IsFiniteSet(Trying(x)) /\ Cardinality(Trying(x)) \in Nat
  <1>1. Trying(x) \subseteq Conns
    BY DEF Trying
  <1>2. IsFiniteSet(Trying(x))
    BY <1>1, InboundAssumption, FS_Subset
  <1> QED
    BY <1>2, FS_CardinalityType

\* A pair none of whose attempts changes, is given up or is put down.
LEMMA CountStays ==
    ASSUME TablesOK, NEW x \in Pairs, CountOK(x),
           handled'[x] = handled[x], faults' \in Nat, faults' >= faults,
           x[2] \in todo'[x[1]] => x[2] \in todo[x[1]],
           Trying(x)' = Trying(x),
           \A c \in Trying(x) : conn'[c].peer = conn[c].peer
    PROVE  CountOK(x)'
  <1>1. /\ handled[x] \in Nat /\ faults \in Nat
        /\ Cardinality(Trying(x)) \in Nat
    BY TryingFinite DEF TablesOK
  <1>2. Cardinality(Trying(x)') = Cardinality(Trying(x))
    OBVIOUS
  <1>3. x[2] \in todo'[x[1]] /\ (\A c \in Trying(x)' : ~conn'[c].peer)
        => x[2] \in todo[x[1]] /\ \A c \in Trying(x) : ~conn[c].peer
    OBVIOUS
  <1> QED
    BY <1>1, <1>2, <1>3 DEF CountOK

\* A fault pays for the attempt it may have ended.
LEMMA CountAfterFault ==
    ASSUME TablesOK, NEW x \in Pairs, CountOK(x), handled'[x] = handled[x],
           faults' = faults + 1, Trying(x)' \subseteq Trying(x)
    PROVE  CountOK(x)'
  <1>1. /\ handled[x] \in Nat /\ faults \in Nat
        /\ Cardinality(Trying(x)) \in Nat
    BY TryingFinite DEF TablesOK
  <1>2. /\ Cardinality(Trying(x)') \in Nat
        /\ Cardinality(Trying(x)') <= Cardinality(Trying(x))
    BY TryingFinite, FS_Subset, FS_CardinalityType
  <1>3. handled[x] + Cardinality(Trying(x)) <= 1 + faults
    BY DEF CountOK
  <1>4. handled'[x] + Cardinality(Trying(x)') <= faults'
    BY <1>1, <1>2, <1>3
  <1> QED
    BY <1>1, <1>2, <1>4 DEF CountOK

\* An attempt begins when nobody is making one.
LEMMA CountAfterStart ==
    ASSUME TablesOK, NEW x \in Pairs, CountOK(x), NEW c,
           handled'[x] = handled[x], faults' = faults,
           x[2] \in todo[x[1]], \A d \in Trying(x) : ~conn[d].peer,
           c \notin Trying(x), Trying(x)' = Trying(x) \cup {c},
           conn'[c].peer
    PROVE  CountOK(x)'
  <1>1. /\ handled[x] \in Nat /\ faults \in Nat
        /\ IsFiniteSet(Trying(x)) /\ Cardinality(Trying(x)) \in Nat
    BY TryingFinite DEF TablesOK
  <1>2. Cardinality(Trying(x)') = Cardinality(Trying(x)) + 1
    BY <1>1, FS_AddElement
  <1>3. handled[x] + Cardinality(Trying(x)) <= faults
    BY DEF CountOK
  <1>4. handled'[x] + Cardinality(Trying(x)') <= 1 + faults'
    BY <1>1, <1>2, <1>3
  <1> QED
    BY <1>4 DEF CountOK

\* An attempt ends in a handler.
LEMMA CountAfterHandler ==
    ASSUME TablesOK, NEW x \in Pairs, CountOK(x), NEW c \in Trying(x),
           handled'[x] \in {handled[x], handled[x] + 1},
           faults' \in Nat, faults' >= faults,
           Trying(x)' = Trying(x) \ {c},
           \A d \in Trying(x)' : conn'[d].peer = conn[d].peer,
           x[2] \in todo'[x[1]] => x[2] \in todo[x[1]] /\ ~conn[c].peer
    PROVE  CountOK(x)'
  <1>1. /\ handled[x] \in Nat /\ faults \in Nat
        /\ IsFiniteSet(Trying(x)) /\ Cardinality(Trying(x)) \in Nat
    BY TryingFinite DEF TablesOK
  <1>2. Cardinality(Trying(x)') = Cardinality(Trying(x)) - 1
    BY <1>1, FS_RemoveElement
  <1>3. handled[x] + Cardinality(Trying(x)) <= 1 + faults
    BY DEF CountOK
  <1>4. Cardinality(Trying(x)') \in Nat
    BY <1>1, FS_RemoveElement, FS_CardinalityType
  <1>5. handled'[x] + Cardinality(Trying(x)')
            <= handled[x] + Cardinality(Trying(x))
    BY <1>1, <1>2
  <1>6. ASSUME x[2] \in todo'[x[1]], \A d \in Trying(x)' : ~conn'[d].peer
        PROVE  handled'[x] + Cardinality(Trying(x)') <= faults'
    <2>1. \A d \in Trying(x) : ~conn[d].peer
      BY <1>6
    <2>2. handled[x] + Cardinality(Trying(x)) <= faults
      BY <1>6, <2>1 DEF CountOK
    <2>3. handled'[x] \in Nat /\ Cardinality(Trying(x)') \in Nat
      BY <1>1, <1>4
    <2> QED
      BY <1>1, <1>5, <2>2, <2>3
  <1>7. handled'[x] + Cardinality(Trying(x)') <= 1 + faults'
    <2>1. handled'[x] \in Nat /\ Cardinality(Trying(x)') \in Nat
      BY <1>1, <1>4
    <2> QED
      BY <1>1, <1>3, <1>5, <2>1
  <1> QED
    BY <1>6, <1>7 DEF CountOK

\* A step on a connection that starts no attempt and ends none.
LEMMA CountQuiet ==
    ASSUME IInv, NEW c \in Conns, NEW k, conn' = [conn EXCEPT ![c] = k],
           handled' = handled, faults' \in Nat, faults' >= faults,
           todo' = todo,
           \A x \in Pairs : /\ May(k, x) <=> May(conn[c], x)
                            /\ May(k, x) => k.peer = conn[c].peer
    PROVE  \A x \in Pairs : CountOK(x)'
  <1> SUFFICES ASSUME NEW x \in Pairs PROVE CountOK(x)'
    OBVIOUS
  <1>1. conn \in [Conns -> Links] /\ TablesOK /\ CountOK(x)
    BY DEF IInv, LinksOK
  <1>2. conn'[c] = k /\ \A d \in Conns \ {c} : conn'[d] = conn[d]
    BY <1>1
  <1>3. Trying(x)' = Trying(x)
    BY <1>2 DEF Trying
  <1>4. \A d \in Trying(x) : conn'[d].peer = conn[d].peer
    BY <1>2 DEF Trying
  <1> HIDE DEF IInv
  <1> QED
    BY <1>1, <1>3, <1>4, CountStays

\* A step on a connection that costs a fault.
LEMMA CountFault ==
    ASSUME IInv, NEW c \in Conns, NEW k, conn' = [conn EXCEPT ![c] = k],
           handled' = handled, faults' = faults + 1,
           \A x \in Pairs : May(k, x) => May(conn[c], x)
    PROVE  \A x \in Pairs : CountOK(x)'
  <1> SUFFICES ASSUME NEW x \in Pairs PROVE CountOK(x)'
    OBVIOUS
  <1>1. conn \in [Conns -> Links] /\ TablesOK /\ CountOK(x)
    BY DEF IInv, LinksOK
  <1>2. conn'[c] = k /\ \A d \in Conns \ {c} : conn'[d] = conn[d]
    BY <1>1
  <1>3. Trying(x)' \subseteq Trying(x)
    BY <1>2 DEF Trying
  <1> QED
    BY <1>1, <1>3, CountAfterFault

\* A recipient is taken into a transaction of the only sender of its message.
Starts(c, k, m, t) ==
    /\ conn' = [conn EXCEPT ![c] = k]
    /\ handled' = handled /\ faults' = faults /\ todo' = todo
    /\ k.peer /\ k.msg = m /\ May(k, <<m, t>>) /\ ~May(conn[c], <<m, t>>)
    /\ \A d \in Conns \ {c} : conn[d].peer => conn[d].msg # m
    /\ \A x \in Pairs : x # <<m, t>> =>
          /\ May(k, x) <=> May(conn[c], x)
          /\ May(k, x) => k.peer = conn[c].peer

LEMMA CountStart ==
    ASSUME IInv, NEW c \in Conns, NEW k, NEW m \in Msgs, NEW t \in todo[m],
           Starts(c, k, m, t)
    PROVE  \A x \in Pairs : CountOK(x)'
  <1> USE DEF Starts
  <1> SUFFICES ASSUME NEW x \in Pairs PROVE CountOK(x)'
    OBVIOUS
  <1>1. conn \in [Conns -> Links] /\ TablesOK /\ CountOK(x)
    BY DEF IInv, LinksOK
  <1>2. conn'[c] = k /\ \A d \in Conns \ {c} : conn'[d] = conn[d]
    BY <1>1
  <1>3. faults' \in Nat /\ faults' >= faults
    BY <1>1 DEF TablesOK
  <1>4. CASE x # <<m, t>>
    <2>1. Trying(x)' = Trying(x)
      BY <1>2, <1>4 DEF Trying
    <2>2. \A d \in Trying(x) : conn'[d].peer = conn[d].peer
      BY <1>2, <1>4 DEF Trying
    <2> QED
      BY <1>1, <1>3, <2>1, <2>2, CountStays
  <1>5. CASE x = <<m, t>>
    <2>1. Trying(x)' = Trying(x) \cup {c} /\ c \notin Trying(x)
      BY <1>2, <1>5 DEF Trying
    <2>2. \A d \in Trying(x) : ~conn[d].peer
      BY <1>5 DEF Trying, May
    <2>3. x[2] \in todo[x[1]] /\ conn'[c].peer
      BY <1>2, <1>5
    <2> QED
      BY <1>1, <2>1, <2>2, <2>3, CountAfterStart
  <1> QED
    BY <1>4, <1>5
-----------------------------------------------------------------------------
(***************************************************************************)
(* What each step does to its connection                                   *)
(***************************************************************************)

\* The connection c is left in order, its message has no other sender, and
\* every attempt is accounted for.
Kept(c) ==
    /\ \E k \in Links :
          /\ conn' = [conn EXCEPT ![c] = k]
          /\ Sound(k)'
          /\ k.peer /\ k.msg # None => \/ conn[c].peer /\ conn[c].msg = k.msg
                                       \/ ~Sending(k.msg)
    /\ \A x \in Pairs : CountOK(x)'

\* A connection that has no message hands nothing on.
LEMMA NoMessage ==
    ASSUME NEW k, k.msg = None, NEW x \in Pairs
    PROVE  ~May(k, x)
  BY InboundAssumption DEF May, Pairs

LEMMA ConnectKept ==
    ASSUME IInv, mail' = mail, killed' = killed, NEW c \in Conns, Connect(c)
    PROVE  Kept(c)
  <1>1. conn[c] \in Links /\ conn[c] = Free /\ conn' = [conn EXCEPT ![c] = Open]
    BY DEF IInv, LinksOK, Sound, Staged, Connect, At, Set
  <1>2. Open \in Links /\ Sound(Open)'
    BY FreeIsLink, FreeIsSound, SoundStays
  <1>3. conn[c].msg = None /\ Open.msg = None
    BY <1>1 DEF Free, Open
  <1>4. /\ handled' = handled /\ todo' = todo
        /\ faults' \in Nat /\ faults' >= faults
    BY DEF Connect, mta, history, IInv, TablesOK
  <1>5. \A x \in Pairs : ~May(Open, x) /\ ~May(conn[c], x)
    BY <1>3, NoMessage
  <1>6. \A x \in Pairs : CountOK(x)'
    BY <1>1, <1>4, <1>5, CountQuiet
  <1> QED
    BY <1>1, <1>2, <1>3, <1>6 DEF Kept

LEMMA handleMailKept ==
    ASSUME IInv, mail' = mail, killed' = killed, NEW c \in Conns,
           NEW m \in Msgs, handleMail(c, m)
    PROVE  Kept(c)
  <1>1. PICK k \in Links : k = conn[c]
    BY DEF IInv, LinksOK
  <1>2. Sound(k) /\ k.at = "command" /\ k.msg = None
    BY <1>1 DEF IInv, LinksOK, handleMail, At
  <1> DEFINE w == AfterMail([k EXCEPT !.msg = m])
  <1>3. conn' = [conn EXCEPT ![c] = w] /\ ~Sending(m)
    BY <1>1 DEF handleMail, Set, Waiting
  <1>4. <<>> \in Seq(AllTasks)
    OBVIOUS
  <1>5. w \in Links
    BY <1>4 DEF AfterMail, Links
  <1>6. /\ w.at = "command" /\ w.pipe = k.pipe /\ w.mailSet
        /\ w.rcpts = <<>> /\ w.next = k.next /\ w.line = k.line
        /\ w.seen = k.seen /\ w.peer = k.peer /\ w.msg = m
        /\ w.asked = k.asked /\ w.text = k.text
    BY <1>2 DEF AfterMail, Links
  <1> HIDE DEF w
  <1>7. Staged(w) /\ OwnRcpts(w) /\ WholeOrKilled(w) /\ InOrder(w)
    <2>1. m # None
      BY InboundAssumption
    <2>2. Staged(w)
      BY <1>2, <1>6, <2>1 DEF Sound, Staged
    <2>3. OwnRcpts(w)
      BY <1>2, <1>6 DEF Sound, Staged, OwnRcpts
    <2>4. WholeOrKilled(w)
      BY <1>6 DEF WholeOrKilled
    <2>5. k.line = 0 /\ k.seen = "unread"
      BY <1>2 DEF Sound, InOrder, Links
    <2>6. InOrder(w)
      BY <1>6, <2>5 DEF InOrder
    <2> QED
      BY <2>2, <2>3, <2>4, <2>6
  <1>8. Sound(w)'
    BY <1>7, SoundStays DEF Sound
  <1>9. /\ handled' = handled /\ todo' = todo
        /\ faults' \in Nat /\ faults' >= faults
    BY DEF handleMail, mta, history, IInv, TablesOK
  <1>10. \A x \in Pairs : ~May(w, x) /\ ~May(k, x)
    BY <1>2, <1>6, NoMessage DEF May
  <1>11. \A x \in Pairs : CountOK(x)'
    BY <1>1, <1>3, <1>9, <1>10, CountQuiet
  <1> QED
    BY <1>3, <1>5, <1>6, <1>8, <1>11 DEF Kept

\* The connection goes on with its message.
LEMMA QuietKept ==
    ASSUME IInv, NEW c \in Conns, NEW w \in Links,
           conn' = [conn EXCEPT ![c] = w], Sound(w)',
           w.msg = conn[c].msg, w.rcpts = conn[c].rcpts,
           w.next = conn[c].next, w.peer = conn[c].peer,
           handled' = handled, todo' = todo,
           faults' \in Nat, faults' >= faults
    PROVE  Kept(c)
  <1>1. \A x \in Pairs : May(w, x) <=> May(conn[c], x)
    BY DEF May
  <1>2. \A x \in Pairs : CountOK(x)'
    BY <1>1, CountQuiet
  <1> QED
    BY <1>2 DEF Kept

\* The connection is given up, or its peer is gone.
LEMMA FaultKept ==
    ASSUME IInv, NEW c \in Conns, NEW w \in Links,
           conn' = [conn EXCEPT ![c] = w], Sound(w)',
           w.peer => conn[c].peer, w.msg \in {None, conn[c].msg},
           \A x \in Pairs : May(w, x) => May(conn[c], x),
           handled' = handled, faults' = faults + 1
    PROVE  Kept(c)
  <1>2. \A x \in Pairs : CountOK(x)'
    BY CountFault
  <1> QED
    BY <1>2 DEF Kept

LEMMA BodyType ==
    ASSUME TablesOK, NEW m \in Msgs
    PROVE  mail[m].body \in Seq(STRING)
  BY InboundAssumption DEF TablesOK

LEMMA handleDataKept ==
    ASSUME IInv, mail' = mail, killed' = killed, NEW c \in Conns,
           handleData(c)
    PROVE  Kept(c)
  <1>1. PICK k \in Links : k = conn[c]
    BY DEF IInv, LinksOK
  <1>2. Sound(k) /\ k.at = "command" /\ k.rcpts # <<>> /\ k.asked # <<>>
    BY <1>1 DEF IInv, LinksOK, handleData, At
  <1> DEFINE w == [k EXCEPT !.at = "data"]
  <1>3. conn' = [conn EXCEPT ![c] = w]
    BY <1>1 DEF handleData, Set
  <1>4. w \in Links
    BY DEF Links, Stages
  <1>5. /\ w.at = "data" /\ w.pipe = k.pipe
        /\ w.rcpts = k.rcpts /\ w.next = k.next /\ w.line = k.line
        /\ w.seen = k.seen /\ w.peer = k.peer /\ w.msg = k.msg
        /\ w.asked = k.asked
    BY DEF Links
  <1> HIDE DEF w
  <1>6. k.msg # None /\ ~k.pipe /\ k.next = 1 /\ k.peer
    BY <1>2 DEF Sound, Staged
  <1>7. k.next \in 1 .. Len(k.rcpts)
    <2>1. k.rcpts \in Seq(AllTasks)
      BY DEF Links
    <2>2. Len(k.rcpts) \in Nat /\ Len(k.rcpts) # 0
      BY <1>2, <2>1, EmptySeq
    <2> QED
      BY <1>6, <2>2
  <1>8. Staged(w)
    BY <1>5, <1>6, <1>7 DEF Staged
  <1>9. OwnRcpts(w) /\ WholeOrKilled(w)
    BY <1>2, <1>5 DEF Sound, OwnRcpts, WholeOrKilled
  <1>10. k.line = 0 /\ k.seen = "unread"
    BY <1>2 DEF Sound, InOrder, Links
  <1>11. InOrder(w)
    BY <1>5, <1>10 DEF InOrder
  <1>12. Sound(w)'
    BY <1>8, <1>9, <1>11, SoundStays DEF Sound
  <1>13. /\ handled' = handled /\ todo' = todo
         /\ faults' \in Nat /\ faults' >= faults
    BY DEF handleData, mta, history, IInv, TablesOK
  <1> QED
    BY <1>1, <1>3, <1>4, <1>5, <1>12, <1>13, QuietKept

\* DATA, or a relay's copy, ends with the whole message.
LEMMA TextEndsKept ==
    ASSUME IInv, mail' = mail, killed' = killed, NEW c \in Conns,
           DataEnds(c) \/ RelayEnds(c)
    PROVE  Kept(c)
  <1>1. PICK k \in Links : k = conn[c]
    BY DEF IInv, LinksOK
  <1>2. Sound(k) /\ k.at \in {"data", "relay"}
    BY <1>1 DEF IInv, LinksOK, DataEnds, RelayEnds, At
  <1>3. k.msg \in Msgs /\ k.next \in 1 .. Len(k.rcpts)
    BY <1>2 DEF Sound, Staged, Links
  <1>4. PICK b \in Seq(STRING) : b = mail[k.msg].body
    BY <1>3, BodyType DEF IInv
  <1> DEFINE w == [k EXCEPT !.at = "process", !.text = b, !.whole = TRUE]
  <1>5. conn' = [conn EXCEPT ![c] = w]
    BY <1>1, <1>4 DEF DataEnds, RelayEnds, Set
  <1>6. w \in Links
    BY DEF Links, Stages
  <1>7. /\ w.at = "process" /\ w.pipe = k.pipe /\ w.whole
        /\ w.rcpts = k.rcpts /\ w.next = k.next /\ w.line = k.line
        /\ w.seen = k.seen /\ w.peer = k.peer /\ w.msg = k.msg
        /\ w.asked = k.asked
    BY DEF Links
  <1> HIDE DEF w
  <1>8. Staged(w)
    BY <1>2, <1>3, <1>7 DEF Sound, Staged
  <1>9. OwnRcpts(w) /\ WholeOrKilled(w)
    BY <1>2, <1>7 DEF Sound, OwnRcpts, WholeOrKilled
  <1>10. k.line = 0 /\ k.seen = "unread"
    BY <1>2 DEF Sound, InOrder, Links
  <1>11. InOrder(w)
    BY <1>7, <1>10 DEF InOrder
  <1>12. Sound(w)'
    BY <1>8, <1>9, <1>11, SoundStays DEF Sound
  <1>13. /\ handled' = handled /\ todo' = todo
         /\ faults' \in Nat /\ faults' >= faults
    BY DEF DataEnds, RelayEnds, mta, history, IInv, TablesOK
  <1> QED
    BY <1>1, <1>5, <1>6, <1>7, <1>12, <1>13, QuietKept

LEMMA handleQuitKept ==
    ASSUME IInv, mail' = mail, killed' = killed, NEW c \in Conns,
           handleQuit(c)
    PROVE  Kept(c)
  <1>1. conn[c].msg = None /\ conn' = [conn EXCEPT ![c] = Free]
    BY DEF handleQuit, Set
  <1>2. Free \in Links /\ Sound(Free)' /\ Free.msg = None /\ ~Free.peer
    BY FreeIsLink, FreeIsSound, SoundStays DEF Free
  <1>3. /\ handled' = handled /\ todo' = todo
        /\ faults' \in Nat /\ faults' >= faults
    BY DEF handleQuit, mta, history, IInv, TablesOK
  <1>4. \A x \in Pairs : ~May(Free, x) /\ ~May(conn[c], x)
    BY <1>1, <1>2, NoMessage
  <1>5. \A x \in Pairs : CountOK(x)'
    BY <1>1, <1>3, <1>4, CountQuiet
  <1> QED
    BY <1>1, <1>2, <1>5 DEF Kept

LEMMA AbandonKept ==
    ASSUME IInv, mail' = mail, killed' = killed, NEW c \in Conns, Abandon(c)
    PROVE  Kept(c)
  <1>1. PICK k \in Links : k = conn[c]
    BY DEF IInv, LinksOK
  <1>2. Sound(k) /\ k.at = "command" /\ k.msg # None
    BY <1>1 DEF IInv, LinksOK, Abandon, At
  <1>3. k.peer /\ ~k.pipe /\ k.line = 0 /\ k.seen = "unread" /\ k.next = 1
    BY <1>2 DEF Sound, Staged, InOrder, Links
  <1> DEFINE w == [k EXCEPT !.msg = None, !.asked = <<>>]
  <1>4. \/ conn' = [conn EXCEPT ![c] = Open]
        \/ conn' = [conn EXCEPT ![c] = w]
    BY <1>1 DEF Abandon, Set
  <1>5. handled' = handled /\ faults' = faults + 1
    BY DEF Abandon, history, Fault
  <1>6. Open \in Links /\ Sound(Open)' /\ Open.msg = None
    BY FreeIsLink, FreeIsSound, SoundStays DEF Open, Free
  <1>7. <<>> \in Seq(AllTasks)
    OBVIOUS
  <1>8. w \in Links
    BY <1>7 DEF Links
  <1>9. /\ w.at = k.at /\ w.pipe = k.pipe /\ w.next = k.next
        /\ w.line = k.line /\ w.seen = k.seen /\ w.peer = k.peer
        /\ w.msg = None /\ w.asked = <<>>
    BY DEF Links
  <1> HIDE DEF w
  <1>10. Sound(w)
    BY <1>2, <1>3, <1>9
       DEF Sound, Staged, OwnRcpts, WholeOrKilled, InOrder
  <1>11. Sound(w)'
    BY <1>10, SoundStays
  <1>12. \A x \in Pairs : ~May(w, x) /\ ~May(Open, x)
    BY <1>6, <1>9, NoMessage
  <1> QED
    BY <1>1, <1>3, <1>4, <1>5, <1>6, <1>8, <1>9, <1>11, <1>12, FaultKept

\* A handler that is at work does not notice that its peer has gone.
LEMMA PeerGoneKept ==
    ASSUME IInv, mail' = mail, killed' = killed, NEW c \in Conns,
           conn[c].at = "process", handled' = handled, faults' = faults + 1,
           Set(c, [conn[c] EXCEPT !.peer = FALSE])
    PROVE  Kept(c)
  <1>1. PICK k \in Links : k = conn[c]
    BY DEF IInv, LinksOK
  <1>2. Sound(k) /\ k.at = "process"
    BY <1>1 DEF IInv, LinksOK
  <1> DEFINE w == [k EXCEPT !.peer = FALSE]
  <1>3. conn' = [conn EXCEPT ![c] = w]
    BY <1>1 DEF Set
  <1>4. w \in Links
    BY DEF Links
  <1>5. /\ w.at = k.at /\ w.pipe = k.pipe /\ w.next = k.next
        /\ w.line = k.line /\ w.seen = k.seen /\ w.peer = FALSE
        /\ w.msg = k.msg /\ w.asked = k.asked /\ w.rcpts = k.rcpts
        /\ w.text = k.text /\ w.whole = k.whole
    BY DEF Links
  <1> HIDE DEF w
  <1>6. Staged(w)
    BY <1>2, <1>5 DEF Sound, Staged
  <1>7. OwnRcpts(w) /\ WholeOrKilled(w) /\ InOrder(w)
    BY <1>2, <1>5 DEF Sound, OwnRcpts, WholeOrKilled, InOrder
  <1>8. Sound(w)'
    BY <1>6, <1>7, SoundStays DEF Sound
  <1>9. \A x \in Pairs : May(w, x) => May(conn[c], x)
    BY <1>1, <1>5 DEF May
  <1> QED
    BY <1>1, <1>3, <1>4, <1>5, <1>8, <1>9, FaultKept

LEMMA LoseKept ==
    ASSUME IInv, mail' = mail, killed' = killed, NEW c \in Conns, Lose(c)
    PROVE  Kept(c)
  <1>1. handled' = handled /\ faults' = faults + 1
    BY DEF Lose, history, Fault
  <1>2. CASE conn[c].at = "process"
    <2>1. Set(c, [conn[c] EXCEPT !.peer = FALSE])
      BY <1>2 DEF Lose, AfterLoss
    <2> QED
      BY <1>1, <1>2, <2>1, PeerGoneKept
  <1>3. CASE conn[c].at # "process"
    <2>1. conn' = [conn EXCEPT ![c] = Free]
      BY <1>3 DEF Lose, AfterLoss, Set
    <2>2. Free \in Links /\ Sound(Free)' /\ Free.msg = None /\ ~Free.peer
      BY FreeIsLink, FreeIsSound, SoundStays DEF Free
    <2>3. \A x \in Pairs : ~May(Free, x)
      BY <2>2, NoMessage
    <2> QED
      BY <1>1, <2>1, <2>2, <2>3, FaultKept
  <1> QED
    BY <1>2, <1>3

LEMMA RelayKilledKept ==
    ASSUME IInv, mail' = mail, NEW c \in Conns, RelayKilled(c)
    PROVE  Kept(c)
  <1>1. PICK k \in Links : k = conn[c]
    BY DEF IInv, LinksOK
  <1>2. Sound(k) /\ k.pipe /\ k.peer
    BY <1>1 DEF IInv, LinksOK, RelayKilled
  <1>3. handled' = handled /\ faults' = faults + 1
    BY DEF RelayKilled, Fault
  <1>4. CASE At(c, "process") /\ killed' = killed
    <2>1. Set(c, [conn[c] EXCEPT !.peer = FALSE])
      BY <1>1, <1>4 DEF RelayKilled, At
    <2> QED
      BY <1>3, <1>4, <2>1, PeerGoneKept DEF At
  <1>5. CASE ~(At(c, "process") /\ killed' = killed)
    <2>1. k.at = "relay" /\ killed' = killed \cup {<<k.msg, k.asked[1]>>}
      BY <1>1, <1>5 DEF RelayKilled, At
    <2>2. /\ k.msg \in Msgs /\ k.rcpts = k.asked
          /\ k.next \in 1 .. Len(k.rcpts)
      BY <1>2, <2>1 DEF Sound, Staged, OwnRcpts, Links
    <2>3. PICK b \in Seq(STRING) : b = mail[k.msg].body
      BY <2>2, BodyType DEF IInv
    <2>4. PICK n \in 0 .. Len(b) :
              Set(c, [k EXCEPT !.at = "process", !.peer = FALSE,
                               !.text = SubSeq(b, 1, n)])
      BY <1>1, <1>5, <2>1, <2>3 DEF RelayKilled, At
    <2>5. PICK u \in Seq(STRING) : u = SubSeq(b, 1, n)
      <3>1. /\ 1 \in 1 .. Len(b) + 1 /\ Len(b) \in Nat
            /\ n \in 1 - 1 .. Len(b)
        OBVIOUS
      <3>2. SubSeq(b, 1, n) \in Seq(STRING)
        BY <3>1, SubSeqProperties
      <3> QED
        BY <3>2
    <2> DEFINE w == [k EXCEPT !.at = "process", !.peer = FALSE, !.text = u]
    <2>6. conn' = [conn EXCEPT ![c] = w]
      BY <2>4, <2>5 DEF Set
    <2>7. w \in Links
      BY DEF Links, Stages
    <2>8. /\ w.at = "process" /\ w.pipe = k.pipe /\ w.next = k.next
          /\ w.line = k.line /\ w.seen = k.seen /\ w.peer = FALSE
          /\ w.msg = k.msg /\ w.asked = k.asked /\ w.rcpts = k.rcpts
      BY DEF Links
    <2> HIDE DEF w
    <2>9. Staged(w)
      BY <1>2, <2>1, <2>2, <2>8 DEF Sound, Staged
    <2>10. OwnRcpts(w)'
      BY <1>2, <2>8 DEF Sound, OwnRcpts, Tasks
    <2>11. WholeOrKilled(w)'
      BY <1>2, <2>1, <2>2, <2>8 DEF WholeOrKilled
    <2>12. k.line = 0 /\ k.seen = "unread"
      BY <1>2, <2>1 DEF Sound, InOrder, Links
    <2>13. InOrder(w)
      BY <2>8, <2>12 DEF InOrder
    <2>14. Sound(w)'
      BY <2>9, <2>10, <2>11, <2>13 DEF Sound, Staged, InOrder
    <2>15. \A x \in Pairs : May(w, x) => May(conn[c], x)
      BY <1>1, <2>8 DEF May
    <2> QED
      BY <1>1, <1>3, <2>6, <2>7, <2>8, <2>14, <2>15, FaultKept
  <1> QED
    BY <1>4, <1>5

LEMMA RelayKept ==
    ASSUME IInv, mail' = mail, killed' = killed, NEW c \in Conns,
           NEW m \in Msgs, NEW t \in Tasks(m), Relay(c, m, t)
    PROVE  Kept(c)
  <1>1. PICK k \in Links : k = conn[c]
    BY DEF IInv, LinksOK
  <1>2. k = Free
    BY <1>1 DEF IInv, LinksOK, Sound, Staged, Relay, At
  <1>3. t \in todo[m] /\ ~Sending(m) /\ m # None
    BY InboundAssumption DEF Relay, Waiting
  <1>4. t \in AllTasks /\ <<t>> \in Seq(AllTasks) /\ Len(<<t>>) = 1
    BY <1>3 DEF IInv, TablesOK
  <1> DEFINE w == [Free EXCEPT !.at = "relay", !.pipe = TRUE, !.peer = TRUE,
                               !.msg = m, !.rcpts = <<t>>, !.asked = <<t>>]
  <1>5. conn' = [conn EXCEPT ![c] = w]
    BY DEF Relay, Set
  <1>6. w \in Links
    BY <1>4, FreeIsLink DEF Links, Stages
  <1>7. /\ w.at = "relay" /\ w.pipe /\ w.next = 1 /\ w.line = 0
        /\ w.seen = "unread" /\ w.peer /\ w.msg = m
        /\ w.asked = <<t>> /\ w.rcpts = <<t>>
    BY DEF Free
  <1> HIDE DEF w
  <1>8. Len(w.rcpts) = 1 /\ w.rcpts[1] = t
    BY <1>7
  <1>9. Staged(w)
    BY <1>3, <1>7, <1>8 DEF Staged
  <1>10. OwnRcpts(w)
    BY <1>7, <1>8 DEF OwnRcpts
  <1>11. WholeOrKilled(w) /\ InOrder(w)
    BY <1>7 DEF WholeOrKilled, InOrder
  <1>12. Sound(w)'
    BY <1>9, <1>10, <1>11, SoundStays DEF Sound
  <1>13. /\ handled' = handled /\ faults' = faults /\ todo' = todo
    BY DEF Relay, mta, history
  <1>14. May(w, <<m, t>>) /\ ~May(conn[c], <<m, t>>)
    BY <1>1, <1>2, <1>3, <1>7, <1>8 DEF May, Free
  <1>15. \A d \in Conns \ {c} : conn[d].peer => conn[d].msg # m
    BY <1>3 DEF Sending
  <1>16. ASSUME NEW x \in Pairs, x # <<m, t>>
         PROVE  ~May(w, x) /\ ~May(conn[c], x)
    <2>1. k.msg = None
      BY <1>2 DEF Free
    <2>2. ~May(k, x)
      BY <2>1, NoMessage
    <2>3. x = <<x[1], x[2]>>
      BY DEF Pairs
    <2>4. ~May(w, x)
      BY <1>7, <1>8, <1>16, <2>3 DEF May
    <2> QED
      BY <1>1, <2>2, <2>4
  <1>17. \A x \in Pairs : x # <<m, t>> =>
             /\ May(w, x) <=> May(conn[c], x)
             /\ May(w, x) => w.peer = conn[c].peer
    BY <1>16
  <1>18. \A x \in Pairs : CountOK(x)'
    <2>1. t \in todo[m] /\ w.peer /\ w.msg = m
      BY <1>3, <1>7
    <2>2. conn' = [conn EXCEPT ![c] = w]
      BY <1>5
    <2>3. Starts(c, w, m, t)
      BY <1>13, <1>14, <1>15, <1>17, <2>1, <2>2 DEF Starts
    <2> QED
      BY <2>1, <2>3, CountStart
  <1> QED
    BY <1>3, <1>5, <1>6, <1>7, <1>12, <1>18 DEF Kept

LEMMA handleRcptKept ==
    ASSUME IInv, mail' = mail, killed' = killed, NEW c \in Conns,
           NEW m \in Msgs, NEW t \in Tasks(m), conn[c].msg = m,
           handleRcpt(c, t)
    PROVE  Kept(c) /\ UNCHANGED mta
  <1>1. PICK k \in Links : k = conn[c]
    BY DEF IInv, LinksOK
  <1>2. Sound(k) /\ k.at = "command" /\ k.msg = m /\ m # None
    BY <1>1, InboundAssumption DEF IInv, LinksOK, handleRcpt, At
  <1>3. k.mailSet /\ k.next = 1 /\ k.peer /\ k.line = 0 /\ ~k.pipe
        /\ k.seen = "unread" /\ k.rcpts = k.asked
    BY <1>2 DEF Sound, Staged, OwnRcpts, InOrder, Links
  <1>4. t \in todo[m] /\ \A i \in DOMAIN k.rcpts : k.rcpts[i] # t
    BY <1>1, <1>2, <1>3 DEF handleRcpt, Spots
  <1>5. t \in AllTasks /\ k.rcpts \in Seq(AllTasks)
    BY <1>4 DEF IInv, TablesOK, Links
  <1> DEFINE r == Append(k.rcpts, t)
             w == [k EXCEPT !.rcpts = r, !.asked = r]
  <1>6. conn' = [conn EXCEPT ![c] = w] /\ UNCHANGED mta
    BY <1>1, <1>3 DEF handleRcpt, Set
  <1>7. /\ r \in Seq(AllTasks) /\ Len(r) = Len(k.rcpts) + 1
        /\ r[Len(r)] = t /\ Len(k.rcpts) \in Nat
        /\ \A i \in 1 .. Len(k.rcpts) : r[i] = k.rcpts[i]
    BY <1>5, AppendProperties
  <1> HIDE DEF r
  <1>8. w \in Links
    BY <1>7 DEF Links
  <1>9. /\ w.at = "command" /\ w.pipe = k.pipe /\ w.next = 1
        /\ w.line = 0 /\ w.seen = "unread" /\ w.peer /\ w.msg = m
        /\ w.asked = r /\ w.rcpts = r /\ w.mailSet
    BY <1>2, <1>3 DEF Links
  <1> HIDE DEF w
  <1>10. Staged(w)
    BY <1>2, <1>3, <1>9 DEF Staged
  <1>11. \A i \in 1 .. Len(k.rcpts) : r[i] \in Tasks(m) /\ r[i] # t
    BY <1>2, <1>4, <1>5, <1>7 DEF Sound, OwnRcpts
  <1>12. OwnRcpts(w)
    <2>1. \A i \in 1 .. Len(r) : r[i] \in Tasks(m)
      BY <1>7, <1>11
    <2>2. \A i, j \in 1 .. Len(k.rcpts) : r[i] = r[j] => i = j
      BY <1>2, <1>7 DEF Sound, OwnRcpts
    <2>3. \A i, j \in 1 .. Len(r) : r[i] = r[j] => i = j
      BY <1>7, <1>11, <2>2
    <2> QED
      BY <1>9, <2>1, <2>3 DEF OwnRcpts
  <1>13. WholeOrKilled(w) /\ InOrder(w)
    BY <1>9 DEF WholeOrKilled, InOrder
  <1>14. Sound(w)'
    BY <1>10, <1>12, <1>13, SoundStays DEF Sound
  <1>15. handled' = handled /\ faults' = faults /\ todo' = todo
    BY <1>6 DEF handleRcpt, mta, history
  <1>16. May(w, <<m, t>>) /\ ~May(conn[c], <<m, t>>)
    BY <1>1, <1>4, <1>5, <1>7, <1>9 DEF May
  <1>17. \A d \in Conns \ {c} : conn[d].peer => conn[d].msg # m
    BY <1>1, <1>2, <1>3 DEF IInv, OneSender
  <1>18. ASSUME NEW x \in Pairs, x # <<m, t>>
         PROVE  /\ May(w, x) <=> May(conn[c], x)
                /\ May(w, x) => w.peer = conn[c].peer
    <2>1. x = <<x[1], x[2]>>
      BY DEF Pairs
    <2>2. ASSUME May(w, x) PROVE May(k, x)
      <3>1. /\ x[1] = m
            /\ \E i \in 1 .. Len(r) : i >= 1 /\ r[i] = x[2]
        BY <1>9, <2>2 DEF May
      <3>2. x[2] # t
        BY <1>18, <2>1, <3>1
      <3>3. PICK i \in 1 .. Len(k.rcpts) : r[i] = x[2]
        BY <1>7, <3>1, <3>2
      <3> QED
        BY <1>2, <1>3, <1>7, <3>1, <3>3 DEF May
    <2>3. ASSUME May(k, x) PROVE May(w, x)
      <3>1. /\ x[1] = m
            /\ \E i \in 1 .. Len(k.rcpts) : i >= 1 /\ k.rcpts[i] = x[2]
        BY <1>2, <1>3, <2>3 DEF May
      <3>2. \E i \in 1 .. Len(r) : i >= 1 /\ r[i] = x[2]
        BY <1>7, <3>1
      <3> QED
        BY <1>9, <3>1, <3>2 DEF May
    <2> QED
      BY <1>1, <1>3, <1>9, <2>2, <2>3
  <1>19. \A x \in Pairs : x # <<m, t>> =>
             /\ May(w, x) <=> May(conn[c], x)
             /\ May(w, x) => w.peer = conn[c].peer
    BY <1>18
  <1>20. \A x \in Pairs : CountOK(x)'
    <2>1. t \in todo[m] /\ w.peer /\ w.msg = m
      BY <1>4, <1>9
    <2>2. conn' = [conn EXCEPT ![c] = w]
      BY <1>6
    <2>3. Starts(c, w, m, t)
      BY <1>15, <1>16, <1>17, <1>19, <2>1, <2>2 DEF Starts
    <2> QED
      BY <2>1, <2>3, CountStart
  <1> QED
    BY <1>1, <1>2, <1>3, <1>6, <1>8, <1>9, <1>14, <1>20 DEF Kept

\* The recipient at hand is one of the message's, and the one whose answer
\* the MTA waits for.
LEMMA AtHand ==
    ASSUME IInv, NEW c \in Conns, At(c, "process")
    PROVE  /\ conn[c].msg \in Msgs /\ Now(c) \in Tasks(conn[c].msg)
           /\ <<conn[c].msg, Now(c)>> \in Pairs /\ Now(c) \in AllTasks
           /\ conn[c].next \in DOMAIN conn[c].asked
           /\ conn[c].asked[conn[c].next] = Now(c)
  <1>1. PICK k \in Links : k = conn[c]
    BY DEF IInv, LinksOK
  <1>2. Sound(k) /\ k.at = "process"
    BY <1>1 DEF IInv, LinksOK, At
  <1>3. k.msg \in Msgs /\ k.next \in 1 .. Len(k.rcpts)
    BY <1>2 DEF Sound, Staged, Links
  <1>4. k.rcpts = k.asked /\ k.rcpts[k.next] \in Tasks(k.msg)
    BY <1>2, <1>3, InboundAssumption DEF Sound, OwnRcpts
  <1>5. k.rcpts \in Seq(AllTasks)
    BY DEF Links
  <1>6. k.next \in DOMAIN k.rcpts /\ k.rcpts[k.next] \in AllTasks
    BY <1>3, <1>5, ElementOfSeq
  <1> QED
    BY <1>1, <1>3, <1>4, <1>6 DEF Now, Pairs

\* What a handler that is done leaves, overlooked mail included.
LEMMA EndedReplies ==
    ASSUME NEW c, NEW ok \in BOOLEAN, Ended(c, ok)
    PROVE  /\ Reply(c, ok)
           /\ \/ handled' = handled
              \/ ok /\ handled' = [handled EXCEPT
                                     ![<<conn[c].msg, Now(c)>>] = @ + 1]
  <1>1. CASE Finish(c, ok)
    BY <1>1 DEF Finish
  <1>2. CASE Overlook(c) /\ ok
    BY <1>2 DEF Overlook
  <1> QED
    BY <1>1, <1>2 DEF Ended

LEMMA FinishKept ==
    ASSUME IInv, mail' = mail, killed' = killed, NEW c \in Conns,
           At(c, "process"), NEW ok \in BOOLEAN, Ended(c, ok),
           faults' \in Nat, faults' >= faults
    PROVE  Kept(c)
  <1>1. PICK k \in Links : k = conn[c]
    BY DEF IInv, LinksOK
  <1>2. Sound(k) /\ k.at = "process"
    BY <1>1 DEF IInv, LinksOK, At
  <1>3. /\ k.msg \in Msgs /\ k.next \in 1 .. Len(k.rcpts)
        /\ k.msg # None /\ k.rcpts = k.asked /\ Len(k.rcpts) \in Nat
    BY <1>2, InboundAssumption DEF Sound, Staged, OwnRcpts, Links
  <1>4. PICK t : t = k.rcpts[k.next]
    OBVIOUS
  <1>5. t = Now(c) /\ t \in Tasks(k.msg) /\ <<k.msg, t>> \in Pairs
        /\ k.next \in DOMAIN k.asked /\ k.asked[k.next] = t
    BY <1>1, <1>4, AtHand DEF Now
  <1>6. PICK w : w = Proceed(k)
    OBVIOUS
  <1>7. conn' = [conn EXCEPT ![c] = w]
    BY <1>1, <1>6, EndedReplies DEF Reply, Set
  <1>8. \/ /\ k.next < Len(k.rcpts)
           /\ w = [k EXCEPT !.next = @ + 1, !.line = 0, !.seen = "unread"]
        \/ ~(k.next < Len(k.rcpts)) /\ w \in {Open, Free}
    BY <1>6 DEF Proceed
  <1>9. Open.msg = None /\ Free.msg = None
    BY DEF Open, Free
  <1> DEFINE Goal ==
        /\ w \in Links /\ Sound(w)'
        /\ w.peer /\ w.msg # None => k.peer /\ k.msg = w.msg
        /\ \A x \in Pairs : /\ May(w, x) <=> May(k, x) /\ x # <<k.msg, t>>
                            /\ May(w, x) => w.peer = k.peer
  <1>10. ASSUME k.next < Len(k.rcpts) PROVE Goal
    <2>1. w = [k EXCEPT !.next = k.next + 1, !.line = 0, !.seen = "unread"]
      BY <1>8, <1>10
    <2>2. k.next + 1 \in Nat /\ k.next + 1 \in 1 .. Len(k.rcpts)
      BY <1>3, <1>10
    <2>3. w \in Links
      BY <2>1, <2>2 DEF Links
    <2>4. /\ w.at = "process" /\ w.pipe = k.pipe /\ w.next = k.next + 1
          /\ w.line = 0 /\ w.seen = "unread" /\ w.peer = k.peer
          /\ w.msg = k.msg /\ w.asked = k.asked /\ w.rcpts = k.rcpts
          /\ w.whole = k.whole
      BY <1>2, <2>1 DEF Links
    <2>5. Staged(w)
      BY <1>2, <1>3, <2>2, <2>4 DEF Sound, Staged
    <2>6. OwnRcpts(w) /\ WholeOrKilled(w)
      BY <1>2, <2>4 DEF Sound, OwnRcpts, WholeOrKilled
    <2>7. InOrder(w)
      BY <2>4 DEF InOrder
    <2>8. Sound(w)'
      BY <2>5, <2>6, <2>7, SoundStays DEF Sound
    <2>9. \A x \in Pairs : May(w, x) <=> May(k, x) /\ x # <<k.msg, t>>
      <3> SUFFICES ASSUME NEW x \in Pairs
                   PROVE  May(w, x) <=> May(k, x) /\ x # <<k.msg, t>>
        OBVIOUS
      <3>1. x = <<x[1], x[2]>>
        BY DEF Pairs
      <3>2. \A i, j \in 1 .. Len(k.rcpts) :
                k.rcpts[i] = k.rcpts[j] => i = j
        BY <1>2, <1>3 DEF Sound, OwnRcpts
      <3>3. ASSUME May(w, x) PROVE May(k, x) /\ x # <<k.msg, t>>
        <4>1. PICK i \in 1 .. Len(k.rcpts) :
                  i >= k.next + 1 /\ k.rcpts[i] = x[2]
          BY <2>4, <3>3 DEF May
        <4>2. i >= k.next /\ i # k.next
          BY <1>3, <4>1
        <4>3. x[2] # t
          BY <1>3, <1>4, <3>2, <4>1, <4>2
        <4>4. x[1] = k.msg
          BY <2>4, <3>3 DEF May
        <4> QED
          BY <4>1, <4>2, <4>3, <4>4 DEF May
      <3>4. ASSUME May(k, x), x # <<k.msg, t>> PROVE May(w, x)
        <4>1. PICK i \in 1 .. Len(k.rcpts) :
                  i >= k.next /\ k.rcpts[i] = x[2]
          BY <3>4 DEF May
        <4>2. x[1] = k.msg
          BY <3>4 DEF May
        <4>3. i # k.next
          BY <1>4, <3>1, <3>4, <4>1, <4>2
        <4>4. i >= k.next + 1
          BY <1>3, <4>1, <4>3
        <4> QED
          BY <2>4, <4>1, <4>2, <4>4 DEF May
      <3> QED
        BY <3>3, <3>4
    <2> QED
      BY <2>3, <2>4, <2>8, <2>9
  <1>11. ASSUME ~(k.next < Len(k.rcpts)) PROVE Goal
    <2>1. w \in {Open, Free}
      BY <1>8, <1>11
    <2>2. w \in Links /\ Sound(w)' /\ w.msg = None
      BY <1>9, <2>1, FreeIsLink, FreeIsSound, SoundStays
    <2>3. \A x \in Pairs : ~May(w, x)
      BY <2>2, NoMessage
    <2>4. ASSUME NEW x \in Pairs, May(k, x) PROVE x = <<k.msg, t>>
      <3>1. PICK i \in 1 .. Len(k.rcpts) :
                i >= k.next /\ k.rcpts[i] = x[2]
        BY <2>4 DEF May
      <3>2. i = k.next
        BY <1>3, <1>11, <3>1
      <3>3. x = <<x[1], x[2]>> /\ x[1] = k.msg
        BY <2>4 DEF Pairs, May
      <3> QED
        BY <1>4, <3>1, <3>2, <3>3
    <2> QED
      BY <2>2, <2>3, <2>4
  <1>12. Goal
    BY <1>10, <1>11
  <1>13. May(k, <<k.msg, t>>)
    BY <1>3, <1>4 DEF May, Links
  <1>14. \A y \in Pairs : CountOK(y)'
    <2> SUFFICES ASSUME NEW y \in Pairs PROVE CountOK(y)'
      OBVIOUS
    <2>1. conn \in [Conns -> Links] /\ TablesOK /\ CountOK(y)
      BY DEF IInv, LinksOK
    <2>2. conn'[c] = w /\ \A d \in Conns \ {c} : conn'[d] = conn[d]
      BY <1>7, <2>1
    <2>3. /\ handled' \in {handled, [handled EXCEPT ![<<k.msg, t>>] = @ + 1]}
          /\ \A m \in Msgs : todo'[m] \subseteq todo[m]
          /\ k.peer => t \notin todo'[k.msg]
      <3>1. \/ todo' = todo /\ ~k.peer
            \/ todo' = [todo EXCEPT ![k.msg] = @ \ {t}]
        BY <1>1, <1>5, EndedReplies DEF Reply, Settle, mta
      <3>2. todo \in [Msgs -> SUBSET AllTasks]
        BY <2>1 DEF TablesOK
      <3>3. handled' \in {handled,
                          [handled EXCEPT ![<<k.msg, t>>] = @ + 1]}
        BY <1>1, <1>5, EndedReplies
      <3> QED
        BY <1>3, <3>1, <3>2, <3>3
    <2>4. y[1] \in Msgs /\ y = <<y[1], y[2]>>
      BY DEF Pairs
    <2>5. handled \in [Pairs -> Nat]
      BY <2>1 DEF TablesOK
    <2>6. CASE y # <<k.msg, t>>
      <3>1. Trying(y)' = Trying(y)
        BY <1>1, <1>12, <2>2, <2>6 DEF Trying
      <3>2. \A d \in Trying(y) : conn'[d].peer = conn[d].peer
        BY <1>1, <1>12, <2>2, <2>6 DEF Trying
      <3>3. handled'[y] = handled[y]
        BY <1>5, <2>3, <2>5, <2>6
      <3>4. y[2] \in todo'[y[1]] => y[2] \in todo[y[1]]
        BY <2>3, <2>4
      <3> QED
        BY <2>1, <3>1, <3>2, <3>3, <3>4, CountStays
    <2>7. CASE y = <<k.msg, t>>
      <3>1. c \in Trying(y) /\ Trying(y)' = Trying(y) \ {c}
        BY <1>1, <1>12, <1>13, <2>2, <2>7 DEF Trying
      <3>2. \A d \in Trying(y)' : conn'[d].peer = conn[d].peer
        BY <2>2, <3>1 DEF Trying
      <3>3. handled'[y] \in {handled[y], handled[y] + 1}
        BY <2>3, <2>5, <2>7
      <3>4. y[2] \in todo'[y[1]] => y[2] \in todo[y[1]] /\ ~conn[c].peer
        BY <1>1, <2>3, <2>4, <2>7
      <3> QED
        BY <2>1, <3>1, <3>2, <3>3, <3>4, CountAfterHandler
    <2> QED
      BY <2>6, <2>7
  <1> QED
    BY <1>1, <1>7, <1>12, <1>14 DEF Kept

\* The next command is one, or the end of the text.
LEMMA FollowingIs ==
    ASSUME NEW text \in Seq(STRING), NEW i \in 0 .. Len(text)
    PROVE  /\ Following(text, i) \in parseCommands(text) \cup {Len(text) + 1}
           /\ Following(text, i) \in Nat /\ Following(text, i) > i
           /\ \A j \in parseCommands(text) : i < j => Following(text, i) <= j
  <1> DEFINE S == {j \in parseCommands(text) : i < j} \cup {Len(text) + 1}
  <1>1. Len(text) \in Nat /\ DOMAIN text = 1 .. Len(text)
    BY LenProperties
  <1>2. \A j \in S : j \in Nat /\ j > i
    <2>1. \A j \in parseCommands(text) : j \in Nat
      <3>1. parseCommands(text) \subseteq DOMAIN text
        BY DEF parseCommands
      <3> QED
        BY <1>1, <3>1
    <2>2. Len(text) + 1 \in Nat /\ Len(text) + 1 > i
      BY <1>1
    <2>3. \A j \in S :
             j = Len(text) + 1 \/ (j \in parseCommands(text) /\ i < j)
      OBVIOUS
    <2>4. i \in Nat
      BY <1>1
    <2> HIDE DEF S
    <2> QED
      BY <2>1, <2>2, <2>3, <2>4
  <1>3. S \in SUBSET Nat /\ S # {}
    BY <1>2
  <1> HIDE DEF S
  <1>4. Min(S) \in S /\ \A y \in S : Min(S) <= y
    BY <1>3, LeastOf
  <1>5. Following(text, i) = Min(S)
    BY DEF Following, S
  <1>6. Following(text, i) \in S /\ \A y \in S : Following(text, i) <= y
    BY <1>4, <1>5
  <1> QED
    BY <1>2, <1>6 DEF S

LEMMA RequestBeginsKept ==
    ASSUME IInv, mail' = mail, killed' = killed, NEW c \in Conns,
           RequestBegins(c)
    PROVE  Kept(c)
  <1>1. PICK k \in Links : k = conn[c]
    BY DEF IInv, LinksOK
  <1>2. Sound(k) /\ k.at = "process" /\ k.line = 0
    BY <1>1 DEF IInv, LinksOK, RequestBegins, At
  <1>3. k.seen = "unread"
    <2>1. ~(k.line > 0)
      BY <1>2
    <2> QED
      BY <1>2, <2>1 DEF Sound, InOrder
  <1>4. PICK g : g = Goes[k.rcpts[k.next]]
    OBVIOUS
  <1>5. g.kind = "request" /\ g.list \in Lists
    BY <1>1, <1>4 DEF RequestBegins, Hopeless, NowTask, Now
  <1> DEFINE f == Following(k.text, k.line)
             w == [k EXCEPT !.line = f, !.seen = "unread"]
  <1>6. conn' = [conn EXCEPT ![c] = w]
    BY <1>1 DEF RequestBegins, NextLine, Set
  <1>14. f \in Nat
    BY <1>2, FollowingIs DEF Links
  <1> HIDE DEF f
  <1>7. w \in Links
    BY <1>14 DEF Links
  <1>8. /\ w.at = k.at /\ w.pipe = k.pipe /\ w.next = k.next
        /\ w.seen = k.seen /\ w.peer = k.peer
        /\ w.msg = k.msg /\ w.asked = k.asked /\ w.rcpts = k.rcpts
        /\ w.whole = k.whole
    BY <1>3 DEF Links
  <1> HIDE DEF w
  <1>9. Staged(w)
    BY <1>2, <1>8 DEF Sound, Staged
  <1>10. OwnRcpts(w) /\ WholeOrKilled(w)
    BY <1>2, <1>8 DEF Sound, OwnRcpts, WholeOrKilled
  <1>11. InOrder(w)
    BY <1>2, <1>3, <1>4, <1>5, <1>8 DEF InOrder
  <1>12. Sound(w)'
    BY <1>9, <1>10, <1>11, SoundStays DEF Sound
  <1>13. /\ handled' = handled /\ todo' = todo
         /\ faults' \in Nat /\ faults' >= faults
    BY DEF RequestBegins, mta, history, IInv, TablesOK
  <1> QED
    BY <1>1, <1>6, <1>7, <1>8, <1>12, <1>13, QuietKept

\* A command mail is carried out for a list that is there.
LEMMA RequestList ==
    ASSUME IInv, NEW c \in Conns, InCommand(c)
    PROVE  /\ NowTask(c).kind = "request" /\ NowTask(c).list \in Lists
           /\ conn[c].line > 0 /\ conn[c].line \in 1 .. Len(conn[c].text)
           /\ conn[c].seen # "unread" => Command(c) \in Orders
  <1>1. PICK k \in Links : k = conn[c]
    BY DEF IInv, LinksOK
  <1>2. Sound(k) /\ k.at = "process" /\ k.line \in Nat /\ k.line # 0
    <2>1. k.line \in 1 .. Len(k.text) /\ k.line \in Nat
      BY <1>1, LenProperties DEF InCommand, parseCommands, Links
    <2> QED
      BY <1>1, <2>1 DEF IInv, LinksOK, InCommand, At
  <1>3. k.line > 0 /\ k.line \in 1 .. Len(k.text)
    <2>1. k.line \in 1 .. Len(k.text)
      BY <1>1, LenProperties DEF InCommand, parseCommands, Links
    <2> QED
      BY <1>2, <2>1
  <1> QED
    BY <1>1, <1>2, <1>3 DEF Sound, InOrder, NowTask, Now, Command

\* The row that is read.
LEMMA OwnSubType ==
    ASSUME IInv, NEW c \in Conns, InCommand(c)
    PROVE  OwnSub(c) \in Subs
  BY RequestList DEF IInv, TablesOK, OwnSub

\* On to the next command.
LEMMA NextLineKept ==
    ASSUME IInv, mail' = mail, killed' = killed, NEW c \in Conns,
           InCommand(c), NextLine(c), handled' = handled, todo' = todo,
           faults' \in Nat, faults' >= faults
    PROVE  Kept(c)
  <1>1. PICK k \in Links : k = conn[c]
    BY DEF IInv, LinksOK
  <1>2. /\ Sound(k) /\ k.at = "process" /\ k.line > 0 /\ k.line \in Nat
        /\ k.line \in 1 .. Len(k.text)
    BY <1>1, RequestList DEF IInv, LinksOK, InCommand, At, Links
  <1> DEFINE f == Following(k.text, k.line)
             w == [k EXCEPT !.line = f, !.seen = "unread"]
  <1>3. conn' = [conn EXCEPT ![c] = w]
    BY <1>1 DEF NextLine, Set
  <1>10. f \in Nat
    <2>1. k.text \in Seq(STRING)
      BY DEF Links
    <2>2. k.line \in 0 .. Len(k.text)
      BY <1>2, <2>1, LenProperties
    <2> QED
      BY <2>1, <2>2, FollowingIs
  <1> HIDE DEF f
  <1>4. w \in Links
    BY <1>10 DEF Links
  <1>5. /\ w.at = k.at /\ w.pipe = k.pipe /\ w.next = k.next
        /\ w.seen = "unread" /\ w.peer = k.peer
        /\ w.msg = k.msg /\ w.asked = k.asked /\ w.rcpts = k.rcpts
        /\ w.whole = k.whole
    BY DEF Links
  <1> HIDE DEF w
  <1>6. Staged(w)
    BY <1>2, <1>5 DEF Sound, Staged
  <1>7. OwnRcpts(w) /\ WholeOrKilled(w)
    BY <1>2, <1>5 DEF Sound, OwnRcpts, WholeOrKilled
  <1>8. InOrder(w)
    BY <1>2, <1>5 DEF Sound, InOrder
  <1>9. Sound(w)'
    BY <1>6, <1>7, <1>8, SoundStays DEF Sound
  <1> QED
    BY <1>1, <1>3, <1>4, <1>5, <1>9, QuietKept

LEMMA ReadSubscriptionKept ==
    ASSUME IInv, mail' = mail, killed' = killed, NEW c \in Conns,
           ReadSubscription(c)
    PROVE  Kept(c)
  <1>1. /\ handled' = handled /\ todo' = todo /\ InCommand(c)
        /\ faults' \in Nat /\ faults' >= faults
    BY DEF ReadSubscription, mta, history, IInv, TablesOK
  <1>2. CASE ~Changes(Command(c), OwnSub(c).status)
    BY <1>1, <1>2, NextLineKept DEF ReadSubscription
  <1>3. CASE Changes(Command(c), OwnSub(c).status)
    <2>1. PICK k \in Links : k = conn[c]
      BY DEF IInv, LinksOK
    <2>2. Sound(k) /\ k.at = "process" /\ k.line > 0
      BY <1>1, <2>1, RequestList DEF IInv, LinksOK, InCommand, At
    <2>3. PICK s \in Statuses : s = OwnSub(c).status
      BY <1>1, OwnSubType DEF Subs
    <2>4. k.text[k.line] \in Orders
      BY <1>3, <2>1 DEF Changes, Command, Orders, Modes
    <2> DEFINE w == [k EXCEPT !.seen = s]
    <2>5. conn' = [conn EXCEPT ![c] = w]
      BY <1>3, <2>1, <2>3 DEF ReadSubscription, Set
    <2>6. w \in Links
      BY DEF Links
    <2>7. /\ w.at = k.at /\ w.pipe = k.pipe /\ w.next = k.next
          /\ w.line = k.line /\ w.peer = k.peer
          /\ w.msg = k.msg /\ w.asked = k.asked /\ w.rcpts = k.rcpts
          /\ w.whole = k.whole /\ w.text = k.text
      BY DEF Links
    <2> HIDE DEF w
    <2>8. Staged(w)
      BY <2>2, <2>7 DEF Sound, Staged
    <2>9. OwnRcpts(w) /\ WholeOrKilled(w)
      BY <2>2, <2>7 DEF Sound, OwnRcpts, WholeOrKilled
    <2>10. InOrder(w)
      BY <2>2, <2>4, <2>7 DEF Sound, InOrder
    <2>11. Sound(w)'
      BY <2>8, <2>9, <2>10, SoundStays DEF Sound
    <2> QED
      BY <1>1, <2>1, <2>5, <2>6, <2>7, <2>11, QuietKept
  <1> QED
    BY <1>2, <1>3

\* A command, with or without a result.
LEMMA CommandKept ==
    ASSUME IInv, mail' = mail, killed' = killed, NEW c \in Conns,
           WriteSubscription(c) \/ OtherCommand(c) \/ CommandFails(c)
    PROVE  Kept(c)
  <1>1. InCommand(c) /\ NextLine(c) /\ handled' = handled /\ todo' = todo
    BY DEF WriteSubscription, OtherCommand, CommandFails, mta, history
  <1>2. faults' \in {faults, faults + 1}
    BY DEF WriteSubscription, OtherCommand, CommandFails, ForwardToAll,
       ForwardFails, ForwardSkipping, Fault
  <1>3. faults' \in Nat /\ faults' >= faults
    BY <1>2 DEF IInv, TablesOK
  <1> QED
    BY <1>1, <1>3, NextLineKept

\* A handler that finishes.
LEMMA HandlerKept ==
    ASSUME IInv, mail' = mail, killed' = killed, NEW c \in Conns,
           Handle(c) \/ handleOwnerForward(c) \/ RequestEnds(c) \/ Overlook(c)
    PROVE  Kept(c)
  <1>1. PICK ok \in BOOLEAN : Ended(c, ok)
    BY DEF Handle, handleOwnerForward, RequestEnds, Ended
  <1>2. At(c, "process")
    BY DEF Handle, handleOwnerForward, RequestEnds, Overlook
  <1>3. faults' \in {faults, faults + 1}
    BY DEF Handle, handleOwnerForward, RequestEnds, ForwardToAll,
       ForwardFails, ForwardSkipping, Fault, Overlook
  <1>4. faults' \in Nat /\ faults' >= faults
    BY <1>3 DEF IInv, TablesOK
  <1> QED
    BY <1>1, <1>2, <1>4, FinishKept
-----------------------------------------------------------------------------
(***************************************************************************)
(* The connections and the count                                           *)
(***************************************************************************)

\* Every step is one on a connection, one that touches none, or the daemon's
\* stop.
LEMMA StepKept ==
    ASSUME IInv, [Next]_vars
    PROVE  \/ \E c \in Conns : Kept(c)
           \/ /\ conn' = conn /\ handled' = handled /\ faults' = faults
              /\ \A m \in Msgs : todo'[m] \subseteq todo[m]
           \/ DaemonStops
  <1> DEFINE Goal ==
        \/ \E c \in Conns : Kept(c)
        \/ /\ conn' = conn /\ handled' = handled /\ faults' = faults
           /\ \A m \in Msgs : todo'[m] \subseteq todo[m]
        \/ DaemonStops
  <1>1. mail' = mail
    BY MailStays
  <1>2. ASSUME NEW c \in Conns, Serve(c) PROVE Goal
    <2>1. CASE Handle(c) \/ handleOwnerForward(c) \/ RequestEnds(c)
      <3>1. killed' = killed
        BY <2>1 DEF Handle, handleOwnerForward, RequestEnds
      <3> QED
        BY <1>1, <2>1, <3>1, HandlerKept
    <2>2. CASE RequestBegins(c)
      BY <1>1, <2>2, RequestBeginsKept DEF RequestBegins, history
    <2>3. CASE ReadSubscription(c)
      BY <1>1, <2>3, ReadSubscriptionKept DEF ReadSubscription, history
    <2>4. CASE WriteSubscription(c) \/ OtherCommand(c)
      <3>1. killed' = killed
        BY <2>4 DEF WriteSubscription, OtherCommand, history
      <3> QED
        BY <1>1, <2>4, <3>1, CommandKept
    <2> QED
      BY <1>2, <2>1, <2>2, <2>3, <2>4 DEF Serve
  <1>3. ASSUME NEW c \in Conns, Converse(c) PROVE Goal
    <2>1. CASE Connect(c)
      BY <1>1, <2>1, ConnectKept DEF Connect, history
    <2>2. CASE handleData(c)
      BY <1>1, <2>2, handleDataKept DEF handleData, history
    <2>3. CASE DataEnds(c) \/ RelayEnds(c)
      BY <1>1, <2>3, TextEndsKept DEF DataEnds, RelayEnds, history
    <2>4. CASE handleQuit(c)
      BY <1>1, <2>4, handleQuitKept DEF handleQuit, history
    <2>5. ASSUME NEW m \in Msgs, handleMail(c, m) PROVE Goal
      BY <1>1, <2>5, handleMailKept DEF handleMail, history
    <2>6. ASSUME NEW m \in Msgs, NEW t \in Tasks(m), handleRcpt(c, t)
          PROVE  Goal
      <3>1. conn[c].msg \in Msgs
        BY <2>6 DEF handleRcpt, IInv, LinksOK, Links
      <3>2. t \in Tasks(conn[c].msg)
        BY <2>6, <3>1 DEF handleRcpt, IInv, TablesOK
      <3> QED
        BY <1>1, <2>6, <3>1, <3>2, handleRcptKept DEF handleRcpt, history
    <2> QED
      BY <1>3, <2>1, <2>2, <2>3, <2>4, <2>5, <2>6 DEF Converse
  <1>4. ASSUME NEW c \in Conns, CommandFails(c) PROVE Goal
    BY <1>1, <1>4, CommandKept DEF CommandFails
  <1>5. ASSUME NEW c \in Conns, Abandon(c) PROVE Goal
    BY <1>1, <1>5, AbandonKept DEF Abandon, history
  <1>6. ASSUME NEW c \in Conns, Lose(c) PROVE Goal
    BY <1>1, <1>6, LoseKept DEF Lose, history
  <1>7. ASSUME NEW c \in Conns, RelayKilled(c) PROVE Goal
    BY <1>1, <1>7, RelayKilledKept
  <1>8. ASSUME NEW m \in Msgs, NEW t \in Tasks(m), RelayFindsNoDaemon(m, t)
        PROVE  Goal
    BY <1>8 DEF RelayFindsNoDaemon, Settle, IInv, TablesOK
  <1>9. ASSUME NEW m \in Msgs, NEW t \in Tasks(m), NEW c \in Conns,
               Relay(c, m, t)
        PROVE  Goal
    BY <1>1, <1>9, RelayKept DEF Relay, history
  <1>10. ASSUME DaemonStarts \/ UNCHANGED vars PROVE Goal
    BY <1>10 DEF DaemonStarts, vars, mta, history
  <1>11. ASSUME NEW c \in Conns, Overlook(c) PROVE Goal
    <2>1. killed' = killed
      BY <1>11 DEF Overlook
    <2> QED
      BY <1>1, <1>11, <2>1, HandlerKept
  <1> HIDE DEF Goal
  <1>12. Goal
    BY <1>2, <1>3, <1>4, <1>5, <1>6, <1>7, <1>8, <1>9, <1>10, <1>11
       DEF Next, Goal
  <1> QED
    BY <1>12 DEF Goal

LEMMA LinksStay ==
    ASSUME IInv, [Next]_vars
    PROVE  LinksOK' /\ OneSender' /\ \A x \in Pairs' : CountOK(x)'
  <1>1. mail' = mail /\ killed \subseteq killed' /\ Pairs' = Pairs
    BY MailStays, KilledStays DEF Pairs, Tasks
  <1>2. conn \in [Conns -> Links] /\ \A c \in Conns : Sound(conn[c])
    BY DEF IInv, LinksOK
  <1>3. ASSUME NEW c \in Conns, Kept(c)
        PROVE  LinksOK' /\ OneSender' /\ \A x \in Pairs : CountOK(x)'
    <2>1. PICK w \in Links :
              /\ conn' = [conn EXCEPT ![c] = w]
              /\ Sound(w)'
              /\ w.peer /\ w.msg # None =>
                    \/ conn[c].peer /\ conn[c].msg = w.msg
                    \/ ~Sending(w.msg)
      BY <1>3 DEF Kept
    <2>2. conn'[c] = w /\ \A d \in Conns \ {c} : conn'[d] = conn[d]
      BY <1>2, <2>1
    <2>3. conn' \in [Conns -> Links]
      BY <1>2, <2>1
    <2>4. ASSUME NEW d \in Conns PROVE Sound(conn[d])'
      <3>1. CASE d = c
        BY <2>1, <2>2, <3>1
           DEF Sound, Staged, OwnRcpts, WholeOrKilled, InOrder
      <3>2. CASE d # c
        <4>1. PICK k \in Links : k = conn[d]
          BY <1>2
        <4>2. Sound(k)'
          BY <1>1, <1>2, <4>1, SoundStays
        <4>3. conn'[d] = k
          BY <2>2, <3>2, <4>1
        <4> QED
          BY <4>2, <4>3
             DEF Sound, Staged, OwnRcpts, WholeOrKilled, InOrder
      <3> QED
        BY <3>1, <3>2
    <2>5. OneSender'
      <3>1. \A e \in Conns \ {c} :
                ~(w.peer /\ w.msg # None /\ conn[e].peer
                                         /\ conn[e].msg = w.msg)
        BY <2>1 DEF Sending, IInv, OneSender
      <3>2. \A d, e \in Conns \ {c} :
                /\ conn[d].peer /\ conn[e].peer
                /\ conn[d].msg = conn[e].msg /\ conn[d].msg # None
                => d = e
        BY DEF IInv, OneSender
      <3> QED
        BY <2>2, <3>1, <3>2 DEF OneSender
    <2>6. LinksOK'
      BY <2>3, <2>4 DEF LinksOK
    <2> QED
      BY <1>3, <2>5, <2>6 DEF Kept
  <1>4. ASSUME conn' = conn, handled' = handled, faults' = faults,
               \A m \in Msgs : todo'[m] \subseteq todo[m]
        PROVE  LinksOK' /\ OneSender' /\ \A x \in Pairs : CountOK(x)'
    <2>1. ASSUME NEW d \in Conns PROVE Sound(conn[d])'
      <3>1. PICK k \in Links : k = conn[d]
        BY <1>2
      <3>2. Sound(k)'
        BY <1>1, <1>2, <3>1, SoundStays
      <3>3. conn'[d] = k
        BY <1>4, <3>1
      <3> QED
        BY <3>2, <3>3 DEF Sound, Staged, OwnRcpts, WholeOrKilled, InOrder
    <2>2. LinksOK' /\ OneSender'
      BY <1>2, <1>4, <2>1 DEF LinksOK, OneSender, IInv
    <2>3. ASSUME NEW x \in Pairs PROVE CountOK(x)'
      <3>1. Trying(x)' = Trying(x) /\ x[1] \in Msgs
        BY <1>4 DEF Trying, Pairs
      <3>2. TablesOK /\ CountOK(x) /\ faults' \in Nat /\ faults' >= faults
        BY <1>4 DEF IInv, TablesOK
      <3> QED
        BY <1>4, <3>1, <3>2, CountStays
    <2> QED
      BY <2>2, <2>3
  <1>5. ASSUME DaemonStops
        PROVE  LinksOK' /\ OneSender' /\ \A x \in Pairs : CountOK(x)'
    <2>1. /\ conn' = [c \in Conns |-> Free]
          /\ handled' = handled /\ faults' = faults + 1
      BY <1>5 DEF DaemonStops, Fault
    <2>2. Free \in Links /\ Sound(Free)' /\ ~Free.peer /\ Free.msg = None
      BY <1>1, FreeIsLink, FreeIsSound, SoundStays DEF Free
    <2>3. ASSUME NEW d \in Conns PROVE Sound(conn[d])'
      <3>1. conn'[d] = Free
        BY <2>1
      <3> QED
        BY <2>2, <3>1 DEF Sound, Staged, OwnRcpts, WholeOrKilled, InOrder
    <2>4. LinksOK' /\ OneSender'
      BY <2>1, <2>2, <2>3 DEF LinksOK, OneSender
    <2>5. ASSUME NEW x \in Pairs PROVE CountOK(x)'
      <3>1. Trying(x)' = {}
        BY <2>1, <2>2, NoMessage DEF Trying
      <3>2. TablesOK /\ CountOK(x)
        BY DEF IInv
      <3> QED
        BY <2>1, <3>1, <3>2, CountAfterFault
    <2> QED
      BY <2>4, <2>5
  <1> QED
    BY <1>1, <1>3, <1>4, <1>5, StepKept
-----------------------------------------------------------------------------
(***************************************************************************)
(* Answers, handlers and what is known of the recipients                   *)
(***************************************************************************)

\* Nothing is known of the recipients but what a handler that finishes, a
\* relay without a daemon and the daemon's stop say: RCPT refuses nobody.
LEMMA AnswerSteps ==
    ASSUME IInv, [Next]_vars
    PROVE  \/ UNCHANGED <<mta, handled, failed, cut, unsaid, overlooked>>
           \/ /\ UNCHANGED unsaid
              /\ \E c \in Conns : \E ok \in BOOLEAN :
                    At(c, "process") /\ Ended(c, ok)
           \/ \E m \in Msgs : \E t \in Tasks(m) : RelayFindsNoDaemon(m, t)
           \/ DaemonStops
  <1> DEFINE Goal ==
        \/ UNCHANGED <<mta, handled, failed, cut, unsaid, overlooked>>
        \/ /\ UNCHANGED unsaid
           /\ \E c \in Conns : \E ok \in BOOLEAN :
                 At(c, "process") /\ Ended(c, ok)
        \/ \E m \in Msgs : \E t \in Tasks(m) : RelayFindsNoDaemon(m, t)
        \/ DaemonStops
  <1>1. ASSUME NEW c \in Conns,
               \/ Handle(c) \/ handleOwnerForward(c) \/ RequestEnds(c)
               \/ Overlook(c)
        PROVE  Goal
    BY <1>1 DEF Handle, handleOwnerForward, RequestEnds, Overlook, Ended
  <1>2. ASSUME NEW c \in Conns, NEW m \in Msgs, NEW t \in Tasks(m),
               handleRcpt(c, t)
        PROVE  Goal
    <2>1. conn[c].msg \in Msgs
      BY <1>2 DEF handleRcpt, IInv, LinksOK, Links
    <2>2. t \in Tasks(conn[c].msg)
      BY <1>2, <2>1 DEF handleRcpt, IInv, TablesOK
    <2>3. mail' = mail /\ killed' = killed
      BY <1>2 DEF handleRcpt, history
    <2>4. UNCHANGED mta
      BY <1>2, <2>1, <2>2, <2>3, handleRcptKept
    <2> QED
      BY <1>2, <2>4 DEF handleRcpt, history
  <1>3. ASSUME NEW c \in Conns,
               \/ RequestBegins(c) \/ ReadSubscription(c)
               \/ WriteSubscription(c) \/ OtherCommand(c) \/ CommandFails(c)
               \/ Connect(c) \/ handleData(c) \/ DataEnds(c) \/ handleQuit(c)
               \/ RelayEnds(c) \/ Abandon(c) \/ Lose(c) \/ RelayKilled(c)
               \/ \E m \in Msgs : handleMail(c, m)
               \/ \E m \in Msgs : \E t \in Tasks(m) : Relay(c, m, t)
        PROVE  Goal
    BY <1>3 DEF RequestBegins, ReadSubscription, WriteSubscription,
       OtherCommand, CommandFails, Connect, handleData, DataEnds, handleQuit,
       RelayEnds, Abandon, Lose, RelayKilled, handleMail, Relay, history
  <1>4. ASSUME DaemonStarts \/ UNCHANGED vars PROVE Goal
    BY <1>4 DEF DaemonStarts, vars, history
  <1> HIDE DEF Goal
  <1>5. Goal
    BY <1>1, <1>2, <1>3, <1>4 DEF Next, Serve, Converse, Goal
  <1> QED
    BY <1>5 DEF Goal

\* What the daemon's stop says is about recipients of relays.
LEMMA RelayRcpts ==
    ASSUME IInv, NEW c \in Conns, conn[c].pipe,
           conn[c].at \in {"relay", "process"}
    PROVE  /\ conn[c].msg \in Msgs /\ conn[c].asked[1] \in Tasks(conn[c].msg)
           /\ <<conn[c].msg, conn[c].asked[1]>> \in Pairs
  <1>1. PICK k \in Links : k = conn[c]
    BY DEF IInv, LinksOK
  <1>2. Sound(k) /\ k.pipe /\ k.at \in {"relay", "process"}
    BY <1>1 DEF IInv, LinksOK
  <1>3. k.msg \in Msgs /\ k.msg # None /\ Len(k.rcpts) = 1
    BY <1>2, InboundAssumption DEF Sound, Staged, Links
  <1>4. k.rcpts = k.asked /\ k.rcpts[1] \in Tasks(k.msg)
    BY <1>2, <1>3 DEF Sound, OwnRcpts
  <1> QED
    BY <1>1, <1>3, <1>4 DEF Pairs

\* The relays that break off, and those that wait for an answer.
Relays(place) ==
    {<<conn[c].msg, conn[c].asked[1]>> :
        c \in {d \in Conns : conn[d].pipe /\ conn[d].peer /\ At(d, place)}}

LEMMA StopAnswers ==
    ASSUME IInv, DaemonStops
    PROVE  /\ Relays("relay") \subseteq Pairs
           /\ Relays("process") \subseteq Pairs
           /\ failed' = failed \cup Relays("relay")
           /\ unsaid' = unsaid \cup Relays("process")
           /\ UNCHANGED <<mail, handled, cut, overlooked>>
           /\ \A m \in Msgs :
                 LET of(S) == {t \in Tasks(m) : <<m, t>> \in S}
                 IN  /\ todo'[m] = todo[m] \ of(Relays("relay")
                                                  \cup Relays("process"))
                     /\ refused'[m] = refused[m] \cup of(Relays("relay"))
                     /\ taken'[m] = taken[m] \cup of(Relays("process"))
           /\ todo' = [m \in Msgs |-> todo'[m]]
           /\ refused' = [m \in Msgs |-> refused'[m]]
           /\ taken' = [m \in Msgs |-> taken'[m]]
  <1>1. ASSUME NEW place \in {"relay", "process"}, NEW x \in Relays(place)
        PROVE  /\ x \in Pairs /\ x = <<x[1], x[2]>>
               /\ x[2] \in Tasks(x[1])
    <2>1. PICK c \in Conns : /\ conn[c].pipe /\ At(c, place)
                             /\ x = <<conn[c].msg, conn[c].asked[1]>>
      BY <1>1 DEF Relays
    <2> QED
      BY <2>1, RelayRcpts DEF At
  <1>2. Relays("relay") \subseteq Pairs /\ Relays("process") \subseteq Pairs
    BY <1>1
  <1>3. /\ failed' = failed \cup Relays("relay")
        /\ unsaid' = unsaid \cup Relays("process")
        /\ UNCHANGED <<mail, handled, cut, overlooked>>
    BY DEF DaemonStops, Relays
  <1> DEFINE of(m, S) == {x[2] : x \in {y \in S : y[1] = m}}
  <1>4. /\ todo' = [m \in Msgs |->
                       todo[m] \ of(m, Relays("relay") \cup Relays("process"))]
        /\ refused' = [m \in Msgs |-> refused[m] \cup of(m, Relays("relay"))]
        /\ taken' = [m \in Msgs |-> taken[m] \cup of(m, Relays("process"))]
    BY DEF DaemonStops, Relays
  <1>5. ASSUME NEW m \in Msgs,
               NEW S, \A x \in S : x = <<x[1], x[2]>> /\ x[2] \in Tasks(x[1])
        PROVE  of(m, S) = {t \in Tasks(m) : <<m, t>> \in S}
    <2>1. ASSUME NEW t \in of(m, S) PROVE t \in Tasks(m) /\ <<m, t>> \in S
      BY <1>5, <2>1
    <2>2. ASSUME NEW t \in Tasks(m), <<m, t>> \in S PROVE t \in of(m, S)
      BY <2>2
    <2> QED
      BY <2>1, <2>2
  <1> HIDE DEF of
  <1>6. ASSUME NEW m \in Msgs
        PROVE  /\ of(m, Relays("relay"))
                    = {t \in Tasks(m) : <<m, t>> \in Relays("relay")}
               /\ of(m, Relays("process"))
                    = {t \in Tasks(m) : <<m, t>> \in Relays("process")}
               /\ of(m, Relays("relay") \cup Relays("process"))
                    = {t \in Tasks(m) : <<m, t>> \in Relays("relay")
                                                       \cup Relays("process")}
    BY <1>1, <1>5
  <1> QED
    BY <1>2, <1>3, <1>4, <1>6

\* What is known of the recipients: the part of TablesOK that the steps of
\* AnswerSteps change, and the properties of it.
AnswersOK ==
    /\ todo \in [Msgs -> SUBSET AllTasks]
    /\ taken \in [Msgs -> SUBSET AllTasks]
    /\ refused \in [Msgs -> SUBSET AllTasks]
    /\ \A m \in Msgs : /\ todo[m] \subseteq Tasks(m)
                       /\ taken[m] \subseteq Tasks(m) \ todo[m]
                       /\ refused[m] \subseteq Tasks(m) \ todo[m]
    /\ handled \in [Pairs -> Nat]
    /\ failed \subseteq Pairs /\ cut \subseteq Pairs /\ unsaid \subseteq Pairs
    /\ overlooked \subseteq Pairs
    /\ OwnTask /\ NothingCutShort /\ RefusedForCause /\ TakenOK

\* The tasks of a message are tasks of a scenario.
LEMMA TasksType ==
    ASSUME TablesOK, NEW m \in Msgs
    PROVE  Tasks(m) \subseteq AllTasks
  BY DEF TablesOK, Tasks, AllTasks

\* The MTA has an answer for a recipient it had none for.
LEMMA SettleAnswers ==
    ASSUME AnswersOK, TablesOK, mail' = mail,
           NEW m \in Msgs, NEW t \in Tasks(m), NEW ok \in BOOLEAN,
           Settle(m, t, ok)
    PROVE  /\ todo' \in [Msgs -> SUBSET AllTasks]
           /\ taken' \in [Msgs -> SUBSET AllTasks]
           /\ refused' \in [Msgs -> SUBSET AllTasks]
           /\ \A n \in Msgs : /\ todo'[n] \subseteq Tasks(n)
                              /\ taken'[n] \subseteq Tasks(n) \ todo'[n]
                              /\ refused'[n] \subseteq Tasks(n) \ todo'[n]
           /\ \A n \in Msgs : \A u \in taken'[n] :
                 u \in taken[n] \/ (ok /\ n = m /\ u = t)
           /\ \A n \in Msgs : \A u \in refused'[n] :
                 u \in refused[n] \/ (~ok /\ n = m /\ u = t)
  <1>1. t \in AllTasks
    BY TasksType
  <1>2. CASE ok
    BY <1>1, <1>2 DEF Settle, AnswersOK
  <1>3. CASE ~ok
    BY <1>1, <1>3 DEF Settle, AnswersOK
  <1> QED
    BY <1>2, <1>3

LEMMA FinishAnswers ==
    ASSUME IInv, AnswersOK, mail' = mail, killed \subseteq killed',
           NEW c \in Conns, NEW ok \in BOOLEAN, At(c, "process"),
           Ended(c, ok), unsaid' = unsaid
    PROVE  AnswersOK'
  <1>1. PICK k \in Links : k = conn[c]
    BY DEF IInv, LinksOK
  <1>2. PICK t : t = Now(c)
    OBVIOUS
  <1>3. /\ k.msg \in Msgs /\ t \in Tasks(k.msg) /\ <<k.msg, t>> \in Pairs
        /\ k.next \in DOMAIN k.asked /\ k.asked[k.next] = t
    BY <1>1, <1>2, AtHand
  <1>4. Pairs' = Pairs /\ \A m : Tasks(m)' = Tasks(m)
    BY DEF Pairs, Tasks
  <1>5. /\ handled' \in {handled, [handled EXCEPT ![<<k.msg, t>>] = @ + 1]}
        /\ failed' = IF ok THEN failed ELSE failed \cup {<<k.msg, t>>}
        /\ cut' = IF k.whole THEN cut ELSE cut \cup {<<k.msg, t>>}
    BY <1>1, <1>2, EndedReplies DEF Reply
  <1>6. UNCHANGED mta \/ Settle(k.msg, t, ok)
    BY <1>1, <1>3, EndedReplies DEF Reply, Answer
  <1>7. handled \in [Pairs -> Nat]
    BY DEF AnswersOK
  <1>8. /\ handled' \in [Pairs -> Nat]
        /\ \A x \in Pairs : handled'[x] >= handled[x]
    <2>1. PICK h \in Nat : h = handled[<<k.msg, t>>]
      BY <1>3, <1>7
    <2>2. PICK i \in Nat : i = h + 1 /\ i >= h
      OBVIOUS
    <2>3. handled' \in {handled, [handled EXCEPT ![<<k.msg, t>>] = i]}
      BY <1>5, <2>1, <2>2
    <2>4. handled' \in [Pairs -> Nat]
      BY <1>7, <2>3
    <2>5. \A x \in Pairs : handled[x] \in Nat /\ handled[x] >= handled[x]
      BY <1>7
    <2>6. \A x \in Pairs : handled'[x] = handled[x] \/ (handled[x] = h
                                                       /\ handled'[x] = i)
      BY <1>7, <2>1, <2>3
    <2> QED
      BY <2>2, <2>4, <2>5, <2>6
  <1>9. /\ overlooked \subseteq overlooked' /\ overlooked' \subseteq Pairs
        /\ ok => \/ handled'[<<k.msg, t>>] > 0
                 \/ /\ <<k.msg, t>> \in overlooked'
                    /\ Goes[t].kind \in {"bounce", "unsubscribe"}
    <2>1. overlooked \subseteq Pairs
      BY DEF AnswersOK
    <2>2. CASE Finish(c, ok)
      <3>1. ok => handled' = [handled EXCEPT ![<<k.msg, t>>] = @ + 1]
        BY <1>1, <1>2, <2>2 DEF Finish
      <3>2. overlooked' = overlooked
        BY <2>2 DEF Finish
      <3> QED
        BY <1>3, <1>7, <2>1, <3>1, <3>2
    <2>3. CASE Overlook(c)
      BY <1>1, <1>2, <1>3, <2>1, <2>3 DEF Overlook, NowTask
    <2> QED
      BY <2>2, <2>3 DEF Ended
  <1>10. /\ failed' \subseteq Pairs /\ cut' \subseteq Pairs
         /\ unsaid' \subseteq Pairs
    BY <1>3, <1>5 DEF AnswersOK
  <1>11. OwnTask'
    <2>1. ASSUME NEW x \in Pairs, handled'[x] > 0
          PROVE  x[2] \in Tasks(x[1])
      <3>1. CASE x = <<k.msg, t>>
        BY <1>3, <3>1
      <3>2. CASE x # <<k.msg, t>>
        BY <1>5, <1>7, <2>1, <3>2 DEF AnswersOK, OwnTask
      <3> QED
        BY <3>1, <3>2
    <2> QED
      BY <1>4, <2>1 DEF OwnTask
  <1>12. NothingCutShort'
    <2>1. ASSUME ~k.whole PROVE <<k.msg, t>> \in killed
      <3>1. k.pipe /\ <<k.msg, k.rcpts[1]>> \in killed
        BY <1>1, <2>1 DEF IInv, LinksOK, Sound, WholeOrKilled, At
      <3>2. k.next \in 1 .. Len(k.rcpts) /\ Len(k.rcpts) = 1
        BY <1>1, <3>1 DEF IInv, LinksOK, Sound, Staged, At
      <3>3. k.next = 1
        BY <3>2
      <3> QED
        BY <1>1, <1>2, <3>1, <3>3 DEF Now
    <2> QED
      BY <1>5, <2>1 DEF NothingCutShort, AnswersOK
  <1>13. /\ todo' \in [Msgs -> SUBSET AllTasks]
         /\ taken' \in [Msgs -> SUBSET AllTasks]
         /\ refused' \in [Msgs -> SUBSET AllTasks]
         /\ \A n \in Msgs : /\ todo'[n] \subseteq Tasks(n)
                            /\ taken'[n] \subseteq Tasks(n) \ todo'[n]
                            /\ refused'[n] \subseteq Tasks(n) \ todo'[n]
         /\ \A n \in Msgs : \A u \in taken'[n] :
               u \in taken[n] \/ (ok /\ n = k.msg /\ u = t)
         /\ \A n \in Msgs : \A u \in refused'[n] :
               u \in refused[n] \/ (~ok /\ n = k.msg /\ u = t)
    <2>1. CASE UNCHANGED mta
      BY <2>1 DEF mta, AnswersOK
    <2>2. CASE Settle(k.msg, t, ok)
      BY <1>3, <2>2, SettleAnswers DEF IInv
    <2> QED
      BY <1>6, <2>1, <2>2
  <1>14. RefusedForCause'
    BY <1>5, <1>13 DEF RefusedForCause, AnswersOK
  <1>15. TakenOK'
    <2>1. ASSUME NEW n \in Msgs, NEW u \in taken'[n]
          PROVE  \/ handled'[<<n, u>>] > 0 \/ <<n, u>> \in unsaid'
                 \/ /\ <<n, u>> \in overlooked'
                    /\ Goes[u].kind \in {"bounce", "unsubscribe"}
      <3>1. u \in Tasks(n)
        BY <1>13
      <3>2. <<n, u>> \in Pairs
        BY <3>1 DEF Pairs
      <3>3. CASE u \in taken[n]
        <4>1. \/ handled[<<n, u>>] > 0 \/ <<n, u>> \in unsaid
              \/ /\ <<n, u>> \in overlooked
                 /\ Goes[u].kind \in {"bounce", "unsubscribe"}
          BY <3>3 DEF AnswersOK, TakenOK
        <4> QED
          BY <1>7, <1>8, <1>9, <3>2, <4>1
      <3>4. CASE ok /\ n = k.msg /\ u = t
        BY <1>9, <3>4
      <3> QED
        BY <1>13, <3>3, <3>4
    <2> QED
      BY <2>1 DEF TakenOK
  <1> QED
    BY <1>4, <1>8, <1>9, <1>10, <1>11, <1>12, <1>13, <1>14, <1>15
       DEF AnswersOK

LEMMA AnswersStay ==
    ASSUME IInv, [Next]_vars
    PROVE  AnswersOK'
  <1>1. mail' = mail /\ killed \subseteq killed' /\ Pairs' = Pairs
    BY MailStays, KilledStays DEF Pairs, Tasks
  <1>2. AnswersOK /\ TablesOK /\ \A m : Tasks(m)' = Tasks(m)
    BY <1>1 DEF IInv, TablesOK, AnswersOK, Tasks
  <1>3. CASE UNCHANGED <<mta, handled, failed, cut, unsaid, overlooked>>
    BY <1>1, <1>2, <1>3
       DEF AnswersOK, mta, OwnTask, NothingCutShort, RefusedForCause, TakenOK
  <1>4. ASSUME UNCHANGED unsaid, NEW c \in Conns, NEW ok \in BOOLEAN,
               At(c, "process"), Ended(c, ok)
        PROVE  AnswersOK'
    BY <1>1, <1>2, <1>4, FinishAnswers
  <1>5. ASSUME NEW m \in Msgs, NEW t \in Tasks(m), RelayFindsNoDaemon(m, t)
        PROVE  AnswersOK'
    <2>1. Settle(m, t, FALSE) /\ failed' = failed \cup {<<m, t>>}
      BY <1>5 DEF RelayFindsNoDaemon
    <2>2. UNCHANGED <<handled, cut, unsaid, overlooked>> /\ <<m, t>> \in Pairs
      BY <1>5 DEF RelayFindsNoDaemon, Pairs
    <2>3. /\ todo' \in [Msgs -> SUBSET AllTasks]
          /\ taken' \in [Msgs -> SUBSET AllTasks]
          /\ refused' \in [Msgs -> SUBSET AllTasks]
          /\ \A n \in Msgs : /\ todo'[n] \subseteq Tasks(n)
                             /\ taken'[n] \subseteq Tasks(n) \ todo'[n]
                             /\ refused'[n] \subseteq Tasks(n) \ todo'[n]
          /\ \A n \in Msgs : \A u \in taken'[n] : u \in taken[n]
          /\ \A n \in Msgs : \A u \in refused'[n] :
                u \in refused[n] \/ (n = m /\ u = t)
      BY <1>1, <1>2, <2>1, SettleAnswers
    <2>4. OwnTask' /\ NothingCutShort'
      BY <1>1, <1>2, <2>2 DEF AnswersOK, OwnTask, NothingCutShort
    <2>5. RefusedForCause' /\ TakenOK'
      BY <1>2, <2>1, <2>2, <2>3 DEF AnswersOK, RefusedForCause, TakenOK
    <2> QED
      BY <1>1, <1>2, <2>1, <2>2, <2>3, <2>4, <2>5 DEF AnswersOK
  <1>6. ASSUME DaemonStops PROVE AnswersOK'
    <2> DEFINE of(m, S) == {t \in Tasks(m) : <<m, t>> \in S}
               B == Relays("relay")
               W == Relays("process")
    <2>1. /\ B \subseteq Pairs /\ W \subseteq Pairs
          /\ failed' = failed \cup B /\ unsaid' = unsaid \cup W
          /\ UNCHANGED <<handled, cut, overlooked>>
          /\ todo' = [m \in Msgs |-> todo'[m]]
          /\ refused' = [m \in Msgs |-> refused'[m]]
          /\ taken' = [m \in Msgs |-> taken'[m]]
      BY <1>6, StopAnswers
    <2>2. \A m \in Msgs : /\ todo'[m] = todo[m] \ of(m, B \cup W)
                          /\ refused'[m] = refused[m] \cup of(m, B)
                          /\ taken'[m] = taken[m] \cup of(m, W)
      BY <1>6, StopAnswers
    <2> HIDE DEF B, W
    <2>3. \A m \in Msgs : /\ todo'[m] \subseteq Tasks(m)
                          /\ taken'[m] \subseteq Tasks(m) \ todo'[m]
                          /\ refused'[m] \subseteq Tasks(m) \ todo'[m]
      BY <1>2, <2>2 DEF AnswersOK
    <2>4. \A m \in Msgs : Tasks(m) \subseteq AllTasks
      BY <1>2, TasksType
    <2>5. /\ todo' \in [Msgs -> SUBSET AllTasks]
          /\ taken' \in [Msgs -> SUBSET AllTasks]
          /\ refused' \in [Msgs -> SUBSET AllTasks]
      <3>1. \A m \in Msgs : /\ todo'[m] \in SUBSET AllTasks
                            /\ taken'[m] \in SUBSET AllTasks
                            /\ refused'[m] \in SUBSET AllTasks
        BY <2>3, <2>4
      <3> QED
        BY <2>1, <3>1
    <2>6. OwnTask' /\ NothingCutShort'
      BY <1>1, <1>2, <2>1 DEF AnswersOK, OwnTask, NothingCutShort
    <2>7. RefusedForCause' /\ TakenOK'
      BY <1>2, <2>1, <2>2 DEF AnswersOK, RefusedForCause, TakenOK
    <2> QED
      BY <1>1, <1>2, <2>1, <2>3, <2>5, <2>6, <2>7 DEF AnswersOK
  <1> QED
    BY <1>3, <1>4, <1>5, <1>6, AnswerSteps

\* What was queued for the owners, or passed over, stays so.
LEMMA ReachedGrows ==
    ASSUME IInv, [Next]_vars
    PROVE  /\ reached' \in [Msgs -> SUBSET Owners]
           /\ \A m \in Msgs : reached[m] \subseteq reached'[m]
           /\ skipped \subseteq skipped' /\ skipped' \subseteq Msgs \X Owners
  <1> DEFINE Goal == /\ reached' \in [Msgs -> SUBSET Owners]
                     /\ \A m \in Msgs : reached[m] \subseteq reached'[m]
                     /\ skipped \subseteq skipped'
                     /\ skipped' \subseteq Msgs \X Owners
  <1>1. /\ reached \in [Msgs -> SUBSET Owners]
        /\ skipped \subseteq Msgs \X Owners /\ Others \subseteq Owners
    BY DEF IInv, TablesOK, Others
  <1>2. ASSUME UNCHANGED <<reached, skipped>> PROVE Goal
    BY <1>1, <1>2
  <1>3. ASSUME NEW m \in Msgs, ForwardToAll(m) PROVE Goal
    BY <1>1, <1>3 DEF ForwardToAll
  <1>4. ASSUME NEW m \in Msgs, ForwardSkipping(m) PROVE Goal
    BY <1>1, <1>4 DEF ForwardSkipping
  <1>5. ASSUME NEW m \in Msgs, ForwardFails(m) PROVE Goal
    <2>1. PICK S \in SUBSET Others : reached' = [reached EXCEPT ![m] = @ \cup S]
      BY <1>5 DEF ForwardFails
    <2>2. skipped' = skipped
      BY <1>5 DEF ForwardFails
    <2> QED
      BY <1>1, <2>1, <2>2
  <1> HIDE DEF Goal
  <1>6. ASSUME NEW c \in Conns,
               handleOwnerForward(c) \/ OtherCommand(c) \/ CommandFails(c)
        PROVE  Goal
    <2>1. At(c, "process")
      BY <1>6 DEF handleOwnerForward, OtherCommand, CommandFails, InCommand
    <2>2. conn[c].msg \in Msgs
      BY <2>1, AtHand
    <2>3. \/ UNCHANGED <<reached, skipped>> \/ ForwardToAll(conn[c].msg)
          \/ ForwardSkipping(conn[c].msg) \/ ForwardFails(conn[c].msg)
      BY <1>6 DEF handleOwnerForward, OtherCommand, CommandFails
    <2> QED
      BY <1>2, <1>3, <1>4, <1>5, <2>2, <2>3
  <1> DEFINE Rest == UNCHANGED <<reached, skipped>>
  <1>7. ASSUME NEW c \in Conns, Serve(c)
        PROVE  Rest \/ handleOwnerForward(c) \/ OtherCommand(c)
    BY <1>7 DEF Serve, effects, history, Handle, RequestBegins,
       ReadSubscription, WriteSubscription, RequestEnds
  <1>8. ASSUME NEW c \in Conns, Converse(c) PROVE Rest
    BY <1>8 DEF Converse, effects, history, Connect, handleData, DataEnds,
       handleQuit, RelayEnds, handleMail, handleRcpt
  <1>9. ASSUME NEW c \in Conns,
               Abandon(c) \/ Lose(c) \/ RelayKilled(c) \/ Overlook(c)
        PROVE  Rest
    BY <1>9 DEF Abandon, Lose, RelayKilled, Overlook, effects, history
  <1>10. ASSUME NEW m \in Msgs, NEW t \in Tasks(m),
                \/ RelayFindsNoDaemon(m, t)
                \/ \E c \in Conns : Relay(c, m, t)
         PROVE  Rest
    BY <1>10 DEF RelayFindsNoDaemon, Relay, effects, history
  <1>11. ASSUME DaemonStops \/ DaemonStarts \/ UNCHANGED vars PROVE Rest
    BY <1>11 DEF DaemonStops, DaemonStarts, vars, effects, history
  <1> HIDE DEF Rest
  <1>12. Rest => Goal
    BY <1>2 DEF Rest
  <1>13. Goal
    BY <1>6, <1>7, <1>8, <1>9, <1>10, <1>11, <1>12 DEF Next
  <1> QED
    BY <1>13 DEF Goal

LEMMA ReachedStays ==
    ASSUME IInv, [Next]_vars
    PROVE  ReachedOK'
  <1>1. mail' = mail /\ Pairs' = Pairs
    BY MailStays DEF Pairs, Tasks
  <1>2. (RoutedAsPrinted <=> RoutedAsPrinted')
        /\ \A m : Tasks(m)' = Tasks(m)
    BY <1>1 DEF RoutedAsPrinted, Tasks
  <1>3. SUFFICES ASSUME RoutedAsPrinted, NEW m \in Msgs, NEW t \in Tasks(m),
                        handled'[<<m, t>>] > 0, t.kind = "owner",
                        Unambiguous(t), NEW o \in Others
                 PROVE  o \in reached'[m] \/ <<m, o>> \in skipped'
    BY <1>2 DEF ReachedOK
  <1>4. <<m, t>> \in Pairs /\ handled \in [Pairs -> Nat]
    BY DEF Pairs, IInv, TablesOK
  <1>5. CASE handled[<<m, t>>] > 0
    <2>1. o \in reached[m] \/ <<m, o>> \in skipped
      BY <1>3, <1>5 DEF IInv, ReachedOK
    <2> QED
      BY <2>1, ReachedGrows
  <1>6. CASE ~(handled[<<m, t>>] > 0)
    <2>1. handled' # handled
      BY <1>3, <1>6
    <2>2. PICK c \in Conns :
              Handle(c) \/ handleOwnerForward(c) \/ RequestEnds(c)
      BY ZenonT(60), <2>1
      DEF Next, vars, history, Serve, Converse, CommandFails,
         RequestBegins, ReadSubscription, WriteSubscription, OtherCommand,
         Connect, handleData, DataEnds, handleQuit, RelayEnds, handleMail,
         handleRcpt, Abandon, Lose, RelayKilled, RelayFindsNoDaemon, Relay,
         DaemonStops, DaemonStarts, Overlook
    <2>3. ASSUME NEW ok \in BOOLEAN, Finish(c, ok)
          PROVE  ok /\ conn[c].msg = m /\ Now(c) = t
      <3>1. handled' = IF ok
                       THEN [handled EXCEPT ![<<conn[c].msg, Now(c)>>] = @ + 1]
                       ELSE handled
        BY <2>3 DEF Finish
      <3>2. ok
        BY <2>1, <3>1
      <3>3. <<conn[c].msg, Now(c)>> = <<m, t>>
        BY <1>3, <1>4, <1>6, <3>1, <3>2
      <3> QED
        BY <3>2, <3>3
    <2>4. conn[c].msg = m /\ Now(c) = t
      BY <2>2, <2>3 DEF Handle, handleOwnerForward, RequestEnds
    <2>5. ~Finish(c, FALSE)
      BY <2>3
    <2>6. Goes[t] = t
      BY <1>3 DEF RoutedAsPrinted
    <2>7. NowTask(c).kind = "owner"
      BY <1>3, <2>4, <2>6 DEF NowTask
    <2>8. handleOwnerForward(c)
      BY <2>2, <2>5, <2>7 DEF Handle, RequestEnds
    <2>9. ForwardToAll(m) \/ ForwardSkipping(m)
      BY <2>4, <2>5, <2>8 DEF handleOwnerForward
    <2>10. reached \in [Msgs -> SUBSET Owners]
      BY DEF IInv, TablesOK
    <2>11. CASE ForwardToAll(m)
      BY <2>10, <2>11 DEF ForwardToAll
    <2>12. CASE ForwardSkipping(m)
      BY <2>10, <2>12 DEF ForwardSkipping
    <2> QED
      BY <2>9, <2>11, <2>12
  <1> QED
    BY <1>5, <1>6

LEMMA TablesStay ==
    ASSUME IInv, [Next]_vars
    PROVE  TablesOK'
  <1>1. mail' = mail /\ Pairs' = Pairs /\ AnswersOK'
    BY MailStays, AnswersStay DEF Pairs, Tasks
  <1>2. TablesOK
    BY DEF IInv
  <1>3. up' \in BOOLEAN /\ was' = was
    <2>1. \/ UNCHANGED <<up, was>>
          \/ DaemonStops \/ DaemonStarts
      <3>1. ASSUME NEW c \in Conns, Serve(c) PROVE UNCHANGED <<up, was>>
        BY <3>1 DEF Serve, history, Handle, RequestBegins, ReadSubscription,
           WriteSubscription, RequestEnds, handleOwnerForward, OtherCommand,
           mta, effects
      <3>2. ASSUME NEW c \in Conns, Converse(c) PROVE UNCHANGED <<up, was>>
        BY <3>2 DEF Converse, history, Connect, handleData, DataEnds,
           handleQuit, RelayEnds, handleMail, handleRcpt
      <3> QED
        BY <3>1, <3>2 DEF Next, CommandFails, Abandon, Lose, RelayKilled,
           RelayFindsNoDaemon, Relay, vars, history, Overlook
    <2> QED
      BY <1>2, <2>1 DEF TablesOK, DaemonStops, DaemonStarts, history
  <1>4. faults' \in Nat /\ faults' <= MaxFaults
    <2>1. faults' = faults \/ Fault
      <3>1. ASSUME NEW c \in Conns, Serve(c) PROVE faults' = faults \/ Fault
        BY <3>1 DEF Serve, Handle, RequestBegins, ReadSubscription,
           WriteSubscription, RequestEnds, handleOwnerForward, OtherCommand,
           ForwardToAll, ForwardSkipping, ForwardFails
      <3>2. ASSUME NEW c \in Conns, Converse(c) PROVE faults' = faults
        BY <3>2 DEF Converse, Connect, handleData, DataEnds, handleQuit,
           RelayEnds, handleMail, handleRcpt
      <3> QED
        BY <3>1, <3>2 DEF Next, CommandFails, Abandon, Lose, RelayKilled,
           RelayFindsNoDaemon, Relay, vars, ForwardSkipping, ForwardFails,
           DaemonStops, DaemonStarts, Overlook
    <2> QED
      BY <1>2, <2>1, InboundAssumption DEF TablesOK, Fault
  <1>5. sub' \in [Lists -> Subs]
    <2>1. \/ sub' = sub
          \/ \E c \in Conns : WriteSubscription(c)
      <3>1. ASSUME NEW c \in Conns, Serve(c)
            PROVE  sub' = sub \/ WriteSubscription(c)
        BY <3>1 DEF Serve, Handle, RequestBegins, ReadSubscription,
           RequestEnds, handleOwnerForward, OtherCommand, effects
      <3>2. ASSUME NEW c \in Conns, Converse(c) PROVE sub' = sub
        BY <3>2 DEF Converse, Connect, handleData, DataEnds, handleQuit,
           RelayEnds, handleMail, handleRcpt, effects
      <3> QED
        BY <3>1, <3>2 DEF Next, CommandFails, Abandon, Lose, RelayKilled,
           RelayFindsNoDaemon, Relay, vars, DaemonStops, DaemonStarts, effects,
           Overlook
    <2>2. ASSUME NEW c \in Conns, WriteSubscription(c)
          PROVE  sub' \in [Lists -> Subs]
      <3>1. InCommand(c) /\ conn[c].seen # "unread"
        BY <2>2 DEF WriteSubscription
      <3>2. PICK l \in Lists : l = NowTask(c).list
        BY <3>1, RequestList
      <3>3. PICK cmd \in Orders : cmd = Command(c)
        BY <3>1, RequestList
      <3>4. PICK s \in Subs : s = sub[l]
        BY <1>2 DEF TablesOK
      <3>5. Changed(s, cmd) \in Subs
        BY DEF Changed, Subs, Statuses, Orders, Modes
      <3>6. sub' = [sub EXCEPT ![l] = Changed(s, cmd)]
        BY <2>2, <3>2, <3>3, <3>4 DEF WriteSubscription
      <3> QED
        BY <1>2, <3>5, <3>6 DEF TablesOK
    <2> QED
      BY <1>2, <2>1, <2>2 DEF TablesOK
  <1>6. killed' \subseteq Pairs /\ spoilt' \subseteq Pairs
    <2>1. \/ UNCHANGED <<killed, spoilt>>
          \/ \E c \in Conns : CommandFails(c) \/ RelayKilled(c)
          \/ DaemonStops
      <3>1. ASSUME NEW c \in Conns, Serve(c)
            PROVE  UNCHANGED <<killed, spoilt>>
        BY <3>1 DEF Serve, Handle, RequestBegins, ReadSubscription,
           WriteSubscription, RequestEnds, handleOwnerForward, OtherCommand,
           history
      <3>2. ASSUME NEW c \in Conns, Converse(c)
            PROVE  UNCHANGED <<killed, spoilt>>
        BY <3>2 DEF Converse, Connect, handleData, DataEnds, handleQuit,
           RelayEnds, handleMail, handleRcpt, history
      <3> QED
        BY <3>1, <3>2 DEF Next, Abandon, Lose, RelayFindsNoDaemon, Relay,
           vars, DaemonStarts, history, Overlook
    <2>2. ASSUME NEW c \in Conns, CommandFails(c)
          PROVE  killed' \subseteq Pairs /\ spoilt' \subseteq Pairs
      <3>1. At(c, "process")
        BY <2>2 DEF CommandFails, InCommand
      <3>2. <<conn[c].msg, Now(c)>> \in Pairs
        BY <3>1, AtHand
      <3> QED
        BY <1>2, <2>2, <3>2 DEF CommandFails, TablesOK
    <2>3. ASSUME NEW c \in Conns, RelayKilled(c)
          PROVE  killed' \subseteq Pairs /\ spoilt' \subseteq Pairs
      <3>1. conn[c].pipe /\ conn[c].at \in {"relay", "process"}
        BY <2>3 DEF RelayKilled
      <3>2. <<conn[c].msg, conn[c].asked[1]>> \in Pairs
        BY <3>1, RelayRcpts
      <3> QED
        BY <1>2, <2>3, <3>2 DEF RelayKilled, TablesOK
    <2>4. ASSUME DaemonStops
          PROVE  killed' \subseteq Pairs /\ spoilt' \subseteq Pairs
      <3> DEFINE halved ==
              {<<conn[c].msg, Now(c)>> :
                  c \in {d \in Conns : /\ At(d, "process")
                                       /\ conn[d].line > 0
                                       /\ conn[d].pipe \/ ~conn[d].peer}}
      <3>1. halved \subseteq Pairs
        BY AtHand
      <3>2. spoilt' = spoilt \cup halved /\ killed' = killed
        BY <2>4 DEF DaemonStops
      <3> QED
        BY <1>2, <3>1, <3>2 DEF TablesOK
    <2> QED
      BY <1>2, <2>1, <2>2, <2>3, <2>4 DEF TablesOK
  <1>7. /\ reached' \in [Msgs -> SUBSET Owners]
        /\ skipped' \subseteq Msgs \X Owners
    BY ReachedGrows
  <1> QED
    BY <1>1, <1>2, <1>3, <1>4, <1>5, <1>6, <1>7 DEF TablesOK, AnswersOK
-----------------------------------------------------------------------------
(***************************************************************************)
(* What a step is to the commands of a mail                                *)
(***************************************************************************)

\* r is the row after a command that read s.
Effect(s, r, cmd) ==
    /\ r \in Subs
    /\ s.status = "none" \/ cmd \notin Orders => r = s
    /\ s.status # "none" /\ cmd = "unsubscribe" =>
          r.status = "none" /\ r.mode = "regular"
    /\ s.status # "none" /\ cmd = "re-enable" =>
          r.status = "active" /\ r.mode = s.mode
    /\ s.status # "none" /\ cmd \in Modes =>
          r.status = s.status /\ r.mode = cmd

\* A connection before it hands on a message, and as it begins to.
Arrives(c, w) ==
    /\ conn[c].at # "process" /\ w.line = 0 /\ TextOK(w) /\ AwaitedOK(w)
    /\ UNCHANGED <<sub, todo, taken, handled>>

\* The peer is gone, or the subscription read.
Stays(c, w) ==
    LET k == conn[c]
    IN  /\ k.at = "process" /\ w.at = k.at /\ w.line = k.line
        /\ w.text = k.text /\ w.whole = k.whole /\ w.msg = k.msg
        /\ w.rcpts = k.rcpts /\ w.next = k.next
        /\ w.peer => k.peer
        /\ UNCHANGED <<sub, todo, taken, handled>>

\* The handler is done with the recipient.
Ends(c, w) ==
    /\ At(c, "process") /\ w = Proceed(conn[c]) /\ sub' = sub
    /\ NowTask(c).kind = "request" /\ NowTask(c).list \in Lists =>
          conn[c].line > Len(conn[c].text)
    /\ \E ok \in BOOLEAN :
          /\ Ended(c, ok)
          /\ ok /\ NowTask(c).kind = "request" => NowTask(c).list \in Lists

\* One line of the commands has been carried out, or the first is at hand.
Steps(c, w) ==
    LET k == conn[c]
        l == NowTask(c).list
    IN  /\ At(c, "process") /\ NowTask(c).kind = "request" /\ l \in Lists
        /\ w = [k EXCEPT !.line = Following(k.text, @), !.seen = "unread"]
        /\ UNCHANGED <<todo, taken, handled>>
        /\ \/ k.line = 0 /\ sub' = sub
           \/ /\ k.line \in parseCommands(k.text)
              /\ sub' = [sub EXCEPT ![l] = sub'[l]]
              /\ \/ Effect(sub[l], sub'[l], k.text[k.line])
                 \/ sub' = sub /\ <<k.msg, Now(c)>> \in spoilt'

\* No connection is touched, and no MTA waits for what is answered.
Still ==
    /\ UNCHANGED <<conn, sub, taken, handled>>
    /\ \A m \in Msgs : todo'[m] = todo[m] \/ ~Sending(m)

Moves(c, w) ==
    /\ conn' = [conn EXCEPT ![c] = w]
    /\ Arrives(c, w) \/ Stays(c, w) \/ Ends(c, w) \/ Steps(c, w)

LEMMA ChangedHas ==
    ASSUME NEW s \in Subs, NEW cmd \in Orders, Changes(cmd, s.status)
    PROVE  Effect(s, Changed(s, cmd), cmd)
  <1>1. CASE cmd = "unsubscribe"
    BY <1>1 DEF Effect, Changed, Subs, Statuses, Modes, Orders
  <1>2. CASE cmd = "re-enable"
    BY <1>2 DEF Effect, Changed, Subs, Statuses, Modes, Orders
  <1>3. CASE cmd \in Modes
    BY <1>3 DEF Effect, Changed, Subs, Statuses, Modes, Orders
  <1> QED
    BY <1>1, <1>2, <1>3 DEF Orders

\* A command with nothing to change.
LEMMA UnchangedHas ==
    ASSUME NEW s \in Subs, NEW cmd, ~Changes(cmd, s.status)
    PROVE  Effect(s, s, cmd)
  BY DEF Effect, Changes, Subs, Statuses, Modes, Orders

\* The body of a mail.
LEMMA BodyLength ==
    ASSUME IInv, NEW m \in Msgs
    PROVE  mail[m].body \in Seq(STRING) /\ Len(mail[m].body) \in Nat
  BY InboundAssumption, LenProperties DEF IInv, TablesOK

LEMMA WriteMoves ==
    ASSUME IInv, NEW c \in Conns, WriteSubscription(c)
    PROVE  \E w : Moves(c, w)
  <1>1. PICK k \in Links : k = conn[c]
    BY DEF IInv, LinksOK
  <1> DEFINE w == [k EXCEPT !.line = Following(k.text, @), !.seen = "unread"]
  <1>2. /\ At(c, "process") /\ InCommand(c) /\ conn[c].seen # "unread"
        /\ k.line \in parseCommands(k.text)
    BY <1>1 DEF WriteSubscription, InCommand
  <1>3. /\ NowTask(c).kind = "request" /\ NowTask(c).list \in Lists
        /\ Command(c) \in Orders
    BY <1>2, RequestList
  <1>4. conn' = [conn EXCEPT ![c] = w]
    BY <1>1 DEF WriteSubscription, NextLine, Set
  <1>5. UNCHANGED <<todo, taken, handled>>
    BY DEF WriteSubscription, mta, history
  <1>6. PICK l \in Lists : l = NowTask(c).list
    BY <1>3
  <1>7. PICK s \in Subs : s = sub[l]
    BY <1>6 DEF IInv, TablesOK
  <1>8. sub \in [Lists -> Subs]
    BY DEF IInv, TablesOK
  <1>9. PICK cmd \in Orders : cmd = Command(c)
    BY <1>3
  <1>10. sub' = [sub EXCEPT ![l] = Changed(s, cmd)]
    BY <1>6, <1>7, <1>9 DEF WriteSubscription
  <1>11. sub'[l] = Changed(s, cmd) /\ sub' = [sub EXCEPT ![l] = sub'[l]]
    BY <1>6, <1>8, <1>10
  <1>12. Effect(s, Changed(s, cmd), cmd)
    <2>1. CASE Changes(cmd, s.status)
      BY <2>1, ChangedHas
    <2>2. CASE ~Changes(cmd, s.status) /\ s.status = "none"
      BY <2>2, UnchangedHas DEF Changed
    <2>3. CASE ~Changes(cmd, s.status) /\ s.status # "none"
      <3>1. cmd = "re-enable" /\ s.status = "active"
        BY <2>3 DEF Changes, Orders, Modes, Subs, Statuses
      <3>2. Changed(s, cmd) = s
        BY <3>1 DEF Changed, Subs
      <3> QED
        BY <2>3, <3>2, UnchangedHas
    <2> QED
      BY <2>1, <2>2, <2>3
  <1>13. Effect(sub[l], sub'[l], k.text[k.line])
    BY <1>1, <1>7, <1>9, <1>11, <1>12 DEF Command
  <1> HIDE DEF w
  <1>14. Steps(c, w)
    BY <1>1, <1>2, <1>3, <1>5, <1>6, <1>11, <1>13 DEF Steps, w
  <1> QED
    BY <1>4, <1>14 DEF Moves

\* The other steps of the handler of command mail.
LEMMA CommandMoves ==
    ASSUME IInv, NEW c \in Conns,
           OtherCommand(c) \/ CommandFails(c) \/ RequestBegins(c)
           \/ ReadSubscription(c)
    PROVE  \E w : Moves(c, w)
  <1>1. PICK k \in Links : k = conn[c]
    BY DEF IInv, LinksOK
  <1> DEFINE w == [k EXCEPT !.line = Following(k.text, @), !.seen = "unread"]
  <1>2. sub \in [Lists -> Subs]
    BY DEF IInv, TablesOK
  <1>3. ASSUME NEW l \in Lists PROVE sub = [sub EXCEPT ![l] = sub[l]]
    BY <1>2
  <1>4. UNCHANGED <<sub, todo, taken, handled>> /\ At(c, "process")
    BY DEF OtherCommand, CommandFails, RequestBegins, ReadSubscription, mta,
           effects, history, InCommand
  <1>5. ASSUME NextLine(c) PROVE conn' = [conn EXCEPT ![c] = w]
    BY <1>1, <1>5 DEF NextLine, Set
  <1>6. ASSUME InCommand(c)
        PROVE  /\ NowTask(c).kind = "request" /\ NowTask(c).list \in Lists
               /\ k.line \in parseCommands(k.text)
               /\ sub[NowTask(c).list] \in Subs
    BY <1>1, <1>2, <1>6, RequestList DEF InCommand
  <1>7. CASE OtherCommand(c)
    <2>1. InCommand(c) /\ NextLine(c) /\ Command(c) \in {"help", "contact"}
      BY <1>7 DEF OtherCommand
    <2>2. ~Changes(Command(c), sub[NowTask(c).list].status)
      BY <2>1 DEF Changes
    <2>3. Effect(sub[NowTask(c).list], sub[NowTask(c).list], Command(c))
      BY <1>6, <2>1, <2>2, UnchangedHas
    <2> HIDE DEF w
    <2>4. Steps(c, w)
      BY <1>1, <1>3, <1>4, <1>6, <2>1, <2>3 DEF Steps, w, Command
    <2> QED
      BY <1>5, <2>1, <2>4 DEF Moves
  <1>8. CASE CommandFails(c)
    <2>1. /\ InCommand(c) /\ NextLine(c)
          /\ <<conn[c].msg, Now(c)>> \in spoilt'
      BY <1>8 DEF CommandFails
    <2> HIDE DEF w
    <2>2. Steps(c, w)
      BY <1>1, <1>3, <1>4, <1>6, <2>1 DEF Steps, w
    <2> QED
      BY <1>5, <2>1, <2>2 DEF Moves
  <1>9. CASE RequestBegins(c)
    <2>1. /\ NextLine(c) /\ NowTask(c).kind = "request" /\ ~Hopeless(c)
          /\ k.line = 0
      BY <1>1, <1>9 DEF RequestBegins
    <2>2. NowTask(c).list \in Lists
      BY <2>1 DEF Hopeless
    <2> HIDE DEF w
    <2>3. Steps(c, w)
      BY <1>1, <1>4, <2>1, <2>2 DEF Steps, w
    <2> QED
      BY <1>5, <2>1, <2>3 DEF Moves
  <1>10. CASE ReadSubscription(c) /\ ~Changes(Command(c), OwnSub(c).status)
    <2>1. InCommand(c) /\ NextLine(c)
      BY <1>10 DEF ReadSubscription
    <2>2. Effect(sub[NowTask(c).list], sub[NowTask(c).list], Command(c))
      BY <1>6, <1>10, <2>1, UnchangedHas DEF OwnSub
    <2> HIDE DEF w
    <2>3. Steps(c, w)
      BY <1>1, <1>3, <1>4, <1>6, <2>1, <2>2 DEF Steps, w, Command
    <2> QED
      BY <1>5, <2>1, <2>3 DEF Moves
  <1>11. CASE ReadSubscription(c) /\ Changes(Command(c), OwnSub(c).status)
    <2> DEFINE v == [k EXCEPT !.seen = OwnSub(c).status]
    <2>1. conn' = [conn EXCEPT ![c] = v]
      BY <1>1, <1>11 DEF ReadSubscription, Set
    <2>2. /\ v.at = k.at /\ v.line = k.line /\ v.text = k.text
          /\ v.whole = k.whole /\ v.msg = k.msg /\ v.rcpts = k.rcpts
          /\ v.next = k.next /\ v.peer = k.peer
      BY DEF Links
    <2> HIDE DEF v
    <2>3. Stays(c, v)
      BY <1>1, <1>4, <2>2 DEF Stays, At
    <2> QED
      BY <2>1, <2>3 DEF Moves
  <1> QED
    BY <1>7, <1>8, <1>9, <1>10, <1>11

\* A handler that is done: that of command mail only at the end of the text.
LEMMA EndMoves ==
    ASSUME IInv, NEW c \in Conns,
           Handle(c) \/ handleOwnerForward(c) \/ RequestEnds(c) \/ Overlook(c)
    PROVE  \E w : Moves(c, w)
  <1>1. PICK k \in Links : k = conn[c]
    BY DEF IInv, LinksOK
  <1>2. At(c, "process") /\ sub' = sub
    BY DEF Handle, handleOwnerForward, RequestEnds, effects, Overlook
  <1>3. Sound(k) /\ Len(k.text) \in Nat /\ k.line \in Nat
    BY <1>1, LenProperties DEF IInv, LinksOK, Links
  <1>4. NowTask(c) = Goes[k.rcpts[k.next]]
    BY <1>1 DEF NowTask, Now
  <1>5. PICK ok \in BOOLEAN :
            /\ Ended(c, ok)
            /\ ok /\ NowTask(c).kind = "request" => NowTask(c).list \in Lists
            /\ NowTask(c).kind = "request" /\ NowTask(c).list \in Lists =>
                  k.line > Len(k.text)
    <2>1. CASE Handle(c)
      <3>1. NowTask(c).kind = "request" => NowTask(c).list \notin Lists
        BY <2>1 DEF Handle, Hopeless
      <3>2. NowTask(c).kind = "request" => Hopeless(c)
        BY <2>1 DEF Handle
      <3>3. NowTask(c).kind = "request" => Finish(c, FALSE)
        BY <2>1, <3>2 DEF Handle
      <3>4. \E ok \in BOOLEAN : Finish(c, ok)
        BY <2>1 DEF Handle
      <3> QED
        BY <3>1, <3>3, <3>4 DEF Ended
    <2>2. CASE handleOwnerForward(c)
      <3>1. NowTask(c).kind = "owner" /\ \E ok \in BOOLEAN : Finish(c, ok)
        BY <2>2 DEF handleOwnerForward
      <3> QED
        BY <3>1 DEF Ended
    <2>3. CASE RequestEnds(c)
      <3>1. k.line > Len(k.text) /\ \E ok \in BOOLEAN : Finish(c, ok)
        BY <1>1, <2>3 DEF RequestEnds
      <3>2. k.line > 0
        BY <1>3, <3>1
      <3>3. NowTask(c).list \in Lists
        BY <1>3, <1>4, <3>2 DEF Sound, InOrder
      <3> QED
        BY <3>1, <3>3 DEF Ended
    <2>4. CASE Overlook(c)
      <3>1. NowTask(c).kind # "request" /\ Ended(c, TRUE)
        BY <2>4 DEF Overlook, Ended
      <3> QED
        BY <3>1
    <2> QED
      BY <2>1, <2>2, <2>3, <2>4
  <1>6. conn' = [conn EXCEPT ![c] = Proceed(conn[c])]
    BY <1>5, EndedReplies DEF Reply, Set
  <1>7. Ends(c, Proceed(conn[c]))
    BY <1>1, <1>2, <1>5 DEF Ends
  <1> QED
    BY <1>6, <1>7 DEF Moves

\* A dialogue before its message is handed on.
LEMMA TalkMoves ==
    ASSUME IInv, AskedOK, NEW c \in Conns,
           \/ Connect(c) \/ handleData(c) \/ handleQuit(c) \/ Abandon(c)
           \/ \E m \in Msgs : handleMail(c, m)
    PROVE  \E w : Moves(c, w)
  <1>1. PICK k \in Links : k = conn[c]
    BY DEF IInv, LinksOK
  <1>2. UNCHANGED <<sub, todo, taken, handled>> /\ k.at \in {"free", "command"}
    BY <1>1 DEF Connect, handleData, handleQuit, Abandon, handleMail, mta,
       effects, history, At
  <1>3. Sound(k) /\ AwaitedOK(k) /\ k.line \in Nat
    BY <1>1 DEF IInv, LinksOK, AskedOK, Links
  <1>4. k.line = 0
    BY <1>2, <1>3 DEF Sound, InOrder
  <1>5. ASSUME NEW w \in Links, w.at \notin {"relay", "process"},
               w.line = 0, AwaitedOK(w),
               conn' = [conn EXCEPT ![c] = w]
        PROVE  Moves(c, w)
    <2>1. TextOK(w)
      BY <1>5 DEF TextOK
    <2> QED
      BY <1>1, <1>2, <1>5, <2>1 DEF Moves, Arrives
  <1>6. /\ Free.at = "free" /\ Free.line = 0 /\ AwaitedOK(Free)
        /\ Open.at = "command" /\ Open.line = 0 /\ AwaitedOK(Open)
    BY DEF Free, Open, AwaitedOK
  <1>7. CASE Connect(c) \/ handleQuit(c)
    <2>1. conn' \in {[conn EXCEPT ![c] = Free], [conn EXCEPT ![c] = Open]}
      BY <1>7 DEF Connect, handleQuit, Set
    <2> QED
      BY <1>5, <1>6, <2>1, FreeIsLink
  <1>8. CASE handleData(c)
    <2> DEFINE w == [k EXCEPT !.at = "data"]
    <2>1. conn' = [conn EXCEPT ![c] = w]
      BY <1>1, <1>8 DEF handleData, Set
    <2>2. w \in Links
      BY DEF Links, Stages
    <2>3. /\ w.at = "data" /\ w.line = k.line /\ w.peer = k.peer
          /\ w.msg = k.msg /\ w.rcpts = k.rcpts /\ w.next = k.next
      BY DEF Links
    <2> HIDE DEF w
    <2>4. AwaitedOK(w)
      BY <1>3, <2>3 DEF AwaitedOK
    <2> QED
      BY <1>4, <1>5, <2>1, <2>2, <2>3, <2>4
  <1>9. CASE Abandon(c)
    <2> DEFINE w == [k EXCEPT !.msg = None, !.asked = <<>>]
    <2>1. \/ conn' = [conn EXCEPT ![c] = Open]
          \/ conn' = [conn EXCEPT ![c] = w]
      BY <1>1, <1>9 DEF Abandon, Set
    <2>2. w \in Links
      <3>1. <<>> \in Seq(AllTasks)
        OBVIOUS
      <3> QED
        BY <3>1 DEF Links
    <2>3. w.at = k.at /\ w.line = k.line /\ w.msg = None
      BY DEF Links
    <2> HIDE DEF w
    <2>4. AwaitedOK(w)
      BY <2>3 DEF AwaitedOK
    <2> QED
      BY <1>2, <1>4, <1>5, <1>6, <2>1, <2>2, <2>3, <2>4, FreeIsLink
  <1>10. ASSUME NEW m \in Msgs, handleMail(c, m) PROVE \E w : Moves(c, w)
    <2> DEFINE w == [k EXCEPT !.msg = m, !.mailSet = TRUE, !.rcpts = <<>>]
    <2>1. conn' = [conn EXCEPT ![c] = w]
      BY <1>1, <1>10 DEF handleMail, Set, AfterMail
    <2>2. w \in Links
      <3>1. <<>> \in Seq(AllTasks)
        OBVIOUS
      <3> QED
        BY <3>1 DEF Links
    <2>3. w.at = k.at /\ w.line = k.line /\ w.rcpts = <<>> /\ w.next = 1
      BY <1>1, <1>3, <1>10 DEF Links, Sound, Staged, handleMail, At
    <2> HIDE DEF w
    <2>4. AwaitedOK(w)
      <3>1. Len(<<>>) = 0
        OBVIOUS
      <3> QED
        BY <2>3, <3>1 DEF AwaitedOK
    <2> QED
      BY <1>2, <1>4, <1>5, <2>1, <2>2, <2>3, <2>4
  <1> QED
    BY <1>7, <1>8, <1>9, <1>10

\* A recipient is accepted: MAIL has been there.
LEMMA RcptMoves ==
    ASSUME IInv, AskedOK, NEW c \in Conns, NEW t, handleRcpt(c, t)
    PROVE  \E w : Moves(c, w)
  <1>1. PICK k \in Links : k = conn[c]
    BY DEF IInv, LinksOK
  <1>2. k.at = "command" /\ k.msg # None /\ t \in todo[k.msg] /\ Sound(k)
        /\ AwaitedOK(k) /\ k.line \in Nat /\ UNCHANGED <<sub, handled>>
    BY <1>1 DEF handleRcpt, At, IInv, LinksOK, AskedOK, Links, effects,
       history
  <1>3. k.mailSet /\ k.next = 1 /\ k.line = 0 /\ k.peer
    BY <1>2 DEF Sound, Staged, InOrder
  <1> DEFINE w == [k EXCEPT !.rcpts = Append(k.rcpts, t),
                            !.asked = Append(k.asked, t)]
  <1>4. conn' = [conn EXCEPT ![c] = w] /\ UNCHANGED <<todo, taken>>
    BY <1>1, <1>3 DEF handleRcpt, Set, mta
  <1>5. /\ w.at = k.at /\ w.line = k.line /\ w.msg = k.msg
        /\ w.rcpts = Append(k.rcpts, t) /\ w.next = 1
    BY <1>3 DEF Links
  <1> HIDE DEF w
  <1>6. AwaitedOK(w)
    <2>1. ASSUME NEW i \in 1 .. Len(Append(k.rcpts, t))
          PROVE  Append(k.rcpts, t)[i] \in todo[k.msg]
      <3>1. k.rcpts \in Seq(AllTasks) /\ Len(k.rcpts) \in Nat
        BY LenProperties DEF Links
      <3>2. k.msg \in Msgs
        BY <1>2 DEF Links
      <3>3. t \in AllTasks
        BY <1>2, <3>2 DEF IInv, TablesOK
      <3>4. Len(Append(k.rcpts, t)) = Len(k.rcpts) + 1
        BY <3>1, <3>3
      <3>5. CASE i = Len(k.rcpts) + 1
        BY <1>2, <3>1, <3>3, <3>5
      <3>6. CASE i \in 1 .. Len(k.rcpts)
        <4>1. Append(k.rcpts, t)[i] = k.rcpts[i]
          BY <3>1, <3>3, <3>6
        <4>2. k.rcpts[i] \in todo[k.msg]
          BY <1>2, <1>3, <3>6 DEF AwaitedOK
        <4> QED
          BY <4>1, <4>2
      <3> QED
        BY <3>1, <3>4, <3>5, <3>6
    <2> QED
      BY <1>5, <2>1 DEF AwaitedOK
  <1>7. TextOK(w)
    BY <1>2, <1>3, <1>5 DEF TextOK
  <1> QED
    BY <1>1, <1>2, <1>3, <1>4, <1>5, <1>6, <1>7 DEF Moves, Arrives

\* The message is there, or as much of it as its relay has copied.
LEMMA BeginMoves ==
    ASSUME IInv, AskedOK, NEW c \in Conns,
           DataEnds(c) \/ RelayEnds(c) \/ Lose(c) \/ RelayKilled(c)
    PROVE  \E w : Moves(c, w)
  <1>1. PICK k \in Links : k = conn[c]
    BY DEF IInv, LinksOK
  <1>2. UNCHANGED <<sub, todo, taken, handled>>
    BY DEF DataEnds, RelayEnds, Lose, RelayKilled, mta, effects, history
  <1>3. Sound(k) /\ AwaitedOK(k) /\ TextOK(k) /\ k.line \in Nat
    BY <1>1 DEF IInv, LinksOK, AskedOK, Links
  <1>4. k.at # "process" => k.line = 0
    BY <1>3 DEF Sound, InOrder
  <1>5. CASE DataEnds(c) \/ RelayEnds(c)
    <2> DEFINE w == [k EXCEPT !.at = "process", !.text = mail[k.msg].body,
                              !.whole = TRUE]
    <2>1. conn' = [conn EXCEPT ![c] = w] /\ k.at # "process"
      BY <1>1, <1>5 DEF DataEnds, RelayEnds, Set, At
    <2>2. /\ w.at = "process" /\ w.line = k.line /\ w.peer = k.peer
          /\ w.text = mail[k.msg].body /\ w.msg = k.msg
          /\ w.rcpts = k.rcpts /\ w.next = k.next
      BY DEF Links
    <2> HIDE DEF w
    <2>3. AwaitedOK(w) /\ TextOK(w)
      BY <1>3, <1>4, <2>1, <2>2 DEF AwaitedOK, TextOK
    <2> QED
      BY <1>1, <1>2, <1>4, <2>1, <2>2, <2>3 DEF Moves, Arrives
  <1>6. CASE (Lose(c) \/ RelayKilled(c)) /\ k.at = "process"
    <2> DEFINE w == [k EXCEPT !.peer = FALSE]
    <2>1. conn' = [conn EXCEPT ![c] = w]
      BY <1>1, <1>6 DEF Lose, RelayKilled, Set, AfterLoss
    <2>2. /\ w.at = k.at /\ w.line = k.line /\ w.text = k.text
          /\ w.whole = k.whole /\ w.msg = k.msg /\ w.rcpts = k.rcpts
          /\ w.next = k.next /\ ~w.peer
      BY DEF Links
    <2> HIDE DEF w
    <2>3. Stays(c, w)
      BY <1>1, <1>2, <1>6, <2>2 DEF Stays
    <2> QED
      BY <2>1, <2>3 DEF Moves
  <1>7. CASE Lose(c) /\ k.at # "process"
    <2>1. conn' = [conn EXCEPT ![c] = Free]
      BY <1>1, <1>7 DEF Lose, Set, AfterLoss
    <2>2. Free.line = 0 /\ AwaitedOK(Free) /\ TextOK(Free)
      BY DEF Free, AwaitedOK, TextOK
    <2> QED
      BY <1>1, <1>2, <1>7, <2>1, <2>2 DEF Moves, Arrives
  <1>8. CASE RelayKilled(c) /\ k.at # "process"
    <2>1. PICK x : conn' = [conn EXCEPT ![c] =
                       [k EXCEPT !.at = "process", !.peer = FALSE, !.text = x]]
      BY <1>1, <1>8 DEF RelayKilled, Set
    <2>2. k.at = "relay"
      BY <1>1, <1>8 DEF RelayKilled
    <2> DEFINE w == [k EXCEPT !.at = "process", !.peer = FALSE, !.text = x]
    <2>3. w.line = k.line /\ ~w.peer /\ w.whole = k.whole
      BY DEF Links
    <2> HIDE DEF w
    <2>4. ~k.whole
      BY <1>3, <2>2 DEF TextOK
    <2>5. AwaitedOK(w) /\ TextOK(w)
      BY <1>4, <2>2, <2>3, <2>4 DEF AwaitedOK, TextOK
    <2>6. Arrives(c, w)
      BY <1>1, <1>2, <1>4, <2>2, <2>3, <2>5 DEF Arrives
    <2> QED
      BY <2>1, <2>6 DEF Moves, w
  <1> QED
    BY <1>5, <1>6, <1>7, <1>8


\* A relay is started; one without a daemon ends at once.
LEMMA RelayMoves ==
    ASSUME IInv, NEW c \in Conns, NEW m \in Msgs, NEW t \in Tasks(m),
           Relay(c, m, t)
    PROVE  \E w : Moves(c, w)
  <1> DEFINE w == [Free EXCEPT !.at = "relay", !.pipe = TRUE, !.peer = TRUE,
                               !.msg = m, !.rcpts = <<t>>, !.asked = <<t>>]
  <1>1. conn' = [conn EXCEPT ![c] = w] /\ t \in todo[m]
        /\ conn[c].at # "process" /\ UNCHANGED <<sub, todo, taken, handled>>
    BY DEF Relay, Set, At, mta, effects, history
  <1>2. /\ w.at = "relay" /\ w.line = 0 /\ ~w.whole /\ w.msg = m
        /\ w.rcpts = <<t>> /\ w.next = 1
    BY DEF Free
  <1> HIDE DEF w
  <1>3. AwaitedOK(w)
    <2>1. Len(<<t>>) = 1 /\ <<t>>[1] = t /\ \A i \in 1 .. 1 : i = 1
      OBVIOUS
    <2> QED
      BY <1>1, <1>2, <2>1 DEF AwaitedOK
  <1>4. TextOK(w)
    BY <1>2 DEF TextOK
  <1> QED
    BY <1>1, <1>2, <1>3, <1>4 DEF Moves, Arrives

LEMMA StepMoves ==
    ASSUME IInv, AskedOK, [Next]_vars
    PROVE  DaemonStops \/ Still \/ \E c \in Conns : \E w : Moves(c, w)
  <1> DEFINE Goal == DaemonStops \/ Still \/ \E c \in Conns : \E w : Moves(c, w)
  <1>1. ASSUME NEW c \in Conns, Serve(c) PROVE \E w : Moves(c, w)
    BY <1>1, EndMoves, CommandMoves, WriteMoves DEF Serve
  <1>2. ASSUME NEW c \in Conns, Converse(c) PROVE \E w : Moves(c, w)
    BY <1>2, TalkMoves, BeginMoves, RcptMoves DEF Converse
  <1>3. ASSUME NEW c \in Conns,
               \/ CommandFails(c) \/ Abandon(c) \/ Lose(c) \/ RelayKilled(c)
               \/ Overlook(c)
        PROVE  \E w : Moves(c, w)
    BY <1>3, CommandMoves, TalkMoves, BeginMoves, EndMoves
  <1>4. ASSUME NEW m \in Msgs, NEW t \in Tasks(m), RelayFindsNoDaemon(m, t)
        PROVE  Still
    BY <1>4 DEF RelayFindsNoDaemon, Settle, Still, Waiting, effects, IInv,
       TablesOK
  <1>5. ASSUME NEW m \in Msgs, NEW t \in Tasks(m), NEW c \in Conns,
               Relay(c, m, t)
        PROVE  \E w : Moves(c, w)
    BY <1>5, RelayMoves
  <1>6. ASSUME DaemonStarts \/ UNCHANGED vars PROVE Still
    BY <1>6 DEF DaemonStarts, vars, mta, history, effects, Still
  <1> QED
    BY <1>1, <1>2, <1>3, <1>4, <1>5, <1>6 DEF Next

\* What is remembered of the steps.
LEMMA HistoryStays ==
    ASSUME IInv, AskedOK, [Next]_vars
    PROVE  /\ was' = was /\ spoilt \subseteq spoilt'
           /\ killed' \subseteq spoilt'
           /\ DaemonStops \/ unsaid' = unsaid
  <1>1. \/ UNCHANGED <<was, spoilt, killed, unsaid>>
        \/ DaemonStops \/ \E c \in Conns : CommandFails(c) \/ RelayKilled(c)
    <2>1. ASSUME NEW c \in Conns, Serve(c)
          PROVE  UNCHANGED <<was, spoilt, killed, unsaid>>
      BY <2>1 DEF Serve, Handle, RequestBegins, ReadSubscription,
         WriteSubscription, RequestEnds, handleOwnerForward, OtherCommand,
         history
    <2>2. ASSUME NEW c \in Conns, Converse(c)
          PROVE  UNCHANGED <<was, spoilt, killed, unsaid>>
      BY <2>2 DEF Converse, Connect, handleData, DataEnds, handleQuit,
         RelayEnds, handleMail, handleRcpt, history
    <2> QED
      BY <2>1, <2>2 DEF Next, Abandon, Lose, RelayFindsNoDaemon, Relay,
         vars, DaemonStarts, history, Overlook
  <1>2. killed \subseteq spoilt
    BY DEF AskedOK
  <1>3. ASSUME NEW c \in Conns, CommandFails(c)
        PROVE  /\ was' = was /\ spoilt \subseteq spoilt'
               /\ killed' \subseteq spoilt' /\ unsaid' = unsaid
    BY <1>2, <1>3 DEF CommandFails
  <1>4. ASSUME NEW c \in Conns, RelayKilled(c)
        PROVE  /\ was' = was /\ spoilt \subseteq spoilt'
               /\ killed' \subseteq spoilt' /\ unsaid' = unsaid
    BY <1>2, <1>4 DEF RelayKilled
  <1>5. DaemonStops => /\ was' = was /\ spoilt \subseteq spoilt'
                       /\ killed' \subseteq spoilt'
    BY <1>2 DEF DaemonStops
  <1> QED
    BY <1>1, <1>2, <1>3, <1>4, <1>5

-----------------------------------------------------------------------------
(***************************************************************************)
(* The commands' invariant: texts and answers                              *)
(***************************************************************************)
LEMMA Moved ==
    ASSUME IInv, NEW c \in Conns, NEW w, Moves(c, w)
    PROVE  conn'[c] = w /\ \A d \in Conns \ {c} : conn'[d] = conn[d]
  BY DEF IInv, LinksOK, Moves

\* What a handler that is done does to the MTA's lists.
LEMMA EndSettles ==
    ASSUME IInv, NEW c \in Conns, NEW w, Ends(c, w)
    PROVE  \/ todo' = todo /\ taken' = taken
           \/ /\ conn[c].peer
              /\ todo' = [todo EXCEPT ![conn[c].msg] = @ \ {Now(c)}]
              /\ \/ taken' = taken
                 \/ taken' = [taken EXCEPT ![conn[c].msg] = @ \cup {Now(c)}]
  <1>1. PICK ok \in BOOLEAN : Ended(c, ok)
    BY DEF Ends
  <1>2. conn[c].asked[conn[c].next] = Now(c)
    BY AtHand DEF Ends
  <1>3. \/ UNCHANGED mta
        \/ conn[c].peer /\ Settle(conn[c].msg, Now(c), Answer(ok))
    BY <1>1, <1>2, EndedReplies DEF Reply
  <1> QED
    BY <1>3 DEF Settle, mta

LEMMA LinesType ==
    ASSUME IInv, AskedOK, NEW c \in Conns
    PROVE  /\ conn[c].text \in Seq(STRING) /\ Len(conn[c].text) \in Nat
           /\ conn[c].line \in 0 .. Len(conn[c].text) + 1
           /\ parseCommands(conn[c].text) \subseteq 1 .. Len(conn[c].text)
  <1>1. PICK k \in Links : k = conn[c]
    BY DEF IInv, LinksOK
  <1>2. k.text \in Seq(STRING) /\ k.line \in Nat /\ Len(k.text) \in Nat
        /\ DOMAIN k.text = 1 .. Len(k.text)
    BY LenProperties DEF Links
  <1>3. parseCommands(k.text) \subseteq 1 .. Len(k.text)
    <2>1. parseCommands(k.text) \subseteq DOMAIN k.text
      BY DEF parseCommands
    <2> QED
      BY <1>2, <2>1
  <1>4. k.line > 0 => k.line \in parseCommands(k.text) \cup {Len(k.text) + 1}
    BY <1>1 DEF AskedOK, TextOK
  <1>5. k.line \in 0 .. Len(k.text) + 1
    BY <1>2, <1>3, <1>4
  <1> QED
    BY <1>1, <1>2, <1>3, <1>5

\* The line after the one at hand.
LEMMA StepLine ==
    ASSUME IInv, AskedOK, NEW c \in Conns, NEW w, Steps(c, w)
    PROVE  LET k == conn[c]
           IN  /\ w.line \in parseCommands(k.text) \cup {Len(k.text) + 1}
               /\ w.line \in Nat /\ w.line > k.line
               /\ \A j \in parseCommands(k.text) : k.line < j => w.line <= j
               /\ w.at = k.at /\ w.text = k.text /\ w.whole = k.whole
               /\ w.msg = k.msg /\ w.rcpts = k.rcpts /\ w.next = k.next
               /\ w.peer = k.peer
  <1>1. PICK k \in Links : k = conn[c]
    BY DEF IInv, LinksOK
  <1>2. k.text \in Seq(STRING) /\ k.line \in 0 .. Len(k.text)
    <2>1. /\ k.text \in Seq(STRING) /\ Len(k.text) \in Nat
          /\ parseCommands(k.text) \subseteq 1 .. Len(k.text)
      BY <1>1, LinesType
    <2>2. k.line = 0 \/ k.line \in parseCommands(k.text)
      BY <1>1 DEF Steps
    <2> QED
      BY <2>1, <2>2
  <1> DEFINE f == Following(k.text, k.line)
  <1>3. /\ f \in parseCommands(k.text) \cup {Len(k.text) + 1}
        /\ f \in Nat /\ f > k.line
        /\ \A j \in parseCommands(k.text) : k.line < j => f <= j
    BY <1>2, FollowingIs
  <1> HIDE DEF f
  <1>4. w = [k EXCEPT !.line = f, !.seen = "unread"]
    BY <1>1 DEF Steps, f
  <1>5. /\ w.line = f /\ w.at = k.at /\ w.text = k.text /\ w.whole = k.whole
        /\ w.msg = k.msg /\ w.rcpts = k.rcpts /\ w.next = k.next
        /\ w.peer = k.peer
    BY <1>4 DEF Links
  <1> QED
    BY <1>1, <1>3, <1>5

LEMMA Emptied ==
    /\ Free.at = "free" /\ Free.line = 0 /\ Free.msg = None /\ ~Free.peer
    /\ Open.at = "command" /\ Open.line = 0 /\ Open.msg = None
  BY DEF Open, Free

LEMMA TextsStay ==
    ASSUME IInv, AskedOK, mail' = mail, NEW c \in Conns, NEW w, Moves(c, w),
           NEW d \in Conns
    PROVE  TextOK(conn[d])'
  <1>1. conn'[c] = w /\ (d # c => conn'[d] = conn[d])
    BY Moved
  <1>2. TextOK(conn[d])
    BY DEF AskedOK
  <1>3. CASE d # c
    BY <1>1, <1>2, <1>3 DEF TextOK
  <1>4. CASE d = c
    <2>1. TextOK(w)
      <3>1. CASE Arrives(c, w)
        BY <3>1 DEF Arrives
      <3>2. CASE Stays(c, w)
        BY <1>2, <1>4, <3>2 DEF Stays, TextOK
      <3>3. CASE Ends(c, w)
        <4>1. PICK k \in Links : k = conn[c]
          BY DEF IInv, LinksOK
        <4>2. \/ w = [k EXCEPT !.next = @ + 1, !.line = 0, !.seen = "unread"]
              \/ w \in {Open, Free}
          BY <3>3, <4>1 DEF Ends, Proceed
        <4>3. CASE w \in {Open, Free}
          BY <4>3, Emptied DEF TextOK
        <4>4. CASE w = [k EXCEPT !.next = @ + 1, !.line = 0, !.seen = "unread"]
          <5>1. /\ w.line = 0 /\ w.at = k.at /\ w.text = k.text
                /\ w.whole = k.whole /\ w.msg = k.msg
            BY <4>4 DEF Links
          <5> QED
            BY <1>2, <1>4, <4>1, <5>1 DEF TextOK
        <4> QED
          BY <4>2, <4>3, <4>4
      <3>4. CASE Steps(c, w)
        <4>1. LET k == conn[c]
              IN  /\ w.line \in parseCommands(k.text) \cup {Len(k.text) + 1}
                  /\ w.at = k.at /\ w.text = k.text /\ w.whole = k.whole
                  /\ w.msg = k.msg
          BY <3>4, StepLine
        <4> QED
          BY <1>2, <1>4, <4>1 DEF TextOK
      <3> QED
        BY <3>1, <3>2, <3>3, <3>4 DEF Moves
    <2> QED
      BY <1>1, <1>4, <2>1 DEF TextOK
  <1> QED
    BY <1>3, <1>4

LEMMA AwaitsStay ==
    ASSUME IInv, AskedOK, NEW c \in Conns, NEW w, Moves(c, w), NEW d \in Conns
    PROVE  AwaitedOK(conn[d])'
  <1>1. conn'[c] = w /\ (d # c => conn'[d] = conn[d])
    BY Moved
  <1>2. AwaitedOK(conn[d]) /\ AwaitedOK(conn[c])
    BY DEF AskedOK
  <1>3. CASE ~Ends(c, w)
    <2>1. todo' = todo
      BY <1>3 DEF Moves, Arrives, Stays, Steps
    <2>2. CASE d # c
      BY <1>1, <1>2, <2>1, <2>2 DEF AwaitedOK
    <2>3. CASE d = c /\ Arrives(c, w)
      BY <1>1, <2>1, <2>3 DEF Arrives, AwaitedOK
    <2>4. CASE d = c /\ ~Arrives(c, w)
      <3>1. /\ w.peer => conn[c].peer
            /\ w.msg = conn[c].msg /\ w.rcpts = conn[c].rcpts
            /\ w.next = conn[c].next
        <4>1. CASE Stays(c, w)
          BY <4>1 DEF Stays
        <4>2. CASE Steps(c, w)
          <5>1. LET k == conn[c]
                IN  /\ w.msg = k.msg /\ w.rcpts = k.rcpts /\ w.next = k.next
                    /\ w.peer = k.peer
            BY <4>2, StepLine
          <5> QED
            BY <5>1
        <4> QED
          BY <1>3, <2>4, <4>1, <4>2 DEF Moves
      <3> QED
        BY <1>1, <1>2, <2>1, <2>4, <3>1 DEF AwaitedOK
    <2> QED
      BY <2>2, <2>3, <2>4
  <1>4. CASE Ends(c, w)
    <2>1. PICK k \in Links : k = conn[c]
      BY DEF IInv, LinksOK
    <2>2. Sound(k) /\ k.at = "process" /\ k.msg \in Msgs
      BY <1>4, <2>1, AtHand DEF IInv, LinksOK, Ends, At
    <2>3. PICK t : t = Now(c)
      OBVIOUS
    <2>4. \/ todo' = todo
          \/ k.peer /\ todo' = [todo EXCEPT ![k.msg] = @ \ {t}]
      BY <1>4, <2>1, <2>3, EndSettles
    <2>5. todo \in [Msgs -> SUBSET AllTasks]
      BY DEF IInv, TablesOK
    <2>6. CASE d # c
      <3>1. SUFFICES ASSUME conn[d].peer, conn[d].msg # None
                     PROVE  todo'[conn[d].msg] = todo[conn[d].msg]
        BY <1>1, <1>2, <2>6 DEF AwaitedOK
      <3>2. conn[d].msg \in Msgs
        BY <3>1 DEF IInv, LinksOK, Links
      <3>3. k.peer => conn[d].msg # k.msg
        BY <2>1, <2>6, <3>1 DEF IInv, OneSender
      <3> QED
        BY <2>4, <2>5, <3>2, <3>3
    <2>7. CASE d = c
      <3>1. \/ /\ k.next < Len(k.rcpts)
               /\ w = [k EXCEPT !.next = k.next + 1, !.line = 0,
                                !.seen = "unread"]
            \/ w \in {Open, Free}
        BY <1>4, <2>1 DEF Ends, Proceed
      <3>2. CASE w \in {Open, Free}
        BY <1>1, <2>7, <3>2, Emptied DEF AwaitedOK
      <3>3. CASE k.next < Len(k.rcpts)
                 /\ w = [k EXCEPT !.next = k.next + 1, !.line = 0,
                                  !.seen = "unread"]
        <4>1. /\ w.next = k.next + 1 /\ w.peer = k.peer /\ w.msg = k.msg
              /\ w.rcpts = k.rcpts
          BY <3>3 DEF Links
        <4>2. k.next \in 1 .. Len(k.rcpts) /\ Len(k.rcpts) \in Nat
          BY <2>2, LenProperties DEF Sound, Staged, Links
        <4>3. \A i, j \in 1 .. Len(k.rcpts) :
                 k.rcpts[i] = k.rcpts[j] => i = j
          BY <2>2, InboundAssumption DEF Sound, OwnRcpts
        <4>4. SUFFICES ASSUME k.peer, NEW i \in k.next + 1 .. Len(k.rcpts)
                       PROVE  k.rcpts[i] \in todo'[k.msg]
          BY <1>1, <2>7, <4>1 DEF AwaitedOK
        <4>5. /\ i \in k.next .. Len(k.rcpts) /\ i \in 1 .. Len(k.rcpts)
              /\ i # k.next
          BY <4>2, <4>4
        <4>6. k.rcpts[i] \in todo[k.msg]
          BY <1>2, <2>1, <2>2, <4>4, <4>5, InboundAssumption DEF AwaitedOK
        <4>7. k.rcpts[i] # t
          BY <2>1, <2>3, <4>2, <4>3, <4>5 DEF Now
        <4> QED
          BY <2>2, <2>4, <2>5, <4>6, <4>7
      <3> QED
        BY <3>1, <3>2, <3>3
    <2> QED
      BY <2>6, <2>7
  <1> QED
    BY <1>3, <1>4

LEMMA AskedStays ==
    ASSUME IInv, AskedOK, [Next]_vars
    PROVE  AskedOK'
  <1>1. /\ mail' = mail /\ Pairs' = Pairs /\ was' = was
        /\ killed' \subseteq spoilt'
    BY MailStays, HistoryStays DEF Pairs, Tasks
  <1>2. ASSUME NEW d \in Conns PROVE TextOK(conn[d])' /\ AwaitedOK(conn[d])'
    <2>1. CASE DaemonStops
      <3>1. conn'[d] = Free
        BY <2>1 DEF DaemonStops
      <3>2. Free.at = "free" /\ Free.line = 0 /\ ~Free.peer
        BY DEF Free
      <3> QED
        BY <3>1, <3>2 DEF TextOK, AwaitedOK
    <2>2. CASE Still
      <3>1. TextOK(conn[d]) /\ AwaitedOK(conn[d]) /\ conn' = conn
        BY <2>2 DEF AskedOK, Still
      <3>2. TextOK(conn[d])'
        BY <1>1, <3>1 DEF TextOK
      <3>3. SUFFICES ASSUME conn[d].peer, conn[d].msg # None
                     PROVE  todo'[conn[d].msg] = todo[conn[d].msg]
        BY <3>1, <3>2 DEF AwaitedOK
      <3>4. conn[d].msg \in Msgs
        BY <3>3 DEF IInv, LinksOK, Links
      <3> QED
        BY <2>2, <3>3, <3>4 DEF Still, Sending
    <2>3. ASSUME NEW c \in Conns, NEW w, Moves(c, w)
          PROVE  TextOK(conn[d])' /\ AwaitedOK(conn[d])'
      BY <1>1, <2>3, TextsStay, AwaitsStay
    <2> QED
      BY <2>1, <2>2, <2>3, StepMoves
  <1>3. ASSUME NEW x \in Pairs, handled'[x] > 0, Goes[x[2]].kind = "request"
        PROVE  Goes[x[2]].list \in Lists
    <2>1. CASE handled'[x] = handled[x]
      BY <1>3, <2>1 DEF AskedOK
    <2>2. CASE handled'[x] # handled[x]
      <3>1. PICK c \in Conns : \E w : Ends(c, w)
        BY <2>2, StepMoves
           DEF DaemonStops, Still, Moves, Arrives, Stays, Steps, history
      <3>2. PICK ok \in BOOLEAN :
                /\ Ended(c, ok)
                /\ ok /\ NowTask(c).kind = "request" =>
                      NowTask(c).list \in Lists
        BY <3>1 DEF Ends
      <3>3. ok /\ x = <<conn[c].msg, Now(c)>>
        <4>1. handled \in [Pairs -> Nat]
          BY DEF IInv, TablesOK
        <4> QED
          BY <2>2, <3>2, <4>1, EndedReplies
      <3> QED
        BY <1>3, <3>2, <3>3 DEF NowTask
    <2> QED
      BY <2>1, <2>2
  <1>4. \A l \in Lists : was[l].status = "none" => was[l].mode = "regular"
    BY DEF AskedOK
  <1> QED
    BY <1>1, <1>2, <1>3, <1>4 DEF AskedOK

-----------------------------------------------------------------------------
(***************************************************************************)
(* The commands' invariant: what has been carried out                      *)
(***************************************************************************)

\* A mail that is not spoilt is at its handler with all of its body.
LEMMA WholeText ==
    ASSUME IInv, AskedOK, NEW c \in Conns, NEW m \in Msgs, NEW t,
           Doing(conn[c], m, t), <<m, t>> \notin spoilt
    PROVE  conn[c].text = mail[m].body
  <1>1. PICK k \in Links : k = conn[c]
    BY DEF IInv, LinksOK
  <1>2. Sound(k) /\ k.at = "process" /\ k.msg = m /\ k.rcpts[k.next] = t
    BY <1>1 DEF IInv, LinksOK, Doing
  <1>3. CASE k.whole
    BY <1>1, <1>2, <1>3 DEF AskedOK, TextOK
  <1>4. CASE ~k.whole
    <2>1. k.pipe /\ <<m, k.rcpts[1]>> \in killed
      BY <1>2, <1>4 DEF Sound, WholeOrKilled
    <2>2. k.next \in 1 .. Len(k.rcpts) /\ Len(k.rcpts) = 1
      BY <1>2, <2>1 DEF Sound, Staged
    <2>3. k.next = 1
      BY <2>2
    <2> QED
      BY <1>2, <2>1, <2>3 DEF AskedOK
  <1> QED
    BY <1>3, <1>4

\* The lines of a body that are commands.
LEMMA CommandLines ==
    ASSUME IInv, NEW m \in Msgs
    PROVE  /\ Len(mail[m].body) \in Nat
           /\ parseCommands(mail[m].body) \subseteq 1 .. Len(mail[m].body)
  <1>1. /\ Len(mail[m].body) \in Nat
        /\ DOMAIN mail[m].body = 1 .. Len(mail[m].body)
    BY BodyLength, LenProperties
  <1>2. parseCommands(mail[m].body) \subseteq DOMAIN mail[m].body
    BY DEF parseCommands
  <1> QED
    BY <1>1, <1>2

\* Nothing happens to the commands of m: nobody passes a line of them, who is
\* at one stays there, and who is done has passed them all.
Calm(m, t) ==
    /\ sub'[t.list] = sub[t.list] /\ mail' = mail /\ was' = was
    /\ \A d \in Conns : Doing(conn'[d], m, t) =>
          \/ conn'[d].line = 0
          \/ Doing(conn[d], m, t) /\ conn'[d].line = conn[d].line
    /\ \A d \in Conns :
          Doing(conn[d], m, t) /\ conn[d].line \in 1 .. Len(mail[m].body) =>
             Doing(conn'[d], m, t) /\ conn'[d].line = conn[d].line
    /\ t \in taken'[m] /\ <<m, t>> \notin unsaid' =>
          \/ t \in taken[m] /\ <<m, t>> \notin unsaid
          \/ \E d \in Conns : /\ Doing(conn[d], m, t)
                              /\ conn[d].line > Len(mail[m].body)

LEMMA CalmKeeps ==
    ASSUME IInv, AskedOK, NEW m \in Msgs, NEW t, Wanted(m, t), Performed(m, t),
           Calm(m, t)
    PROVE  Wanted(m, t)' /\ Performed(m, t)'
  <1>1. sub'[t.list] = sub[t.list] /\ mail' = mail /\ was' = was
    BY DEF Calm
  <1>2. Wanted(m, t)'
    BY <1>1 DEF Wanted, Asked, Settings
  <1>3. ASSUME NEW i \in parseCommands(mail[m].body),
               \/ t \in taken'[m] /\ <<m, t>> \notin unsaid'
               \/ \E d \in Conns : Doing(conn'[d], m, t) /\ conn'[d].line > i
        PROVE  Obeyed(m, t, i)'
    <2>1. i \in 1 .. Len(mail[m].body) /\ Len(mail[m].body) \in Nat
      BY CommandLines
    <2>2. \A d \in Conns : conn[d].line \in Nat
      BY LinesType
    <2>3. \/ t \in taken[m] /\ <<m, t>> \notin unsaid
          \/ \E d \in Conns : Doing(conn[d], m, t) /\ conn[d].line > i
      <3>1. CASE t \in taken'[m] /\ <<m, t>> \notin unsaid'
        <4>1. \A d \in Conns : conn[d].line > Len(mail[m].body) =>
                                  conn[d].line > i
          BY <2>1, <2>2
        <4> QED
          BY <3>1, <4>1 DEF Calm
      <3>2. ASSUME NEW d \in Conns, Doing(conn'[d], m, t), conn'[d].line > i
            PROVE  Doing(conn[d], m, t) /\ conn[d].line > i
        <4>1. conn'[d].line # 0
          BY <2>1, <3>2
        <4> QED
          BY <3>2, <4>1 DEF Calm
      <3> QED
        BY <1>3, <3>1, <3>2
    <2>4. Obeyed(m, t, i)
      BY <2>3 DEF Performed
    <2>5. ASSUME NEW d \in Conns, Doing(conn[d], m, t), conn[d].line \in 1 .. i
          PROVE  Doing(conn'[d], m, t) /\ conn'[d].line \in 1 .. i
      <3>1. conn[d].line \in 1 .. Len(mail[m].body)
        BY <2>1, <2>2, <2>5
      <3> QED
        BY <2>5, <3>1 DEF Calm
    <2> QED
      BY <1>1, <2>4, <2>5 DEF Obeyed, Settings
  <1> QED
    BY <1>1, <1>2, <1>3 DEF Performed

\* Steps that are none of the commands of m.
LEMMA OthersCalm ==
    ASSUME IInv, AskedOK, mail' = mail, was' = was, unsaid' = unsaid,
           NEW c \in Conns, NEW w, Moves(c, w),
           NEW m \in Msgs, NEW t \in Tasks(m), Target(m, t),
           <<m, t>> \notin spoilt,
           ~(Steps(c, w) /\ Doing(conn[c], m, t))
    PROVE  Calm(m, t)
  <1>1. conn'[c] = w /\ \A d \in Conns \ {c} : conn'[d] = conn[d]
    BY Moved
  <1>2. CASE Arrives(c, w)
    BY <1>1, <1>2 DEF Arrives, Calm, Doing
  <1>3. CASE Stays(c, w)
    BY <1>1, <1>3 DEF Stays, Calm, Doing
  <1>4. CASE Steps(c, w)
    <2>1. ~Doing(conn[c], m, t) /\ conn[c].at = "process"
      BY <1>4 DEF Steps, At
    <2>2. w.msg = conn[c].msg /\ w.rcpts = conn[c].rcpts
          /\ w.next = conn[c].next
      <3>1. LET k == conn[c]
            IN  w.msg = k.msg /\ w.rcpts = k.rcpts /\ w.next = k.next
        BY <1>4, StepLine
      <3> QED
        BY <3>1
    <2>3. ~Doing(w, m, t)
      BY <2>1, <2>2 DEF Doing
    <2>4. NowTask(c).list # t.list
      <3>1. /\ conn[c].msg \in Msgs /\ Now(c) \in Tasks(conn[c].msg)
            /\ NowTask(c).kind = "request"
        BY <1>4, AtHand DEF Steps
      <3>2. Now(c) # t \/ conn[c].msg # m
        BY <2>1 DEF Doing, Now
      <3> QED
        BY <3>1, <3>2 DEF Target, Sole, NowTask
    <2>5. sub'[t.list] = sub[t.list] /\ taken' = taken
      <3>1. sub \in [Lists -> Subs] /\ t.list \in Lists
        BY DEF IInv, TablesOK, Target
      <3> QED
        BY <1>4, <2>4, <3>1 DEF Steps
    <2> QED
      BY <1>1, <2>1, <2>3, <2>5 DEF Calm
  <1>5. CASE Ends(c, w)
    <2>1. PICK k \in Links : k = conn[c]
      BY DEF IInv, LinksOK
    <2>2. sub' = sub /\ k.at = "process" /\ k.msg \in Msgs
      BY <1>5, <2>1, AtHand DEF Ends, At
    <2>3. Doing(k, m, t) => k.line > Len(mail[m].body)
      <3>1. SUFFICES ASSUME Doing(k, m, t) PROVE k.line > Len(mail[m].body)
        OBVIOUS
      <3>2. NowTask(c) = t /\ k.text = mail[m].body
        BY <2>1, <3>1, WholeText DEF NowTask, Now, Doing, Target
      <3> QED
        BY <1>5, <2>1, <3>2 DEF Ends, Target
    <2>4. Doing(w, m, t) => w.line = 0
      <3>1. \/ w = [k EXCEPT !.next = @ + 1, !.line = 0, !.seen = "unread"]
            \/ w \in {Open, Free}
        BY <1>5, <2>1 DEF Ends, Proceed
      <3>2. w.line = 0
        BY <3>1, Emptied DEF Links
      <3> QED
        BY <3>2
    <2>5. t \in taken'[m] => t \in taken[m] \/ Doing(k, m, t)
      <3>1. \/ taken' = taken
            \/ taken' = [taken EXCEPT ![k.msg] = @ \cup {Now(c)}]
        BY <1>5, <2>1, EndSettles
      <3>2. taken \in [Msgs -> SUBSET AllTasks]
        BY DEF IInv, TablesOK
      <3>3. Now(c) = k.rcpts[k.next]
        BY <2>1 DEF Now
      <3> QED
        BY <2>2, <3>1, <3>2, <3>3 DEF Doing
    <2>6. k.line \in Nat /\ Len(mail[m].body) \in Nat
      BY <2>1, LinesType, BodyLength
    <2>7. ~(Doing(k, m, t) /\ k.line \in 1 .. Len(mail[m].body))
      BY <2>3, <2>6
    <2> QED
      BY <1>1, <2>1, <2>2, <2>3, <2>4, <2>5, <2>7 DEF Calm
  <1> QED
    BY <1>2, <1>3, <1>4, <1>5 DEF Moves

\* The daemon stops: of a mail it has not spoilt nobody was at the commands
\* whose answer the MTA has.
LEMMA StopsKeep ==
    ASSUME IInv, AskedOK, DaemonStops, mail' = mail, was' = was,
           NEW m \in Msgs, NEW t \in Tasks(m), <<m, t>> \notin spoilt',
           Wanted(m, t), Performed(m, t)
    PROVE  Wanted(m, t)' /\ Performed(m, t)'
  <1>1. sub' = sub /\ conn' = [c \in Conns |-> Free]
    BY DEF DaemonStops, effects
  <1>2. Wanted(m, t)'
    BY <1>1 DEF Wanted, Asked, Settings
  <1>3. \A d \in Conns : ~Doing(conn'[d], m, t)
    BY <1>1, Emptied DEF Doing
  <1>4. ASSUME t \in taken'[m], <<m, t>> \notin unsaid'
        PROVE  t \in taken[m] /\ <<m, t>> \notin unsaid
    BY <1>4, StopAnswers
  <1>5. ASSUME t \in taken[m], NEW d \in Conns, Doing(conn[d], m, t),
               conn[d].line > 0
        PROVE  FALSE
    <2>1. PICK k \in Links : k = conn[d]
      BY DEF IInv, LinksOK
    <2>2. Sound(k) /\ AwaitedOK(k) /\ k.at = "process" /\ k.msg = m
          /\ k.rcpts[k.next] = t
      BY <1>5, <2>1 DEF IInv, LinksOK, AskedOK, Doing
    <2>3. ~(k.pipe \/ ~k.peer)
      <3>1. <<conn[d].msg, Now(d)>> = <<m, t>> /\ At(d, "process")
        BY <2>1, <2>2 DEF Now, At
      <3> QED
        BY <1>5, <2>1, <3>1 DEF DaemonStops
    <2>4. k.next \in 1 .. Len(k.rcpts) /\ Len(k.rcpts) \in Nat
      BY <2>2, LenProperties DEF Sound, Staged, Links
    <2>5. k.next \in k.next .. Len(k.rcpts)
      BY <2>4
    <2>6. t \in todo[m]
      BY <2>2, <2>3, <2>5, InboundAssumption DEF AwaitedOK
    <2> QED
      BY <1>5, <2>6 DEF IInv, TablesOK
  <1>6. ASSUME NEW i \in parseCommands(mail[m].body),
               t \in taken'[m], <<m, t>> \notin unsaid'
        PROVE  Obeyed(m, t, i)'
    <2>1. t \in taken[m] /\ Obeyed(m, t, i)
      BY <1>4, <1>6 DEF Performed
    <2>2. \A d \in Conns : ~(Doing(conn[d], m, t) /\ conn[d].line \in 1 .. i)
      <3>1. \A d \in Conns : conn[d].line \in 1 .. i => conn[d].line > 0
        <4>1. i \in Nat
          BY CommandLines
        <4> QED
          BY <4>1
      <3> QED
        BY <1>5, <2>1, <3>1
    <2> QED
      BY <1>1, <2>1, <2>2 DEF Obeyed, Settings
  <1> QED
    BY <1>2, <1>3, <1>6 DEF Performed

\* A command of m is carried out, or the first one comes to hand.  Whatever
\* setting stood before it and is to be the last one, is still ahead of c.
LEMMA StepsKeep ==
    ASSUME IInv, AskedOK, mail' = mail, was' = was, unsaid' = unsaid,
           NEW c \in Conns, NEW w, Moves(c, w), Steps(c, w),
           NEW m \in Msgs, NEW t \in Tasks(m), Target(m, t),
           Doing(conn[c], m, t),
           <<m, t>> \notin spoilt, <<m, t>> \notin spoilt',
           Wanted(m, t), Performed(m, t)
    PROVE  Wanted(m, t)' /\ Performed(m, t)'
  <1>1. conn'[c] = w /\ \A d \in Conns \ {c} : conn'[d] = conn[d]
    BY Moved
  <1> DEFINE body == mail[m].body
             C    == parseCommands(mail[m].body)
  <1>2. Len(body) \in Nat /\ C \subseteq 1 .. Len(body)
    BY CommandLines
  <1>3. PICK n \in 0 .. Len(body) + 1 : n = conn[c].line
    BY LinesType, WholeText
  <1>4. conn[c].text = body
    BY WholeText
  <1>5. Now(c) = t /\ conn[c].msg = m /\ NowTask(c) = t
    BY DEF Doing, Now, NowTask, Target
  <1>6. PICK f \in Nat : f = w.line
    <2>1. LET k == conn[c] IN w.line \in Nat
      BY StepLine
    <2> QED
      BY <2>1
  <1>7. f > n /\ \A j \in C : n < j => f <= j
    <2>1. LET k == conn[c]
          IN  /\ w.line > k.line
              /\ \A j \in parseCommands(k.text) : k.line < j => w.line <= j
      BY StepLine
    <2> QED
      BY <1>3, <1>4, <1>6, <2>1
  <1>8. Doing(w, m, t) /\ UNCHANGED taken
    <2>1. LET k == conn[c]
          IN  /\ w.at = k.at /\ w.msg = k.msg /\ w.rcpts = k.rcpts
              /\ w.next = k.next
      BY StepLine
    <2> QED
      BY <2>1 DEF Doing, Steps
  <1>9. PICK s \in Subs : s = sub[t.list]
    BY DEF IInv, TablesOK, Target
  <1>10. PICK r \in Subs :
             /\ r = sub'[t.list]
             /\ \/ n = 0 /\ r = s
                \/ n \in C /\ Effect(s, r, body[n])
    <2>1. \/ n = 0 /\ sub' = sub
          \/ n \in C /\ Effect(sub[t.list], sub'[t.list], body[n])
      BY <1>3, <1>4, <1>5 DEF Steps
    <2>2. sub'[t.list] \in Subs
      BY <1>9, <2>1 DEF Effect
    <2> QED
      BY <1>9, <2>1, <2>2
  <1>11. s.status \in Statuses /\ s.mode \in Modes
    BY DEF Subs
  \* the row itself
  <1>12. Wanted(m, t)'
    <2>1. CASE r = s
      BY <1>9, <1>10, <2>1 DEF Wanted, Asked, Settings
    <2>2. CASE r # s
      <3>1. n \in C /\ Effect(s, r, body[n])
        BY <1>10, <2>2
      <3>2. s.status # "none" /\ body[n] \in Orders
        BY <2>2, <3>1 DEF Effect
      <3>3. body[n] = "unsubscribe" => Asked(m, "unsubscribe")
        BY <3>1 DEF Asked
      <3>4. body[n] = "re-enable" => Asked(m, "re-enable")
        BY <3>1 DEF Asked
      <3>5. body[n] \in Modes => n \in Settings(m)
        BY <3>1 DEF Settings
      <3>6. CASE body[n] = "unsubscribe"
        <4>1. r.status = "none" /\ r.mode = "regular"
          BY <3>1, <3>2, <3>6 DEF Effect
        <4> QED
          BY <1>10, <3>3, <3>6, <4>1 DEF Wanted, Asked, Settings
      <3>7. CASE body[n] = "re-enable"
        <4>1. r.status = "active" /\ r.mode = s.mode
          BY <3>1, <3>2, <3>7 DEF Effect
        <4> QED
          BY <1>9, <1>10, <3>2, <3>4, <3>7, <4>1 DEF Wanted, Asked, Settings
      <3>8. CASE body[n] \in Modes
        <4>1. r.status = s.status /\ r.mode = body[n]
          BY <3>1, <3>2, <3>8 DEF Effect
        <4> QED
          BY <1>9, <1>10, <3>2, <3>5, <3>8, <4>1 DEF Wanted, Asked, Settings
      <3> QED
        BY <3>2, <3>6, <3>7, <3>8 DEF Orders
    <2> QED
      BY <2>1, <2>2
  \* the line at hand
  <1>13. ASSUME NEW i \in C, i = n PROVE Obeyed(m, t, i)'
    <2>1. Effect(s, r, body[n])
      BY <1>2, <1>10, <1>13
    <2>2. CASE body[n] = "unsubscribe"
      <3>1. r.status = "none"
        BY <2>1, <2>2 DEF Effect
      <3> QED
        BY <1>10, <1>13, <2>2, <3>1 DEF Obeyed, Modes
    <2>3. CASE body[n] = "re-enable"
      <3>1. r.status # "disabled"
        BY <2>1, <2>3 DEF Effect
      <3> QED
        BY <1>10, <1>13, <2>3, <3>1 DEF Obeyed, Modes
    <2>4. CASE body[n] \in Modes
      <3>1. r.status = "none" \/ r.mode = body[n]
        BY <2>1, <2>4 DEF Effect
      <3>2. body[n] \notin {"unsubscribe", "re-enable"}
        BY <2>4 DEF Modes
      <3> QED
        BY <1>10, <1>13, <2>4, <3>1, <3>2 DEF Obeyed
    <2>5. CASE body[n] \notin Orders
      BY <1>13, <2>5 DEF Obeyed, Orders
    <2> QED
      BY <2>2, <2>3, <2>4, <2>5 DEF Orders
  \* the lines before it, and those others have passed
  <1>14. ASSUME NEW i \in C, i # n, Obeyed(m, t, i) PROVE Obeyed(m, t, i)'
    <2>1. i \in 1 .. Len(body) /\ (n < i => f \in 1 .. i)
      <3>1. i \in 1 .. Len(body)
        BY <1>2
      <3>2. n < i => f <= i /\ f >= 1
        BY <1>3, <1>7
      <3> QED
        BY <3>1, <3>2
    <2>2. n < i => \E d \in Conns : Doing(conn'[d], m, t)
                                    /\ conn'[d].line \in 1 .. i
      BY <1>1, <1>6, <1>8, <2>1
    <2>3. body[i] = "unsubscribe" => r.status = "none"
      <3>1. body[i] = "unsubscribe" => s.status = "none"
        BY <1>9, <1>14 DEF Obeyed
      <3> QED
        BY <1>10, <3>1 DEF Effect
    <2>4. body[i] = "re-enable" => r.status # "disabled"
      <3>1. body[i] = "re-enable" => s.status # "disabled"
        BY <1>9, <1>14 DEF Obeyed
      <3>2. r.status \in {s.status, "none", "active"}
        BY <1>10 DEF Effect, Orders
      <3> QED
        BY <3>1, <3>2
    <2>5. ASSUME body[i] \in Modes, \A j \in Settings(m) : j <= i
          PROVE  \/ r.status = "none" \/ r.mode = body[i]
                 \/ \E d \in Conns : Doing(conn'[d], m, t)
                                     /\ conn'[d].line \in 1 .. i
      <3>1. \/ s.status = "none" \/ s.mode = body[i]
            \/ \E d \in Conns : Doing(conn[d], m, t) /\ conn[d].line \in 1 .. i
        BY <1>9, <1>14, <2>5 DEF Obeyed
      <3>2. CASE s.status = "none"
        BY <1>10, <3>2 DEF Effect
      <3>3. ASSUME NEW d \in Conns, Doing(conn[d], m, t),
                   conn[d].line \in 1 .. i
            PROVE  \E e \in Conns : Doing(conn'[e], m, t)
                                    /\ conn'[e].line \in 1 .. i
        <4>1. CASE d = c
          <5>1. n < i
            BY <1>3, <1>14, <2>1, <3>3, <4>1
          <5> QED
            BY <2>2, <5>1
        <4>2. CASE d # c
          BY <1>1, <3>3, <4>2
        <4> QED
          BY <4>1, <4>2
      <3>4. CASE s.status # "none" /\ s.mode = body[i]
        <4>1. CASE r.mode = s.mode
          BY <3>4, <4>1
        <4>2. CASE r.mode # s.mode /\ r.status # "none"
          <5>1. n \in C /\ Effect(s, r, body[n])
            BY <1>10, <4>2
          <5>2. body[n] \in Modes
            BY <3>4, <4>2, <5>1 DEF Effect, Orders
          <5>3. n \in Settings(m)
            BY <5>1, <5>2 DEF Settings
          <5>4. n < i
            BY <1>2, <1>14, <2>1, <2>5, <5>1, <5>3
          <5> QED
            BY <2>2, <5>4
        <4> QED
          BY <4>1, <4>2
      <3> QED
        BY <3>1, <3>2, <3>3, <3>4
    <2> QED
      BY <1>10, <2>3, <2>4, <2>5 DEF Obeyed, Settings
  <1>15. ASSUME NEW i \in C,
                \/ t \in taken'[m] /\ <<m, t>> \notin unsaid'
                \/ \E d \in Conns : Doing(conn'[d], m, t) /\ conn'[d].line > i
         PROVE  Obeyed(m, t, i)'
    <2>1. CASE i = n
      BY <1>13, <2>1
    <2>2. CASE i # n
      <3>1. i \in 1 .. Len(body)
        BY <1>2
      <3>2. \/ t \in taken[m] /\ <<m, t>> \notin unsaid
            \/ \E d \in Conns : Doing(conn[d], m, t) /\ conn[d].line > i
        <4>1. ASSUME NEW d \in Conns, Doing(conn'[d], m, t), conn'[d].line > i
              PROVE  Doing(conn[d], m, t) /\ conn[d].line > i
          <5>1. CASE d # c
            BY <1>1, <4>1, <5>1
          <5>2. CASE d = c
            <6>1. ~(n < i)
              BY <1>1, <1>6, <1>7, <3>1, <4>1, <5>2
            <6> QED
              BY <1>3, <2>2, <3>1, <5>2, <6>1
          <5> QED
            BY <5>1, <5>2
        <4> QED
          BY <1>8, <1>15, <4>1
      <3>3. Obeyed(m, t, i)
        BY <3>2 DEF Performed
      <3> QED
        BY <1>14, <2>2, <3>3
    <2> QED
      BY <2>1, <2>2
  <1> QED
    BY <1>12, <1>15 DEF Performed

LEMMA RedoneStays ==
    ASSUME IInv, AskedOK, RedoneOK, [Next]_vars
    PROVE  RedoneOK'
  <1>1. mail' = mail /\ was' = was /\ spoilt \subseteq spoilt'
    BY MailStays, HistoryStays
  <1>2. \A m : Tasks(m)' = Tasks(m)
    BY <1>1 DEF Tasks
  <1>3. \A m, t : Target(m, t)' <=> Target(m, t)
    BY <1>2 DEF Target, Sole
  <1>4. SUFFICES ASSUME NEW m \in Msgs, NEW t \in Tasks(m), Target(m, t),
                        <<m, t>> \notin spoilt'
                 PROVE  Wanted(m, t)' /\ Performed(m, t)'
    BY <1>2, <1>3 DEF RedoneOK
  <1>5. <<m, t>> \notin spoilt /\ Wanted(m, t) /\ Performed(m, t)
    BY <1>1, <1>4 DEF RedoneOK
  <1>6. CASE DaemonStops
    BY <1>1, <1>4, <1>5, <1>6, StopsKeep
  <1>7. ASSUME ~DaemonStops, NEW c \in Conns, NEW w, Moves(c, w)
        PROVE  Wanted(m, t)' /\ Performed(m, t)'
    <2>1. unsaid' = unsaid
      BY <1>7, HistoryStays
    <2>2. CASE Steps(c, w) /\ Doing(conn[c], m, t)
      BY <1>1, <1>4, <1>5, <1>7, <2>1, <2>2, StepsKeep
    <2>3. CASE ~(Steps(c, w) /\ Doing(conn[c], m, t))
      <3>1. Calm(m, t)
        BY <1>1, <1>4, <1>5, <1>7, <2>1, <2>3, OthersCalm
      <3> QED
        BY <1>5, <3>1, CalmKeeps
    <2> QED
      BY <2>2, <2>3
  <1>8. CASE Still /\ ~DaemonStops
    <2>1. unsaid' = unsaid
      BY <1>8, HistoryStays
    <2>2. Calm(m, t)
      BY <1>1, <1>8, <2>1 DEF Still, Calm
    <2> QED
      BY <1>5, <2>2, CalmKeeps
  <1> QED
    BY <1>6, <1>7, <1>8, StepMoves

LEMMA NextRInv == IInv /\ RInv /\ [Next]_vars => RInv'
  BY AskedStays, RedoneStays DEF RInv

-----------------------------------------------------------------------------
(***************************************************************************)
(* What a mail that was delivered has done                                 *)
(***************************************************************************)
\* The greatest of some places of a sequence.
LEMMA GreatestOf ==
    ASSUME NEW n \in Nat, NEW S \in SUBSET (1 .. n), S # {}
    PROVE  Max(S) \in S /\ \A y \in S : y <= Max(S)
  <1> DEFINE B == {n - x : x \in S}
  <1>1. B \in SUBSET Nat /\ B # {}
    <2>1. \A x \in S : n - x \in Nat
      OBVIOUS
    <2>2. \A y \in B : y \in Nat
      BY <2>1
    <2>3. \E y : y \in B
      OBVIOUS
    <2> QED
      BY <2>2, <2>3
  <1>2. Min(B) \in B /\ \A y \in B : Min(B) <= y
    <2> HIDE DEF B
    <2> QED
      BY <1>1, LeastOf
  <1>3. PICK x \in S : Min(B) = n - x
    BY <1>2
  <1>4. \A y \in S : n - x <= n - y
    BY <1>2, <1>3
  <1>5. \A y \in S : x >= y
    BY <1>4
  <1> QED
    BY <1>5 DEF Max

\* The lines that Meant reads, and what it makes of them, in the terms of
\* the handler.
LEMMA MeantReads ==
    ASSUME IInv, NEW m \in Msgs
    PROVE  {i \in DOMAIN mail[m].body :
               "contact" \notin Range(Before(mail[m].body, i))}
             \cap {i \in DOMAIN mail[m].body : mail[m].body[i] \notin {"", ">"}}
           = parseCommands(mail[m].body)
  <1> DEFINE b == mail[m].body
  <1>1. b \in Seq(STRING) /\ Len(b) \in Nat /\ DOMAIN b = 1 .. Len(b)
    BY BodyLength, LenProperties
  <1> HIDE DEF b
  <1>2. ASSUME NEW i \in 1 .. Len(b)
        PROVE  "contact" \notin Range(Before(b, i)) <=>
                  \A j \in 1 .. i - 1 : b[j] # "contact"
    <2>1. /\ Before(b, i) \in Seq(STRING)
          /\ Len(Before(b, i)) = i - 1
          /\ \A j \in 1 .. i - 1 : Before(b, i)[j] = b[j]
      BY <1>1, <1>2, SubSeqProperties DEF Before
    <2>2. DOMAIN Before(b, i) = 1 .. i - 1
      BY <2>1, LenProperties
    <2> QED
      BY <2>1, <2>2 DEF Range
  <1>3. \A i : i \in parseCommands(b) <=>
              /\ i \in 1 .. Len(b) /\ b[i] \notin {"", ">"}
              /\ \A j \in 1 .. i - 1 : b[j] # "contact"
    BY <1>1 DEF parseCommands
  <1>4. \A i \in DOMAIN b : i \in 1 .. Len(b)
    BY <1>1
  <1> QED
    BY <1>1, <1>2, <1>3, <1>4 DEF b

LEMMA MeantIs ==
    ASSUME IInv, NEW m \in Msgs, NEW s \in Subs
    PROVE  /\ s.status = "none" \/ Asked(m, "unsubscribe") =>
                 Meant(s, mail[m].body) =
                    [status |-> "none", mode |-> "regular"]
           /\ s.status # "none" /\ ~Asked(m, "unsubscribe") =>
                 Meant(s, mail[m].body) =
                    [status |-> IF Asked(m, "re-enable") THEN "active"
                                ELSE s.status,
                     mode |-> IF Settings(m) = {} THEN s.mode
                              ELSE mail[m].body[Max(Settings(m))]]
  <1> DEFINE b    == mail[m].body
             read == {i \in DOMAIN b : "contact" \notin Range(Before(b, i))}
             asks == {b[i] : i \in read}
             sets == {i \in read : b[i] \in Modes}
  <1>1. read \cap {i \in DOMAIN b : b[i] \notin {"", ">"}} = parseCommands(b)
    BY MeantReads
  <1>2. \A i : i \in parseCommands(b) <=>
                  i \in read /\ b[i] \notin {"", ">"}
    BY <1>1
  <1>3. ASSUME NEW cmd, cmd \notin {"", ">"}
        PROVE  cmd \in asks <=> Asked(m, cmd)
    <2> HIDE DEF read
    <2> QED
      BY <1>2, <1>3 DEF Asked
  <1>4. sets = Settings(m)
    <2> HIDE DEF read
    <2>1. \A i : b[i] \in Modes => b[i] \notin {"", ">"}
      BY DEF Modes
    <2> QED
      BY <1>2, <2>1 DEF Settings
  <1>5. /\ "unsubscribe" \in asks <=> Asked(m, "unsubscribe")
        /\ "re-enable" \in asks <=> Asked(m, "re-enable")
    BY <1>3
  <1>6. Meant(s, b) =
           IF s.status = "none" \/ "unsubscribe" \in asks
           THEN [status |-> "none", mode |-> "regular"]
           ELSE [status |-> IF "re-enable" \in asks THEN "active"
                            ELSE s.status,
                 mode |-> IF sets = {} THEN s.mode ELSE b[Max(sets)]]
    BY DEF Meant
  <1> HIDE DEF read, asks, sets
  <1> QED
    BY <1>4, <1>5, <1>6

\* The last of the settings.
LEMMA LastSetting ==
    ASSUME IInv, NEW m \in Msgs, Settings(m) # {}
    PROVE  /\ Max(Settings(m)) \in Settings(m)
           /\ \A j \in Settings(m) : j <= Max(Settings(m))
  <1>1. Len(mail[m].body) \in Nat /\ mail[m].body \in Seq(STRING)
    BY BodyLength
  <1>2. Settings(m) \in SUBSET (1 .. Len(mail[m].body))
    BY <1>1, LenProperties DEF Settings, parseCommands
  <1> QED
    BY <1>1, <1>2, GreatestOf

\* Nobody is at a mail that the MTA takes for delivered: its commands have
\* all been carried out, and nothing else has been.
LEMMA TakenIsMeant ==
    ASSUME IInv, AskedOK, RedoneOK, RoutedAsPrinted,
           NEW m \in Msgs, NEW t \in taken[m],
           t.kind = "request", Unambiguous(t), Sole(m, t),
           <<m, t>> \notin unsaid \cup spoilt,
           \A c \in Conns : At(c, "process") => conn[c].msg # m
    PROVE  sub[t.list] = Meant(was[t.list], mail[m].body)
  <1>1. t \in Tasks(m) /\ <<m, t>> \in Pairs
    BY DEF IInv, TablesOK, Pairs
  <1>2. Goes[t] = t
    BY <1>1 DEF RoutedAsPrinted
  <1>2a. handled[<<m, t>>] > 0
    BY <1>2 DEF IInv, TakenOK
  <1>3. t.list \in Lists
    BY <1>1, <1>2, <1>2a DEF AskedOK
  <1>4. Wanted(m, t) /\ Performed(m, t)
    BY <1>1, <1>2, <1>2a, <1>3 DEF RedoneOK, Target
  <1>5. \A i \in parseCommands(mail[m].body) : Obeyed(m, t, i)
    BY <1>4 DEF Performed
  <1>6. \A c \in Conns : ~Doing(conn[c], m, t)
    BY DEF Doing, At
  <1>7. PICK s \in Subs : s = sub[t.list]
    BY <1>3 DEF IInv, TablesOK
  <1>8. PICK w \in Subs : w = was[t.list]
    BY <1>3 DEF IInv, TablesOK
  <1>9. Asked(m, "unsubscribe") => s.status = "none"
    BY <1>5, <1>7 DEF Asked, Obeyed
  <1>10. Asked(m, "re-enable") => s.status # "disabled"
    BY <1>5, <1>7 DEF Asked, Obeyed
  <1>11. s = [status |-> s.status, mode |-> s.mode]
    BY DEF Subs
  <1>12. CASE s.status = "none"
    <2>1. s.mode = "regular" /\ (w.status = "none" \/ Asked(m, "unsubscribe"))
      BY <1>4, <1>7, <1>8, <1>12 DEF Wanted
    <2> QED
      BY <1>7, <1>8, <1>11, <1>12, <2>1, MeantIs
  <1>13. CASE s.status # "none"
    <2>1. /\ w.status # "none"
          /\ \/ s.status = w.status
             \/ s.status = "active" /\ Asked(m, "re-enable")
          /\ \/ s.mode = w.mode
             \/ \E i \in Settings(m) : s.mode = mail[m].body[i]
      BY <1>4, <1>7, <1>8, <1>13 DEF Wanted
    <2>2. s.status = IF Asked(m, "re-enable") THEN "active" ELSE w.status
      BY <1>10, <1>13, <2>1 DEF Subs, Statuses
    <2>3. s.mode = IF Settings(m) = {} THEN w.mode
                   ELSE mail[m].body[Max(Settings(m))]
      <3>1. CASE Settings(m) = {}
        BY <2>1, <3>1
      <3>2. CASE Settings(m) # {}
        <4>1. PICK i \in Settings(m) :
                  /\ i = Max(Settings(m))
                  /\ \A j \in Settings(m) : j <= i
          BY <3>2, LastSetting
        <4>2. i \in parseCommands(mail[m].body) /\ mail[m].body[i] \in Modes
          BY DEF Settings
        <4>3. Obeyed(m, t, i)
          BY <1>5, <4>2
        <4>4. s.mode = mail[m].body[i]
          BY <1>6, <1>7, <1>13, <4>1, <4>2, <4>3 DEF Obeyed
        <4> QED
          BY <3>2, <4>1, <4>4
      <3> QED
        BY <3>1, <3>2
    <2>4. Meant(w, mail[m].body) =
             [status |-> IF Asked(m, "re-enable") THEN "active" ELSE w.status,
              mode |-> IF Settings(m) = {} THEN w.mode
                       ELSE mail[m].body[Max(Settings(m))]]
      BY <1>9, <1>13, <2>1, MeantIs
    <2> QED
      BY <1>7, <1>8, <1>11, <2>2, <2>3, <2>4
  <1> QED
    BY <1>12, <1>13
-----------------------------------------------------------------------------
(***************************************************************************)
(* The theorems                                                            *)
(***************************************************************************)
LEMMA InitIInv == Init => IInv
  <1> SUFFICES ASSUME Init PROVE IInv
    OBVIOUS
  <1>1. PICK s \in Scenarios :
            /\ mail = s.mail
            /\ sub = [l \in Lists |-> [status |-> s.status,
                                       mode |-> "regular"]]
    BY DEF Init
  <1>2. sub \in [Lists -> Subs]
    BY <1>1, InboundAssumption DEF Subs, Statuses, Modes
  <1>3. \A m \in Msgs : Tasks(m) \subseteq AllTasks
    BY <1>1 DEF Tasks, AllTasks
  <1>4. TablesOK
    BY <1>1, <1>2, <1>3, InboundAssumption DEF Init, TablesOK
  <1>5. conn = [c \in Conns |-> Free] /\ ~Free.peer /\ Free.msg = None
    BY DEF Init, Free
  <1>6. LinksOK
    BY <1>5, FreeIsLink, FreeIsSound DEF LinksOK
  <1>7. OneSender
    BY <1>5 DEF OneSender
  <1>8. ASSUME NEW x \in Pairs PROVE CountOK(x)
    <2>1. Trying(x) = {}
      BY <1>5, NoMessage DEF Trying
    <2>2. Cardinality(Trying(x)) = 0
      BY <2>1, FS_EmptySet
    <2>3. handled[x] = 0 /\ faults = 0
      BY DEF Init
    <2> QED
      BY <2>2, <2>3 DEF CountOK
  <1>9. OwnTask /\ NothingCutShort /\ RefusedForCause /\ TakenOK
    BY DEF Init, OwnTask, NothingCutShort, RefusedForCause, TakenOK
  <1>10. ReachedOK
    <2>1. \A m \in Msgs : \A t \in Tasks(m) : handled[<<m, t>>] = 0
      BY DEF Init, Pairs
    <2> QED
      BY <2>1 DEF ReachedOK
  <1> QED
    BY <1>4, <1>6, <1>7, <1>8, <1>9, <1>10 DEF IInv

LEMMA NextIInv == IInv /\ [Next]_vars => IInv'
  <1> SUFFICES ASSUME IInv, [Next]_vars PROVE IInv'
    OBVIOUS
  <1>1. LinksOK' /\ OneSender' /\ \A x \in Pairs' : CountOK(x)'
    BY LinksStay
  <1>2. (\A x \in Pairs : CountOK(x))'
    BY <1>1
  <1>3. TablesOK' /\ ReachedOK'
    BY TablesStay, ReachedStays
  <1>4. OwnTask' /\ NothingCutShort' /\ RefusedForCause' /\ TakenOK'
    BY AnswersStay DEF AnswersOK
  <1> QED
    BY <1>1, <1>2, <1>3, <1>4 DEF IInv

LEMMA AlwaysIInv == Spec => []IInv
  BY InitIInv, NextIInv, PTL DEF Spec

LEMMA InitRInv == Init => RInv
  <1> SUFFICES ASSUME Init PROVE RInv
    OBVIOUS
  <1>1. IInv /\ conn = [c \in Conns |-> Free] /\ was = sub
    BY InitIInv DEF Init
  <1>2. \A l \in Lists : sub[l].mode = "regular"
    BY DEF Init
  <1>3. AskedOK
    BY <1>1, <1>2, Emptied DEF Init, AskedOK, TextOK, AwaitedOK
  <1>4. ASSUME NEW m \in Msgs, NEW t \in Tasks(m), Target(m, t)
        PROVE  Wanted(m, t) /\ Performed(m, t)
    <2>1. Wanted(m, t)
      BY <1>1, <1>2, <1>4 DEF Wanted, Target
    <2>2. Performed(m, t)
      BY <1>1, Emptied DEF Init, Performed, Doing
    <2> QED
      BY <2>1, <2>2
  <1> QED
    BY <1>3, <1>4 DEF RInv, RedoneOK

LEMMA AlwaysRInv == Spec => []RInv
  <1>1. IInv /\ RInv /\ [Next]_vars => RInv'
    BY NextRInv
  <1> QED
    BY <1>1, InitRInv, AlwaysIInv, PTL DEF Spec

\* Connections, recipients, subscriptions and the counts of what happened keep
\* their types, and a connection that is being worked on has a message and a
\* recipient at hand.
THEOREM TypeCorrect == Spec => []ITypeOK
  <1>1. ASSUME IInv PROVE ITypeOK
    <2>1. ASSUME NEW c \in Conns
          PROVE  LET k == conn[c]
                 IN  /\ k.at \in {"free", "command", "data", "relay",
                                  "process"}
                     /\ k.at = "free" <=> k = Free
                     /\ k.msg \in Msgs \cup {None}
                     /\ k.at \in {"data", "relay", "process"} => k.msg # None
                     /\ k.at = "process" => k.next \in 1 .. Len(k.rcpts)
                     /\ k.seen \in Statuses \cup {"unread"} /\ k.line \in Nat
      <3>1. PICK k \in Links : k = conn[c]
        BY <1>1 DEF IInv, LinksOK
      <3>2. Sound(k)
        BY <1>1, <3>1 DEF IInv, LinksOK
      <3>3. k = Free => k.at = "free"
        BY DEF Free
      <3> QED
        BY <3>1, <3>2, <3>3 DEF Links, Stages, Sound, Staged
    <2>2. mail \in {s.mail : s \in Scenarios}
      BY <1>1 DEF IInv, TablesOK
    <2>3. faults \in 0 .. MaxFaults
      BY <1>1, InboundAssumption DEF IInv, TablesOK
    <2>4. \A m \in Msgs : reached[m] \subseteq Owners
      BY <1>1 DEF IInv, TablesOK
    <2> QED
      BY <1>1, <2>1, <2>2, <2>3, <2>4 DEF IInv, TablesOK, ITypeOK
  <1> QED
    BY <1>1, AlwaysIInv, PTL

\* A handler gets only the recipients its message was addressed to, and one
\* of them again only for an attempt that was given up: one transaction of the
\* dialogue leaves nothing to the next, and no two connections attempt one
\* message while its MTA waits (handleMail, handleRcpt, processRecipient).
THEOREM HandledOnceHolds == Spec => []HandledOncePerAttempt
  <1>1. ASSUME IInv, NEW x \in Pairs
        PROVE  /\ handled[x] > 0 => x[2] \in Tasks(x[1])
               /\ handled[x] <= 1 + faults
    <2>1. handled[x] + Cardinality(Trying(x)) <= 1 + faults
      BY <1>1 DEF IInv, CountOK
    <2>2. /\ handled[x] \in Nat /\ faults \in Nat
          /\ Cardinality(Trying(x)) \in Nat
      BY <1>1, TryingFinite DEF IInv, TablesOK
    <2> QED
      BY <1>1, <2>1, <2>2 DEF IInv, OwnTask
  <1>2. IInv => HandledOncePerAttempt
    BY <1>1 DEF HandledOncePerAttempt
  <1> QED
    BY <1>2, AlwaysIInv, PTL

\* No recipient is returned to the sender unless an attempt to deliver it
\* failed, the null sender of bounces included (handleMail, handleRcpt,
\* processRecipient, ADR 0021).
THEOREM RefusedHolds == Spec => []RefusedForCause
  <1>1. IInv => RefusedForCause
    BY DEF IInv
  <1> QED
    BY <1>1, AlwaysIInv, PTL

\* A handler is handed part of a message only when its relay was killed:
\* a lost LMTP connection never is the end of a message (handleData, and
\* handleConn of the socket).
THEOREM WholeHolds == Spec => []NothingCutShort
  <1>1. IInv => NothingCutShort
    BY DEF IInv
  <1> QED
    BY <1>1, AlwaysIInv, PTL

\* Mail to an address that was printed leads to the handler it was printed
\* for, with the list, the member and the token in it, for names, lists and
\* tokens of any length (EncodeVERP, DecodeVERP, ParseAddress); the Reply-To
\* of the notices leads to no list (buildNotice).
THEOREM RoutedHolds == Spec => []RoutedAsPrinted
  <1>1. ASSUME IInv PROVE RoutedAsPrinted
    <2>1. SUFFICES ASSUME NEW m \in Msgs, NEW t \in Tasks(m), Unambiguous(t)
                   PROVE  IF t.kind = "reply" THEN Goes[t].list \notin Lists
                                              ELSE Goes[t] = t
      BY DEF RoutedAsPrinted
    <2>2. t \in AllTasks
      BY <1>1 DEF IInv, TablesOK, Tasks, AllTasks
    <2>3. /\ t \in [kind : Kinds, list : Seq(STRING), part : Seq(STRING)]
          /\ ListAddress(t.list)
          /\ t.kind \notin DOMAIN PlusSuffix => t.part = <<>>
          /\ t.kind = "bounce" => First(t.part, "@") \in 2 .. Len(t.part) - 1
      BY <2>2, AddressAssumption
    <2>4. Goes[t] = Route(Printed(t))
      BY <2>2 DEF Goes
    <2>5. IF t.kind = "reply" THEN ~ListAddress(Route(Printed(t)).list)
                              ELSE Route(Printed(t)) = t
      BY <2>1, <2>3, Routed
    <2> QED
      BY <2>4, <2>5, AddressAssumption
  <1> QED
    BY <1>1, AlwaysIInv, PTL

\* For what the MTA takes for delivered a handler ran to its end, its relay was
\* left without an answer, or a failed look-up made it overlook a bounce or an
\* unsubscription; mail to the owners has reached each of them who was not
\* passed over (processRecipient, handleUnsubscribe, handleBounce,
\* forwardToOwners, deliver).
THEOREM TakenHolds == Spec => []TakenWasHandled
  <1>1. ASSUME IInv, RoutedAsPrinted, NEW m \in Msgs, NEW t \in taken[m]
        PROVE  \/ /\ handled[<<m, t>>] > 0
                  /\ t.kind = "owner" /\ Unambiguous(t) =>
                        \A o \in Others :
                           o \in reached[m] \/ <<m, o>> \in skipped
               \/ <<m, t>> \in unsaid
               \/ /\ <<m, t>> \in overlooked
                  /\ Goes[t].kind \in {"bounce", "unsubscribe"}
    <2>1. \/ handled[<<m, t>>] > 0 \/ <<m, t>> \in unsaid
          \/ /\ <<m, t>> \in overlooked
             /\ Goes[t].kind \in {"bounce", "unsubscribe"}
      BY <1>1 DEF IInv, TakenOK
    <2>2. t \in Tasks(m)
      BY <1>1 DEF IInv, TablesOK
    <2>3. handled[<<m, t>>] > 0 /\ t.kind = "owner" /\ Unambiguous(t) =>
              \A o \in Others : o \in reached[m] \/ <<m, o>> \in skipped
      BY <1>1, <2>2 DEF IInv, ReachedOK
    <2> QED
      BY <2>1, <2>3
  <1>2. IInv /\ RoutedAsPrinted => TakenWasHandled
    BY <1>1 DEF TakenWasHandled
  <1> QED
    BY <1>2, AlwaysIInv, RoutedHolds, PTL

\* However often a command mail comes (handleRequest), and whoever else is at
\* another copy of it: taken for delivered and no longer worked on, it has
\* done to the subscription what its lines ask for (parseCommands), once.
THEOREM RedeliveryHolds == Spec => []RedeliveryHarmless
  <1>1. IInv /\ RInv /\ RoutedAsPrinted => RedeliveryHarmless
    BY TakenIsMeant DEF RInv, RedeliveryHarmless
  <1> QED
    BY <1>1, AlwaysIInv, AlwaysRInv, RoutedHolds, PTL
=============================================================================
