------------------------------ MODULE Addresses ------------------------------
(***************************************************************************)
(* The addresses of a list: how xMailman prints them (VERP envelope        *)
(* senders, confirmation and moderation addresses, list headers) and how   *)
(* it takes them apart when mail comes back (internal/mail/address.go,     *)
(* verp.go).                                                               *)
(*                                                                         *)
(* An address is a sequence of tokens.  A token is a name without any of   *)
(* the characters the code looks for, one of those characters, or one of   *)
(* the suffixes of list addresses, dash included: a suffix of the text is  *)
(* a last token, and "-unsubscribe" does not end in "-subscribe".          *)
(***************************************************************************)
EXTENDS Integers, Sequences, FiniteSetsExt

\* Suffixes by what they ask for; after the first three comes "+" and a part.
PlusSuffix == [bounce |-> "-bounces", confirm |-> "-confirm",
               moderate |-> "-moderate"]
DashSuffix == [request |-> "-request", owner |-> "-owner",
               subscribe |-> "-subscribe", unsubscribe |-> "-unsubscribe"]

\* What an address asks for (AddressType), of which list (its address), with
\* which part: the member that bounced, the token of a confirmation or of a
\* held post, else <<>>.
Task(kind, list, part) == [kind |-> kind, list |-> list, part |-> part]
NoTask == Task("invalid", <<>>, <<>>)

Spots(s, t)  == {i \in DOMAIN s : s[i] = t}
First(s, t)  == IF Spots(s, t) = {} THEN 0 ELSE Min(Spots(s, t))
Last(s, t)   == Max(Spots(s, t) \cup {0})
Before(s, i) == SubSeq(s, 1, i - 1)
After(s, i)  == SubSeq(s, i + 1, Len(s))
EndsIn(s, t) == s # <<>> /\ s[Len(s)] = t
-----------------------------------------------------------------------------
\* Mutation of EncodeVERP: the "@" of the recipient stays.
EncodePlain(list, rcpt) ==
    Before(list, First(list, "@")) \o <<"-bounces", "+">> \o rcpt
        \o <<"@">> \o After(list, First(list, "@"))

\* The envelope sender of mail from a list to rcpt.
EncodeVERP(list, rcpt) ==
    LET l == First(list, "@")
        r == First(rcpt, "@")
    IN  Before(list, l) \o <<"-bounces", "+">> \o Before(rcpt, r)
            \o <<"=">> \o After(rcpt, r) \o <<"@">> \o After(list, l)

\* The recipient in an envelope sender, or <<>>: the last "-bounces+" of the
\* local part starts it, its last "=" was an "@".
DecodeVERP(sender) ==
    LET at      == Last(sender, "@")
        local   == Before(sender, at)
        markers == {i \in Spots(local, "-bounces") :
                       i + 1 \in Spots(local, "+")}
        marker  == Max(markers \cup {0})
        encoded == After(local, marker + 1)
        eq      == Last(encoded, "=")
    IN  IF at \in 2 .. Len(sender) - 1 /\ marker > 1
           /\ eq \in 2 .. Len(encoded) - 1
        THEN Before(encoded, eq) \o <<"@">> \o After(encoded, eq)
        ELSE <<>>

ParseAddress(addr) ==
    LET at     == Last(addr, "@")
        local  == Before(addr, at)
        plus   == First(local, "+")
        prefix == Before(local, plus)
        plusKinds == {k \in DOMAIN PlusSuffix : EndsIn(prefix, PlusSuffix[k])}
        dashKinds == {k \in DOMAIN DashSuffix : /\ EndsIn(local, DashSuffix[k])
                                                /\ Len(local) > 1}
        \* the list a suffix was taken from, with the domain
        ListOf(s) == Before(s, Len(s)) \o After(addr, at - 1)
    IN  CASE at \notin 2 .. Len(addr) - 1 -> NoTask
          [] at \in 2 .. Len(addr) - 1 /\ plusKinds # {} ->
                Task(CHOOSE k \in plusKinds : TRUE, ListOf(prefix),
                     After(local, plus))
          [] at \in 2 .. Len(addr) - 1 /\ plusKinds = {} /\ dashKinds # {} ->
                Task(CHOOSE k \in dashKinds : TRUE, ListOf(local), <<>>)
          [] OTHER -> Task("post", addr, <<>>)

\* processRecipient with handleBounce: the task an address leads to.  The
\* VERP sender is put together again from the parsed parts and decoded.
Route(addr) ==
    LET t  == ParseAddress(addr)
        at == Last(t.list, "@")
    IN  IF t.kind # "bounce" THEN t
        ELSE [t EXCEPT !.part =
                 DecodeVERP(Before(t.list, at) \o <<"-bounces", "+">>
                              \o t.part \o After(t.list, at - 1))]
-----------------------------------------------------------------------------
\* The address xMailman prints for a task: the list's own, the one its
\* notices and List-* headers give, the one its copies are sent under.
Printed(t) ==
    LET at    == First(t.list, "@")
        local == Before(t.list, at)
        rest  == After(t.list, at - 1)
    IN  CASE t.kind = "post" -> t.list
          [] t.kind = "bounce" -> EncodeVERP(t.list, t.part)
          [] t.kind \in {"confirm", "moderate"} ->
                local \o <<PlusSuffix[t.kind], "+">> \o t.part \o rest
          [] t.kind \in DOMAIN DashSuffix ->
                local \o <<DashSuffix[t.kind]>> \o rest
          \* Reply-To of the notices (buildNotice): the suffix comes after the
          \* whole address of the list, domain included.
          [] t.kind = "reply" -> t.list \o <<"-owner">> \o rest

\* Where names and suffixes can be told apart: the list is not itself named
\* like a suffixed address or with a "+" (the web refuses the latter, the
\* command line nothing), and the member's address holds no "-bounces+", and
\* no "=" after the "@" that EncodeVERP replaces, its first one: the decoder
\* takes the last "=" for it ("domain labels cannot contain it"), which is
\* another one if a quoted name has an "@" of its own.
Unambiguous(t) ==
    LET local == Before(t.list, Last(t.list, "@"))
    IN  /\ Spots(local, "+") = {}
        /\ t.kind = "post" =>
              \A k \in DOMAIN DashSuffix : ~EndsIn(local, DashSuffix[k])
        /\ t.kind = "bounce" =>
              Spots(After(t.part, First(t.part, "@")), "=") = {}
        /\ \A i \in DOMAIN t.part : t.part[i] = "-bounces" =>
              i < Len(t.part) /\ t.part[i + 1] # "+"

\* A list's address: a name, one "@", a domain.  parseListAddr splits at the
\* first "@" and validListName allows none; host names have none.
ListAddress(a) ==
    a \in Seq(STRING) /\ \E i \in 2 .. Len(a) - 1 : Spots(a, "@") = {i}
=============================================================================
