------------------------------- MODULE Inbound -------------------------------
(***************************************************************************)
(* Mail coming in: the LMTP dialogue with the MTA (internal/mail/lmtp.go), *)
(* pipe mode over the Unix socket (socket.go, cmd/cmd.go "deliver"), the   *)
(* routing of every recipient to its handler, and the handler of command   *)
(* mail (commands.go), which is the only one modelled here step by step:   *)
(* Posting and Membership have the others.                                 *)
(*                                                                         *)
(* The MTA is the environment.  It keeps every recipient of a message      *)
(* until it has an answer for it, and tries again when a connection ends   *)
(* without one.  A goroutine of the server does not notice that its peer   *)
(* has gone while it works through the recipients of a message, so the     *)
(* next attempt may overlap with the abandoned one.                        *)
(***************************************************************************)
EXTENDS Addresses, Functions

CONSTANTS Msgs,      \* messages the MTA has for the lists
          Scenarios, \* what the messages may be, and the sender's status
          Conns,     \* connections open at a time, relays included
          Lists,     \* addresses of the lists that exist
          Owners,    \* owners of the lists
          Sender,    \* who sends the command mail
          MaxFaults, \* bound: connections lost, dialogues abandoned, failing
                     \* store calls, relays killed, stops of the daemon
          None

\* A mail: the tasks its recipients stand for, the lines of its body, and
\* whether its envelope sender is the null sender.
ASSUME InboundAssumption ==
    /\ MaxFaults \in Nat
    /\ None \notin Msgs
    /\ IsFiniteSet(Conns)
    /\ \A s \in Scenarios :
          /\ s.status \in {"none", "active", "disabled"}
          /\ \A m \in Msgs : /\ s.mail[m].null \in BOOLEAN
                             /\ s.mail[m].body \in Seq(STRING)

Statuses == {"none", "active", "disabled"}
Modes    == {"regular", "digest", "nomail"}
Subs     == [status : Statuses, mode : Modes]

VARIABLES
    mail,     \* the messages
    todo,     \* recipients the MTA has no answer for yet
    taken,    \* recipients it takes for delivered
    refused,  \* recipients it returned to the sender
    conn,     \* the connections, both ends
    up,       \* the daemon is running
    sub,      \* the sender's subscription to each list
    reached,  \* owners that a message to the owners has been queued for
    \* what happened, for the bounds and the properties
    faults,
    was,      \* the subscription as it was at first
    handled,  \* how often a handler finished without error
    failed,   \* recipients some attempt failed for
    cut,      \* recipients handed on with part of the message
    killed,   \* recipients whose relay was killed half-way
    unsaid,   \* recipients whose relay the daemon left without an answer
    skipped,  \* owners passed over because their address was not read
    overlooked, \* recipients answered with "OK" because a look-up failed
    spoilt    \* command mails some command of which failed, or whose
              \* abandoned copy was cut or stopped half-way

mta     == <<todo, taken, refused>>
effects == <<sub, reached>>
history == <<was, handled, failed, cut, killed, unsaid, spoilt,
             skipped, overlooked>>
vars    == <<mail, mta, conn, up, effects, faults, history>>

\* at: what the server is doing with the connection.  mailSet and rcpts
\* belong to the dialogue; next is the recipient, line the command at hand,
\* seen the status it read; text is the body received, whole whether it came
\* to its end.  peer, msg and asked are the MTA's: whether it is still there,
\* the message it is sending, the recipients accepted for it.
Free == [at |-> "free", pipe |-> FALSE, mailSet |-> FALSE, rcpts |-> <<>>,
         next |-> 1, line |-> 0, seen |-> "unread", text |-> <<>>,
         whole |-> FALSE, peer |-> FALSE, msg |-> None, asked |-> <<>>]
Open == [Free EXCEPT !.at = "command", !.peer = TRUE]

Tasks(m) == mail[m].to
Pairs    == Msgs \X UNION {Tasks(m) : m \in Msgs}

\* Where mail to the address printed for a task goes.
AllTasks == UNION {s.mail[m].to : s \in Scenarios, m \in Msgs}
Goes     == [t \in AllTasks |-> Route(Printed(t))]

\* What addresses are printed of.  A copy's sender is a VERP address only if
\* EncodeVERP found a name and a domain in the member's.
Kinds == DOMAIN PlusSuffix \cup DOMAIN DashSuffix \cup {"post", "reply"}

ASSUME AddressAssumption ==
    /\ \A l \in Lists : ListAddress(l)
    /\ \A t \in AllTasks :
          /\ t \in [kind : Kinds, list : Seq(STRING), part : Seq(STRING)]
          /\ ListAddress(t.list)
          /\ t.kind \notin DOMAIN PlusSuffix => t.part = <<>>
          /\ t.kind = "bounce" =>
                First(t.part, "@") \in 2 .. Len(t.part) - 1

Init ==
    /\ \E s \in Scenarios :
          /\ mail = s.mail
          /\ sub = [l \in Lists |-> [status |-> s.status,
                                     mode |-> "regular"]]
    /\ todo = [m \in Msgs |-> Tasks(m)]
    /\ taken = [m \in Msgs |-> {}] /\ refused = [m \in Msgs |-> {}]
    /\ conn = [c \in Conns |-> Free] /\ up = TRUE
    /\ reached = [m \in Msgs |-> {}]
    /\ faults = 0 /\ was = sub
    /\ handled = [x \in Pairs |-> 0]
    /\ failed = {} /\ cut = {} /\ killed = {} /\ unsaid = {} /\ spoilt = {}
    /\ skipped = {} /\ overlooked = {}

ITypeOK ==
    /\ mail \in {s.mail : s \in Scenarios}
    /\ \A m \in Msgs : /\ todo[m] \subseteq Tasks(m)
                       /\ taken[m] \subseteq Tasks(m) \ todo[m]
                       /\ refused[m] \subseteq Tasks(m) \ todo[m]
                       /\ reached[m] \subseteq Owners
    /\ \A c \in Conns :
          LET k == conn[c]
          IN  /\ k.at \in {"free", "command", "data", "relay", "process"}
              /\ k.at = "free" <=> k = Free
              /\ k.msg \in Msgs \cup {None}
              /\ k.at \in {"data", "relay", "process"} => k.msg # None
              /\ k.at = "process" => k.next \in 1 .. Len(k.rcpts)
              /\ k.seen \in Statuses \cup {"unread"} /\ k.line \in Nat
    /\ up \in BOOLEAN
    /\ sub \in [Lists -> Subs] /\ was \in [Lists -> Subs]
    /\ faults \in 0 .. MaxFaults
    /\ handled \in [Pairs -> Nat]
    /\ failed \cup cut \cup killed \cup unsaid \cup spoilt \subseteq Pairs
    /\ overlooked \subseteq Pairs
    /\ skipped \subseteq Msgs \X Owners
-----------------------------------------------------------------------------
At(c, place) == conn[c].at = place
Set(c, k)    == conn' = [conn EXCEPT ![c] = k]
Fault        == faults < MaxFaults /\ faults' = faults + 1

\* m is being sent; the MTA makes one attempt at a time.
Sending(m)   == \E c \in Conns : conn[c].peer /\ conn[c].msg = m
Waiting      == {m \in Msgs : todo[m] # {} /\ ~Sending(m)}

\* Mutation of Settle: an error is logged and no line is sent.
SettleIfTaken(m, t, ok) ==
    /\ todo'    = IF ok THEN [todo EXCEPT ![m] = @ \ {t}] ELSE todo
    /\ taken'   = IF ok THEN [taken EXCEPT ![m] = @ \cup {t}] ELSE taken
    /\ refused' = refused

\* The answer for recipient t of m is sent, and the MTA acts on it.
Settle(m, t, ok) ==
    /\ todo'    = [todo EXCEPT ![m] = @ \ {t}]
    /\ taken'   = IF ok THEN [taken EXCEPT ![m] = @ \cup {t}] ELSE taken
    /\ refused' = IF ok THEN refused ELSE [refused EXCEPT ![m] = @ \cup {t}]

-----------------------------------------------------------------------------
(***************************************************************************)
(* The LMTP dialogue.  The MTA waits for each answer before it goes on, so *)
(* a command, its handler and the answer are one step.                     *)
(***************************************************************************)
Connect(c) ==
    /\ At(c, "free") /\ up
    /\ Waiting # {}
    /\ Set(c, Open)
    /\ UNCHANGED <<mail, mta, up, effects, faults, history>>

\* Mutation of AfterMail: the recipients of the transaction before stay.
MailKeepsRcpts(k) == [k EXCEPT !.mailSet = TRUE]

\* Mutation of AfterMail: the null sender does not count as a sender, as it
\* did not before ADR 0021.
MailNeedsSender(k) ==
    [k EXCEPT !.mailSet = ~mail[k.msg].null, !.rcpts = <<>>]

\* MAIL: whatever the sender, null or not, a new transaction begins.
AfterMail(k) == [k EXCEPT !.mailSet = TRUE, !.rcpts = <<>>]

handleMail(c, m) ==
    /\ At(c, "command") /\ conn[c].msg = None
    /\ m \in Waiting
    /\ Set(c, AfterMail([conn[c] EXCEPT !.msg = m]))
    /\ UNCHANGED <<mail, mta, up, effects, faults, history>>

\* RCPT: accepted, or refused for good with 503 before MAIL.
handleRcpt(c, t) ==
    LET k == conn[c]
    IN  /\ At(c, "command") /\ k.msg # None
        /\ t \in todo[k.msg] /\ Spots(k.asked, t) = {}
        /\ IF k.mailSet
           THEN /\ Set(c, [k EXCEPT !.rcpts = Append(@, t),
                                    !.asked = Append(@, t)])
                /\ UNCHANGED mta
           ELSE Settle(k.msg, t, FALSE) /\ UNCHANGED conn
        /\ UNCHANGED <<mail, up, effects, faults, history>>

\* The MTA drops the transaction, to begin another one: with RSET, or by
\* the next MAIL.
Abandon(c) ==
    /\ At(c, "command") /\ conn[c].msg # None
    /\ Fault
    /\ \/ Set(c, Open)
       \/ Set(c, [conn[c] EXCEPT !.msg = None, !.asked = <<>>])
    /\ UNCHANGED <<mail, mta, up, effects, history>>

\* DATA, and the end of the message.
handleData(c) ==
    /\ At(c, "command")
    /\ conn[c].rcpts # <<>> /\ conn[c].asked # <<>>
    /\ Set(c, [conn[c] EXCEPT !.at = "data"])
    /\ UNCHANGED <<mail, mta, up, effects, faults, history>>

DataEnds(c) ==
    /\ At(c, "data")
    /\ Set(c, [conn[c] EXCEPT !.at = "process",
                              !.text = mail[conn[c].msg].body,
                              !.whole = TRUE])
    /\ UNCHANGED <<mail, mta, up, effects, faults, history>>

handleQuit(c) ==
    /\ At(c, "command") /\ conn[c].msg = None
    /\ Waiting = {}
    /\ Set(c, Free)
    /\ UNCHANGED <<mail, mta, up, effects, faults, history>>

\* Mutation of AfterLoss: what has come of the message is processed.
ProcessTheRest(k) ==
    IF k.at = "data" THEN [k EXCEPT !.at = "process", !.peer = FALSE]
    ELSE IF k.at = "process" THEN [k EXCEPT !.peer = FALSE] ELSE Free

\* A connection that ends before the final dot ends the message with it;
\* one that ends later goes unnoticed until the answers are written.
AfterLoss(k) == IF k.at = "process" THEN [k EXCEPT !.peer = FALSE] ELSE Free

\* The network, or a timeout of the MTA, ends the connection.
Lose(c) ==
    /\ conn[c].peer /\ ~conn[c].pipe
    /\ Fault
    /\ Set(c, AfterLoss(conn[c]))
    /\ UNCHANGED <<mail, mta, up, effects, history>>
-----------------------------------------------------------------------------
(***************************************************************************)
(* Pipe mode: the MTA starts `deliver` for one recipient, and believes its *)
(* exit status.                                                            *)
(***************************************************************************)
Relay(c, m, t) ==
    /\ At(c, "free") /\ up
    /\ m \in Waiting /\ t \in todo[m]
    /\ Set(c, [Free EXCEPT !.at = "relay", !.pipe = TRUE, !.peer = TRUE,
                           !.msg = m, !.rcpts = <<t>>, !.asked = <<t>>])
    /\ UNCHANGED <<mail, mta, up, effects, faults, history>>

\* Without a daemon to connect to the relay exits with 1: undeliverable.
RelayFindsNoDaemon(m, t) ==
    /\ ~up
    /\ m \in Waiting /\ t \in todo[m]
    /\ Settle(m, t, FALSE)
    /\ failed' = failed \cup {<<m, t>>}
    /\ UNCHANGED <<mail, conn, up, effects, faults, was, handled, cut,
                   killed, unsaid, spoilt, skipped, overlooked>>

RelayEnds(c) ==
    /\ At(c, "relay")
    /\ Set(c, [conn[c] EXCEPT !.at = "process",
                              !.text = mail[conn[c].msg].body,
                              !.whole = TRUE])
    /\ UNCHANGED <<mail, mta, up, effects, faults, history>>

\* The relay is killed, by the MTA's time limit for instance.  While it is
\* copying, the daemon cannot tell this end of the message from the real one.
RelayKilled(c) ==
    LET k == conn[c]
        x == <<k.msg, k.asked[1]>>
    IN  /\ k.pipe /\ k.peer
        /\ Fault
        /\ \/ /\ k.at = "relay"
              /\ \E n \in 0 .. Len(mail[k.msg].body) :
                    Set(c, [k EXCEPT !.at = "process", !.peer = FALSE,
                                     !.text = SubSeq(mail[k.msg].body, 1, n)])
              /\ killed' = killed \cup {x}
              /\ spoilt' = spoilt \cup {x}
           \/ /\ k.at = "process"
              /\ Set(c, [k EXCEPT !.peer = FALSE])
              /\ UNCHANGED <<killed, spoilt>>
        /\ UNCHANGED <<mail, mta, up, effects, was, handled, failed, cut,
                       unsaid, skipped, overlooked>>
-----------------------------------------------------------------------------
(***************************************************************************)
(* processRecipient: one recipient after the other                         *)
(***************************************************************************)
Now(c)     == conn[c].rcpts[conn[c].next]
NowTask(c) == Goes[Now(c)]
Others     == Owners \ {Sender}

\* On to the next recipient; after the last one the dialogue is reset, or
\* the connection found closed.
Proceed(k) ==
    IF k.next < Len(k.rcpts)
    THEN [k EXCEPT !.next = @ + 1, !.line = 0, !.seen = "unread"]
    ELSE IF k.peer /\ ~k.pipe THEN Open ELSE Free

\* Mutation of Answer: an error is written to the log only.
AnswerAlwaysOK(ok) == TRUE

Answer(ok) == ok

\* The handler returned, with or without an error: 250 or 550, OK or ERR.
Reply(c, ok) ==
    LET k == conn[c]
        x == <<k.msg, Now(c)>>
    IN  /\ IF k.peer /\ k.next \in DOMAIN k.asked
           THEN Settle(k.msg, k.asked[k.next], Answer(ok))
           ELSE UNCHANGED mta
        /\ Set(c, Proceed(k))
        /\ failed' = IF ok THEN failed ELSE failed \cup {x}
        /\ cut' = IF k.whole THEN cut ELSE cut \cup {x}

\* It returned at its end (ok), or at an error.
Finish(c, ok) ==
    LET x == <<conn[c].msg, Now(c)>>
    IN  /\ Reply(c, ok)
        /\ handled' = IF ok THEN [handled EXCEPT ![x] = @ + 1] ELSE handled
        /\ UNCHANGED overlooked

\* What is sure to fail: an address that is none, a list that is not there,
\* a token that has been spent.
Hopeless(c) ==
    LET t == NowTask(c)
    IN  \/ t.kind = "invalid"
        \/ t.kind = "bounce" /\ t.part = <<>>
        \/ t.kind \in {"post", "subscribe", "request", "owner"}
              /\ t.list \notin Lists
        \/ t.kind \in {"confirm", "moderate"}
              /\ handled[<<conn[c].msg, Now(c)>>] > 0

\* Any handler but those below: it succeeds, or stops at an error.  A bounce
\* or an unsubscription asks for the list only if the member is known, and
\* may also be overlooked (Overlook).
Handle(c) ==
    /\ At(c, "process")
    /\ NowTask(c).kind \notin {"request", "owner"} \/ Hopeless(c)
    /\ \/ ~Hopeless(c) /\ Finish(c, TRUE) /\ UNCHANGED faults
       \/ Hopeless(c) /\ Finish(c, FALSE) /\ UNCHANGED faults
       \/ /\ NowTask(c).kind \in {"bounce", "unsubscribe"}
          /\ NowTask(c).list \notin Lists
          /\ Finish(c, FALSE) /\ UNCHANGED faults
       \/ ~Hopeless(c) /\ Fault /\ Finish(c, FALSE)
    /\ UNCHANGED <<mail, up, effects, was, killed, unsaid, spoilt, skipped>>

\* handleBounce and handleUnsubscribe take every error of GetSubscriber, and
\* handleBounce of GetSubscription, for "not subscribed": nothing is done, and
\* the answer is OK.
Overlook(c) ==
    /\ At(c, "process") /\ ~Hopeless(c)
    /\ NowTask(c).kind \in {"bounce", "unsubscribe"}
    /\ Fault
    /\ Reply(c, TRUE)
    /\ overlooked' = overlooked \cup {<<conn[c].msg, Now(c)>>}
    /\ UNCHANGED <<mail, up, effects, was, handled, killed, unsaid, spoilt,
                   skipped>>

\* forwardToOwners: a copy to each, but for the sender.
ForwardToAll(m) ==
    /\ reached' = [reached EXCEPT ![m] = @ \cup Others]
    /\ UNCHANGED <<faults, skipped>>

\* An owner whose address cannot be read is passed over without an error.
ForwardSkipping(m) ==
    /\ Fault
    /\ \E o \in Others :
          /\ reached' = [reached EXCEPT ![m] = @ \cup (Others \ {o})]
          /\ skipped' = skipped \cup {<<m, o>>}

\* The owners cannot be listed, or a copy not queued: that ends it.
ForwardFails(m) ==
    /\ Fault
    /\ \E S \in SUBSET Others :
          /\ S # Others
          /\ reached' = [reached EXCEPT ![m] = @ \cup S]
    /\ UNCHANGED skipped

handleOwnerForward(c) ==
    LET m == conn[c].msg
    IN  /\ At(c, "process") /\ NowTask(c).kind = "owner" /\ ~Hopeless(c)
        /\ \/ ForwardToAll(m) /\ Finish(c, TRUE)
           \/ ForwardSkipping(m) /\ Finish(c, TRUE)
           \/ ForwardFails(m) /\ Finish(c, FALSE)
        /\ UNCHANGED <<mail, up, sub, was, killed, unsaid, spoilt>>
-----------------------------------------------------------------------------
(***************************************************************************)
(* handleRequest: command mail                                             *)
(***************************************************************************)

\* Mutation of parseCommands: the text after "contact" is read as commands.
ParseToTheEnd(text) == {i \in DOMAIN text : text[i] \notin {"", ">"}}

\* The lines that are commands: blank and quoted ones are skipped, what
\* follows "contact" is its text.  None at all stands for "help", which only
\* replies.
parseCommands(text) ==
    {i \in DOMAIN text : /\ text[i] \notin {"", ">"}
                         /\ \A j \in 1 .. i - 1 : text[j] # "contact"}

HasContactText(text) ==
    \E i \in parseCommands(text), j \in DOMAIN text :
        text[i] = "contact" /\ i < j /\ text[j] \notin {"", ">"}

\* The command after line i of the text; past its end, if there is none.
Following(text, i) ==
    Min({j \in parseCommands(text) : i < j} \cup {Len(text) + 1})

Command(c)    == conn[c].text[conn[c].line]
InCommand(c)  == /\ At(c, "process")
                 /\ conn[c].line \in parseCommands(conn[c].text)
NextLine(c)   == Set(c, [conn[c] EXCEPT !.line = Following(conn[c].text, @),
                                        !.seen = "unread"])
OwnSub(c)     == sub[NowTask(c).list]

\* The list is looked up, the body read.
RequestBegins(c) ==
    /\ At(c, "process") /\ NowTask(c).kind = "request" /\ ~Hopeless(c)
    /\ conn[c].line = 0
    /\ NextLine(c)
    /\ UNCHANGED <<mail, mta, up, effects, faults, history>>

\* The subscription a command by the sender would change, as read.
Changes(cmd, status) ==
    \/ cmd \in {"regular", "digest", "nomail", "unsubscribe"}
          /\ status # "none"
    \/ cmd = "re-enable" /\ status = "disabled"

\* cmdSet, cmdReEnable, cmdUnsubscribe: GetSubscription; nothing to change
\* is a result like any other.
ReadSubscription(c) ==
    /\ InCommand(c) /\ conn[c].seen = "unread"
    /\ Command(c) \notin {"help", "contact"}
    /\ IF Changes(Command(c), OwnSub(c).status)
       THEN Set(c, [conn[c] EXCEPT !.seen = OwnSub(c).status])
       ELSE NextLine(c)
    /\ UNCHANGED <<mail, mta, up, effects, faults, history>>

\* The row after the command's update; a row that has gone stays away.
Changed(s, cmd) ==
    IF s.status = "none" THEN s
    ELSE CASE cmd = "unsubscribe" -> [status |-> "none", mode |-> "regular"]
           [] cmd = "re-enable"   -> [s EXCEPT !.status = "active"]
           [] OTHER               -> [s EXCEPT !.mode = cmd]

WriteSubscription(c) ==
    /\ InCommand(c) /\ conn[c].seen # "unread"
    /\ sub' = [sub EXCEPT ![NowTask(c).list] = Changed(@, Command(c))]
    /\ NextLine(c)
    /\ UNCHANGED <<mail, mta, up, reached, faults, history>>

\* Commands that change no subscription; "help" stands for all that only
\* read, and for what is no command.
OtherCommand(c) ==
    /\ InCommand(c) /\ Command(c) \in {"help", "contact"}
    /\ IF Command(c) = "contact" /\ HasContactText(conn[c].text)
       THEN ForwardToAll(conn[c].msg)
       ELSE UNCHANGED <<reached, faults, skipped>>
    /\ NextLine(c)
    /\ UNCHANGED <<mail, mta, up, sub, was, handled, failed, cut, killed,
                   unsaid, spoilt, overlooked>>

\* A failing store call makes "Could not ..." the result of the command;
\* the next one is carried out all the same.
CommandFails(c) ==
    /\ InCommand(c) /\ Command(c) # "help"
    /\ IF Command(c) = "contact" /\ HasContactText(conn[c].text)
       THEN ForwardFails(conn[c].msg) \/ ForwardSkipping(conn[c].msg)
       ELSE Fault /\ UNCHANGED <<reached, skipped>>
    /\ spoilt' = spoilt \cup {<<conn[c].msg, Now(c)>>}
    /\ NextLine(c)
    /\ UNCHANGED <<mail, mta, up, sub, was, handled, failed, cut, killed,
                   unsaid, overlooked>>

\* All results go into one reply; only its failure is an error.
RequestEnds(c) ==
    /\ At(c, "process") /\ NowTask(c).kind = "request"
    /\ conn[c].line > Len(conn[c].text)
    /\ \/ Finish(c, TRUE) /\ UNCHANGED faults
       \/ Finish(c, FALSE) /\ Fault
    /\ UNCHANGED <<mail, up, effects, was, killed, unsaid, spoilt, skipped>>
-----------------------------------------------------------------------------
(***************************************************************************)
(* The daemon                                                              *)
(***************************************************************************)

\* It stops, and every connection with it.  LMTP leaves the MTA without an
\* answer.  A relay still copying fails to write; one that waits for the
\* answer reads the end of the stream and exits with 0, for it looks only
\* for "ERR".
DaemonStops ==
    LET relays(place) ==
            {<<conn[c].msg, conn[c].asked[1]>> :
                c \in {d \in Conns : conn[d].pipe /\ conn[d].peer
                                                  /\ At(d, place)}}
        of(m, S) == {x[2] : x \in {y \in S : y[1] = m}}
        broken == relays("relay")
        silent == relays("process")
        halved == {<<conn[c].msg, Now(c)>> :
                      c \in {d \in Conns : /\ At(d, "process")
                                           /\ conn[d].line > 0
                                           /\ conn[d].pipe \/ ~conn[d].peer}}
    IN  /\ up /\ Fault
        /\ up' = FALSE
        /\ conn' = [c \in Conns |-> Free]
        /\ todo' = [m \in Msgs |-> todo[m] \ of(m, broken \cup silent)]
        /\ refused' = [m \in Msgs |-> refused[m] \cup of(m, broken)]
        /\ taken' = [m \in Msgs |-> taken[m] \cup of(m, silent)]
        /\ failed' = failed \cup broken
        /\ unsaid' = unsaid \cup silent
        /\ spoilt' = spoilt \cup halved
        /\ UNCHANGED <<mail, effects, was, handled, cut, killed, skipped,
                       overlooked>>

DaemonStarts ==
    /\ ~up /\ up' = TRUE
    /\ UNCHANGED <<mail, mta, conn, effects, faults, history>>
-----------------------------------------------------------------------------
Serve(c) == \/ Handle(c) \/ handleOwnerForward(c)
            \/ RequestBegins(c) \/ ReadSubscription(c) \/ WriteSubscription(c)
            \/ OtherCommand(c) \/ RequestEnds(c)

Converse(c) == \/ Connect(c) \/ handleData(c) \/ DataEnds(c) \/ handleQuit(c)
               \/ RelayEnds(c)
               \/ \E m \in Msgs : handleMail(c, m)
               \/ \E m \in Msgs : \E t \in Tasks(m) : handleRcpt(c, t)

Next ==
    \/ \E c \in Conns : Serve(c) \/ Converse(c) \/ Overlook(c)
                           \/ CommandFails(c) \/ Abandon(c) \/ Lose(c)
                           \/ RelayKilled(c)
    \/ \E m \in Msgs : \E t \in Tasks(m) :
          RelayFindsNoDaemon(m, t) \/ \E c \in Conns : Relay(c, m, t)
    \/ DaemonStops \/ DaemonStarts

Spec == Init /\ [][Next]_vars

\* Goroutines run on, the MTA keeps trying, the daemon is started again.
Fairness == /\ \A c \in Conns : WF_vars(Serve(c) \/ Converse(c))
            /\ WF_vars(DaemonStarts)

FairSpec == Spec /\ Fairness
-----------------------------------------------------------------------------
(***************************************************************************)
(* Properties                                                              *)
(***************************************************************************)

\* For what the MTA takes for delivered a handler ran to its end, and what it
\* delivered to the owners has a copy queued for every owner but the sender,
\* whatever connections, store calls and recipients of the same message
\* failed.  Three exceptions: a relay whose daemon stopped before it answered
\* exits 0; forwardToOwners passes over an owner whose address it cannot
\* read; and a bounce or an unsubscription is overlooked when a look-up
\* fails.  What a handler leaves out on its way to its end is the matter of
\* Posting and Membership.
TakenWasHandled ==
    \A m \in Msgs : \A t \in taken[m] :
        \/ /\ handled[<<m, t>>] > 0
           /\ t.kind = "owner" /\ Unambiguous(t) =>
                 \A o \in Others : o \in reached[m] \/ <<m, o>> \in skipped
        \/ <<m, t>> \in unsaid
        \/ /\ <<m, t>> \in overlooked
           /\ Goes[t].kind \in {"bounce", "unsubscribe"}

\* Nothing is returned to its sender unless an attempt to deliver that very
\* recipient failed; a bounce, with its null sender, is accepted like any
\* mail ("every real bounce was silently dropped", ADR 0021).
RefusedForCause ==
    \A m \in Msgs : \A t \in refused[m] : <<m, t>> \in failed

\* A handler gets the recipients its message was addressed to, and a message
\* again only when an attempt was given up without an answer: no transaction
\* leaks into the next one, no recipient is handled twice in one.
HandledOncePerAttempt ==
    \A x \in Pairs : /\ handled[x] > 0 => x[2] \in Tasks(x[1])
                     /\ handled[x] <= 1 + faults

\* Mail to an address xMailman printed comes to the handler it was printed
\* for, with the member or token it was printed with: bounces count for the
\* member whose copy bounced, whatever "+" or "@" his address has, or "=" in
\* his name (Unambiguous has the exceptions).  The Reply-To of notices is
\* another: it is meant for the owners, but names a list that is not there.
RoutedAsPrinted ==
    \A m \in Msgs : \A t \in Tasks(m) :
        Unambiguous(t) => IF t.kind = "reply" THEN Goes[t].list \notin Lists
                                              ELSE Goes[t] = t

\* No handler sees part of a message as if it were all of it, but for a
\* relay killed while it was copying.
NothingCutShort == cut \subseteq killed

\* What a command mail asks for, told without an order of execution.
Meant(s, body) ==
    LET read == {i \in DOMAIN body : "contact" \notin Range(Before(body, i))}
        asks == {body[i] : i \in read}
        sets == {i \in read : body[i] \in Modes}
    IN  IF s.status = "none" \/ "unsubscribe" \in asks
        THEN [status |-> "none", mode |-> "regular"]
        ELSE [status |-> IF "re-enable" \in asks THEN "active" ELSE s.status,
              mode |-> IF sets = {} THEN s.mode ELSE body[Max(sets)]]

\* No other mail leads to a request for the list of t.
Sole(m, t) ==
    \A n \in Msgs : \A u \in Tasks(n) :
        Goes[u].kind = "request" /\ Goes[u].list = t.list => n = m /\ u = t

\* A command mail that comes more than once, because the MTA had no answer,
\* leaves the subscription as it would have left it the first time, even when
\* two copies are carried out at the same time or the daemon stopped in the
\* middle of one; text after "contact" is no command.
RedeliveryHarmless ==
    \A m \in Msgs : \A t \in taken[m] :
        (/\ t.kind = "request" /\ Unambiguous(t) /\ Sole(m, t)
         /\ <<m, t>> \notin unsaid \cup spoilt
         /\ \A c \in Conns : At(c, "process") => conn[c].msg # m)
        => sub[t.list] = Meant(was[t.list], mail[m].body)

\* Every recipient is answered in the end: the MTA's queue drains.
EveryMailSettles == \A m \in Msgs : <>(todo[m] = {})
=============================================================================
