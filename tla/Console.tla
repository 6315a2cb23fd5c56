------------------------------- MODULE Console -------------------------------
(***************************************************************************)
(* The web server's requests that need rights: the list console, the       *)
(* server administration, the members' archive and a Subscriber's own      *)
(* subscriptions (internal/server/server.go, console.go, bounces.go,       *)
(* admin.go, audit.go), next to the command line, the mail and the sweep.  *)
(*                                                                         *)
(* A request is the sequence of store calls its handler makes, Program;    *)
(* an action is one call.  The answer of a check is a fact of that moment: *)
(* rights, lists and rows may change before the calls that rely on it.     *)
(* Ids are never used again, those of lists and subscriptions are counted. *)
(*                                                                         *)
(* Data is reduced to what the checks and writes tell apart.  Lookups of a *)
(* Subscriber, which is never deleted, are part of the call next to them;  *)
(* so are the mails a handler queues.  Details of moderation, joining and  *)
(* list creation are in Posting, Membership and ListRoles.                 *)
(***************************************************************************)
EXTENDS Naturals, Sequences, FiniteSets

CONSTANTS Handlers,     \* requests that can run at a time
          Persons,      \* Subscribers
          Addrs,        \* list addresses
          Rows,         \* held messages; also archive entries
          FiledIn,      \* the list of each of Rows, for both tables
          SenderOf,     \* the sender of each held message
          Asks,         \* the requests each of Handlers may get
          Start,        \* the database at first
          MaxLists,     \* bound: lists ever created
          MaxSubs,      \* bound: subscription rows ever inserted
          MaxEvents     \* bound: changes from outside the web server, failing
                        \* store calls, requests lost and restarts, together

ASSUME ConsoleAssumption ==
    /\ SenderOf \in [Rows -> Persons]
    /\ MaxLists \in Nat /\ FiledIn \in [Rows -> 1 .. MaxLists]
    /\ MaxSubs \in Nat /\ MaxEvents \in Nat

VARIABLES
    session,    \* Subscribers whose browser holds a live session
    management, \* the switch of web management
    admins,     \* table administrators
    lists,      \* ids in the table lists
    listIds,    \* ids given to lists
    row,        \* the columns of each list's row
    holders,    \* tables owners, moderators, designated_senders
    subs,       \* table subscriptions: one row per list and Subscriber
    subIds,     \* ids given to subscriptions
    held,       \* list of each row of held_messages, 0 when it is gone
    posts,      \* list of each row of archive_entries, 0 when it is gone
    proc,       \* the requests
    had, kept,  \* rights the caller held at some time, and all the time
    events      \* so far, for the bound

access  == <<session, management, admins>>
table   == <<lists, listIds, row>>
members == <<subs, subIds>>
mail    == <<held, posts>>
data    == <<access, table, holders, members, mail>>
vars    == <<data, proc, had, kept, events>>

Ids   == 1 .. MaxLists
Roles == {"owner", "moderator", "sender"}
Types == {"discussion", "newsletter"}
NoSub == [row |-> 0, status |-> "none", mode |-> "regular", bounces |-> 0]

\* A settings form is saved in three parts; a part is the request it is from.
NewRow(addr, type) == [addr |-> addr, type |-> type, settings |-> 0,
                       description |-> 0, instructions |-> 0]

\* op by a Subscriber, for the list at addr; who is the Subscriber concerned,
\* role the List Role, n the number in the path: a held message, an entry of
\* the archive or the list of a subscription.
Ask(op, by, addr, role, who, n) ==
    [op |-> op, by |-> by, addr |-> addr, role |-> role, who |-> who, n |-> n]

\* todo are the calls still to make; l is the list found and gated the first
\* one, copy its row as last read; owns is what IsOwner said, sub the id of the
\* subscription found.  The other fields are for the properties.
Idle == [ask |-> Ask("none", "none", "none", "none", "none", 0), todo |-> <<>>,
         l |-> 0, gated |-> 0, copy |-> NewRow("none", "none"),
         owns |-> FALSE, sub |-> 0, answer |-> "none", shown |-> {},
         wrote |-> FALSE, recorded |-> FALSE, struck |-> FALSE,
         mixed |-> FALSE]

Statuses == {"none", "pending", "held", "active", "disabled"}
RowType  == [addr : Addrs \cup {"none"}, type : Types \cup {"none"},
             settings : Handlers \cup {0}, description : Handlers \cup {0},
             instructions : Handlers \cup {0}]
SubsUpTo(n) == [row : 0 .. n, status : Statuses, mode : {"regular", "nomail"},
                bounces : 0 .. 1]

\* A subscription that is there has an id.
SubsOK(rows, n) ==
    /\ rows \in [Ids -> [Persons -> SubsUpTo(n)]]
    /\ \A i \in Ids, p \in Persons :
          (rows[i][p].row = 0) = (rows[i][p].status = "none")

\* At first the lists have the ids from 1 on, addresses of their own, and
\* forms that are whole.
ASSUME StartAssumption ==
    /\ Start.admins \subseteq Persons
    /\ Start.lists = 1 .. Cardinality(Start.lists)
    /\ Cardinality(Start.lists) \in 0 .. MaxLists
    /\ Start.row \in [Ids -> RowType]
    /\ \A i, j \in Start.lists : Start.row[i].addr = Start.row[j].addr => i = j
    /\ \A i \in Ids : Start.row[i] = NewRow(Start.row[i].addr,
                                            Start.row[i].type)
    /\ Start.holders \in [Roles -> [Ids -> SUBSET Persons]]
    /\ Start.subIds \in 0 .. MaxSubs /\ SubsOK(Start.subs, Start.subIds)
-----------------------------------------------------------------------------
(***************************************************************************)
(* Rights, for the properties                                              *)
(***************************************************************************)
IsMember(i, p) == subs[i][p].status \in {"active", "held"}

Rights == {"session", "management", "admin", "owner", "moderator", "member"}
            \X (0 .. MaxLists)

RightsOf(p) ==
    {<<"session", 0>> : x \in session \cap {p}}
    \cup {<<"admin", 0>> : x \in admins \cap {p}}
    \cup {<<"management", 0>> : x \in {TRUE} \cap {management}}
    \cup {<<"owner", i>> : i \in {j \in Ids : p \in holders["owner"][j]}}
    \cup {<<"moderator", i>> :
              i \in {j \in Ids : p \in holders["moderator"][j]}}
    \cup {<<"member", i>> : i \in {j \in Ids : IsMember(j, p)}}

Begun(h)   == proc[h].ask.op # "none"
Running(h) == Begun(h) /\ proc[h].answer = "none"

\* Every step notes the rights the callers of the running requests have.
Note ==
    /\ had' = [h \in Handlers |->
                 IF Running(h) THEN had[h] \cup RightsOf(proc[h].ask.by)
                 ELSE had[h]]
    /\ kept' = [h \in Handlers |->
                  IF Running(h) THEN kept[h] \cap RightsOf(proc[h].ask.by)
                  ELSE kept[h]]
-----------------------------------------------------------------------------
(***************************************************************************)
(* The calls of each request                                               *)
(***************************************************************************)
Self      == {"mine", "delivery", "resume", "leave"}
Moderates == {"queue", "open", "attachment", "moderate"}
Archive   == {"archives", "entry", "file"}
Instance  == {"create", "delete", "type", "designate", "dismiss", "logs"}
Reads     == Archive \cup {"mine", "queue", "open", "attachment", "roster",
                           "export", "bounces", "log", "logs"}

Ops       == Self \cup Moderates \cup Instance \cup Reads \cup
             {"grant", "revoke", "save", "add", "import", "approve", "reject",
              "remove", "reenable", "reset"}

\* Requests that name a Subscriber, a row of the list's mail, a subscription
OfPerson  == {"delivery", "resume", "leave", "grant", "revoke", "add",
              "import", "approve", "reject", "remove", "reenable", "reset",
              "create", "designate", "dismiss"}
OfRow     == {"open", "attachment", "moderate", "entry", "file"}
OfSub     == {"delivery", "resume", "leave"}

\* What a request may name
ASSUME AsksAssumption ==
    \A h \in Handlers : \A a \in Asks[h] :
        /\ a = Ask(a.op, a.by, a.addr, a.role, a.who, a.n)
        /\ a.op \in Ops /\ a.by \in Persons /\ a.addr \in Addrs \cup {"none"}
        /\ a.op \in OfPerson => a.who \in Persons
        /\ a.op \in OfRow => a.n \in Rows
        /\ a.op \in OfSub => a.n \in Ids
        /\ IF a.op \in {"grant", "revoke"} THEN a.role \in Roles
                                          ELSE a.role = "none"

\* Mutation of Gate: requireRole for all the pages of a list.
GateByRole(op) ==
    CASE op \in Self      -> <<"auth">>
      [] op \in Archive   -> <<"find", "auth", "member">>
      [] op \in Instance  -> <<"auth", "management", "admin">>
      [] OTHER -> <<"auth", "management", "find", "isOwner", "either">>

\* requireAuth, requireManagement, then the gate of the route: requireAdmin,
\* or the list and requireRole or requireOwner.  The archive finds the list
\* before it asks who the caller is; one's own subscriptions are open without
\* web management.
Gate(op) ==
    CASE op \in Self      -> <<"auth">>
      [] op \in Archive   -> <<"find", "auth", "member">>
      [] op \in Instance  -> <<"auth", "management", "admin">>
      [] op \in Moderates -> <<"auth", "management", "find", "isOwner",
                               "either">>
      [] OTHER            -> <<"auth", "management", "find", "owner">>

\* Mutation of FormParts: the instructions are forgotten.
TwoParts == <<"settings", "description">>

\* A settings form is saved with three calls.
FormParts == <<"settings", "description", "instructions">>

\* AddMember and ImportMembers are given the address and find the list again;
\* so does the deletion of a list, which the route has looked up before.
AddMember           == <<"find", "load", "insert", "activate">>
ImportMembers       == <<"find", "load", "insert", "activate">>
ApproveSubscription == <<"load", "list", "activate">>
RejectSubscription  == <<"load", "list", "unsubscribe">>
RemoveMember        == <<"load", "list", "unsubscribe">>
GrantRole           == <<"list", "setRole">>
RevokeRole(role)    == <<"list">> \o (IF role = "owner" THEN <<"guard">>
                                                       ELSE <<>>)
                                \o <<"setRole">>
handleConsoleSenders      == <<"setRole">>
handleConsoleBounceAction == [reenable |-> <<"load", "reenable">>,
                              reset    |-> <<"load", "reset">>]
handleConsoleHeldAction   == <<"load", "reload", "list", "decide">>
handleConsoleSettings     == <<"load">> \o FormParts
handleSetDelivery         == <<"load", "setMode">>
handleReEnable            == <<"load", "reenable">>
handleUnsubscribeMe       == <<"load", "unsubscribe">>
handleAdminLists          == <<"createList", "firstOwner">>
handleAdminListDelete     == <<"find", "find", "deleteList">>
handleAdminListType       == <<"find", "find", "setType">>
handleAdminAdministrators == <<"setAdmin">>

Writes(a) ==
    CASE a.op = "add"      -> AddMember
      [] a.op = "import"   -> ImportMembers
      [] a.op = "approve"  -> ApproveSubscription
      [] a.op = "reject"   -> RejectSubscription
      [] a.op = "remove"   -> RemoveMember
      [] a.op \in {"grant", "revoke"} /\ a.role = "sender" ->
            handleConsoleSenders
      [] a.op = "grant" /\ a.role # "sender"  -> GrantRole
      [] a.op = "revoke" /\ a.role # "sender" -> RevokeRole(a.role)
      [] a.op \in {"reenable", "reset"} -> handleConsoleBounceAction[a.op]
      [] a.op = "moderate" -> handleConsoleHeldAction
      [] a.op = "save"     -> handleConsoleSettings
      [] a.op = "delivery" -> handleSetDelivery
      [] a.op = "resume"   -> handleReEnable
      [] a.op = "leave"    -> handleUnsubscribeMe
      [] a.op = "create"   -> handleAdminLists
      [] a.op = "delete"   -> handleAdminListDelete
      [] a.op = "type"     -> handleAdminListType
      [] a.op \in {"designate", "dismiss"} -> handleAdminAdministrators

\* A page is one call that shows rows, or one that loads the row it is about.
handleConsoleHeldList       == <<"show">>
handleConsoleHeldDetail     == <<"load">>
handleConsoleHeldAttachment == <<"load">>
handleConsoleMembers        == <<"show">>
handleConsoleMembersExport  == <<"show">>
handleConsoleBounces        == <<"show">>
writeAuditEvents            == <<"show">>
handleArchives              == <<"show">>
handleArchiveEntry          == <<"load">>
handleArchiveAttachment     == <<"load">>
handleMyHeldPosts           == <<"show">>

Work(a) ==
    CASE a.op = "queue"      -> handleConsoleHeldList
      [] a.op = "open"       -> handleConsoleHeldDetail
      [] a.op = "attachment" -> handleConsoleHeldAttachment
      [] a.op = "roster"     -> handleConsoleMembers
      [] a.op = "export"     -> handleConsoleMembersExport
      [] a.op = "bounces"    -> handleConsoleBounces
      [] a.op \in {"log", "logs"} -> writeAuditEvents
      [] a.op = "archives"   -> handleArchives
      [] a.op = "entry"      -> handleArchiveEntry
      [] a.op = "file"       -> handleArchiveAttachment
      [] a.op = "mine"       -> handleMyHeldPosts
      [] OTHER               -> Writes(a)

\* Mutation of Trail: bounce actions leave no record.
TrailOfOthers(a) ==
    IF a.op \in Self \cup Reads \cup {"reenable", "reset"} THEN <<>>
    ELSE IF a.op \in Instance \cup {"save"} \/ a.role = "sender"
         THEN <<"audit">> ELSE <<"record">>

\* "record" is the pipeline's recordAudit, whose error is the request's, and
\* "audit" the server's, whose error is logged.
Trail(a) ==
    IF a.op \in Self \cup Reads THEN <<>>
    ELSE IF a.op \in Instance \cup {"save", "reenable", "reset"}
            \/ a.role = "sender"
         THEN <<"audit">> ELSE <<"record">>

Program(a) == Gate(a.op) \o Work(a) \o Trail(a)

\* What a request has still to do is the last part of its program.
OnWay(p) ==
    LET calls == Program(p.ask)
    IN  \E n \in 1 .. Len(calls) : p.todo = SubSeq(calls, n, Len(calls))

By(h)      == proc[h].ask.by
Op(h)      == proc[h].ask.op
Who(h)     == proc[h].ask.who
L(h)       == proc[h].l
Call(h)    == Head(proc[h].todo)
At(h, call) == Running(h) /\ Call(h) = call

Answered(p, answer) == [p EXCEPT !.answer = answer]
\* After the last call the request is answered.
Advance(p) == IF Len(p.todo) = 1 THEN Answered(p, "ok")
                                 ELSE [p EXCEPT !.todo = Tail(@)]
\* An import goes on to its record.
ToRecord(p) == [p EXCEPT !.todo = <<"record">>]

Goto(h, p)        == proc' = [proc EXCEPT ![h] = p] /\ Note
Answer(h, answer) == Goto(h, Answered(proc[h], answer))
Proceed(h)          == Goto(h, Advance(proc[h]))
\* A write went through, whether or not it found a row.
Wrote(h)          == Goto(h, Advance([proc[h] EXCEPT !.wrote = TRUE]))

Begin(h) ==
    /\ ~Begun(h)
    /\ \E a \in Asks[h] : Goto(h, [Idle EXCEPT !.ask = a, !.todo = Program(a)])
    /\ UNCHANGED <<data, events>>
-----------------------------------------------------------------------------
(***************************************************************************)
(* Gates                                                                   *)
(***************************************************************************)
requireAuth(h)       == By(h) \in session
requireManagement(h) == management
requireAdmin(h)      == By(h) \in admins
requireOwner(h)      == By(h) \in holders["owner"][L(h)]
requireMember(h)     == IsMember(L(h), By(h))
\* Both roles have been asked for, and either passes.
requireRole(h)       == proc[h].owns \/ By(h) \in holders["moderator"][L(h)]

\* Mutation of Allowed: requireRole wants both roles.
AllowedAll(h) ==
    CASE Call(h) = "auth"       -> requireAuth(h)
      [] Call(h) = "management" -> requireManagement(h)
      [] Call(h) = "admin"      -> requireAdmin(h)
      [] Call(h) = "owner"      -> requireOwner(h)
      [] Call(h) = "member"     -> requireMember(h)
      [] Call(h) = "either"     -> proc[h].owns /\ requireRole(h)

\* What the gates ask of the caller
Allowed(h) ==
    CASE Call(h) = "auth"       -> requireAuth(h)
      [] Call(h) = "management" -> requireManagement(h)
      [] Call(h) = "admin"      -> requireAdmin(h)
      [] Call(h) = "owner"      -> requireOwner(h)
      [] Call(h) = "member"     -> requireMember(h)
      [] Call(h) = "either"     -> requireRole(h)

Gates == {"auth", "management", "admin", "owner", "member", "either"}

Check(h) ==
    /\ Running(h) /\ Call(h) \in Gates
    /\ IF Allowed(h) THEN Proceed(h) ELSE Answer(h, "denied")
    /\ UNCHANGED <<data, events>>

IsOwner(h) ==
    /\ At(h, "isOwner")
    /\ Goto(h, Advance([proc[h] EXCEPT
                           !.owns = By(h) \in holders["owner"][L(h)]]))
    /\ UNCHANGED <<data, events>>

\* GetList.  CreateList and Save keep addresses apart.
Find(h) ==
    /\ At(h, "find")
    /\ LET Here == {i \in lists : row[i].addr = proc[h].ask.addr}
       IN \/ Here = {} /\ Answer(h, "rejected")
          \/ \E i \in Here :
               LET gate == IF proc[h].gated = 0 THEN i ELSE proc[h].gated
               IN Goto(h, Advance([proc[h] EXCEPT !.l = i, !.gated = gate,
                                                  !.copy = row[i]]))
    /\ UNCHANGED <<data, events>>
-----------------------------------------------------------------------------
(***************************************************************************)
(* Reading what the request is about                                       *)
(***************************************************************************)

\* The subscription a request is about: the member of the list found, or the
\* one with the id in the path.
SubList(h) == IF Op(h) \in Self THEN proc[h].ask.n ELSE L(h)
Sub(h)     == subs[SubList(h)][Who(h)]
OfHeld(h)  == Op(h) \in {"open", "attachment", "moderate"}
OfPost(h)  == Op(h) \in {"entry", "file"}

\* Mutation of Fits: handleMySubscription does not ask whose it is.
FitsAnyone(h) ==
    CASE OfHeld(h) -> held[proc[h].ask.n] = L(h)
      [] OfPost(h) -> posts[proc[h].ask.n] = L(h)
      [] Op(h) = "add"   -> Sub(h).status = "none"
      [] Op(h) = "save"  -> L(h) \in lists
      [] OTHER           -> Sub(h).status # "none"

\* What a handler asks of the row it loads: that the message is of this list
\* (heldMessageForList, handleArchiveEntry) and the subscription the caller's
\* own (handleMySubscription), and the statuses the actions are for.
Fits(h) ==
    CASE OfHeld(h) -> held[proc[h].ask.n] = L(h)
      [] OfPost(h) -> posts[proc[h].ask.n] = L(h)
      [] Op(h) \in {"delivery", "leave"} ->
            Who(h) = By(h) /\ Sub(h).status # "none"
      [] Op(h) = "resume" -> Who(h) = By(h) /\ Sub(h).status = "disabled"
      [] Op(h) = "reenable"            -> Sub(h).status = "disabled"
      [] Op(h) \in {"remove", "reset"} -> Sub(h).status # "none"
      [] Op(h) \in {"approve", "reject"} -> Sub(h).status = "held"
      [] Op(h) = "add"                 -> Sub(h).status = "none"
      [] Op(h) = "save"                -> L(h) \in lists

\* UpdateListSettings reads the whole row here that it saves in its next call.
\* An import skips the address that has a subscription.
Load(h) ==
    /\ At(h, "load")
    /\ \/ /\ Op(h) = "import"
          /\ IF Sub(h).status = "none" THEN Proceed(h)
             ELSE Goto(h, ToRecord(proc[h]))
       \/ /\ Op(h) # "import"
          /\ Fits(h)
          /\ LET read == [proc[h] EXCEPT
                   !.sub   = IF OfHeld(h) \/ OfPost(h) \/ Op(h) = "save"
                             THEN 0 ELSE Sub(h).row,
                   !.copy  = IF Op(h) = "save" THEN row[L(h)] ELSE @,
                   !.shown = IF Op(h) = "moderate" THEN {}
                             ELSE IF OfHeld(h) THEN {<<"held", proc[h].ask.n>>}
                             ELSE IF OfPost(h) THEN {<<"post", proc[h].ask.n>>}
                             ELSE {}]
             IN Goto(h, Advance(read))
       \/ /\ Op(h) # "import"
          /\ ~Fits(h)
          /\ Answer(h, "rejected")
    /\ UNCHANGED <<data, events>>

\* heldContext loads the message again, and may find that it has expired.
Reload(h) ==
    /\ At(h, "reload")
    /\ \/ held[proc[h].ask.n] # 0 /\ Proceed(h)
       \/ Answer(h, "rejected")
    /\ UNCHANGED <<data, events>>

\* GetListByID
LoadList(h) ==
    /\ At(h, "list")
    /\ IF L(h) \in lists THEN Proceed(h) ELSE Answer(h, "rejected")
    /\ UNCHANGED <<data, events>>

\* The last-owner guard of RevokeRole
Guard(h) ==
    /\ At(h, "guard")
    /\ IF holders["owner"][L(h)] = {Who(h)} THEN Answer(h, "rejected")
                                            ELSE Proceed(h)
    /\ UNCHANGED <<data, events>>

\* The held messages of a list, its members and settings, its archive, audit
\* events of a list or all, one's own held posts
Contents(h) ==
    CASE Op(h) = "queue"  -> {<<"held", r>> :
                                r \in {x \in Rows : held[x] = L(h)}}
      [] Op(h) \in {"roster", "export", "bounces"} -> {<<"members", L(h)>>}
      [] Op(h) = "log"  -> {<<"log", L(h)>>}
      [] Op(h) = "logs" -> {<<"log", 0>>}
      [] Op(h) = "archives" -> {<<"post", r>> :
                                  r \in {x \in Rows : posts[x] = L(h)}}
      [] Op(h) = "mine"   -> {<<"held", r>> : r \in {x \in Rows :
                                SenderOf[x] = By(h) /\ held[x] \in lists}}

Show(h) ==
    /\ At(h, "show")
    /\ Goto(h, Advance([proc[h] EXCEPT !.shown = Contents(h)]))
    /\ UNCHANGED <<data, events>>
-----------------------------------------------------------------------------
(***************************************************************************)
(* Writes                                                                  *)
(***************************************************************************)

\* List Roles, and the Designated Senders, which only a newsletter has: the
\* type is the one found with the list.
SetRole(h) ==
    /\ At(h, "setRole")
    /\ LET role == proc[h].ask.role
       IN \/ /\ role = "sender" /\ proc[h].copy.type # "newsletter"
             /\ Answer(h, "rejected")
             /\ UNCHANGED holders
          \/ /\ role # "sender" \/ proc[h].copy.type = "newsletter"
             /\ holders' = [holders EXCEPT ![role][L(h)] =
                              IF Op(h) = "grant" THEN @ \cup {Who(h)}
                                                 ELSE @ \ {Who(h)}]
             /\ Wrote(h)
    /\ UNCHANGED <<access, table, members, mail, events>>

\* ApproveHeld, RejectHeld or DiscardHeld: the message leaves the queue.
Decide(h) ==
    /\ At(h, "decide")
    /\ held' = [held EXCEPT ![proc[h].ask.n] = 0]
    /\ Wrote(h)
    /\ UNCHANGED <<access, table, holders, members, posts, events>>

\* CreateSubscription; a list has one row of a Subscriber.
InsertSub(h) ==
    /\ At(h, "insert")
    /\ \/ /\ Sub(h).status = "none"
          /\ subIds < MaxSubs
          /\ subIds' = subIds + 1
          /\ subs' = [subs EXCEPT ![L(h)][Who(h)] =
                        [NoSub EXCEPT !.row = subIds', !.status = "pending"]]
          /\ Goto(h, Advance([proc[h] EXCEPT !.wrote = TRUE, !.sub = subIds']))
       \/ /\ Sub(h).status # "none"
          /\ IF Op(h) = "import" THEN Goto(h, ToRecord(proc[h]))
                                 ELSE Answer(h, "rejected")
          /\ UNCHANGED members
    /\ UNCHANGED <<access, table, holders, mail, events>>

Updated(sub, call) ==
    CASE call = "activate" -> [sub EXCEPT !.status = "active"]
      [] call = "reenable" -> [sub EXCEPT !.status = "active", !.bounces = 0]
      [] call = "reset"    -> [sub EXCEPT !.bounces = 0]
      [] call = "setMode"  -> [sub EXCEPT !.mode = "nomail"]

\* Updates are by the id of the subscription, if it is still there.
UpdateSub(h) ==
    /\ Running(h)
    /\ Call(h) \in {"activate", "reenable", "reset", "setMode"}
    /\ IF Sub(h).row = proc[h].sub
       THEN subs' = [subs EXCEPT ![SubList(h)][Who(h)] = Updated(@, Call(h))]
       ELSE UNCHANGED subs
    /\ Wrote(h)
    /\ UNCHANGED <<access, table, holders, subIds, mail, events>>

\* DeleteSubscription is by list and Subscriber.
Unsubscribe(h) ==
    /\ At(h, "unsubscribe")
    /\ subs' = [subs EXCEPT ![SubList(h)][Who(h)] = NoSub]
    /\ Wrote(h)
    /\ UNCHANGED <<access, table, holders, subIds, mail, events>>

FormCalls == {"settings", "description", "instructions"}
Saving(h) == Running(h) /\ Call(h) \in FormCalls

SavedPart(h) ==
    LET other == \E g \in Handlers \ {h} : Saving(g) /\ L(g) = L(h)
    IN /\ proc' = [g \in Handlers |->
            IF g = h THEN Advance([proc[h] EXCEPT !.wrote = TRUE,
                                                  !.mixed = @ \/ other])
            ELSE IF Saving(g) /\ L(g) = L(h)
            THEN [proc[g] EXCEPT !.mixed = TRUE] ELSE proc[g]]
       /\ Note

\* The settings are saved with the whole row as it was read, which Save inserts
\* if it is gone and the address free; the other two parts are updates of a
\* column by the list's id.
SaveForm(h) ==
    /\ Saving(h)
    /\ LET i == L(h)
           Taken == \E j \in lists \ {i} : row[j].addr = row[i].addr
       IN \/ /\ Call(h) = "settings" /\ i \notin lists /\ Taken
             /\ Answer(h, "failed")
             /\ UNCHANGED <<lists, row>>
          \/ /\ Call(h) = "settings" /\ (i \in lists \/ ~Taken)
             /\ lists' = lists \cup {i}
             /\ row' = [row EXCEPT ![i] = [proc[h].copy EXCEPT !.settings = h]]
             /\ SavedPart(h)
          \/ /\ Call(h) # "settings"
             /\ row' = IF i \in lists THEN [row EXCEPT ![i][Call(h)] = h]
                                      ELSE row
             /\ SavedPart(h)
             /\ UNCHANGED lists
    /\ UNCHANGED <<access, listIds, holders, members, mail, events>>

\* Mutation of CreateList: no unique index on the address.
CreateAnyway(h) ==
    /\ At(h, "createList")
    /\ listIds < MaxLists
    /\ listIds' = listIds + 1
    /\ lists' = lists \cup {listIds'}
    /\ row' = [row EXCEPT ![listIds'] =
                 NewRow(proc[h].ask.addr, "discussion")]
    /\ Goto(h, Advance([proc[h] EXCEPT !.l = listIds', !.wrote = TRUE]))
    /\ UNCHANGED <<access, holders, members, mail, events>>

\* CreateList; the address is unique.
CreateList(h) ==
    /\ At(h, "createList")
    /\ \/ /\ \E i \in lists : row[i].addr = proc[h].ask.addr
          /\ Answer(h, "rejected")
          /\ UNCHANGED table
       \/ /\ \A i \in lists : row[i].addr # proc[h].ask.addr
          /\ listIds < MaxLists
          /\ listIds' = listIds + 1
          /\ lists' = lists \cup {listIds'}
          /\ row' = [row EXCEPT ![listIds'] =
                       NewRow(proc[h].ask.addr, "discussion")]
          /\ Goto(h, Advance([proc[h] EXCEPT !.l = listIds', !.wrote = TRUE]))
    /\ UNCHANGED <<access, holders, members, mail, events>>

FirstOwner(h) ==
    /\ At(h, "firstOwner")
    /\ holders' = [holders EXCEPT !["owner"][L(h)] = @ \cup {Who(h)}]
    /\ Wrote(h)
    /\ UNCHANGED <<access, table, members, mail, events>>

\* One transaction removes a list and its rows.
RemoveList(i) ==
    /\ lists' = lists \ {i}
    /\ holders' = [r \in Roles |-> [holders[r] EXCEPT ![i] = {}]]
    /\ subs' = [subs EXCEPT ![i] = [p \in Persons |-> NoSub]]
    /\ held' = [r \in Rows |-> IF held[r] = i THEN 0 ELSE held[r]]
    /\ posts' = [r \in Rows |-> IF posts[r] = i THEN 0 ELSE posts[r]]
    /\ UNCHANGED <<access, listIds, row, subIds>>

\* DeleteList finds the list by its address once more.
DeleteList(h) ==
    /\ At(h, "deleteList")
    /\ \/ /\ \A i \in lists : row[i].addr # proc[h].ask.addr
          /\ Answer(h, "failed")
          /\ UNCHANGED data
       \/ \E i \in lists : /\ row[i].addr = proc[h].ask.addr
                           /\ RemoveList(i)
                           /\ Wrote(h)
    /\ UNCHANGED events

SetType(h) ==
    /\ At(h, "setType")
    /\ \E t \in Types : row' = IF L(h) \in lists
                              THEN [row EXCEPT ![L(h)].type = t] ELSE row
    /\ Wrote(h)
    /\ UNCHANGED <<access, lists, listIds, holders, members, mail, events>>

SetAdmin(h) ==
    /\ At(h, "setAdmin")
    /\ admins' = IF Op(h) = "designate" THEN admins \cup {Who(h)}
                                        ELSE admins \ {Who(h)}
    /\ Wrote(h)
    /\ UNCHANGED <<session, management, table, holders, members, mail, events>>

Record(h) ==
    /\ Running(h) /\ Call(h) \in {"record", "audit"}
    /\ Goto(h, Advance([proc[h] EXCEPT !.recorded = TRUE]))
    /\ UNCHANGED <<data, events>>
-----------------------------------------------------------------------------
(***************************************************************************)
(* Failing calls and restarts                                              *)
(***************************************************************************)

\* Gates fail closed: an error counts as no.  What is loaded counts as not
\* found, but for the subscription an address may have: an error there is
\* taken for none.  An error of the server's audit, or of the new list's first
\* owner, is logged; an import counts the address and goes on to its record.
AfterError(h) ==
    LET p == [proc[h] EXCEPT !.struck = TRUE]
    IN CASE Call(h) \in Gates -> Answered(p, "denied")
         [] Call(h) \in {"isOwner", "audit", "firstOwner"} -> Advance(p)
         [] Call(h) = "load" /\ Op(h) \in {"add", "import"} -> Advance(p)
         [] Call(h) = "insert" /\ Op(h) = "import" -> ToRecord(p)
         [] Call(h) = "activate" /\ Op(h) = "import" -> Advance(p)
         [] Call(h) \in {"find", "list"} -> Answered(p, "rejected")
         [] Call(h) = "load" /\ Op(h) \notin {"add", "import"} ->
               Answered(p, "rejected")
         [] OTHER -> Answered(p, "failed")

Fault(h) ==
    /\ Running(h)
    /\ events < MaxEvents
    /\ events' = events + 1
    /\ Goto(h, AfterError(h))
    /\ UNCHANGED data

Lost(p) == [Answered(p, "lost") EXCEPT !.struck = TRUE]

\* The browser goes away: all further calls fail, as they use the request's
\* context, that of the audit event included.
HangUp(h) ==
    /\ Running(h)
    /\ events < MaxEvents
    /\ events' = events + 1
    /\ Goto(h, Lost(proc[h]))
    /\ UNCHANGED data

\* The daemon stops: requests under way are lost.  Sessions are rows.
Restart ==
    /\ events < MaxEvents
    /\ events' = events + 1
    /\ proc' = [h \in Handlers |-> IF Running(h) THEN Lost(proc[h])
                                               ELSE proc[h]]
    /\ Note
    /\ UNCHANGED data
-----------------------------------------------------------------------------
(***************************************************************************)
(* What else changes the tables: the command line, mail, the sweep         *)
(***************************************************************************)
Change ==
    /\ events < MaxEvents
    /\ events' = events + 1
    /\ UNCHANGED proc
    /\ Note

\* enable management, disable management
SwitchManagement ==
    /\ Change
    /\ management' = ~management
    /\ UNCHANGED <<session, admins, table, holders, members, mail>>

\* A logout, an expired session, or all sessions ended by disable login
EndSession(p) ==
    /\ Change
    /\ p \in session
    /\ session' = session \ {p}
    /\ UNCHANGED <<management, admins, table, holders, members, mail>>

\* admin add, admin remove
CommandAdmin(p) ==
    /\ Change
    /\ admins' = IF p \in admins THEN admins \ {p} ELSE admins \cup {p}
    /\ UNCHANGED <<session, management, table, holders, members, mail>>

\* owner add, owner remove, moderator add, moderator remove
CommandRole(r, i, p) ==
    /\ Change
    /\ i \in lists
    /\ holders' = [holders EXCEPT ![r][i] = IF p \in @ THEN @ \ {p}
                                                     ELSE @ \cup {p}]
    /\ UNCHANGED <<access, table, members, mail>>

\* list delete
CommandDelete(i) ==
    /\ Change
    /\ i \in lists
    /\ RemoveList(i)

\* An unsubscribe command, or a bounce that disables the subscription
MailSub(i, p) ==
    /\ Change
    /\ subs[i][p].status # "none"
    /\ \/ subs' = [subs EXCEPT ![i][p] = NoSub]
       \/ subs' = [subs EXCEPT ![i][p].status = "disabled",
                               ![i][p].bounces = 1]
    /\ UNCHANGED <<access, table, holders, subIds, mail>>

\* An expired message is swept, or decided upon by mail.
DropHeld(r) ==
    /\ Change
    /\ held[r] # 0
    /\ held' = [held EXCEPT ![r] = 0]
    /\ UNCHANGED <<access, table, holders, members, posts>>
Init ==
    /\ session = Persons /\ management = TRUE
    /\ admins = Start.admins
    /\ lists = Start.lists /\ listIds = Cardinality(Start.lists)
    /\ row = Start.row
    /\ holders = Start.holders
    /\ subs = Start.subs /\ subIds = Start.subIds
    /\ held = FiledIn /\ posts = FiledIn
    /\ proc = [h \in Handlers |-> Idle]
    /\ had = [h \in Handlers |-> {}] /\ kept = [h \in Handlers |-> Rights]
    /\ events = 0

Step(h) ==
    \/ Begin(h) \/ Check(h) \/ IsOwner(h) \/ Find(h) \/ Load(h) \/ Reload(h)
    \/ LoadList(h) \/ Guard(h) \/ Show(h) \/ SetRole(h) \/ Decide(h)
    \/ InsertSub(h) \/ UpdateSub(h) \/ Unsubscribe(h) \/ SaveForm(h)
    \/ CreateList(h) \/ FirstOwner(h) \/ DeleteList(h) \/ SetType(h)
    \/ SetAdmin(h) \/ Record(h)

Outside ==
    \/ SwitchManagement
    \/ \E p \in Persons : EndSession(p) \/ CommandAdmin(p)
    \/ \E p \in Persons, i \in Ids :
         MailSub(i, p) \/ \E r \in {"owner", "moderator"} : CommandRole(r, i, p)
    \/ \E i \in Ids : CommandDelete(i)
    \/ \E r \in Rows : DropHeld(r)

Next ==
    \/ \E h \in Handlers : Step(h) \/ Fault(h) \/ HangUp(h)
    \/ Restart
    \/ Outside

Spec == Init /\ [][Next]_vars
-----------------------------------------------------------------------------
(***************************************************************************)
(* Properties                                                              *)
(***************************************************************************)
\* Types of the variables, and: no two lists have the same address.
CTypeOK ==
    /\ session \subseteq Persons /\ management \in BOOLEAN
    /\ admins \subseteq Persons
    /\ listIds \in 0 .. MaxLists /\ lists \subseteq 1 .. listIds
    /\ row \in [Ids -> RowType]
    /\ \A i, j \in lists : row[i].addr = row[j].addr => i = j
    /\ holders \in [Roles -> [Ids -> SUBSET Persons]]
    /\ subIds \in 0 .. MaxSubs /\ SubsOK(subs, subIds)
    /\ \A r \in Rows : {held[r], posts[r]} \subseteq {0, FiledIn[r]}
    /\ \A h \in Handlers :
         /\ Begun(h) => proc[h].ask \in Asks[h]
         /\ proc[h].answer \in {"none", "ok", "denied", "rejected", "failed",
                                "lost"}
         /\ Begun(h) => OnWay(proc[h])
         /\ proc[h].l \in 0 .. listIds /\ proc[h].sub \in 0 .. subIds
    /\ events \in 0 .. MaxEvents

Signed       == {<<"session", 0>>}
Managing     == Signed \cup {<<"management", 0>>}
AsAdmin      == Managing \cup {<<"admin", 0>>}
AsOwner(i)     == Managing \cup {<<"owner", i>>}
AsModerator(i) == Managing \cup {<<"moderator", i>>}
AsMember(i)    == Signed \cup {<<"member", i>>}

\* One of the sets of rights was held, though perhaps not at the same time.
Held(h, ways) == \E w \in ways : w \subseteq had[h]

\* The gate was that of a list deleted since, the work is on the new list at
\* its address (AddMember and ImportMembers look the list up again).
AtReusedAddress(h, i) ==
    /\ Op(h) \in {"add", "import"}
    /\ proc[h].gated # i /\ row[proc[h].gated].addr = row[i].addr
    /\ AsOwner(proc[h].gated) \subseteq had[h]

\* The request's own step
Moves(h) == /\ Running(h)
            /\ <<proc[h].todo, proc[h].answer>>'
                 # <<proc[h].todo, proc[h].answer>>

Gone(i) == i \in lists /\ i \notin lists'
Came(i) == i \notin lists /\ i \in lists'

\* ADR 0016 and 0017: whatever a request changes, its caller had the right to
\* at some time while it ran: held messages as an owner or a moderator of that
\* very list, its roles, members and form as an owner, the existence and type
\* of lists and the Administrators as an Administrator, one's own subscription
\* whoever one is; all but the last with web management on.  But an owner who
\* saves settings brings back the type, or the list, as it was read; and see
\* AtReusedAddress.
ActsWithinRights ==
    [][\A h \in Handlers : Moves(h) =>
        /\ admins' # admins => Held(h, {AsAdmin})'
        /\ \A i \in Ids :
             /\ Gone(i) => Held(h, {AsAdmin})'
             /\ Came(i) => Held(h, {AsAdmin, AsOwner(i)})'
             /\ row'[i].type # row[i].type =>
                  \/ Held(h, {AsAdmin})'
                  \/ Held(h, {AsOwner(i)})' /\ row'[i].type = proc[h].copy.type
             /\ ~Gone(i) =>
                  /\ \A c \in FormCalls :
                       row'[i][c] # row[i][c] =>
                         Held(h, {AsOwner(i)})' \/ Came(i)
                  /\ \A r \in Roles :
                       holders'[r][i] # holders[r][i] =>
                         Held(h, {IF Op(h) = "create" THEN AsAdmin
                                                      ELSE AsOwner(i)})'
                  /\ \A r \in Rows :
                       FiledIn[r] = i /\ held'[r] # held[r] =>
                         Held(h, {AsOwner(i), AsModerator(i)})'
                  /\ \A p \in Persons :
                       subs'[i][p] # subs[i][p] =>
                         \/ Held(h, {AsOwner(i)})'
                         \/ p = By(h) /\ Held(h, {Signed})'
                         \/ AtReusedAddress(h, i)']_vars

\* What a request shows, its caller had the right to see: a list's members and
\* settings as an owner ("member addresses stay private to Owners", ADR 0016),
\* a held message as an owner, a moderator or its sender, an entry of the
\* archive as a member of that list, audit events as its owner, all of them as
\* an Administrator.
SeesWithinRights ==
    \A h \in Handlers : \A x \in proc[h].shown :
       CASE x = <<"log", 0>> -> Held(h, {AsAdmin})
         [] x[1] \in {"members", "log"} /\ x[2] # 0 -> Held(h, {AsOwner(x[2])})
         [] x[1] = "post" -> Held(h, {AsMember(FiledIn[x[2]])})
         [] x[1] = "held" ->
              \/ Held(h, {AsOwner(FiledIn[x[2]]), AsModerator(FiledIn[x[2]])})
              \/ SenderOf[x[2]] = By(h) /\ Held(h, {Signed})

Enough(h) ==
    CASE Op(h) \in Self      -> {Signed}
      [] Op(h) \in Archive   -> {AsMember(L(h))}
      [] Op(h) \in Instance  -> {AsAdmin}
      [] Op(h) \in Moderates -> {AsOwner(L(h)), AsModerator(L(h))}
      [] OTHER               -> {AsOwner(L(h))}

\* A request is turned down with 401 or 403 only when no store call failed and
\* no set of rights that is enough was held all the while it ran.
NoneDeniedWrongly ==
    \A h \in Handlers :
       proc[h].answer = "denied" =>
          proc[h].struck \/ \A w \in Enough(h) : ~(w \subseteq kept[h])

\* ADR 0018: an owner's, moderator's or Administrator's change is on record
\* when its request ends, unless a store call failed or the request was lost;
\* and no request that was turned down leaves a record or a change.
ChangesRecorded ==
    \A h \in Handlers :
       /\ proc[h].wrote /\ ~Running(h) /\ Op(h) \notin Self
             => proc[h].recorded \/ proc[h].struck
       /\ proc[h].answer \in {"denied", "rejected"}
             => ~proc[h].wrote /\ ~proc[h].recorded

\* The three parts of a list's form are of one request, unless a save is under
\* way, was cut short, or met another one.
FormIsWhole ==
    \A i \in lists :
       \/ row[i].settings = row[i].description
             /\ row[i].settings = row[i].instructions
       \/ \E h \in Handlers :
            /\ Op(h) = "save" /\ L(h) = i /\ proc[h].wrote
            /\ Running(h) \/ proc[h].struck \/ proc[h].mixed
=============================================================================
