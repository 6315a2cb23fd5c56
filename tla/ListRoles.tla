------------------------------ MODULE ListRoles ------------------------------
(***************************************************************************)
(* Creating and deleting a list, granting and revoking roles on it and     *)
(* saving its settings, from the web and from the command line             *)
(* (internal/server/admin.go, console.go, internal/mail/admin.go, cmd).    *)
(*                                                                         *)
(* One address, at which lists are created and deleted in turn, in one     *)
(* domain, which can be removed and added.  Rows have ids; handlers find   *)
(* a list by its address and then work on its id.  As in the other modules *)
(* an action is one store call, a handler keeps in proc what it has read.  *)
(*                                                                         *)
(* Who calls is abstracted: a web request is let through when somebody     *)
(* holds the owner role it needs, and Administrators are always at hand.   *)
(* List types, the texts and the audit events are left out.                *)
(***************************************************************************)
EXTENDS Naturals, FiniteSets

CONSTANTS Handlers,     \* requests and commands that can run at a time
          Persons,      \* Subscribers
          Roles,        \* of "owner", "moderator", "sender"
          Ops,          \* of "grant", "revoke", "save", "create", "delete"
          Vias,         \* of "web", "command"
          MaxLists,     \* bound: lists created
          MaxDomains,   \* bound: times the domain is added
          MaxFaults     \* bound: failing store calls, stops of the daemon

ASSUME RolesAssumption ==
    /\ Roles \subseteq {"owner", "moderator", "sender"} /\ "owner" \in Roles
    /\ Ops \subseteq {"grant", "revoke", "save", "create", "delete"}
    /\ Vias \subseteq {"web", "command"}
    /\ MaxLists \in Nat /\ MaxDomains \in Nat
    /\ MaxFaults \in Nat

VARIABLES
    domain,     \* id of the domain's row, 0: there is none
    domainIds,  \* ids given to domains
    lists,      \* ids in the table lists
    listIds,    \* ids given to lists
    home,       \* domain_id of each list
    holders,    \* tables owners, moderators, designated_senders
    proc,       \* the handlers
    failures, crashes,  \* so far, for the bound
    late        \* lists for which a role was inserted after their deletion

table  == <<domain, domainIds, lists, listIds, home>>
bounds == <<failures, crashes>>
vars   == <<table, holders, proc, bounds, late>>

Ids     == 1 .. MaxLists
NoRoles == [r \in Roles |-> {}]

\* l is the id of the list worked on, d that of the domain looked up, who the
\* Subscriber concerned, seen the owners the last-owner guard has read.
Request(at, op, via, role, who, l, d) ==
    [at |-> at, op |-> op, via |-> via, role |-> role, who |-> who, l |-> l,
     d |-> d, seen |-> {}]

Idle == Request("idle", "none", "none", "none", {}, 0, 0)

Places == {"idle", "authorize", "reload", "guard", "write", "load", "saveRow",
           "insert", "first", "delete"}

LTypeOK ==
    /\ domainIds \in 0 .. MaxDomains /\ domain \in 0 .. domainIds
    /\ listIds \in 0 .. MaxLists /\ lists \subseteq 1 .. listIds
    /\ home \in [Ids -> 0 .. domainIds]
    /\ \A l \in Ids : home[l] = 0 <=> l > listIds
    /\ holders \in [Ids -> [Roles -> SUBSET Persons]]
    /\ proc \in [Handlers -> [at : Places, op : Ops \cup {"none"},
                              via : Vias \cup {"none"},
                              role : Roles \cup {"none"},
                              who : SUBSET Persons, l : 0 .. listIds,
                              d : 0 .. domainIds, seen : SUBSET Persons]]
    /\ failures \in Nat /\ crashes \in Nat
    /\ failures + crashes \in 0 .. MaxFaults
    /\ late \subseteq 1 .. listIds

Init ==
    /\ domain = 0 /\ domainIds = 0
    /\ lists = {} /\ listIds = 0
    /\ home = [l \in Ids |-> 0]
    /\ holders = [l \in Ids |-> NoRoles]
    /\ proc = [h \in Handlers |-> Idle]
    /\ failures = 0 /\ crashes = 0
    /\ late = {}

At(h, place) == proc[h].at = place
Goto(h, place) == proc' = [proc EXCEPT ![h].at = place]
Done(h)      == proc' = [proc EXCEPT ![h] = Idle]

\* GetList and GetListByID join the domain: a list whose domain is gone is
\* not found.
Reachable == {l \in lists : home[l] = domain}
-----------------------------------------------------------------------------
(***************************************************************************)
(* Domains, one call each                                                  *)
(***************************************************************************)
CreateDomain ==
    /\ domain = 0
    /\ domainIds < MaxDomains
    /\ domainIds' = domainIds + 1
    /\ domain' = domainIds'
    /\ UNCHANGED <<lists, listIds, home, holders, proc, bounds, late>>

\* There is no check for lists in it.
DeleteDomain ==
    /\ domain # 0
    /\ domain' = 0
    /\ UNCHANGED <<domainIds, lists, listIds, home, holders, proc, bounds,
                   late>>
-----------------------------------------------------------------------------
(***************************************************************************)
(* Roles                                                                   *)
(***************************************************************************)

\* Owner and moderator changes go through GrantRole and RevokeRole, but for
\* the command "owner", which calls the store; so do the senders' handlers.
FirstCall(op, via, role) ==
    IF op = "save" THEN "load"
    ELSE IF role = "sender" \/ (role = "owner" /\ via = "command") THEN "write"
    ELSE "reload"

\* A change of a list begins with GetList.
ChangeRole(h) ==
    /\ At(h, "idle")
    /\ \E op \in Ops \cap {"grant", "revoke"}, via \in Vias, role \in Roles,
          p \in Persons, l \in Reachable :
         proc' = [proc EXCEPT ![h] =
                    Request(IF via = "web" THEN "authorize"
                            ELSE FirstCall(op, via, role),
                            op, via, role, {p}, l, 0)]
    /\ UNCHANGED <<table, holders, bounds, late>>

\* Settings are read and saved with the list's whole row.
ChangeSettings(h) ==
    /\ At(h, "idle")
    /\ "save" \in Ops
    /\ \E via \in Vias, l \in Reachable :
         proc' = [proc EXCEPT ![h] =
                    Request(IF via = "web" THEN "authorize" ELSE "load",
                            "save", via, "none", {}, l, 0)]
    /\ UNCHANGED <<table, holders, bounds, late>>

\* requireOwner: the caller is an owner, or is not and is refused.
Authorize(h) ==
    /\ At(h, "authorize")
    /\ \/ /\ holders[proc[h].l]["owner"] # {}
          /\ Goto(h, FirstCall(proc[h].op, "web", proc[h].role))
       \/ Done(h)
    /\ UNCHANGED <<table, holders, bounds, late>>

NeedsGuard(h) == proc[h].op = "revoke" /\ proc[h].role = "owner"

\* GetListByID
Reload(h) ==
    /\ At(h, "reload")
    /\ \/ /\ proc[h].l \in Reachable
          /\ Goto(h, IF NeedsGuard(h) THEN "guard" ELSE "write")
       \/ proc[h].l \notin Reachable /\ Done(h)
    /\ UNCHANGED <<table, holders, bounds, late>>

\* Mutation of LastOwner: the guard asks whether one owner is left, and not
\* whether that is who is to go.
NoOwner(l, p) == holders[l]["owner"] = {}

LastOwner(l, p) == holders[l]["owner"] = p

\* ListOwners, and the guard.
Guard(h) ==
    /\ At(h, "guard")
    /\ \/ LastOwner(proc[h].l, proc[h].who) /\ Done(h)
       \/ /\ ~LastOwner(proc[h].l, proc[h].who)
          /\ proc' = [proc EXCEPT ![h].at = "write",
                                  ![h].seen = holders[proc[h].l]["owner"]]
    /\ UNCHANGED <<table, holders, bounds, late>>

Insert(l, role, p) ==
    /\ holders' = [holders EXCEPT ![l][role] = @ \cup p]
    /\ late' = IF l \in lists THEN late ELSE late \cup {l}

\* AddOwner, RemoveOwner and their like: by id, whether or not there is
\* such a list.
Write(h) ==
    /\ At(h, "write")
    /\ LET l == proc[h].l  role == proc[h].role IN
         \/ proc[h].op = "grant" /\ Insert(l, role, proc[h].who)
         \/ /\ proc[h].op = "revoke"
            /\ holders' = [holders EXCEPT ![l][role] = @ \ proc[h].who]
            /\ UNCHANGED late
    /\ Done(h)
    /\ UNCHANGED <<table, bounds>>
-----------------------------------------------------------------------------
(***************************************************************************)
(* Lists                                                                   *)
(***************************************************************************)

\* GetDomain.  From the web there is always a first owner, the creator or
\* the Subscriber named; from the command line there may be none.
StartCreate(h) ==
    /\ At(h, "idle")
    /\ "create" \in Ops
    /\ domain # 0
    /\ \E via \in Vias, w \in {{p} : p \in Persons} \cup {{}} :
         /\ via = "web" => w # {}
         /\ proc' = [proc EXCEPT ![h] =
                       Request("insert", "create", via, "none", w, 0, domain)]
    /\ UNCHANGED <<table, holders, bounds, late>>

\* Mutation of NextId: the id after the largest in use, as SQLite takes it
\* for a key that is not AUTOINCREMENT.
LargestIdPlus1 == CHOOSE n \in 1 .. MaxLists + 1 :
                      n \notin lists /\ n - 1 \in lists \cup {0}
                                     /\ \A l \in lists : l < n

\* Mutation of NextId: the last id again.
LastId == listIds

NextId == listIds + 1

\* What follows CreateList: the moderation setting, if asked for, then the
\* first owner, if there is one.
AfterCreate(h) == {"load", IF proc[h].who = {} THEN "idle" ELSE "first"}

\* CreateList; the address is unique in a domain.
CreateList(h) ==
    /\ At(h, "insert")
    /\ \/ /\ \E l \in lists : home[l] = proc[h].d
          /\ Done(h)
          /\ UNCHANGED <<lists, listIds, home>>
       \/ /\ \A l \in lists : home[l] # proc[h].d
          /\ NextId <= MaxLists
          /\ lists' = lists \cup {NextId}
          /\ listIds' = NextId
          /\ home' = [home EXCEPT ![NextId] = proc[h].d]
          /\ \E place \in AfterCreate(h) :
               IF place = "idle" THEN Done(h)
               ELSE proc' = [proc EXCEPT ![h].at = place, ![h].l = NextId]
    /\ UNCHANGED <<domain, domainIds, holders, bounds, late>>

\* AddOwner for the first owner
FirstOwner(h) ==
    /\ At(h, "first")
    /\ Insert(proc[h].l, "owner", proc[h].who)
    /\ Done(h)
    /\ UNCHANGED <<table, bounds>>

ToFirstOwner(h) == IF proc[h].op = "create" /\ proc[h].who # {}
                   THEN Goto(h, "first") ELSE Done(h)

\* Mutation of AfterSettingsError: creation ends with the error.
GiveUp(h) == Done(h)

\* The web handler logs the error of the moderation setting and goes on.
AfterSettingsError(h) == IF proc[h].via = "web" THEN ToFirstOwner(h)
                                                ELSE Done(h)

\* UpdateListSettings reads the row, by id alone ...
LoadRow(h) ==
    /\ At(h, "load")
    /\ \/ proc[h].l \in lists /\ Goto(h, "saveRow")
       \/ proc[h].l \notin lists /\ AfterSettingsError(h)
    /\ UNCHANGED <<table, holders, bounds, late>>

\* ... and saves it.  Save inserts a row that it does not find, with its old
\* id, unless the address is taken.
SaveRow(h) ==
    /\ At(h, "saveRow")
    /\ \/ /\ \E l \in lists \ {proc[h].l} : home[l] = home[proc[h].l]
          /\ proc[h].l \notin lists
          /\ AfterSettingsError(h)
          /\ UNCHANGED lists
       \/ /\ \/ proc[h].l \in lists
             \/ \A l \in lists : home[l] # home[proc[h].l]
          /\ lists' = lists \cup {proc[h].l}
          /\ ToFirstOwner(h)
    /\ UNCHANGED <<domain, domainIds, listIds, home, holders, bounds, late>>

\* GetList before DeleteList
StartDelete(h) ==
    /\ At(h, "idle")
    /\ "delete" \in Ops
    /\ Reachable # {}
    /\ \E via \in Vias :
         proc' = [proc EXCEPT ![h] =
                    Request("delete", "delete", via, "none", {}, 0, 0)]
    /\ UNCHANGED <<table, holders, bounds, late>>

\* Mutation of RemovedWith: only the owners.
OwnersOnly(l) == [holders[l] EXCEPT !["owner"] = {}]

RemovedWith(l) == NoRoles

\* DeleteList finds the list by its address and removes it and all its rows
\* in one transaction.
DeleteList(h) ==
    /\ At(h, "delete")
    /\ \/ /\ Reachable = {}
          /\ UNCHANGED <<lists, holders, late>>
       \/ \E l \in Reachable :
            /\ lists' = lists \ {l}
            /\ holders' = [holders EXCEPT ![l] = RemovedWith(l)]
            /\ late' = late \ {l}
    /\ Done(h)
    /\ UNCHANGED <<domain, domainIds, listIds, home, bounds>>
-----------------------------------------------------------------------------
(***************************************************************************)
(* Failures                                                                *)
(***************************************************************************)

\* A store call returns an error: the request ends, unless it is creating a
\* list and the settings were at stake.
Fail(h) ==
    /\ ~At(h, "idle")
    /\ failures + crashes < MaxFaults
    /\ failures' = failures + 1
    /\ \/ proc[h].at \in {"load", "saveRow"} /\ AfterSettingsError(h)
       \/ proc[h].at \notin {"load", "saveRow"} /\ Done(h)
    /\ UNCHANGED <<table, holders, crashes, late>>

\* The daemon stops, and with it all web requests; commands are processes of
\* their own.
Crash ==
    /\ failures + crashes < MaxFaults
    /\ crashes' = crashes + 1
    /\ proc' = [h \in Handlers |->
                  IF proc[h].via = "web" THEN Idle ELSE proc[h]]
    /\ UNCHANGED <<table, holders, failures, late>>
-----------------------------------------------------------------------------
Step(h) ==
    \/ ChangeRole(h) \/ ChangeSettings(h) \/ Authorize(h) \/ Reload(h)
    \/ Guard(h) \/ Write(h) \/ StartCreate(h) \/ CreateList(h)
    \/ FirstOwner(h) \/ LoadRow(h) \/ SaveRow(h) \/ StartDelete(h)
    \/ DeleteList(h) \/ Fail(h)

Next == CreateDomain \/ DeleteDomain \/ Crash \/ \E h \in Handlers : Step(h)

Spec == Init /\ [][Next]_vars
-----------------------------------------------------------------------------
(***************************************************************************)
(* Properties                                                              *)
(***************************************************************************)
Owners(l) == holders[l]["owner"]

\* "so a list can never become ownerless" (RevokeRole): a list that has an
\* owner has one until it is deleted.
NeverOwnerless ==
    [][\A l \in lists \cap lists' : Owners(l) # {} => Owners(l)' # {}]_vars

\* A list loses its last owner only by the command line, which has no guard,
\* or by a revocation whose guard read owners that have changed since.
LastOwnerGuarded ==
    [][\A l \in lists \cap lists' :
         Owners(l) # {} /\ Owners(l)' = {} =>
            \E h \in Handlers : /\ At(h, "write") /\ NeedsGuard(h)
                                /\ proc[h].l = l
                                /\ \/ proc[h].via = "command"
                                   \/ proc[h].seen # Owners(l)]_vars

\* Nobody holds a role on a list that has just been created (CreateList),
\* although handlers that found an earlier list of the address may insert
\* roles after it is gone.
NewListHasNoRoles ==
    [][\A h \in Handlers :
         At(h, "insert") /\ proc'[h].l # 0
           => holders[proc'[h].l] = NoRoles]_vars

\* "Nothing is orphaned (ADR 0017)" (DeleteList), but for a role inserted
\* after the deletion by a handler that had found the list before.
NothingOrphaned ==
    \A l \in (1 .. listIds) \ lists : holders[l] = NoRoles \/ l \in late

\* A list created from the web has an owner when its creator is answered (ADR
\* 0017: never accidentally ownerless), whatever became of the moderation
\* setting, unless the daemon stopped or the insert of the owner failed.
CreatedWithOwner ==
    [][\A h \in Handlers :
         /\ proc[h].op = "create" /\ proc[h].via = "web" /\ proc[h].l # 0
         /\ proc'[h] = Idle
         /\ crashes' = crashes
         /\ ~(At(h, "first") /\ failures' > failures)
         => holders'[proc[h].l]["owner"] # {}]_vars
=============================================================================
