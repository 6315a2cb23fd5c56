--------------------------- MODULE ListRolesProofs ---------------------------
(***************************************************************************)
(* The safety properties of ListRoles, for any number of handlers,         *)
(* Subscribers, lists, domains and faults.                                 *)
(***************************************************************************)
EXTENDS ListRoles, TLAPS

\* The places at which a handler works on a list it has found or made.
OnList == {"authorize", "reload", "guard", "write", "load", "saveRow",
           "first"}

\* The places at which a handler is about to change a role.
OnRole == {"reload", "guard", "write"}

\* What a handler's place says of the request it serves.
Serves(q) ==
    /\ q.at \in OnList => q.l # 0
    /\ q.at = "insert" => q.l = 0 /\ q.d # 0
    /\ q.at \in OnRole \/ (q.at = "authorize" /\ q.op # "save") =>
          /\ q.op \in {"grant", "revoke"} /\ q.role \in Roles
          /\ q.via \in Vias
          /\ \E p \in Persons : q.who = {p}
    /\ q.at \in {"insert", "first"} => q.op = "create"
    /\ q.op = "create" => q.at \in {"insert", "load", "saveRow", "first"}
    /\ q.op = "create" /\ q.via = "web" => q.who # {}

\* Who is revoked from the web is not the only owner the guard has seen.
Guarded(q) ==
    q.at = "write" /\ q.op = "revoke" /\ q.role = "owner" /\ q.via = "web"
        => q.seen # q.who

\* Ids not yet given to a list carry no roles.
Untouched == \A l \in Ids : l > listIds => holders[l] = NoRoles

IInv == /\ LTypeOK
        /\ \A h \in Handlers : Serves(proc[h]) /\ Guarded(proc[h])
        /\ Untouched
        /\ NothingOrphaned

\* What a handler can carry, ids issued so far included.
Requests == [at : Places, op : Ops \cup {"none"}, via : Vias \cup {"none"},
             role : Roles \cup {"none"}, who : SUBSET Persons,
             l : 0 .. listIds, d : 0 .. domainIds, seen : SUBSET Persons]

Sound(q) == q \in Requests /\ Serves(q) /\ Guarded(q)

\* LTypeOK and the rest of IInv, without the handlers.
TablesOK ==
    /\ domainIds \in 0 .. MaxDomains /\ domain \in 0 .. domainIds
    /\ listIds \in 0 .. MaxLists /\ lists \subseteq 1 .. listIds
    /\ home \in [Ids -> 0 .. domainIds]
    /\ \A l \in Ids : home[l] = 0 <=> l > listIds
    /\ holders \in [Ids -> [Roles -> SUBSET Persons]]
    /\ late \subseteq 1 .. listIds
    /\ Untouched
    /\ NothingOrphaned

FaultsOK == /\ failures \in Nat /\ crashes \in Nat
            /\ failures + crashes \in 0 .. MaxFaults

HandlersOK == /\ proc \in [Handlers -> Requests]
              /\ \A h \in Handlers : Sound(proc[h])
-----------------------------------------------------------------------------
\* The inductive invariant in its three parts.
LEMMA Parts == IInv <=> TablesOK /\ FaultsOK /\ HandlersOK
  BY DEF IInv, LTypeOK, TablesOK, FaultsOK, HandlersOK, Sound, Requests

\* The empty database satisfies the inductive invariant.
LEMMA InitIInv == Init => IInv
  BY RolesAssumption
  DEF Init, IInv, LTypeOK, Ids, NoRoles, Idle, Request, Places, Serves, Guarded,
      OnList, OnRole, Untouched, NothingOrphaned

\* A handler with nothing to do is sound.
LEMMA IdleSound == ASSUME IInv PROVE Sound(Idle)
  BY RolesAssumption
  DEF IInv, LTypeOK, Sound, Requests, Request, Idle, Places, Serves,
      Guarded, OnList, OnRole

\* A step that moves one handler to a sound place and issues no id keeps the
\* handlers sound.
LEMMA OneMoves ==
  ASSUME HandlersOK, NEW h \in Handlers, NEW q, Sound(q),
         proc' = [proc EXCEPT ![h] = q],
         listIds' = listIds, domainIds' = domainIds
  PROVE  HandlersOK'
  <1>1. Requests' = Requests
    BY DEF Requests
  <1>2. proc' \in [Handlers -> Requests]
    BY DEF HandlersOK, Sound
  <1>3. ASSUME NEW g \in Handlers PROVE Sound(proc'[g])
    BY DEF HandlersOK
  <1>4. ASSUME NEW g \in Handlers PROVE Sound(proc[g])'
    BY <1>1, <1>3 DEF Sound, Serves, Guarded
  <1> QED
    BY <1>1, <1>2, <1>4 DEF HandlersOK

\* Every call of a handler, every change of the domain and every fault keeps
\* the inductive invariant.
LEMMA NextIInv == IInv /\ [Next]_vars => IInv'
  <1> DEFINE Good == TablesOK' /\ FaultsOK' /\ HandlersOK'
             Same == UNCHANGED <<table, holders, late>>
  <1> SUFFICES ASSUME TablesOK, FaultsOK, HandlersOK, [Next]_vars
               PROVE  Good
    BY Parts DEF IInv, LTypeOK, TablesOK, FaultsOK, HandlersOK, Sound, Requests
  <1> USE RolesAssumption
  <1>a. Same => TablesOK'
    BY DEF TablesOK, table, Untouched, NothingOrphaned, Ids
  <1>b. UNCHANGED bounds => FaultsOK'
    BY DEF FaultsOK, bounds
  <1>c. ASSUME NEW h \in Handlers, Done(h), UNCHANGED <<listIds, domainIds>>
        PROVE  HandlersOK'
    BY <1>c, Parts, IdleSound, OneMoves DEF Done
  <1>d. ASSUME NEW h \in Handlers, NEW place \in Places, Goto(h, place),
               Sound([proc[h] EXCEPT !.at = place]),
               UNCHANGED <<listIds, domainIds>>
        PROVE  HandlersOK'
    BY <1>d, OneMoves DEF Goto
  <1>e. ASSUME NEW h \in Handlers PROVE Sound(proc[h])
    BY DEF HandlersOK
  <1>f. Sound(Idle)
    BY Parts, IdleSound
  <1>g. ASSUME NEW h \in Handlers, proc[h].at \in {"load", "saveRow"},
               ToFirstOwner(h), UNCHANGED <<listIds, domainIds>>
        PROVE  HandlersOK'
    <2>1. CASE Done(h)
      BY <1>c, <1>g, <2>1
    <2>2. CASE Goto(h, "first") /\ proc[h].op = "create"
      <3>1. Sound([proc[h] EXCEPT !.at = "first"])
        BY <1>e, <1>g, <2>2 DEF Sound, Requests, Serves, Guarded, OnList,
                                OnRole, Places
      <3> QED
        BY <1>d, <1>g, <2>2, <3>1 DEF Places
    <2> QED
      BY <1>g, <2>1, <2>2 DEF ToFirstOwner
  <1>h. ASSUME NEW h \in Handlers, proc[h].at \in {"load", "saveRow"},
               AfterSettingsError(h), UNCHANGED <<listIds, domainIds>>
        PROVE  HandlersOK'
    BY <1>c, <1>g, <1>h DEF AfterSettingsError
  <1>i. ASSUME NEW l \in 1 .. listIds, NEW role \in Roles,
               NEW w \in SUBSET Persons, Insert(l, role, w), UNCHANGED table
        PROVE  TablesOK'
    BY <1>i DEF Insert, table, TablesOK, Untouched, NothingOrphaned, Ids
  <1> HIDE DEF Good
  <1>1. ASSUME CreateDomain PROVE Good
    <2> USE <1>1 DEF CreateDomain
    <2>1. TablesOK'
      BY DEF TablesOK, Untouched, NothingOrphaned, Ids
    <2>2. HandlersOK'
      <3>1. Requests \subseteq Requests'
        BY DEF Requests, TablesOK
      <3>2. ASSUME NEW h \in Handlers PROVE Sound(proc[h])'
        BY <3>1, <1>e DEF Sound, Serves, Guarded
      <3> QED
        BY <3>1, <3>2 DEF HandlersOK
    <2> QED
      BY <1>b, <2>1, <2>2 DEF Good
  <1>2. ASSUME DeleteDomain PROVE Good
    <2> USE <1>2 DEF DeleteDomain
    <2>1. TablesOK'
      BY DEF TablesOK, Untouched, NothingOrphaned, Ids
    <2>2. HandlersOK'
      BY DEF HandlersOK, Requests, Sound, Serves, Guarded
    <2> QED
      BY <1>b, <2>1, <2>2 DEF Good
  <1>3. ASSUME Crash PROVE Good
    <2> USE <1>3 DEF Crash
    <2>1. FaultsOK'
      BY DEF FaultsOK
    <2>2. Requests' = Requests
      BY DEF Requests, table
    <2>3. ASSUME NEW h \in Handlers PROVE Sound(proc'[h])
      BY <1>e, <1>f
    <2>4. ASSUME NEW h \in Handlers PROVE Sound(proc[h])'
      BY <2>2, <2>3 DEF Sound, Serves, Guarded
    <2>5. proc' \in [Handlers -> Requests]
      BY <2>3 DEF Sound
    <2> QED
      BY <1>a, <2>1, <2>2, <2>4, <2>5 DEF Good, HandlersOK
  <1>4. ASSUME NEW h \in Handlers, ChangeRole(h) PROVE Good
    <2>1. PICK op \in Ops \cap {"grant", "revoke"}, via \in Vias,
               role \in Roles, p \in Persons, l \in Reachable :
            proc' = [proc EXCEPT ![h] =
                       Request(IF via = "web" THEN "authorize"
                               ELSE FirstCall(op, via, role),
                               op, via, role, {p}, l, 0)]
      BY <1>4 DEF ChangeRole
    <2> DEFINE place == IF via = "web" THEN "authorize"
                        ELSE FirstCall(op, via, role)
               q == Request(place, op, via, role, {p}, l, 0)
    <2>2. l \in 1 .. listIds
      BY DEF Reachable, TablesOK
    <2>3. place \in Places \ {"insert", "first"}
      BY DEF Places, FirstCall
    <2>4. /\ place \in OnRole \cup {"authorize"}
          /\ via = "web" => place = "authorize"
      BY DEF FirstCall, OnRole
    <2> HIDE DEF place
    <2>5. q \in Requests
      BY <2>2, <2>3 DEF Request, Requests, TablesOK
    <2>6. Sound(q)
      BY <2>2, <2>3, <2>4, <2>5 DEF Request, Sound, Serves, Guarded
    <2>7. proc' = [proc EXCEPT ![h] = q]
      BY <2>1 DEF place
    <2> HIDE DEF q
    <2>8. HandlersOK'
      BY <1>4, <2>6, <2>7, OneMoves DEF ChangeRole, table
    <2> QED
      BY <1>4, <1>a, <1>b, <2>8 DEF Good, ChangeRole
  <1>5. ASSUME NEW h \in Handlers, ChangeSettings(h) PROVE Good
    <2>1. PICK via \in Vias, l \in Reachable :
            proc' = [proc EXCEPT ![h] =
                       Request(IF via = "web" THEN "authorize" ELSE "load",
                               "save", via, "none", {}, l, 0)]
      BY <1>5 DEF ChangeSettings
    <2> DEFINE q == Request(IF via = "web" THEN "authorize" ELSE "load",
                            "save", via, "none", {}, l, 0)
    <2>2. l \in 1 .. listIds /\ "save" \in Ops
      BY <1>5 DEF Reachable, TablesOK, ChangeSettings
    <2>3. q \in Requests
      BY <2>2 DEF Request, Requests, TablesOK, Places
    <2>4. Sound(q)
      BY <2>2, <2>3 DEF Request, Sound, Serves, Guarded, OnList, OnRole
    <2>5. proc' = [proc EXCEPT ![h] = q]
      BY <2>1
    <2> HIDE DEF q
    <2>6. HandlersOK'
      BY <1>5, <2>4, <2>5, OneMoves DEF ChangeSettings, table
    <2> QED
      BY <1>5, <1>a, <1>b, <2>6 DEF Good, ChangeSettings
  <1>6. ASSUME NEW h \in Handlers, Authorize(h) PROVE Good
    <2>1. CASE Done(h)
      BY <1>6, <1>a, <1>b, <1>c, <2>1 DEF Good, Authorize, table
    <2>2. CASE Goto(h, FirstCall(proc[h].op, "web", proc[h].role))
      <3> DEFINE place == FirstCall(proc[h].op, "web", proc[h].role)
      <3>1. Sound([proc[h] EXCEPT !.at = place])
        BY <1>6, <1>e DEF Authorize, At, Sound, Requests, Serves, Guarded,
                          OnList, OnRole, Places, FirstCall
      <3>2. place \in Places
        BY DEF FirstCall, Places
      <3> HIDE DEF place
      <3>3. HandlersOK'
        BY <1>6, <1>d, <2>2, <3>1, <3>2 DEF place, Authorize, table
      <3> QED
        BY <1>6, <1>a, <1>b, <3>3 DEF Good, Authorize
    <2> QED
      BY <1>6, <2>1, <2>2 DEF Authorize
  <1>7. ASSUME NEW h \in Handlers, Reload(h) PROVE Good
    <2>1. CASE Done(h)
      BY <1>7, <1>a, <1>b, <1>c, <2>1 DEF Good, Reload, table
    <2>2. CASE Goto(h, IF NeedsGuard(h) THEN "guard" ELSE "write")
      <3> DEFINE place == IF NeedsGuard(h) THEN "guard" ELSE "write"
      <3>1. Sound([proc[h] EXCEPT !.at = place])
        BY <1>7, <1>e DEF Reload, At, Sound, Requests, Serves, Guarded,
                          OnList, OnRole, Places, NeedsGuard
      <3>2. place \in Places
        BY DEF Places
      <3> HIDE DEF place
      <3>3. HandlersOK'
        BY <1>7, <1>d, <2>2, <3>1, <3>2 DEF place, Reload, table
      <3> QED
        BY <1>7, <1>a, <1>b, <3>3 DEF Good, Reload
    <2> QED
      BY <1>7, <2>1, <2>2 DEF Reload
  <1>8. ASSUME NEW h \in Handlers, Guard(h) PROVE Good
    <2>1. CASE Done(h)
      BY <1>8, <1>a, <1>b, <1>c, <2>1 DEF Good, Guard, table
    <2>2. CASE ~LastOwner(proc[h].l, proc[h].who)
      <3> DEFINE q == [proc[h] EXCEPT !.at = "write",
                         !.seen = holders[proc[h].l]["owner"]]
      <3>1. holders[proc[h].l]["owner"] \in SUBSET Persons
        BY <1>8, <1>e DEF Guard, At, Sound, Requests, Serves, OnList, Ids,
                          TablesOK
      <3>2. Sound(q)
        BY ZenonT(60), <1>8, <1>e, <2>2, <3>1
        DEF Guard, At, Sound, Requests, Serves, Guarded, OnList, OnRole,
            Places, LastOwner
      <3>3. proc' = [proc EXCEPT ![h] = q]
        BY <1>8, <2>2 DEF Guard
      <3> HIDE DEF q
      <3>4. HandlersOK'
        BY <1>8, <3>2, <3>3, OneMoves DEF Guard, table
      <3> QED
        BY <1>8, <1>a, <1>b, <3>4 DEF Good, Guard
    <2> QED
      BY <1>8, <2>1, <2>2 DEF Guard
  <1>9. ASSUME NEW h \in Handlers, Write(h) PROVE Good
    <2>1. /\ proc[h].l \in 1 .. listIds /\ proc[h].role \in Roles
          /\ proc[h].who \in SUBSET Persons
      BY <1>9, <1>e DEF Write, At, Sound, Requests, Serves, OnList, OnRole,
                        TablesOK
    <2>2. CASE Insert(proc[h].l, proc[h].role, proc[h].who)
      BY <1>9, <1>b, <1>c, <1>i, <2>1, <2>2 DEF Good, Write, table
    <2>3. CASE /\ holders' = [holders EXCEPT ![proc[h].l][proc[h].role] =
                                @ \ proc[h].who]
               /\ UNCHANGED late
      <3>1. holders' \in [Ids -> [Roles -> SUBSET Persons]]
        BY ZenonT(60), <2>1, <2>3 DEF TablesOK, Ids
      <3>2. ASSUME NEW l \in Ids, holders[l] = NoRoles
            PROVE  holders'[l] = NoRoles
        <4>1. CASE l # proc[h].l
          BY <2>3, <3>2, <4>1 DEF TablesOK
        <4>2. CASE l = proc[h].l
          <5>1. ASSUME NEW r \in Roles PROVE holders[l][r] = {}
            BY <3>2 DEF NoRoles
          <5>2. ASSUME NEW r \in Roles PROVE holders'[l][r] = {}
            <6>1. holders'[l][r] = IF r = proc[h].role
                                   THEN holders[l][r] \ proc[h].who
                                   ELSE holders[l][r]
              BY <2>3, <4>2 DEF TablesOK
            <6> QED
              BY <5>1, <6>1
          <5> QED
            BY <3>1, <5>2 DEF NoRoles
        <4> QED
          BY <4>1, <4>2
      <3>3. UNCHANGED <<table, late>>
        BY <1>9, <2>3 DEF Write
      <3>4. TablesOK'
        BY <3>1, <3>2, <3>3 DEF table, TablesOK, Untouched, NothingOrphaned,
                                Ids
      <3> QED
        BY <1>9, <1>b, <1>c, <3>4 DEF Good, Write, table
    <2> QED
      BY <1>9, <2>2, <2>3 DEF Write
  <1>10. ASSUME NEW h \in Handlers, StartCreate(h) PROVE Good
    <2>1. PICK via \in Vias, w \in {{p} : p \in Persons} \cup {{}} :
            /\ via = "web" => w # {}
            /\ proc' = [proc EXCEPT ![h] =
                          Request("insert", "create", via, "none", w, 0,
                                  domain)]
      BY <1>10 DEF StartCreate
    <2> DEFINE q == Request("insert", "create", via, "none", w, 0, domain)
    <2>2. w \in SUBSET Persons /\ "create" \in Ops
          /\ domain \in 0 .. domainIds /\ domain # 0
      BY <1>10 DEF StartCreate, TablesOK
    <2>3. q \in Requests
      BY <2>2 DEF Request, Requests, TablesOK, Places
    <2>4. Sound(q)
      BY <2>1, <2>2, <2>3
      DEF Request, Sound, Serves, Guarded, OnList, OnRole
    <2>5. proc' = [proc EXCEPT ![h] = q]
      BY <2>1
    <2> HIDE DEF q
    <2>6. HandlersOK'
      BY <1>10, <2>4, <2>5, OneMoves DEF StartCreate, table
    <2> QED
      BY <1>10, <1>a, <1>b, <2>6 DEF Good, StartCreate
  <1>11. ASSUME NEW h \in Handlers, CreateList(h) PROVE Good
    <2>1. CASE Done(h) /\ UNCHANGED <<lists, listIds, home>>
      BY <1>11, <1>a, <1>b, <1>c, <2>1 DEF Good, CreateList, table
    <2>2. CASE /\ NextId <= MaxLists
               /\ lists' = lists \cup {NextId}
               /\ listIds' = NextId
               /\ home' = [home EXCEPT ![NextId] = proc[h].d]
               /\ \E place \in AfterCreate(h) :
                    IF place = "idle" THEN Done(h)
                    ELSE proc' = [proc EXCEPT ![h].at = place,
                                              ![h].l = NextId]
      <3>1. proc[h].d \in 1 .. domainIds /\ proc[h].op = "create"
        BY <1>11, <1>e DEF CreateList, At, Sound, Requests, Serves, TablesOK
      <3>2. NextId = listIds + 1 /\ NextId \in Ids
        BY <2>2 DEF NextId, Ids, TablesOK
      <3>3. TablesOK'
        BY <1>11, <2>2, <3>1, <3>2
        DEF CreateList, TablesOK, Untouched, NothingOrphaned, Ids
      <3>4. Requests \subseteq Requests'
        BY <1>11, <2>2, <3>2 DEF CreateList, Requests, TablesOK
      <3>0. \/ Done(h)
            \/ \E place \in {"load", "first"} :
                 proc' = [proc EXCEPT ![h].at = place, ![h].l = NextId]
        BY <2>2 DEF AfterCreate
      <3>5. ASSUME NEW g \in Handlers, g # h PROVE Sound(proc[g])'
        <4>1. proc'[g] = proc[g]
          BY <3>0, <3>5 DEF HandlersOK, Done
        <4> QED
          BY <1>e, <3>4, <4>1 DEF Sound, Serves, Guarded
      <3>6. proc' \in [Handlers -> Requests'] /\ Sound(proc[h])'
        <4>1. CASE Done(h)
          BY <1>e, <1>f, <3>4, <4>1 DEF Done, HandlersOK, Sound, Serves,
                                        Guarded
        <4>2. CASE \E place \in {"load", "first"} :
                     proc' = [proc EXCEPT ![h].at = place, ![h].l = NextId]
          <5>1. PICK place \in {"load", "first"} :
                  proc' = [proc EXCEPT ![h].at = place, ![h].l = NextId]
            BY <4>2
          <5>2. proc'[h] = [proc[h] EXCEPT !.at = place, !.l = NextId]
            BY <5>1 DEF HandlersOK
          <5>3. proc'[h] \in Requests'
            <6>1. proc[h] \in Requests' /\ NextId \in 0 .. listIds'
              BY <1>e, <2>2, <3>2, <3>4 DEF Sound, TablesOK
            <6> QED
              BY <5>2, <6>1 DEF Requests, Places
          <5>4. Serves(proc'[h]) /\ Guarded(proc'[h])
            BY <1>e, <3>1, <3>2, <5>2
            DEF Sound, Requests, Serves, Guarded, OnList, OnRole, TablesOK
          <5>5. proc' \in [Handlers -> Requests']
            BY <3>4, <5>1, <5>2, <5>3 DEF HandlersOK
          <5> QED
            BY <5>3, <5>4, <5>5 DEF Sound, Serves, Guarded
        <4> QED
          BY <3>0, <4>1, <4>2
      <3> QED
        BY <1>11, <1>b, <3>3, <3>5, <3>6 DEF Good, CreateList, HandlersOK
    <2> QED
      BY <1>11, <2>1, <2>2 DEF CreateList
  <1>12. ASSUME NEW h \in Handlers, FirstOwner(h) PROVE Good
    <2>1. proc[h].l \in 1 .. listIds /\ proc[h].who \in SUBSET Persons
      BY <1>12, <1>e DEF FirstOwner, At, Sound, Requests, Serves, OnList,
                         TablesOK
    <2> QED
      BY <1>12, <1>b, <1>c, <1>i, <2>1 DEF Good, FirstOwner, table
  <1>13. ASSUME NEW h \in Handlers, LoadRow(h) PROVE Good
    <2>1. CASE AfterSettingsError(h)
      BY <1>13, <1>a, <1>b, <1>h, <2>1 DEF Good, LoadRow, At, table
    <2>2. CASE Goto(h, "saveRow")
      <3>1. Sound([proc[h] EXCEPT !.at = "saveRow"])
        BY <1>13, <1>e DEF LoadRow, At, Sound, Requests, Serves, Guarded,
                           OnList, OnRole, Places
      <3> QED
        BY <1>13, <1>a, <1>b, <1>d, <2>2, <3>1 DEF Good, LoadRow, Places, table
    <2> QED
      BY <1>13, <2>1, <2>2 DEF LoadRow
  <1>14. ASSUME NEW h \in Handlers, SaveRow(h) PROVE Good
    <2>1. proc[h].l \in 1 .. listIds
      BY <1>14, <1>e DEF SaveRow, At, Sound, Requests, Serves, OnList,
                         TablesOK
    <2>2. TablesOK'
      BY <1>14, <2>1 DEF SaveRow, TablesOK, Untouched, NothingOrphaned, Ids
    <2>3. HandlersOK'
      BY <1>14, <1>g, <1>h DEF SaveRow, At
    <2> QED
      BY <1>14, <1>b, <2>2, <2>3 DEF Good, SaveRow
  <1>15. ASSUME NEW h \in Handlers, StartDelete(h) PROVE Good
    <2>1. PICK via \in Vias :
            proc' = [proc EXCEPT ![h] =
                       Request("delete", "delete", via, "none", {}, 0, 0)]
      BY <1>15 DEF StartDelete
    <2> DEFINE q == Request("delete", "delete", via, "none", {}, 0, 0)
    <2>2. q \in Requests
      BY <1>15 DEF StartDelete, Request, Requests, TablesOK, Places
    <2>3. Sound(q)
      BY <2>2 DEF Request, Sound, Serves, Guarded, OnList, OnRole
    <2>4. proc' = [proc EXCEPT ![h] = q]
      BY <2>1
    <2> HIDE DEF q
    <2>5. HandlersOK'
      BY <1>15, <2>3, <2>4, OneMoves DEF StartDelete, table
    <2> QED
      BY <1>15, <1>a, <1>b, <2>5 DEF Good, StartDelete
  <1>16. ASSUME NEW h \in Handlers, DeleteList(h) PROVE Good
    <2>1. TablesOK'
      <3>1. CASE UNCHANGED <<lists, holders, late>>
        BY <1>16, <1>a, <3>1 DEF DeleteList, table
      <3>2. CASE \E l \in Reachable :
                   /\ lists' = lists \ {l}
                   /\ holders' = [holders EXCEPT ![l] = RemovedWith(l)]
                   /\ late' = late \ {l}
        <4>1. PICK l \in Reachable :
                /\ lists' = lists \ {l}
                /\ holders' = [holders EXCEPT ![l] = NoRoles]
                /\ late' = late \ {l}
          BY <3>2 DEF RemovedWith
        <4>2. l \in Ids /\ NoRoles \in [Roles -> SUBSET Persons]
          BY DEF Reachable, TablesOK, Ids, NoRoles
        <4> QED
          BY <1>16, <4>1, <4>2
          DEF DeleteList, TablesOK, Untouched, NothingOrphaned, Ids
      <3> QED
        BY <1>16, <3>1, <3>2 DEF DeleteList
    <2> QED
      BY <1>16, <1>b, <1>c, <2>1 DEF Good, DeleteList
  <1>17. ASSUME NEW h \in Handlers, Fail(h) PROVE Good
    <2>1. HandlersOK'
      BY <1>17, <1>c, <1>h DEF Fail, table
    <2>2. FaultsOK'
      BY <1>17 DEF Fail, FaultsOK
    <2> QED
      BY <1>17, <1>a, <2>1, <2>2 DEF Good, Fail
  <1>18. ASSUME UNCHANGED vars PROVE Good
    <2>1. HandlersOK'
      BY <1>18 DEF vars, table, HandlersOK, Requests, Sound, Serves, Guarded
    <2> QED
      BY <1>18, <1>a, <1>b, <2>1 DEF Good, vars
  <1> QED
    BY <1>1, <1>2, <1>3, <1>4, <1>5, <1>6, <1>7, <1>8, <1>9, <1>10, <1>11,
       <1>12, <1>13, <1>14, <1>15, <1>16, <1>17, <1>18
    DEF Next, Step

\* The inductive invariant holds throughout.
LEMMA AlwaysIInv == Spec => []IInv
  BY InitIInv, NextIInv, PTL DEF Spec
-----------------------------------------------------------------------------
\* The tables and the handlers stay well-formed (ids are given in order,
\* lists and roles exist for ids that were given).
THEOREM TypeCorrect == Spec => []LTypeOK
  BY AlwaysIInv, PTL DEF IInv

\* DeleteList leaves no role behind but those inserted afterwards.
THEOREM NothingOrphanedHolds == Spec => []NothingOrphaned
  BY AlwaysIInv, PTL DEF IInv

\* A call of one handler leaves the others where they are.
LEMMA OthersStay ==
  ASSUME proc \in [Handlers -> Requests], NEW g \in Handlers, Step(g),
         NEW h \in Handlers, g # h
  PROVE  proc'[h] = proc[h]
  BY DEF Step, Done, Goto, ChangeRole, ChangeSettings, Authorize, Reload,
         Guard, Write, StartCreate, CreateList, FirstOwner, LoadRow, SaveRow,
         AfterSettingsError, ToFirstOwner, StartDelete, DeleteList, Fail

\* CreateList gives an id that no role can have been inserted for.
THEOREM NewListHasNoRolesHolds == Spec => NewListHasNoRoles
  <1> DEFINE Fresh(h) == At(h, "insert") /\ proc'[h].l # 0
                           => holders[proc'[h].l] = NoRoles
  <1>1. ASSUME IInv, Next, NEW h \in Handlers, At(h, "insert"),
               proc'[h].l # 0
        PROVE  holders[proc'[h].l] = NoRoles
    <2>1. proc[h].l = 0 /\ proc \in [Handlers -> Requests]
      BY <1>1, Parts DEF IInv, Serves, At, HandlersOK
    <2>2. proc'[h] # proc[h] /\ proc'[h] # Idle
      BY <1>1, <2>1 DEF Idle, Request
    <2>3. Step(h)
      <3>1. ~CreateDomain /\ ~DeleteDomain /\ ~Crash
        BY <2>1, <2>2 DEF CreateDomain, DeleteDomain, Crash
      <3> QED
        BY <1>1, <2>1, <2>2, <3>1, OthersStay DEF Next
    <2>4. CreateList(h)
      <3>1. ~Fail(h)
        BY <1>1, <2>1, <2>2 DEF Fail, At, Done
      <3> QED
        BY <1>1, <2>3, <3>1
        DEF Step, At, ChangeRole, ChangeSettings, Authorize, Reload, Guard,
            Write, StartCreate, FirstOwner, LoadRow, SaveRow, StartDelete,
            DeleteList
    <2>5. proc'[h].l = listIds + 1 /\ listIds + 1 \in Ids
      <3>1. ~Done(h)
        BY <2>1, <2>2 DEF Done
      <3>2. /\ NextId <= MaxLists
            /\ \E place \in AfterCreate(h) :
                 IF place = "idle" THEN Done(h)
                 ELSE proc' = [proc EXCEPT ![h].at = place, ![h].l = NextId]
        BY <2>4, <3>1 DEF CreateList
      <3>3. proc'[h].l = NextId
        BY <2>1, <3>1, <3>2 DEF Requests
      <3> QED
        BY <1>1, <3>2, <3>3, RolesAssumption DEF NextId, Ids, IInv, LTypeOK
    <2> QED
      BY <1>1, <2>5 DEF IInv, LTypeOK, Untouched
  <1>2. IInv /\ [Next]_vars => [\A h \in Handlers : Fresh(h)]_vars
    BY <1>1
  <1> QED
    BY <1>2, AlwaysIInv, PTL DEF Spec, NewListHasNoRoles

\* Among the steps that keep a list, only the removal of an owner can empty
\* its owners.
LEMMA OnlyRevocation ==
  ASSUME IInv, Next, NEW l \in lists \cap lists', Owners(l) # {},
         Owners(l)' = {}
  PROVE  \E h \in Handlers :
            /\ At(h, "write") /\ NeedsGuard(h) /\ proc[h].l = l
            /\ Owners(l) \ proc[h].who = {}
  <1>1. l \in Ids /\ holders \in [Ids -> [Roles -> SUBSET Persons]]
    BY RolesAssumption DEF IInv, LTypeOK, Ids
  <1>2. holders' # holders
    BY DEF Owners
  <1>3. PICK h \in Handlers : Write(h) \/ FirstOwner(h) \/ DeleteList(h)
    BY <1>2 DEF Next, Step, CreateDomain, DeleteDomain, Crash, ChangeRole,
                ChangeSettings, Authorize, Reload, Guard, StartCreate,
                CreateList, LoadRow, SaveRow, StartDelete, Fail
  <1>4. ASSUME NEW k, NEW role, NEW w, Insert(k, role, w) PROVE FALSE
    <2>1. Owners(l) \subseteq holders'[l]["owner"]
      BY <1>1, <1>4, RolesAssumption DEF Insert, Owners
    <2> QED
      BY <2>1 DEF Owners
  <1>5. CASE FirstOwner(h)
    BY <1>4, <1>5 DEF FirstOwner
  <1>6. CASE DeleteList(h)
    <2>1. PICK k \in Reachable :
            /\ lists' = lists \ {k}
            /\ holders' = [holders EXCEPT ![k] = RemovedWith(k)]
      BY <1>2, <1>6 DEF DeleteList
    <2>2. holders'[l] = holders[l]
      BY <1>1, <2>1
    <2> QED
      BY <2>2 DEF Owners
  <1>7. CASE Write(h)
    <2>1. /\ At(h, "write") /\ proc[h].op = "revoke"
          /\ holders' = [holders EXCEPT ![proc[h].l][proc[h].role] =
                           @ \ proc[h].who]
      BY <1>4, <1>7 DEF Write
    <2>2. proc[h].l = l /\ proc[h].role = "owner"
      BY <1>1, <2>1, RolesAssumption DEF Owners
    <2>3. holders'[l]["owner"] = Owners(l) \ proc[h].who
      BY <1>1, <2>1, <2>2, RolesAssumption DEF Owners
    <2> QED
      BY <2>1, <2>2, <2>3 DEF NeedsGuard, Owners
  <1> QED
    BY <1>3, <1>5, <1>6, <1>7

\* The guard of RevokeRole fails only by reading owners that change before
\* the removal, or by not being asked (command line).
THEOREM LastOwnerGuardedHolds == Spec => LastOwnerGuarded
  <1> DEFINE Excused(l) ==
               \E h \in Handlers : /\ At(h, "write") /\ NeedsGuard(h)
                                   /\ proc[h].l = l
                                   /\ \/ proc[h].via = "command"
                                      \/ proc[h].seen # Owners(l)
  <1>1. ASSUME IInv, Next, NEW l \in lists \cap lists', Owners(l) # {},
               Owners(l)' = {}
        PROVE  Excused(l)
    <2>1. PICK h \in Handlers :
            /\ At(h, "write") /\ NeedsGuard(h) /\ proc[h].l = l
            /\ Owners(l) \ proc[h].who = {}
      BY <1>1, OnlyRevocation
    <2>2. Serves(proc[h]) /\ Guarded(proc[h])
      BY <1>1 DEF IInv
    <2>3. PICK p : proc[h].who = {p}
      BY <2>1, <2>2 DEF Serves, OnRole, At
    <2>4. Owners(l) = proc[h].who
      BY <1>1, <2>1, <2>3
    <2>5. proc[h].via = "command" \/ proc[h].seen # proc[h].who
      BY <2>1, <2>2, RolesAssumption
      DEF Serves, Guarded, OnRole, At, NeedsGuard
    <2> QED
      BY <2>1, <2>4, <2>5
  <1>2. IInv /\ [Next]_vars
           => [\A l \in lists \cap lists' :
                 Owners(l) # {} /\ Owners(l)' = {} => Excused(l)]_vars
    BY <1>1
  <1> QED
    BY <1>2, AlwaysIInv, PTL DEF Spec, LastOwnerGuarded

\* handleAdminLists inserts the first owner whatever became of the settings.
THEOREM CreatedWithOwnerHolds == Spec => CreatedWithOwner
  <1> DEFINE Answered(h) ==
               /\ proc[h].op = "create" /\ proc[h].via = "web"
               /\ proc[h].l # 0 /\ proc'[h] = Idle
               /\ crashes' = crashes
               /\ ~(At(h, "first") /\ failures' > failures)
             Owned(h) == holders'[proc[h].l]["owner"] # {}
  <1>1. ASSUME IInv, Next, NEW h \in Handlers, Answered(h) PROVE Owned(h)
    <2>1. /\ Serves(proc[h]) /\ proc \in [Handlers -> Requests]
          /\ failures \in Nat /\ crashes \in Nat
      BY <1>1, Parts DEF IInv, HandlersOK, FaultsOK
    <2>2. proc'[h] # proc[h]
      BY <1>1 DEF Idle, Request
    <2>3. Step(h)
      <3>1. ~CreateDomain /\ ~DeleteDomain /\ ~Crash
        BY <1>1, <2>1, <2>2 DEF CreateDomain, DeleteDomain, Crash
      <3> QED
        BY <1>1, <2>1, <2>2, <3>1, OthersStay DEF Next
    <2>4. proc[h].at \in {"load", "saveRow", "first"} /\ proc[h].who # {}
      BY <1>1, <2>1 DEF Serves
    <2>5. ~Goto(h, "first") /\ ~Goto(h, "saveRow")
      BY <1>1, <2>1 DEF Goto, Idle, Request, Requests
    <2>6. ~ToFirstOwner(h) /\ ~AfterSettingsError(h)
      BY <1>1, <2>4, <2>5 DEF ToFirstOwner, AfterSettingsError
    <2>7. ~Fail(h)
      BY <1>1, <2>1, <2>4, <2>6 DEF Fail, At
    <2>8. FirstOwner(h)
      BY <2>3, <2>4, <2>5, <2>6, <2>7
      DEF Step, At, ChangeRole, ChangeSettings, Authorize, Reload, Guard,
          Write, StartCreate, CreateList, LoadRow, SaveRow, StartDelete,
          DeleteList
    <2>9. proc[h].l \in Ids
      BY <1>1, <2>1, RolesAssumption DEF IInv, LTypeOK, Requests, Ids
    <2> QED
      BY <1>1, <2>4, <2>8, <2>9, RolesAssumption
      DEF FirstOwner, Insert, IInv, LTypeOK
  <1>2. IInv /\ [Next]_vars
           => [\A h \in Handlers :
               /\ proc[h].op = "create" /\ proc[h].via = "web" /\ proc[h].l # 0
               /\ proc'[h] = Idle
               /\ crashes' = crashes
               /\ ~(At(h, "first") /\ failures' > failures)
               => holders'[proc[h].l]["owner"] # {}]_vars
    BY <1>1
  <1> QED
    BY <1>2, AlwaysIInv, PTL DEF Spec, CreatedWithOwner
=============================================================================
