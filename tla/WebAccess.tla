------------------------------ MODULE WebAccess ------------------------------
(***************************************************************************)
(* Signing in to the web interface: magic links, sessions, the switch that *)
(* turns the login off, and the cap on links sent to an address            *)
(* (internal/server/server.go, ratelimit.go, cmd).                         *)
(*                                                                         *)
(* Handlers are web requests and commands; an action is one store call or  *)
(* one call of the rate limiter.  The token of a link is never given out   *)
(* again; a free row of sessions stands for any new session.  Time passes  *)
(* by links and sessions expiring and buckets filling up.  A request       *)
(* begins with its first call; one refused by that call is no step at all. *)
(* The limit per client IP, which refuses requests before they do          *)
(* anything, is left out, and so are the texts and the audit events.       *)
(***************************************************************************)
EXTENDS Naturals, FiniteSets

CONSTANTS Handlers,     \* requests and commands that can run at a time
          Persons,      \* addresses somebody may ask a link for
          Subscribers,  \* those of them with a row in subscribers
          Links,        \* magic links that can be created
          Sessions,     \* sessions there can be at a time
          Burst,        \* links an address may be sent at once
          MaxBuckets,   \* buckets the limiter keeps before it sweeps (4096)
          MaxRefills,   \* bound: tokens an address regains
          MaxToggles,   \* bound: runs of enable and disable login
          MaxFaults,    \* bound: failing store calls and restarts
          Nobody, NoLink

ASSUME WebAssumption ==
    /\ IsFiniteSet(Handlers)
    /\ Subscribers \subseteq Persons /\ Nobody \notin Persons
    /\ NoLink \notin Links
    /\ Burst \in Nat \ {0} /\ MaxBuckets \in Nat
    /\ MaxRefills \in Nat /\ MaxToggles \in Nat /\ MaxFaults \in Nat

VARIABLES
    login,      \* web_settings.login_enabled
    links,      \* table magic_links: state of each, and whose it is
    mailed,     \* links in a message that was queued
    sessions,   \* table sessions: whose each row is, if it is in use
    known,      \* addresses that have a bucket
    tokens,     \* what their buckets hold
    idle,       \* those not asked for since pruneAfter
    proc,       \* the handlers
    toggles, faults,      \* so far, for the bounds
    sent,       \* links created for an address since the daemon started
    refills,    \* tokens its bucket regained since then
    untracked,  \* addresses a link was created for without a bucket
    used,       \* links that opened a session
    kept,       \* links whose deletion failed
    ended,      \* all sessions were ended since the login was turned off
    inFlight,   \* requests past the check when it was turned off
    late        \* sessions these opened while it was off

rows    == <<links, mailed, sessions>>
limiter == <<known, tokens, idle, refills>>
tallies == <<sent, untracked>>
bounds  == <<toggles, faults>>
spent   == <<used, kept>>
lock    == <<login, ended, inFlight, late>>
vars    == <<rows, limiter, tallies, proc, bounds, spent, lock>>

LinkStates == {"unused", "live", "expired", "gone"}
Row(state, who) == [state |-> state, who |-> who]

\* who asked for a link or whose link it is; tracked: the reservation is of
\* a bucket the limiter keeps; again: the link had opened a session before.
Request(at, who, link, again) ==
    [at |-> at, who |-> who, link |-> link, again |-> again,
     tracked |-> FALSE]

Idle == Request("idle", Nobody, NoLink, FALSE)

Asking    == {"reserve", "lookup", "createLink", "enqueue"}
PastCheck == {"load", "drop", "consume", "issue"}
Places    == {"idle", "endSessions"} \cup Asking \cup PastCheck

WTypeOK ==
    /\ login \in BOOLEAN /\ ended \in BOOLEAN
    /\ links \in [Links -> [state : LinkStates, who : Persons \cup {Nobody}]]
    /\ sessions \in [Sessions -> Persons \cup {Nobody}]
    /\ mailed \subseteq Links /\ used \subseteq Links /\ kept \subseteq Links
    /\ idle \subseteq known /\ known \subseteq Persons
    /\ tokens \in [Persons -> 0 .. Burst]
    /\ \A p \in Persons \ known : tokens[p] = Burst
    /\ proc \in [Handlers -> [at : Places,
                              who : Persons \cup {Nobody},
                              link : Links \cup {NoLink},
                              again : BOOLEAN, tracked : BOOLEAN]]
    /\ toggles \in 0 .. MaxToggles /\ faults \in 0 .. MaxFaults
    /\ sent \in [Persons -> Nat] /\ refills \in [Persons -> 0 .. MaxRefills]
    /\ untracked \subseteq Persons
    /\ inFlight \subseteq Handlers /\ late \subseteq Sessions

Init ==
    /\ login = TRUE /\ ended = FALSE /\ inFlight = {} /\ late = {}
    /\ links = [k \in Links |-> Row("unused", Nobody)]
    /\ sessions = [s \in Sessions |-> Nobody]
    /\ mailed = {} /\ used = {} /\ kept = {}
    /\ known = {} /\ idle = {} /\ tokens = [p \in Persons |-> Burst]
    /\ proc = [h \in Handlers |-> Idle]
    /\ toggles = 0 /\ faults = 0
    /\ sent = [p \in Persons |-> 0] /\ refills = [p \in Persons |-> 0]
    /\ untracked = {}

At(h, place)   == proc[h].at = place
Goto(h, place) == proc' = [proc EXCEPT ![h].at = place]
Done(h)        == proc' = [proc EXCEPT ![h] = Idle]
Start(h, q)    == At(h, "idle") /\ proc' = [proc EXCEPT ![h] = q]
-----------------------------------------------------------------------------
(***************************************************************************)
(* The rate limiter, for the address as key                                *)
(***************************************************************************)

\* Mutation of Stale: the sweep empties the table.
AllBuckets == known

Stale == idle

\* A full bucket for an address that has none is stored, unless the table is
\* full: then the sweep removes what is stale, and the new bucket with it,
\* whose time of use is not yet set.
StoresBucket(p) == p \in known \/ Cardinality(known) < MaxBuckets

\* reserve takes a token if there is one; a reservation that would have to
\* wait is cancelled at once, which leaves the bucket as it was.
Reserve(h) ==
    /\ At(h, "reserve")
    /\ LET p == proc[h].who IN
       \/ /\ StoresBucket(p)
          /\ known' = known \cup {p} /\ idle' = idle \ {p}
          /\ \/ /\ tokens[p] > 0
                /\ tokens' = [tokens EXCEPT ![p] = @ - 1]
                /\ proc' = [proc EXCEPT ![h].at = "lookup",
                                        ![h].tracked = TRUE]
             \/ /\ tokens[p] = 0
                /\ Done(h)
                /\ UNCHANGED tokens
       \/ /\ ~StoresBucket(p)
          /\ known' = known \ Stale /\ idle' = idle \ Stale
          /\ tokens' = [q \in Persons |->
                          IF q \in Stale THEN Burst ELSE tokens[q]]
          /\ Goto(h, "lookup")
    /\ UNCHANGED <<rows, refills, tallies, bounds, spent, lock>>

\* Cancel of a reservation that need not have waited: the limiter may or may
\* not give its token back.
Cancel(h) ==
    \/ UNCHANGED tokens
    \/ /\ proc[h].tracked /\ tokens[proc[h].who] < Burst
       /\ tokens' = [tokens EXCEPT ![proc[h].who] = @ + 1]

\* The bucket regains a token.
Refill(p) ==
    /\ p \in known /\ tokens[p] < Burst /\ refills[p] < MaxRefills
    /\ tokens' = [tokens EXCEPT ![p] = @ + 1]
    /\ refills' = [refills EXCEPT ![p] = @ + 1]
    /\ UNCHANGED <<rows, known, idle, tallies, proc, bounds, spent, lock>>

\* Nobody asks for p for two hours, in which the bucket fills up.
Rest(p) ==
    /\ p \in known \ idle
    /\ \A h \in Handlers : proc[h].tracked => proc[h].who # p
    /\ refills[p] + (Burst - tokens[p]) <= MaxRefills
    /\ idle' = idle \cup {p}
    /\ tokens' = [tokens EXCEPT ![p] = Burst]
    /\ refills' = [refills EXCEPT ![p] = @ + (Burst - tokens[p])]
    /\ UNCHANGED <<rows, known, tallies, proc, bounds, spent, lock>>
-----------------------------------------------------------------------------
(***************************************************************************)
(* Asking for a link (handleMagicLink)                                     *)
(***************************************************************************)
Ask(h, p) ==
    /\ login
    /\ Start(h, Request("reserve", p, NoLink, FALSE))
    /\ UNCHANGED <<rows, limiter, tallies, bounds, spent, lock>>

\* An unknown address is answered as if it were known, and costs nothing.
Lookup(h) ==
    /\ At(h, "lookup")
    /\ \/ /\ proc[h].who \in Subscribers
          /\ Goto(h, "createLink")
          /\ UNCHANGED tokens
       \/ /\ proc[h].who \notin Subscribers
          /\ Done(h)
          /\ Cancel(h)
    /\ UNCHANGED <<rows, known, idle, refills, tallies, bounds, spent, lock>>

CreateMagicLink(h) ==
    /\ At(h, "createLink")
    /\ LET p == proc[h].who IN
       /\ \E k \in Links :
            /\ links[k].state = "unused"
            /\ links' = [links EXCEPT ![k] = Row("live", p)]
            /\ proc' = [proc EXCEPT ![h].at = "enqueue", ![h].link = k,
                                    ![h].tracked = FALSE]
       /\ sent' = [sent EXCEPT ![p] = @ + 1]
       /\ untracked' = IF proc[h].tracked THEN untracked
                       ELSE untracked \cup {p}
    /\ UNCHANGED <<mailed, sessions, limiter, bounds, spent, lock>>

Enqueue(h) ==
    /\ At(h, "enqueue")
    /\ mailed' = mailed \cup {proc[h].link}
    /\ Done(h)
    /\ UNCHANGED <<links, sessions, limiter, tallies, bounds, spent, lock>>
-----------------------------------------------------------------------------
(***************************************************************************)
(* Following a link (handleVerify) and logging out                         *)
(***************************************************************************)
\* Mutation of Follow: the switch does not matter to links sent before.
FollowAnyway(h, k) ==
    /\ k \in mailed
    /\ Start(h, Request("load", Nobody, k, k \in used))
    /\ UNCHANGED <<rows, limiter, tallies, bounds, spent, lock>>

Follow(h, k) ==
    /\ k \in mailed /\ login
    /\ Start(h, Request("load", Nobody, k, k \in used))
    /\ UNCHANGED <<rows, limiter, tallies, bounds, spent, lock>>

\* An end of a request that was past the check when the login was turned off.
Leave(h) == inFlight' = inFlight \ {h}

\* GetMagicLink finds no row, or one too old, or one to sign in with.
LoadLink(h) ==
    /\ At(h, "load")
    /\ LET row == links[proc[h].link] IN
       \/ /\ row.state = "gone"
          /\ Done(h) /\ Leave(h)
       \/ /\ row.state = "expired"
          /\ Goto(h, "drop")
          /\ UNCHANGED inFlight
       \/ /\ row.state = "live"
          /\ proc' = [proc EXCEPT ![h].at = "consume", ![h].who = row.who]
          /\ UNCHANGED inFlight
    /\ UNCHANGED <<rows, limiter, tallies, bounds, spent, login, ended, late>>

\* Mutation of DeleteMagicLink: it deletes what has expired.
DeleteIfExpired(k) ==
    links' = IF links[k].state = "expired"
             THEN [links EXCEPT ![k].state = "gone"] ELSE links

DeleteMagicLink(k) == links' = [links EXCEPT ![k].state = "gone"]

DropExpired(h) ==
    /\ At(h, "drop")
    /\ DeleteMagicLink(proc[h].link)
    /\ Done(h) /\ Leave(h)
    /\ UNCHANGED <<mailed, sessions, limiter, tallies, bounds, spent, login,
                   ended, late>>

Consume(h) ==
    /\ At(h, "consume")
    /\ DeleteMagicLink(proc[h].link)
    /\ Goto(h, "issue")
    /\ UNCHANGED <<mailed, sessions, limiter, tallies, bounds, spent, lock>>

CreateSession(h) ==
    /\ At(h, "issue")
    /\ \E s \in Sessions :
         /\ sessions[s] = Nobody
         /\ sessions' = [sessions EXCEPT ![s] = proc[h].who]
         /\ late' = IF ~login /\ h \in inFlight THEN late \cup {s} ELSE late
    /\ used' = used \cup {proc[h].link}
    /\ Done(h) /\ Leave(h)
    /\ UNCHANGED <<links, mailed, limiter, tallies, bounds, kept, login, ended>>

\* A session is logged out, or expires: GetSession then finds it no more, and
\* that its row stays until the next sweep makes no difference.  An error of
\* the deletion is ignored, and the session goes on.
EndSession(s) ==
    /\ sessions[s] # Nobody
    /\ sessions' = [sessions EXCEPT ![s] = Nobody]
    /\ late' = late \ {s}
    /\ UNCHANGED <<links, mailed, limiter, tallies, proc, bounds, spent, login,
                   ended, inFlight>>
-----------------------------------------------------------------------------
(***************************************************************************)
(* xmailman enable login, xmailman disable login (cmdSetWebToggle)         *)
(***************************************************************************)
EnableLogin ==
    /\ toggles < MaxToggles /\ toggles' = toggles + 1
    /\ login' = TRUE /\ ended' = FALSE /\ inFlight' = {}
    /\ UNCHANGED <<rows, limiter, tallies, proc, faults, spent, late>>

DisableLogin(h) ==
    /\ toggles < MaxToggles /\ toggles' = toggles + 1
    /\ login' = FALSE
    /\ ended' = (ended /\ ~login)
    /\ inFlight' = IF login THEN {g \in Handlers : proc[g].at \in PastCheck}
                   ELSE inFlight
    /\ Start(h, Request("endSessions", Nobody, NoLink, FALSE))
    /\ UNCHANGED <<rows, limiter, tallies, faults, spent, late>>

\* DeleteAllSessions.
EndSessions(h) ==
    /\ At(h, "endSessions")
    /\ sessions' = [s \in Sessions |-> Nobody]
    /\ ended' = ~login /\ late' = {}
    /\ Done(h)
    /\ UNCHANGED <<links, mailed, limiter, tallies, bounds, spent, login,
                   inFlight>>
-----------------------------------------------------------------------------
(***************************************************************************)
(* Time, failures and restarts                                             *)
(***************************************************************************)
ExpireLink(k) ==
    /\ links[k].state = "live"
    /\ links' = [links EXCEPT ![k].state = "expired"]
    /\ UNCHANGED <<mailed, sessions, limiter, tallies, proc, bounds, spent,
                   lock>>

\* The hourly sweep, which deletes what has expired.
SweepLinks ==
    /\ links' = [k \in Links |->
                   IF links[k].state = "expired"
                   THEN [links[k] EXCEPT !.state = "gone"] ELSE links[k]]
    /\ UNCHANGED <<mailed, sessions, limiter, tallies, proc, bounds, spent,
                   lock>>

\* A store call fails, and with it the request; only the deletion of a link
\* is not looked at.  Before the link exists the reservation is cancelled.
Fail(h) ==
    /\ proc[h].at \notin {"idle", "reserve"}
    /\ faults < MaxFaults /\ faults' = faults + 1
    /\ \/ /\ At(h, "consume")
          /\ Goto(h, "issue")
          /\ kept' = kept \cup {proc[h].link}
          /\ UNCHANGED <<tokens, inFlight>>
       \/ /\ ~At(h, "consume")
          /\ Done(h) /\ Leave(h)
          /\ IF proc[h].at \in {"lookup", "createLink"} THEN Cancel(h)
             ELSE UNCHANGED tokens
          /\ UNCHANGED kept
    /\ UNCHANGED <<rows, known, idle, refills, tallies, toggles, used, login,
                   ended, late>>

\* The daemon restarts with an empty limiter; commands are processes of their
\* own.
Restart ==
    /\ faults < MaxFaults /\ faults' = faults + 1
    /\ proc' = [h \in Handlers |->
                  IF At(h, "endSessions") THEN proc[h] ELSE Idle]
    /\ known' = {} /\ idle' = {} /\ tokens' = [p \in Persons |-> Burst]
    /\ sent' = [p \in Persons |-> 0] /\ refills' = [p \in Persons |-> 0]
    /\ untracked' = {} /\ inFlight' = {}
    /\ UNCHANGED <<rows, toggles, spent, login, ended, late>>
-----------------------------------------------------------------------------
Step(h) ==
    \/ Reserve(h) \/ Lookup(h) \/ CreateMagicLink(h) \/ Enqueue(h)
    \/ LoadLink(h) \/ DropExpired(h) \/ Consume(h) \/ CreateSession(h)
    \/ DisableLogin(h) \/ EndSessions(h) \/ Fail(h)

Next ==
    \/ \E h \in Handlers : Step(h)
    \/ \E h \in Handlers, p \in Persons : Ask(h, p)
    \/ \E h \in Handlers, k \in Links : Follow(h, k)
    \/ \E p \in Persons : Refill(p) \/ Rest(p)
    \/ \E k \in Links : ExpireLink(k)
    \/ \E s \in Sessions : EndSession(s)
    \/ EnableLogin \/ SweepLinks \/ Restart

Spec == Init /\ [][Next]_vars
-----------------------------------------------------------------------------
(***************************************************************************)
(* Properties                                                              *)
(***************************************************************************)

\* When the login is off and disable login has ended the sessions, the only
\* ones left were opened by a request that had read the switch before
\* (cmdSetWebToggle, "a lockdown logs everyone out").
LockdownHolds ==
    ~login /\ ended =>
        \A s \in Sessions : sessions[s] # Nobody => s \in late

\* "One-time use" (handleVerify): who follows a link that has signed somebody
\* in is not signed in by it, unless its deletion failed; only two requests
\* under way together can share it.
SpentLinkIsSpent ==
    \A h \in Handlers :
        At(h, "issue") /\ proc[h].again => proc[h].link \in kept

\* Since the daemon started an address was sent at most Burst links and what
\* its bucket regained, although buckets are forgotten, unless a link was
\* sent when the table was full (reserve, sweepLocked).
CapKept ==
    \A p \in Persons \ untracked : sent[p] <= Burst + refills[p]
=============================================================================
