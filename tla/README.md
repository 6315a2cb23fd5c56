# A TLA+ verification of xMailman

xMailman is a mailing-list daemon: it takes mail from an MTA over LMTP, keeps
lists, memberships, held messages, an archive and an outbound queue in SQLite,
sends through SMTP, and has a web interface and a command line. These modules
model its core as state machines, check them with TLC on small instances, and
prove their safety with TLAPS for every instance (section 4 says what is proved
and what is not). The source is cited by file and line of this repository
(`PROJECT.json`, "map").

## 1. How the system is put together

One daemon runs these goroutines over one database: the LMTP server and the
pipe socket (one handler per connection), the HTTP server (one per request),
the outbound worker, the digest worker, and an hourly sweeper. The command line
is another process on the same database. Their only shared state is the
database; they never call each other. Every queue between them is a table:
inbound handlers insert into `queued_messages`, the worker drains it; a held
post waits in `held_messages` for a moderator's request or the sweeper.

The store opens one connection (`SetMaxOpenConns(1)`), so **one store call is
atomic**, and apart from `DeleteList` and the claiming of queue rows **nothing
spans two calls**. All the interleaving and all the partial failure of the
system therefore happen *between store calls*, and that is the grain of every
module: one action per store call or SMTP conversation, handlers as processes
with a program counter and the values they read earlier.

| Component | State | Operations | What is hard | What makes it correct |
|---|---|---|---|---|
| Outbound queue, `internal/queue/worker.go`, `mail/smtp.go` | `queued_messages`; the worker's claimed row | enqueue, claim, send, requeue with backoff, give up with a bounce, remove, discard, delete with list | crash or failing call between claim, send and removal; discards and list deletions during a send | bounded attempts, one notice per failure and none about a notice, nothing vanishes or is resent, the queue drains |
| Memberships, `mail/pipeline.go`, `lmtp.go`, `admin.go`, `commands.go`, `server/bounces.go` | subscriptions, confirmation tokens, policy | request, confirm, approve, reject, bounce, disable, re-enable, add, remove | read by member, write by row id, with leave-and-rejoin in between; late bounces and replies; handlers that stop half-way | no delivery without approval, disabling only by own bounces, a join can always be completed |
| Posting and moderation, `mail/pipeline.go`, `policy.go` | held messages, archive, copies queued, Audit Events, list settings | accept, hold, refuse, archive, fan out, approve, reject, discard, expire, sweep | two moderators on one row, expiry during a decision, MTA redelivery after a crash, one failing recipient | no post lost, archived means delivered, the audit trail is true, held posts do not wait for ever |
| Digest worker, `queue/digest.go` | the list's watermark | tick, claim window, compile, enqueue | several instances, posts archived during a tick, settings saved over the watermark | a post is in exactly one digest |
| Lists, domains, roles, `mail/admin.go`, `server/admin.go`, `cmd` | lists, owners, moderators, designated senders | create, delete, grant, revoke | check-then-act on the last owner; handlers in flight when a list goes | never ownerless, nothing orphaned |
| Web access, `server/server.go` | magic links, sessions, login switch | request link, verify, logout, switch off, sweep | one link used twice, a session made while login is switched off | links valid once, switching off is effective |
| Rate limiter, `server/ratelimit.go` | token buckets | allow, sweep | the size limit | never more than the burst |
| Addresses and VERP, `mail/address.go`, `verp.go` | none | parse, encode, decode | separators and suffixes inside list and member names | mail to a printed address comes to the handler, member and list it was printed for |
| Inbound mail, `mail/lmtp.go`, `socket.go`, `commands.go`, `cmd deliver` | connections; what the MTA still waits for; the sender's subscriptions | MAIL, RCPT, DATA, RSET, QUIT, relaying through the socket, routing, command mail, mail to the owners | several recipients and transactions per connection; connections, relays and the daemon ending at any point; the MTA's next attempt beside the abandoned one | every recipient is answered, what is taken was handled (but for what a failed look-up hides), a command mail that comes twice does no more than one |
| Web console and administration, `server/console.go`, `admin.go`, `bounces.go`, `audit.go`, `server.go` | rights (sessions, the management switch, Administrators, roles, memberships), list rows, held posts, archive, audit events | 31 kinds of request: pages, held posts, members, import and export, roles, settings, bounces, lists, Administrators, self-service | rights checked call by call and used afterwards; rows and lists that go, or come back, in between; a form saved in three calls; an audit event written last | nobody sees or changes what he never had a right to; every change is on record |
| Parsing, rewriting, config, SEO, SPA, CSV parsing | none of interest | | | not modelled: formatting without interaction |

`PROJECT.json` lists these components with their status and every hazard found
while reading, at its line, with the property that covers it or the reason why
none does yet.

## 2. The modules

### OutboundQueue (and MailFate)

The table is the variables `rows`, `claimed`, `notDue`, `retries`, `listOf`,
`posted`; the worker is `pc`, `cur`, `curRetries`, `batch`. `pc` follows
`processBatch`:

    idle -BeginBatch-> claim -ClaimNextQueued-> send -SendSucceeds-> remove
                                                 \-SendFails-> failed
    failed -RequeueWithBackoff-> claim     (one attempt less)
    failed -StartGivingUp-> giveUp -BounceToPoster / Drop-> remove
    remove -MarkQueuedSent-> claim -EndBatch-> idle

Every store call of the worker also has a failing variant (`ClaimFails`,
`RequeueFails`, `BounceFails`, `RemoveFails`) that does what the code does with
the error: end the batch, or log and go on. `Crash` forgets what the worker
holds and keeps the table; `DiscardQueued` and `DeleteList` are other
processes. The remaining variables are history: what was attempted, relayed,
reported, abandoned, withdrawn, and which rows a fault struck (`stranded`).
*Relayed* is what `Send` has returned nil for. It is less than what the MTA took:
`smtp.go:117` reports a failed QUIT after the message was accepted, and such a message is
tried again and may be bounced. `NeverResent` and `NoticesAreFinal` speak of the former;
nothing in the code rules out duplicates of the latter.

Abstracted: bodies, and the length of the backoff; time is "due / not yet due".
A batch compares `next_attempt` with the instant it began, hence the set
`batch` fixed by `BeginBatch`; rows leave it when requeued. Rows inserted
while the batch runs wait for the next one. Claims come in any order (the code
takes the longest due first), which only adds behaviours.

`MailFate` is the promise without the mechanism: each message goes from unborn
to pending to *one* of relayed, bounced, dropped, withdrawn. `OutboundQueue`
implements it (`ImplementsMailFate`) under the mapping `FateOf`, with `inHand`
the row being attempted. The one step the two grains disagree on, bouncing
(insert the notice, later delete the post), maps to `Bounce` at the insert.

### Membership

One list; `sub[m]` is the subscription row of address m (id, status, bounce
count), `tokenOf` the confirmation tokens, `proc` the handlers in progress with
what they have read. An update by row id reaches the row only if it is still
there (`StillThere`); an address that leaves and comes back has a new id. The
model keeps the code's mixture: `RecordBounce` and `handleConfirm` look up by
member and write by id, `RejectSubscription` checks by id and deletes by
member. `Stop` ends a handler between any two calls. Mail goes out under a VERP
sender (`EnqueueUnderVERP`) to active members, as a post or a digest (`DeliverPost`), and
as the answer to a command mail to anybody, pending, held and disabled members and
strangers included (`CommandReply`, `commands.go:112`). `inTransit` counts mail
that can still bounce, `mailed` the tokens that can still be answered: both
outlive the subscription they belong to, which is where the trouble is.

Policies are changed at run time (`SetPolicy`). `endorsed`, `viaBounce`,
`bounced`, `overtaken` and `orphaned` are history; `bounced` counts from the last
re-enabling, `overtaken` are rows re-enabled between another handler's look at the
count and its update.

### Posting (and PostFate)

Posts from the MTA to the queue: `Receive` applies `DecidePostAction`, then
`Hold`/`Notify`, `Refuse`, or `Archive`/`Index`/`ListSubscriptions` and one
`EnqueueCopy` per member, then `Answer`. A moderator's decision (`Decide`)
loads the held row and goes the same way, then `DeleteHeldMessage`, then
`RecordAudit`. `Fail` is an error returned by a store call (550 to the MTA, an
error page to a moderator); `Kill` is a handler that dies with the process and
answers nothing, so that the MTA delivers the post again. `Lose` is a connection
that breaks, or an MTA that tires of waiting: the handler learns nothing of it and
works on (`processRecipient` has the server's context, not the connection's), without
`peer`, beside the next attempt; what it answers reaches nobody. `steady` and `missed`
record which members were on regular delivery throughout and which single copies
failed.

`PostFate` is the promise without handlers, rows and copies: a post is with the MTA, in
the moderation queue, or neither, and has the fates archived, delivered, told, refused
and dropped as they come. The MTA forgets it when it is held or decided, or returns it;
the queue clears it once it is decided, or drops it; no fate is taken back. Posting
implements it (`ImplementsPostFate`): a post counts as delivered (`Delivered`) at
whichever step leaves no member `Outstanding`, be it a copy queued, a copy given up, or
the last such member leaving. The spec allows two fates for one post and an archive entry
repeated, because the code does: that is what two decisions on one row, and two attempts
at one delivery, come to.

### Digest

One list and several instances of the worker. An instance goes from `Tick`
through `LoadList` (is the list due), `ReadArchive`, `Claim` or `ClaimLost`,
`ListSubscriptions` and one `EnqueueDigest` per member; `Stop` ends it anywhere.
Posts are stamped (`StampPost`) and inserted (`ArchivePost`) in two actions,
because `ArchiveMessage` takes the time before it has the connection. Settings
are loaded and saved with the list's whole row (`LoadForSave`, `SaveSettings`),
the watermark included. Time is one clock of which every reading is later than
the one before; instances whose clocks differ are not modelled.

Three exceptions of the code are recorded instead of hidden: `late` (a post
inserted behind the back of a worker that had read the archive already, or while
a save of the settings held a watermark past it),
`putBack` (a save restored an older watermark) and `lenient` (a claim went
through on such a watermark, since the update compares with `<=` where its
comment says "still `from`"). The properties say what holds otherwise.

### ListRoles

The lists created in turn at one address, the domain above it, the three role
tables, and requests and commands as handlers. A handler finds a list by
address and then works by id: `ChangeRole`, `Authorize`, `Reload`, `Guard`,
`Write` for roles, `StartCreate`, `CreateList`, `LoadRow`, `SaveRow`,
`FirstOwner` for creation, `StartDelete`, `DeleteList`. The command line enters
where the code does: without `Authorize`, for owners without `Reload` and
`Guard` too. `SaveRow` is GORM's `Save`, which inserts a row it does not find;
a list deleted during a save of its settings comes back. `Reachable` is the
join with the domain. A caller is "somebody who is an owner now", which is what
`requireOwner` asks of the caller; Administrators are taken to be at hand.
`late` records roles inserted after their list's deletion.

### WebAccess

A handler is a web request or a run of `enable`/`disable login`:

    Ask -> reserve -> lookup -> createLink -> enqueue      handleMagicLink
    Follow -> load -> consume -> issue                     handleVerify
                   \-> drop                       (a link that expired)
    EnableLogin | DisableLogin -> endSessions              cmdSetWebToggle

`Ask` and `Follow` read the login switch, as the handlers do first.
`links` and `sessions` are the two tables; a session that expired is not found
by `GetSession`, so its row is taken to be gone at once. `known`, `tokens` and
`idle` are the limiter's map: `StoresBucket` and `Stale` are its sweep, which
runs when a bucket is added to a full table and then removes the new one as well
(its `lastSeen` is not yet set), so that the address is not limited: `untracked`.
`Rest` is `pruneAfter` without a request, twice the time an empty bucket needs to
fill; that is why forgetting what is stale costs nothing. What `Cancel` of a
reservation does belongs to the library and is left open: the token comes back
or not. A refused reservation is taken and cancelled in one step.

History: `inFlight` are the requests past the switch when it was turned off,
`late` the sessions they open, `ended` that all sessions have been deleted since.
`used` and `kept` are links that opened a session, and those whose deletion
failed (`handleVerify` ignores that error).

### Addresses

Pure operators: `ParseAddress`, `EncodeVERP`, `DecodeVERP`, the `Route` that
`processRecipient` and `handleBounce` take, and `Printed`, the address xMailman
prints for each kind of answer it expects. An address is a sequence of tokens:
names, the characters the code looks for (`+`, `=`, `@`), and the suffixes of list
addresses. A name holds none of these, so the code's searches for the first or last
separator and for a suffix are exact on tokens. `Unambiguous` names the
addresses that can be told apart at all; section 5 lists the others. `ListAddress` is
what the address of a list looks like: one `@` with something on either side.

### Inbound

A connection is a record: where the server is with it (`at`), the dialogue's state
(`mailSet`, `rcpts`), the recipient and command line it is at, the text it
received, and the MTA's end of it. The MTA is the environment: `todo` are the
recipients it has no answer for, `taken` and `refused` those it has.

    Connect -> command -handleMail, handleRcpt, handleData-> data -DataEnds-> process
    Relay -> relay -RelayEnds-> process                          (one recipient)
    process: Handle | handleOwnerForward | RequestBegins .. RequestEnds,
             each ending with Finish: the answer, then the next recipient

`AfterMail`, `Answer`, `AfterLoss`, `Proceed` are the parts of the dialogue where
recipients could leak into another transaction, or an answer be lost. Command mail is
modelled store call by store call, since two copies of one mail may be carried out at
the same time: `parseCommands` gives the lines that are commands, `Following` the next
one, with `ReadSubscription` and `WriteSubscription` for each. The handlers of posts,
confirmations and decisions are one step that succeeds or fails (`Handle`): Membership
and Posting have their calls. `Overlook` is the third outcome, which only bounces and
unsubscriptions have: `lmtp.go:241`, 259 and 270 take every error of a look-up for "not
subscribed", so that a failing store is answered with 250 and nothing is done.
`Abandon` is an MTA that drops a transaction, `Lose` a lost
connection, `RelayKilled` a relay killed by the MTA, `DaemonStops` ends everything.

The goroutine of a lost connection goes on (`AfterLoss` with `at = "process"`), and
the MTA's next attempt may overlap it. History: `failed`, `cut` (handed on in part),
`killed`, `unsaid` (a relay left without an answer), `overlooked`, `skipped` (owners whose address
could not be read) and `spoilt` (command mails with a failed command, or an abandoned
copy that was cut or stopped half-way).

### Console

A request is the sequence of store calls its handler makes, and an action is one
call: `Program(a)` is `Gate(op)`, the checks of the route, then `Work(a)`, the reads
and writes of the handler, then `Trail(a)`, its audit event. The named programs
(`AddMember`, `RevokeRole`, `handleConsoleSettings`, ...) are the functions of the
code; `todo` is what is left of one. `Check` asks the gate at the head of it (`Allowed`),
`Find` looks a list up by address, `Load` the row the request is about and what the
handler asks of it (`Fits`), and so on. `AfterError` says what each call's failure
does: gates fail closed, the server's audit and a new list's first owner are only logged,
an import goes on. `Fault`, `HangUp` (the browser goes away, and with it the
request's context), `Restart`, and `Outside` (the command line, mail, the sweep) come
between any two calls.

`had` and `kept` are the rights a caller held at some time, and all the time, while
the request ran: a right checked in one call and used in a later one cannot be asked
to be still there, but it must have been there, for that very list. Lists have ids that
are never used again and an address that may be; `gated` is the list the gate was for.

## 3. The runs

| Run | Shows | Bounds, and why they are enough |
|---|---|---|
| `outbound_queue` | `AttemptsBounded`, `NoticesAreFinal`, `NothingVanishes`, `NeverResent`, the refinement, and that the queue drains | 2 submitted messages and a notice for each, 2 attempts, 1 fault anywhere: a requeue, a last attempt, a notice that fails in turn, a row withdrawn or a crash at every step of another's delivery |
| `queue_restarts` | violated: `SurvivesRestarts` (finding 1) | 1 message, 1 crash |
| `membership` | `ApprovedUnlessBounced`, `DisabledByOwnBounces`, `PendingCanConfirm` | 1 address with 2 successive subscriptions, 2 handlers, 2 tokens, 2 mails that can bounce, threshold 2, 1 policy change, 1 fault: addresses share nothing but the policy, and a race needs two handlers and a re-created row |
| `membership_join` | `JoinNotBlocked` | the same with one row and threshold 1 |
| `posting` | `NoPostLost`, `ArchivedIsDelivered`, `AuditIsTruthful`, the refinement of `PostFate`, `EveryPostSettles` | 1 post of a subscriber, 2 members, 2 handlers, 2 held rows, 1 fault, 1 settings or membership change: posts share only settings; two handlers make every overlap of an attempt and the one it abandoned, of a redelivery and a decision, or of two decisions. The safety properties pass with `MaxFaults = 2` (1.8 million states) as well |
| `digest` | `NoDoubleSend`, `CompiledUnlessLate`, `DigestDelivered`, `WindowsSpaced` | 2 instances, 2 posts, 2 members, 1 settings save or mode change, 1 fault, periods of 2 and 3 in 5 clock readings: a post inside a window and one at its edge, two digests in a row, an instance overtaking the other. `Savers = {s1, s2, s3}`, `MaxChanges = 3` with 1 post, 1 member and no fault, where saves overlap each other, pass as well |
| `digest_sent_once` | violated: `SentOnce` (finding 2) | 1 instance, 1 post, 1 save |
| `list_roles` | `LTypeOK`, `NothingOrphaned`, `LastOwnerGuarded`, `NewListHasNoRoles`, `CreatedWithOwner` | 2 handlers, 2 subscribers, owners and moderators, 2 successive lists, the domain added once, 1 fault: two owners are the least the guard can be wrong about, two lists the least a role can outlive one. `MaxDomains = 2` (7.7 million states) passes as well |
| `list_roles_ownerless` | violated: `NeverOwnerless` (finding 3) | web requests only, no fault |
| `web_access` | `LockdownHolds`, `SpentLinkIsSpent`, `CapKept` | 2 handlers, 1 subscriber and an unknown address, 2 links, 2 sessions, 2 toggles, 1 fault or restart, a limiter of 1 bucket of 1 token: the login goes off and on around a request at every step, two requests share a link, and one address fills the limiter's table |
| `inbound` | `TakenWasHandled` (a handler ran to its end; excepted are `unsaid`, `skipped` and `overlooked`), `RefusedForCause`, `HandledOncePerAttempt`, `RoutedAsPrinted`, `NothingCutShort`, `RedeliveryHarmless`, `EveryMailSettles` | 2 connections, 2 faults; every kind of address for a plain list and lists named `dev-owner` and `dev-bounces`, members with every separator in their names; 5 command mails for each status of their sender; two recipients, two messages: two connections make an abandoned attempt and the next one overlap at every step, and a second fault ends the next one too |
| `console` | `ActsWithinRights`, `SeesWithinRights`, `NoneDeniedWrongly`, `ChangesRecorded`, `FormIsWhole`, `CTypeOK` | 35 requests of 2 Subscribers on 2 lists (a discussion list and a newsletter), rightful and not, next to a saved form or a list created anew, and 1 event (change of rights, failing call, hang-up, restart) anywhere: one change between a check and its use is what a stale right takes; the third list id is the deleted address used again |

Every module states a type invariant; `LTypeOK` and `CTypeOK` are checked in the runs
(the first also says which ids are in use, the second that addresses are distinct), the
others document the variables and are proved (section 4).

Symmetry (handlers, tokens, members, instances, posts, subscribers, links) is used in
runs without liveness only. All runs but those of the queue say `CHECK_DEADLOCK
FALSE`: there the environment is bounded, and with all posts sent, mails answered
or ids used nothing is left to do. The queue runs check deadlock: its worker always
polls again.

Every property of a passing run has a mutant in `PROJECT.json`: a plausible bug
in one definition that makes the property fail under the same configuration.

### Fairness

- *Queue*: `WF` of the worker (its goroutine loops until shut down) and of each
  backoff running out (time passes). Nobody has to enqueue, discard or crash.
- *Membership*: `WF` of each handler's next step; `SF` of the pending member
  asking again and answering the mail. The comment on `Subscribe` speaks of
  exactly this member ("a lost email can't permanently block a join"); strong,
  because handlers being free is all they wait for.
- *Posting*: `WF` of the handlers, of the MTA's retries, of time and of the
  hourly sweep. Moderators need never act.
- *Inbound*: `WF` of each connection's next step (a goroutine runs on, and an MTA
  keeps trying while it has recipients without an answer) and of the daemon being
  started again. No relay has to be started and no fault to happen.

## 4. What is proved

Every theorem holds for every value of the constants that satisfies the `ASSUME` of
its module: any sets of handlers, members, posts, rows, addresses, and any of the
numbers that bound a TLC run. The assumptions say that numbers are numbers, that the
values that mean "none" are not members of the sets they are missing from, and what
else is listed below. In each module `TypeCorrect` is the type invariant, and the
others are the properties of section 3 under the same names.

| Module | Theorems |
|---|---|
| `OutboundQueueProofs` | `TypeCorrect`, `AttemptsBoundedHolds`, `NoticesAreFinalHolds`, `NothingVanishesHolds`, `NeverResentHolds`, `QueueImplementsMailFate` |
| `ListRolesProofs` | `TypeCorrect`, `NothingOrphanedHolds`, `NewListHasNoRolesHolds`, `LastOwnerGuardedHolds`, `CreatedWithOwnerHolds` |
| `PostingProofs` | `TypeCorrect`, `NoPostLostHolds`, `ArchivedIsDeliveredHolds`, `AuditIsTruthfulHolds`, `PostingImplementsPostFate` |
| `WebAccessProofs` | `TypeCorrect`, `LockdownHoldsAlways`, `SpentLinkIsSpentHolds`, `CapKeptHolds` |
| `MembershipProofs` | `TypeCorrect`, `ApprovedHolds`, `OwnBouncesHolds`, `PendingHolds` |
| `DigestProofs` | `TypeCorrect`, `NoDoubleSendHolds`, `CompiledHolds`, `DeliveredHolds`, `SpacedHolds` |
| `InboundProofs` | `TypeCorrect`, `HandledOnceHolds`, `RefusedHolds`, `WholeHolds`, `TakenHolds`, `RoutedHolds`, `RedeliveryHolds` |
| `ConsoleProofs` | `Inductive`, `TypeCorrect`, `ActsHolds`, `SeesHolds`, `DeniedHolds`, `RecordedHolds`, `FormHolds` |

None of the properties is inductive alone: each speaks of the tables, and what keeps
it true is what a handler half-way through its calls still remembers. Every module
therefore has an inductive invariant `IInv`, checked with TLC before it was proved,
whose main part says what the *place* of a handler implies of what it carries.

*OutboundQueue.* `attempts[m] <= MaxRetries` says nothing of the row the worker is
about to try. `IInv` ties the attempts of a row to its retry counter at each position
of the worker (attempts equal retries for an unclaimed row; one more after a
conversation), says that what the worker holds is claimed unless withdrawn, and that
unclaimed rows have no fate yet. Its parts are `Untouched` (a row not yet inserted has
no history), `Waiting` (rows in the table), `InHand` (the row the worker holds),
`Abandonment` (a row given up without a notice is out of attempts) and `NotWithdrawn`.
The refinement then needs only the invariant and, per action, the MailFate action it
maps to.

*ListRoles* (`RolesAssumption`: roles, operations and routes are among the modelled
ones). `Serves` (a handler about to write holds the id of a list it has found and a
person to write), `Guarded` (a revocation which passed the guard read owners other
than the one who is to go) and `Untouched` (ids not yet given out carry no roles; this
is why a list cannot inherit anybody). `LastOwnerGuarded` is an action property:
`OnlyRevocation` shows that a list which stays loses owners only in the `Write` of a
revocation, `OthersStay` that a step moves no other handler, and `Guarded` then says
what that revocation had read.

*Posting* (the roles of a sender are sets of the three modelled ones). `Earned` says
what each place has behind it: who is about to delete a held row has delivered the post
or told its sender, who answers the MTA has archived, held or refused. What others rely
on is `Keeps`: tables only grow where a handler looks, a post once `Settled` stays so,
and a held row that goes leaves a settled post. The proof is rely and guarantee: each
step is shown to keep `Keeps`, and `Keeps` to preserve what every other handler earned.
The refinement needs a second invariant, `AttemptsOK`: whoever still has the MTA waiting
carries a post that is not answered yet, and nobody else does for the same post; and the
row of a decision holds its post until the post is `Decided`. The latter is why a
moderator's late discard is no `Drop` of a post that met no fate, and why a row
deleted twice does no harm. Each action then maps to one of PostFate, `Deliver` taking
all posts that have nobody `Outstanding` after it.
`ArchivedIsDelivered` came out stronger than it was first written: it had excepted posts
that a handler has in hand, and the proof never used it.

*WebAccess* (finitely many requests at a time: the cap counts them). `LimiterOK` is the
argument for `CapKept`: tokens in the bucket, links sent and reservations not yet used
together never exceed the burst and what was refilled, and a bucket that is not stored
or not in use is full, so that sweeping it costs nothing. `LockOK` says that requests past the
switch while it is off are the ones counted in `inFlight`; `Rightful` that a session is
opened with a link that was consumed before.

*Membership* (threshold at least 1). `Owns`: the row id a handler carries is its
member's, now or formerly, and no other member's; so a write by id never reaches
anybody else's row. `Carries` and `TokenOK` say what each place of the join,
confirmation and bounce handlers implies; `Confirmable`, that whoever is pending has a
token that is stored and that no confirmation under way is about to use up for an
earlier request. In the proofs row ids and counters are any naturals: the bounds of a
TLC run play no part.

*Digest* (periods are at least 1). `WorkOK`: an instance holds a window at least a
period long and at the claim all that came in it. `Grows`: while no save has put it
back, the watermark is beyond every digest. `Covered` and `InDigest` extend
`CompiledUnlessLate` to the watermarks that savers have read and may put back. The first
attempts failed for good reasons: with more than one save the properties were too strong
beyond the bounds of the run of that time. A post archived while a save holds a newer
watermark is skipped when the save writes it, so `late` covers it now; and a save can
move the watermark on by less than a period, so `WindowsSpaced` is about the steps of
instances. The bounds with three saves in section 3 show both.

*Inbound* (finitely many connections; the bodies of messages are sequences; and
`AddressAssumption`, which says what addresses are printed of: a list's has one `@`,
with a name before it and a domain after it, since `parseListAddr` splits at the first
`@`, `validListName` allows none and host names have none; only three kinds of address
have a part after the `+`; and the member in a VERP sender has a name and a domain,
without which `EncodeVERP` returns an error and the copy goes out under the list's own
address). There are three arguments.

- *Connections.* `Sound` is what the place of a connection says of its dialogue:
  `Staged`, `OwnRcpts` (its recipients are those its message still needs), `InOrder`,
  `WholeOrKilled`. `OneSender` says that of the attempts at one recipient only one
  still has an MTA at the other end, and `CountOK` that each further one was paid for
  with a fault; together they give `HandledOncePerAttempt` for any number of faults.
- *Addresses.* `RoutedHolds` is about names of any length. No recursion is needed:
  searching for the first or last separator is choosing the least or greatest of some
  places, so the lemmas say where the separators of a printed address are (`LastIs`,
  `FirstIs`, `Joined`, `Apart`), what the parser then takes (`ParsedPlus`, `ParsedDash`,
  `ParsedPost`), and that decoding ends at the member that was encoded (`Marked`,
  `Divided`, `Decoded`). `RepliedNowhere` is the exception: what the Reply-To of
  notices leads to has two `@` and is the address of no list. `TakenHolds` uses it,
  for mail to the owners; for the rest of it, the answer to a mail and the end of its
  handler are one step (`EndedReplies`), `Overlook` being the one that answers without.
- *Command mail.* `RedeliveryHolds` says that two copies of one mail, each reading
  and writing line by line while the other does, end where one would. A second
  invariant, `RInv`, rests on `IInv`: the subscription differs from what it was only by
  what the mail asks for (`Wanted`), and whoever has passed a line has carried it out
  for good (`Performed`), whatever another copy that is behind does to it now. For a
  setting this takes an escape, in `Obeyed`: it may be undone by a copy that is at or
  before that line, which will therefore come to it again. Each action is first
  shown to be one of a few kinds of step (`StepMoves`: a connection that begins, ends,
  stays, or does one line), and only the last can touch what another copy has done.

*Console.* Assumed are well-formed requests (`AsksAssumption`: an operation of the
code for a person, with a role where its route has one; rightful or not is open), at
the start lists with ids from 1 on, addresses of their own and whole forms
(`StartAssumption`; rights and subscriptions are any, and gaps and reused addresses come
about by deletions), and that a held message or post is filed in a list and has a
sender. The argument is in three layers:

- *Programs.* The 31 kinds of request are sequences of calls, and what must
  be shown of them is their order: gates first, nothing but further writes and the record
  after a write, the owner's gate right after the first look-up (`Shapely`, `Follows`, `Fit`).
  It is shown of each part (`Works`, and the lemmas on joined sequences) and then kept by
  taking calls off the front.
- *Requests.* `Sane` says what follows from a call being no longer ahead: `Cleared`
  (every gate passed was backed by a right, held at that time, to the very list the
  request works on), `Denial` (a gate that said no was asked while a right was missing),
  `Seen`, `Trailed` (who has written has only the record, or the rest of a form, before
  it) and `Checked` (the row loaded is the one the request is about). Rights noted
  only grow in `had` and shrink in `kept`, so no step of another actor undoes any of it.
- *Tables.* `TablesOK` and `Placed`: a list a request has found keeps its id and its
  address even when it is deleted, because ids are never given out again (`Keeps`).

`ActsHolds` then goes through the steps that change a table. `FormHolds` has an
invariant of its own on top, `FormInv`: at each call of a form, `HalfSaved` says that
the parts saved so far are still there unless another save was met. Where a
`CASE` had overlapping guards (`AfterError` and the trails in Console, `Changed` in
Inbound) the proofs did not go through, rightly: which branch such a `CASE` takes is
open in TLA+, though TLC takes the first. The guards are disjoint now.

Only model-checked:

- liveness (`EverythingSettles`, `JoinNotBlocked`, `EveryPostSettles`,
  `EveryMailSettles`): fairness and ENABLED are beyond the prover.

Every other property of a passing run, invariants, action properties and the
refinements of `MailFate` and `PostFate`, is a theorem.

Two of the proofs changed what they prove, because the first version was false beyond
the bounds of its run. `RedeliveryHarmless` spoke of every mail that some handler had finished. With
two faults a copy that was abandoned, and then carried out to its end, can be followed by
one that the daemon stops in the middle of: the mail is half done once more until the MTA
sends it again. So the property speaks of what the MTA takes for delivered, and the run
has two faults. `RoutedAsPrinted` had
no exception for an `=` after the first `@` of a member (section 5); the run has such
a member now.

## 5. Findings

1. **A claimed row is never released** (`worker.go:63`). A daemon that stops
   between the claim and its end, or whose requeue update fails, leaves the row
   claimed for good; it is neither sent nor bounced. ADR 0006 says the queue
   loses nothing and survives restarts. Conversely this is what makes
   `NeverResent` true: a start-up that released claims would send a message
   again whose removal had failed (that is the mutant of `NeverResent`).
2. **Saving settings can repeat a digest** (`sqlite.go:338`). The save writes
   the whole row it read, the watermark included; a digest claimed in between
   is forgotten and its window is sent again at the next tick.
3. **Two revocations at once leave a list ownerless** (`admin.go:167`). The
   guard and the removal are two store calls. `LastOwnerGuarded` shows that
   this, and the command line's `owner remove`, which has no guard, are the only
   ways to it.

These have runs of their own. The following came up while modelling; the passing
properties have them as their named exceptions, or the text says how they were seen.

*Memberships and posts*

- Bounces of mail to an earlier subscription disable a request that waits for
  approval, and re-enabling activates it (`pipeline.go:387`), against
  CONTEXT.md:117. `ApprovedUnlessBounced` shows it is the only way round (`viaBounce`).
- A member re-enabled between another handler's look at the count and its update is
  disabled again at once, with the count at zero (`pipeline.go:386`), though
  CONTEXT.md:73 has a re-enabled subscription start fresh (`overtaken`).
- A moderator's decision is delivered and the held row deleted before the audit
  event is written (`pipeline.go:332`); if that fails the decision stands
  unrecorded, against the comment at `pipeline.go:363`.
- The Reply-To of notices is `dev@example.org-owner@example.org` (`pipeline.go:308`
  and 422, `admin.go:121`, 213, 230, 249): a reply reaches no owner (`RoutedAsPrinted`).
- A member whose name holds `-bounces+` has his bounces counted for somebody else
  (`verp.go:57`), and so has one whose quoted name holds an `@` and then an `=`: the
  decoder takes the last `=` for the `@` it replaced, since "Domain labels cannot
  contain" one (`verp.go:67`), but the encoder cuts at the first `@`. A list named
  `dev-owner` gets no posts, and one with a `+`, which only the command line allows,
  gets no suffixed mail (`Unambiguous`).

*Inbound mail*

- A bounce or an unsubscription whose look-up fails in the store is answered with 250
  and not carried out (`lmtp.go:241`, 259, 270): the code means those who are not
  subscribed, but takes every error for that. The MTA does not try again; `TakenWasHandled` has it as
  an exception (`overlooked`).
- A relay exits with 0 if the daemon stops before it answers (`cmd.go:480`): the MTA
  takes the message for delivered (`unsaid`). Without a daemon it exits with 1, and
  the message is returned instead of tried again. Any store error is a 550 likewise.
- What a killed relay had copied is processed like a whole message
  (`socket.go:62`; `killed`).
- A confirmation or decision that the MTA delivers twice is refused the second time,
  and its sender told that it failed, though it was carried out.
- An owner whose address cannot be read gets no copy, and nobody an error
  (`commands.go:304`; `skipped`).

*Web*

- An owner's save of the settings puts back the list type an Administrator has changed
  since, and brings back, without owners, a list deleted since (`sqlite.go:338`).
- The form is saved in three calls (`console.go:488`): two forms at a time, or a
  failing call, leave a mixture (`mixed`).
- `AddMember` and `ImportMembers` look the list up again by its address
  (`console.go:543`, 697): if it was deleted and created anew meanwhile, the owner of
  the old one adds members to the new one (`AtReusedAddress`).
- A browser that goes away between a change and its audit event leaves the change
  unrecorded, since both use the request's context (`audit.go:35`).
- The settings of one's own subscription are not behind the management switch, and
  leave no audit event; that is how the routes are registered, and is modelled so.

*Start-up*: a message size limit of 1,000,000 bytes is taken for the old default and
reset each time a process opens the store (`sqlite.go:114`); not modelled.

## 6. Not modelled

Message parsing and rewriting (`mailparse`, `modify.go`), configuration, the parsing of
CSV files, the single-page application, public and SEO pages, seeding and scripts:
formatting or pure I/O, with no state that another component sees. Delivery at the
MTA: what an SMTP conversation that ended in an error did is left open. Deadlines:
the code sets none. The limits per client IP, which guard requests that change nothing
else. Who may decide by mail on a held post (the token is the right). The command
line's changes of list type and Designated Senders. Paging, search and the archive's
retention.

## 7. Plan

1. A composition of Posting with OutboundQueue: a copy that is queued meets a MailFate.
2. ListRoles: the list type (saved over like the watermark), and an Administrator
   as a caller that loses the role meanwhile.
3. The archive's index and its backfill at start-up.
