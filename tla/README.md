# A TLA+ verification of group-limit-bot

group-limit-bot keeps a channel's comment group for the channel's subscribers.
A group is bound to its linked channel with `/bind`; from then on the bot
deletes the messages of everyone whom `getChatMember` does not find in the
channel. It is one Go process: goroutines that handle updates, two background
loops, an SQLite database and several in-memory copies of what the database or
Telegram said. Its difficulty lies between those: what happens to a decision
that was taken from one of them while another changed.

This directory holds TLA+ modules of the stateful parts, TLC configurations that
model-check them, and TLAPS proofs. `PROJECT.json` says which lines of the
source each definition stands for, which run checks what, and which hazard each
property is for. In the text below, `gating/cache.go` is short for
`src/internal/gating/cache.go`, and so on.

    tlc -workers 2 -config CacheSafety.cfg MemberCache
    tlapm MemberCache_proofs.tla

## 1. The system

### Components, their state and operations

| component | code | state | operations |
|---|---|---|---|
| Membership cache and approvals | `gating/cache.go` (MemberCache), `store/store.go`, `binding/service.go`, `gating/gate.go` | L1: a map of expiries with a per-group generation counter, under an RWMutex. L2: tables `bindings`, `binding_epochs`, `verified_members` | Get (L1, then L2 and refill), Set (epoch-guarded upsert, then L1), Prime, Prune, DropGroup; UpsertBinding, DeleteBinding, UpsertVerifiedIfBound, DeleteExpiredVerified |
| Media group deduplication | `gating/cache.go` (MediaGroupDedup), `gating/gate.go` | map of decisions with expiry, map of pending channels | Acquire, Publish, Abort, compaction |
| Guest-bot punishment | `gating/executor.go`, `store/store.go` | table `guest_violations` | Apply, handleGuest, IncrementGuestViolation |
| Group bot allowlist | `gating/allowlist.go`, `commands/handlers.go`, `store/store.go` | table `group_bot_allowlist`, lazily loaded copy per group | Allowed, Invalidate, `/allowbot`, `/disallowbot` |
| Telegram API client | `telegram/client.go` | pause per chat, token bucket | acquire, setPause, handleAPIError, one method per API call |
| Runtime loop and shutdown | `runtime/runtime.go` | update channel, semaphore, wait groups, contexts | the dispatch loop, cleanupLoop, the shutdown sequence |
| Gate decision table | `gating/gate.go`, `gating/decision.go` | none of its own | Decide: decideBase, decideGuest, botAllowed, demoteAllowedCommand |
| Command dispatcher | `commands/*.go`, `binding/service.go` | none that changes | IsPureCommand, Dispatch, the creator checks, `/bind`, `/unbind`, `/status`, `/allowbot`, `/disallowbot`; delayed deletion of replies |
| Self-check | `runtime/selfcheck.go` | time of the last warning per group | tick, checkBinding, the throttle |
| Metrics | `metrics/metrics.go` | counters, deletion window, error ring | RecordDelete, RecordError, snapshots for `/status` |
| Schema migrations | `store/store.go` | `PRAGMA user_version`, the tables and their layout | Open, migrate: five scripts of statements |
| Self-updater | `updater/updater.go` | the executable, its backup, a temporary file | Update, DownloadAndReplace |
| Configuration, entry point, logging | `config/`, `cmd/`, `logging/` | read once | start-up |

### How they interact

`runtime.Run` receives updates from telego's channel and gives each a goroutine,
at most 128 at a time. `handleUpdate` sends commands to the dispatcher and
everything else to `Gate.Decide`, whose outcome `Executor.Apply` carries out. The
gate calls, in this order, the binding lookup, the group allowlist (for bots),
the album deduplication, the membership cache and `getChatMember`. The commands
change the same tables from other handler goroutines and call `DropGroup` or
`Invalidate` *after* their SQL transaction. Every call to Telegram passes the
client's `acquire`. Nothing orders two handlers, and nothing holds a lock across
two of those steps. The self-check loop reads the bindings and warns groups beside
all that. `update` is another process, which replaces the executable under the
service that runs it; the next start migrates the database.

### What is hard, and what makes each part correct

* **Membership cache.** An approval travels from `getChatMember` to SQLite to
  memory in several steps, and from SQLite to memory on two other routes (Get's
  refill and Prime), while `/unbind` and `/bind` revoke in two steps of their
  own. Correct: no approval lives longer than one TTL after Telegram confirmed
  the user in that channel; what was revoked comes back nowhere; the map stays
  within its capacity; there is one record per key.
* **Album deduplication.** Handlers of an album arrive in any order with times
  sampled before the mutex; a leader can panic, and be slow. Correct: one
  decision at a time per album, no waiter without someone to wake it, one leader
  per TTL window, a reused decision is a published one and not too old.
* **Guest punishment.** Four API and SQL calls, each of which may fail, on updates
  that may be delivered again, with a table that `/unbind` empties. Correct:
  punishment only after as many different new replies, all under the present
  binding, as its threshold says.
* **Group allowlist.** A load and an invalidation race. Correct: the copy agrees
  with the table, or there is a known reason.
* **API client.** Overlapping 429 answers, callers at every point of `acquire`.
  Correct: a pause is never shortened, whoever finds it waits for its end, and
  calls end.
* **Runtime.** A signal at any moment, a full semaphore, panicking handlers.
  Correct: nothing fetched is lost, handlers keep their resources, Run returns.
* **Gate and commands.** A message has many features at once (a guest marker, a
  sender chat, a bot, an edit, an album, a command), the branches that look at
  them overlap, several calls may fail, and the binding changes between any two
  steps. Correct: whatever a message carries, a sender who has not shown access
  does not keep it in the group and reaches no command; trusted senders lose
  nothing; the tables change by commands of the creator only.
* **Self-check.** Two checks per group that answer, fail or fail transiently, a
  warning that may fail or arrive unnoticed, groups that come and go between the
  listing and the check. Correct: a group is warned once per cooldown and, as long
  as it stays broken, again after each.
* **Migrations and updates.** A process that ends between any two statements or
  file operations, another that works on the same files. Correct: the next start
  resumes, some copy of the binary survives, and no epoch is given out that a
  handler may still hold.

The complete list, with lines, is `hazards` in `PROJECT.json`.

## 2. Modules

Actions are the critical sections, SQL statements and API calls of the code:
between two of them any other goroutine may run. "History" variables record what
happened so that a property can speak of it; no guard reads one.

| module | models | theorems in |
|---|---|---|
| `MemberCache` | membership cache, tables, commands, cleanup, restarts | `MemberCache_proofs` |
| `Approvals` | what the bot promises about persisted approvals (abstract) | |
| `MediaGroupDedup`, `MCMediaGroupDedup` | album deduplication as the gate uses it | `MediaGroupDedup_proofs` |
| `AlbumDecisions` | what it promises about the messages of an album (abstract) | |
| `GroupAllowlist`, `MCGroupAllowlist` | allowlist, its copy, the commands | `GroupAllowlist_proofs` |
| `GuestPunishment`, `MCGuestPunishment` | executor, violations, delivery of updates | `GuestPunishment_proofs` |
| `ApiClient` | pause, token bucket, calls | `ApiClient_proofs` |
| `UpdateRuntime` | dispatch loop and shutdown | `Runtime_proofs` |
| `SelfCheck` | the self-check loop | `Runtime_proofs` |
| `BotProcess` | both loops of the process, killed and started again | `Runtime_proofs` |
| `HandleUpdate`, `MCHandleUpdate` | gate, dispatcher and command handlers | `HandleUpdate_proofs` |
| `Moderation` | what the bot promises about the messages of a group (abstract) | |
| `Updater` | one or more runs of `update` on the files | with `Deployment` |
| `Migrations` | opening and migrating the database | with `Deployment` |
| `Deployment` | both, with the service and the operator | `Deployment_proofs` |

**MemberCache.** `mem` and `verified` are sets of records with a key
`<<group, channel, user>>`. A handler's `job` walks through `decideBase` from the
binding lookup on: `Lookup`, `SampleNow`, then Get (`GetMem`, `PurgeExpired`,
`GetVerified`, `Refill`), then the API call (`ConfirmMember`,
`AskWithoutApproval`), then Set (`SampleGeneration`, `UpsertVerifiedIfBound`,
`WriteMem`). A failed SQL read is a miss (`GetVerifiedFails`); a failed or refused
upsert caches nothing (`UpsertRefused`). A command is its transaction
(`UpsertBinding`, `DeleteBinding`) and, when that revoked approvals, `DropGroup`.
Eviction picks the earliest expiries, ties in any order. `Unix` truncates an
expiry to whole seconds, as the column does: `Second` is the number of clock ticks
in one. History: `lastSeen`, `wiped`, and the fields `epoch` and `via` of entries.

**Approvals.** Per group: the channel, the users confirmed since the latest
`/bind`, the users holding a persisted approval. No epochs, keys, handlers or
transactions. `MemberCache` implements it with
`bound <- boundChannel, confirmed <- confirmedUsers, approved <- approvedUsers`,
where a user is confirmed while some handler holds a confirmation that the epoch
guard would still accept.

**MediaGroupDedup.** One handler per message; a channel is named after the leader
that made it, `pending` and `closed` say whether it is in the map and whether it
is closed, which the code does in two steps. `Panic` is the deferred Abort.
Compaction comes after the close and has its own critical section.

**AlbumDecisions.** Per album: the message that decides for it, and the decision that stands, with its end. Per message: its fate. A
message begins to decide, takes over what stands, concludes, gives up, or decides
alone once the bot stops; what stands is forgotten only when its time is over. No
mutex, channels, wake-ups or entries. `MediaGroupDedup` implements it with
`deciding <- deciders` (the handlers between `AcquireLead` and `Publish` or `Panic`,
whatever `pending` says), `standing` read off the map, and `fate`, which a handler
has from its critical section on, before it has closed its channel.

**GuestPunishment.** One group; an update is a guest reply, perhaps an edited one.
`Deliver`, `Confirm` and `Restart` are Telegram's offset protocol: what was not
confirmed by a later `getUpdates` comes again. `Count` is IncrementGuestViolation,
and the call it leads to follows in a step of its own, `Punish`. Deleting the summon
affects nothing that follows and is part of `Count`. Metrics and logs are left out.
History: `judged`, the replies found to be violations since the last `/unbind`;
`counted`, those that have been counted; `taken`, the updates that earlier processes
had received; `surplus`, the counts that are due to no reply of the present binding.

**GroupAllowlist.** `AskAllowed`, `CheckCache`, `ListAllowedBots`, `FillCache` are
the two critical sections of `groupSet` and the query between them; a command is
its check, its statement and its `Invalidate`. History: `removedBy`, `overlapped`.

**ApiClient.** Times are times left, so a `Tick` lowers them and the state space
is finite without a bound on the clock. All API methods share one shape (acquire,
request with timeout, 429 or not), and one `call` record stands for any of them.

**UpdateRuntime.** Updates are numbered; `fetched`, `taken`, `running` and
`finished` say where each is. The select on `handlerCtx.Done` in the dispatch loop
has no action: `cancelHandlers` is only called after the loop.

**HandleUpdate.** A handler goes through the whole of `handleUpdate`: `Lookup`, the
branches of `decideBase` in the order of the code, an action each (`ServiceMessage`,
`GuestReply`, `SenderChat`, `MissingSender`, `AllowedBot`, `BareAnonymousAdmin`,
`NeedsMembership`), the album, the cache and getChatMember, `Apply`, and the
command's handler with every way it can end. A message is a record of what the code
looks at; its text is what `parse` makes of it. The membership cache and the
allowlist's copy are what their own modules allow: a hit is possible when a positive
answer was recorded before, a miss always. The group's album is one published
decision. `Return` forgets the handler's locals. The modules of the caches justify
these recorded answers: a hit needs an entry, and `ApprovalsFresh` says of every
entry that Telegram confirmed the user in that channel; `CacheCoherent` says that the
allowlist's copy holds only bots that were on the group's list; and `AlbumDecisions`
lets a message take over only a decision that was published for its album.

**Moderation.** A worker takes a message with the binding of that moment, judges it
in one step (keep, keep in doubt, remove, serve as a command), enacts the verdict,
serves the command in one step, and leaves. Judging looks at what the message itself
shows, at the bots the creator has permitted and at what Telegram has confirmed.
There are no branches and no order among them, no albums, caches, calls, replies or
checks that fail. `HandleUpdate` implements it: `stage`, `channel` and `verdict` are
read off `pc`, `seen` and `outcome`, everything from `classify` to the decision is
"judging", and everything in a command's handler before its last step is "serving".
Two things are left nondeterministic: a bot that is on the group's allowlist may
still be removed (the copy may be behind, or fail to load), and a message may be
judged as if the group were not bound (its lookup fails).

**SelfCheck.** One `tick` is `List`, then per binding `NextBinding`, `CheckChannel`,
`CheckGroup` and the verdict (`Warn`, `KeepQuiet`, `Recovered`), then the message and
`MarkWarned`. `cooling` is what is left of `lastWarned`. History: `since`, `excused`.

**BotProcess.** The process: Run with its handlers, and the self-check beside it. A
command of a handler binds or unbinds a group under the loop that has listed it. The
signal stops the loop between two ticks, as its select does; the end of Run cuts it
off wherever it is, with its cooldowns. A process that was killed before a signal, or
has ended, is started again. A kill during the shutdown is left out: after it nothing
of the shutdown remains to be said, and a start is the same from there.

**Updater.** `at` is where a run is between two file operations; a file is absent,
partial, or a binary of some version. Every operation has its failure, and
`InstallFails` includes the failure of the rename that should undo the first.

**Migrations.** `Script` lists the statements in order with the schema they belong
to; `statement` is the next one. `Left(v)` is any database that a release with
schema v leaves behind, with a history that its tables need not tell: schema 3 kept
the epochs in `bindings` alone, so a group that was unbound under it has had epochs
which nothing records. History: `maxEpoch`, the largest epoch a group has had;
`forgotten`, the groups of which the tables know less; `held`, the largest epoch that
a handler of the process can have read. Each kind of statement does what SQLite does with it, which
differs with IF (NOT) EXISTS: `Impossible` says which cannot run a second time.

**Deployment.** Composes the two: a start needs a complete executable and migrates
the database, updates replace files meanwhile, one crash hits any of them, the
operator stops, rolls back, and repairs a missing executable from its backup.

## 3. Runs

| run | states | shows |
|---|---|---|
| `cache_safety` | 2.5 M | types and unique keys; `ApprovalsFresh`; `CacheBounded`; `StoreFollowsBinding`; `SetNeverPoisons`; `ImplementsApprovals` |
| `dedup` | 0.3 M | `WaitersHaveLeader`, `OneLeaderPerWindow`, `ImplementsAlbumDecisions` and the liveness property `EveryMessageDecided`, with panics, a shutdown and compaction |
| `guest_escalation` | 0.6 M | `PunishmentJustified` under failures, edits, `/unbind`, redelivery |
| `allowlist_coherence` | 0.65 M | `CacheCoherent` |
| `api_client` | 28 k | `PausedCallersWait`, `PauseNeverShortens`, and the liveness property `CallsReturn` |
| `bot_process` | 0.33 M | `FetchedAreHandled`, `HandlersKeepResources`, `Throttled`, and the liveness properties `ShutdownCompletes` and `AlertsArrive` |
| `handle_update` | 2.0 M | `NoEscape`, `TrustedNeverDeleted`, `CommandsNeedAccess`, `SilentToOthers`, `OnlyCreatorChanges`, `ImplementsModeration` |
| `deployment` | 0.23 M | `BinarySurvives`, `OpenIsComplete`, `StatementsRepeatable`, `UpgradesOnly`, `EpochsFresh`, and the liveness property `ServiceComesBack` |
| `cache_rebind`, `allowlist_unbind`, `shutdown_stuck`, `guest_redelivery` | | disagreements of code and text, section 6 |

Every property of a passing run has a mutant in `PROJECT.json`: a small change of
one definition, of the kind a bug would be, under which TLC finds the property
violated in the same instance.

### Bounds, and why they are enough

* `CacheSafety`: two handlers, one administrator, one group, one user, two
  channels. Every race of the cache is between one delayed handler and one
  command, or between two handlers on the same key; the second handler also fills
  the map with its other channel's entry. Capacity one makes every write of a
  second key an eviction. `MaxEpoch = 2` allows bind, unbind (or a change of
  channel) and bind again, which is what an outdated epoch needs. `TTL = 2`,
  `Second = 2` and `MaxClock = 3` let entries expire and make truncation lose
  something. Per-group state never meets another group's except in eviction; the
  theorems cover any number of groups.
* `Dedup`: two messages of one album and one of another: a leader and a waiter that
  may become the next leader, and an album that brings the map over
  `CompactAbove = 1`. `TTL = 2` with `MaxClock = 3` lets an entry expire, be looked
  up late and be compacted by a leader with an older or a newer time.
* `GuestEscalation`, `GuestRedelivery`: thresholds 2 and 3 (the smallest that
  `config.validate` accepts), three replies of two users, one of them also edited,
  one restart. A user with one reply and its redelivery, or with one count left over
  from the last binding, reaches the lower threshold.
* `AllowlistCoherence`: two groups (a leak from one copy into another would show),
  two handlers, two commands, one bot; groups, handlers and commands are symmetric,
  and only invariants are checked under that symmetry.
* `ApiClient`: three callers so that one can be late while another is answered 429
  and a third sleeps; two chats sharing a bucket of one token.
* `BotProcess`: four updates through a channel and a semaphore of two: two run, one
  waits for a slot, one is in the channel. One group, with a cooldown of two: groups
  meet in a tick only one after the other, each with its own cooldown, and the theorem
  covers any number. One more process. `UpdateRuntimeStuck` has the first loop alone.
* `HandleUpdate`: `MCHandleUpdate` lists the messages: every sender Telegram can
  fill in (a person, this bot, an allowed, a global and an anonymous one, the bound
  channel, another channel, nobody), with a plain text, a command, an edit, an
  album, a service message, a guest reply and a private chat. One handler receives
  all of them but `/bind`, `/unbind` and `/allowbot` of the creator; the other receives
  those, which is what changes the tables between two steps of the first. One channel: a binding to another one differs for
  a handler from no binding only by the channel it looked up, which it keeps.
* `Deployment`: two runs of `update`, two releases and a source build, one group
  with epochs up to 2 and any history, databases of all six schemas (0 to 5), one
  crash.

### Fairness

* `MediaGroupDedup`: weak fairness of each handler's `Step`. Goroutines are
  scheduled, and `getChatMember` ends by its timeout. Messages need not arrive and
  the shutdown need not come.
* `ApiClient`: weak fairness of the clock, of a caller's own steps and of the end
  of a request (its five-second timeout); strong fairness of `TakeToken`, because
  `rate.Limiter` reserves tokens in order of arrival. `CallsReturn` assumes that
  the 429 answers stop: Telegram may go on with them for ever.
* `BotProcess`: weak fairness of Run's goroutine, of telego's closing its channel, of
  each handler's end (its API calls have timeouts), of the self-check loop (a ticker,
  and calls with a timeout) and of the clock; strong fairness of `WarningArrives`,
  Telegram accepting a warning that is sent again and again. Without it no bot can
  promise that the warning arrives. Nobody has to start a new process.
* `UpdateRuntimeStuck` runs under `SpecLongPause`, which assumes the end of cancelled
  handlers only, since a handler may sleep through a pause of any length.
* `Deployment`: strong fairness of `Start` (systemd's `Restart`, or the operator:
  the service may be stopped and killed again) and of `Repair` (the operator notices
  a missing executable; updates may go on in between); weak fairness of a start and
  of a run of `update` going on. Deadlock is not checked in this run: overlapping
  updates may lose the executable, its backup and the download, and then a
  service that is down has nothing to start (section 6).
* `MemberCache`, `GuestPunishment`, `GroupAllowlist`, `HandleUpdate`: safety only, no
  fairness.

## 4. Proofs

The theorems hold for every value of the constants that the ASSUMEs of the
modules allow: non-empty sets of groups, channels and users; positive TTL,
capacity and slots; `BanThreshold > MuteThreshold >= 2` from `config.validate`.

| theorem | says | inductive invariant |
|---|---|---|
| `MemberCache_proofs!TypeCorrect` | types, one record per key | itself |
| `MemberCache_proofs!FreshnessTheorem` | `ApprovalsFresh` | `FreshInv` |
| `MemberCache_proofs!StoreTheorem`, `SetTheorem` | `StoreFollowsBinding`, `SetNeverPoisons` | `RevocationInv` |
| `MemberCache_proofs!CapacityTheorem` | `CacheBounded` | `SizeInv` |
| `MemberCache_proofs!ApprovalsTheorem` | `ImplementsApprovals` | `RevocationInv`, `EpochInv` |
| `MediaGroupDedup_proofs!TypeCorrect` | types, one entry per album | itself |
| `MediaGroupDedup_proofs!SingleFlightTheorem`, `WaitersTheorem` | one leader per album; `WaitersHaveLeader` | `LeaderInv` |
| `MediaGroupDedup_proofs!ReuseTheorem`, `EntriesLive` | reused decisions have a source, live ones are kept | `SourceInv` |
| `MediaGroupDedup_proofs!WindowTheorem` | `OneLeaderPerWindow` | `SourceInv`, `WindowInv` |
| `MediaGroupDedup_proofs!AlbumsTheorem` | `ImplementsAlbumDecisions` | `SourceInv`, `ArrivalInv` |
| `GroupAllowlist_proofs!TypeCorrect` | types | itself |
| `GroupAllowlist_proofs!CoherenceTheorem` | `CacheCoherent` | `CoherenceInv`, `HeldInv` |
| `GuestPunishment_proofs!TypeCorrect`, `JustifiedTheorem` | types, `PunishmentJustified` | `CountInv` |
| `ApiClient_proofs!TypeCorrect`, `PauseTheorem`, `NeverShorter` | types, `PausedCallersWait`, `PauseNeverShortens` | `Inv` |
| `Runtime_proofs!TypeCorrect`, `FetchedTheorem`, `ResourcesTheorem` | types, `FetchedAreHandled`, `HandlersKeepResources` | `RunInv`, for `BotProcess` |
| `Runtime_proofs!SelfCheckTypeCorrect`, `ThrottleTheorem` | types of `SelfCheck`, `Throttled` | `SelfCheckInv`, for `BotProcess` |
| `HandleUpdate_proofs!TypeCorrect` | types | itself |
| `HandleUpdate_proofs!NothingEscapes`, `TrustedAreSafe` | `NoEscape`, `TrustedNeverDeleted` | `GateInv` |
| `HandleUpdate_proofs!CommandsAreAuthorised` | `CommandsNeedAccess` | `GateInv`, `CommandInv` |
| `HandleUpdate_proofs!StrangersGetNoReply`, `CreatorOnly` | `SilentToOthers`, `OnlyCreatorChanges` | `CommandInv` |
| `HandleUpdate_proofs!ModerationTheorem` | `ImplementsModeration` | `GateInv`, `CommandInv`, `MessageInv` |
| `Deployment_proofs!BinaryTheorem`, `UpgradeTheorem` | `BinarySurvives`, `UpgradesOnly` | `FilesInv` |
| `Deployment_proofs!SchemaTheorem` | `OpenIsComplete` | `SchemaInv` |
| `Deployment_proofs!RepeatTheorem` | `StatementsRepeatable` | `SchemaInv`, `DroppedInv` |
| `Deployment_proofs!OutageTheorem` | a half-altered database is never opened again | all of `Deployment`'s |
| `Deployment_proofs!EpochTheorem` | `EpochsFresh` | `SchemaInv`, `EpochInv` |
| `Deployment_proofs!TypeCorrect` | types | all of these |

Why the invariants are stronger than the properties:

* `FreshInv` follows an approval through the handler. A time a handler sampled is
  not in the future; from the confirmation on, the user has been seen no earlier
  than that sample, so the expiry counted from the sample is at most one TTL after
  the confirmation; an entry on its way to memory is as fresh as the row it was
  read from. A later confirmation only helps.
* `RevocationInv` relates epochs, generations and pending DropGroups: a bound
  group's epoch is newer than its last revocation, and a Set about to write has
  something current, or its DropGroup is still to come, or has come and left the
  sampled generation out of date. The refill has no such clause, and that is the
  finding of `cache_rebind`.
* `EpochInv`: no handler holds an epoch from the future. So a `/bind` voids all
  confirmations of its group, which is what makes `UpsertBinding` a `Bind` of
  `Approvals`. A confirmation whose binding is gone is a stutter or a `Lapse`.
* `LeaderInv`: a handler leads exactly while its channel is the pending one of its
  album, and a waiter's channel is closed, or its owner leads or is between
  removing and closing it.
* `ArrivalInv` adds what the mapping reads off a handler's label: a message has a time
  from its arrival on, a handler decides alone only after the shutdown has begun, and
  one that panicked has settled its message's fate.
* `CoherenceInv` adds that the load in a handler's hands is as good as one already
  in the copy, unless an Invalidate overlapped it. `HeldInv` adds that a copy and a
  load hold only bots that were on the group's list at some time, which remains true
  of the two exceptions `CacheCoherent` names.
* `CountInv` bounds a user's violations by their distinct counted replies and the
  surplus. It needs to know that a counted reply has its update behind it, in this
  process or an earlier one, so that a reply is counted twice only by a redelivery;
  and that what is counted was judged under the present binding.
* `RunInv` locates Run: outside its loop everything fetched was given to a handler;
  beyond "forced" either nobody runs or the grace period is over. A step of the
  process is a step of `UpdateRuntime` or its start, and a step of `SelfCheck` or its
  end, which carries `RunInv` and `SelfCheckInv` over to `BotProcess`.
* `SelfCheckInv` relates the throttle to time that has passed: for a group that is not
  excused, `cooling` and the time since its last warning add up to a cooldown at
  least, except between a warning and its `MarkWarned`, a window in which no other
  warning can start.
* `SizeInv` adds to `CacheBounded` that the records are finite sets, one per key,
  without which a cardinality says nothing. Evicting removes at least one record
  from a full map whatever the batch, and replacing a key's record adds none.
* `SourceInv` adds that an entry is what its leader published, with an expiry
  counted from that leader's time, which is never later than now; and that an album
  being decided has no entry, so a decision is never overwritten early.
* `WindowInv` says why a second leader is late: until a leader's TTL is over its
  album is covered, by a pending channel or by an entry that lives as long. It is
  about albums that are calm, where nobody panicked and no other album's leader has
  published, because neither promise holds otherwise.
* `GateInv` follows the decision from the branch that took it: an outcome is a
  deletion, one of the named exceptions, or rests on access shown in the channel
  that was looked up. A command's outcome carries over the access it was demoted
  from, which is what `CommandsNeedAccess` needs three calls later.
* `CommandInv` says who is at each point of a command's handler; the properties
  speak only of its end.
* `MessageInv` adds that a handler's message is one of those that can arrive, that a
  handler without one has no outcome yet, and that the two reasons which lead to the
  dispatcher come with no other decision than ignore. `ModerationTheorem`
  takes the handler's steps one by one: those inside the gate and inside a command are
  stutters, the one that decides is a `Judge` whose verdict is justified by `GateInv` at
  its end, `Apply` is an `Enact`, and the last step of a command is its `Command`.
* `FilesInv` holds, for runs that do not overlap, where the binary is at each
  operation: in place until `backup`, in the backup at `install`, with a complete
  download from `unbackup` on. Overlapping runs have only their types.
* `SchemaInv` ties the next statement to `user_version` and to what the earlier
  statements have created; `EpochInv` adds that before schema 4 the bindings hold
  the only epochs, and that from the seeding on the counter is at least what a bound
  group or a handler has, and the largest epoch ever but for the groups that schema 3
  has forgotten. No handler survives the restart in which a database is migrated.
  `DroppedInv` adds the one fact about tables that SchemaInv leaves open, that schema
  2 creates its table after it has dropped the old one.

Three refinements are proved step by step: `MemberCache` implements `Approvals`,
`MediaGroupDedup` implements `AlbumDecisions`, `HandleUpdate` implements `Moderation`.
In each the initial states map to initial states, and one lemma per action, or group
of actions with the same effect, says which abstract step it is.

Only model-checked: the liveness properties, since TLAPS does not prove liveness under
fairness here. They are `EveryMessageDecided`, `CallsReturn`, `ShutdownCompletes`,
`AlertsArrive` and `ServiceComesBack`. Every other property of a passing run is stated
by a theorem.

## 5. What is not modelled

* Command reply cleanup (`scheduleCleanup`): sleeps ten seconds and deletes two
  messages, best effort by its comment; no state and nothing that follows depends on
  it. When the process ends earlier the reply stays.
* Metrics: counters that only the text of `/status` shows, lost with the process.
  Deletions may be recorded out of order, and pruning stops at the first recent
  one, so a count may include some that are too old by less than a request.
* Configuration is read once, before anything runs; the constraints its validation
  imposes (the punishment thresholds, a positive cache lifetime) are assumptions on
  constants. Entry point, logging and version: flags and output.
* The Telegram test double: used by tests only.
* Wording of replies and logs, classification of API errors by their text, names of
  release assets: the models take the outcome, any that can occur.
* `deleteWebhookWithRetry` and the rest of start-up: sequential, before any handler.
* SQL errors are modelled where the code goes on after one. Durability is
  SQLite's: a committed transaction survives a restart.
* Loss of power. `updater.go:220` writes the download without fsync, so after a power
  loss a file may be shorter than `Updater` says; a crash there is the end of a process.
* The refill of the token bucket, the order of Telegram's updates and telego's
  polling are external, modelled from how the code uses them.

## 6. Findings

Each is a run whose single property is a sentence of the repository that TLC
refutes on the model of the code.

* `cache_rebind`: Get reads a row, `/unbind` deletes it and drops the group, Get
  stores the row in memory; after the next `/bind` to the same channel the user
  is let through without a check. Set has the generation counter against this,
  the refill has not. (`openspec/specs/group-binding/spec.md:77`)
* `allowlist_unbind`: `/unbind` does not call Invalidate, which the comment at
  `gating/allowlist.go:17-19` requires. What stays is allowed again after the next
  `/bind`.
* `guest_redelivery`: a reply that Telegram delivers again after a restart is counted
  again (`gating/executor.go:94`), so its author is muted for a single violation.
  `openspec/specs/channel-gating/spec.md:192` and the comment at
  `gating/executor.go:17-19` say that the first violation is never punished. The
  property also falls, without any restart, to a handler that judged its reply before
  `/unbind` and counts it afterwards: `IncrementGuestViolation` does not look at
  `bindings`, and the next binding inherits the row, which
  `openspec/specs/group-binding/spec.md:89` says goes with the old one.
  `PunishmentJustified` says that these are the only two ways: it holds when both kinds
  of count, the `surplus`, are taken off.
* `shutdown_stuck`: handlers that wait for a long 429 pause hold every slot; the
  loop waits for a slot and never gets to the code that would cancel them.

Observed while modelling, not run as findings:

* A published album decision lives 60 s from the time its leader sampled before
  waiting, not from its publication.
* `AllowBot` does not look at `bindings`: `/allowbot` checks the binding, resolves a
  name and writes, and a row written after `/unbind` has emptied the table is in force
  again at the next `/bind`. `GroupAllowlist` contains the behaviour; `CacheCoherent`
  compares the copy with the table and does not object to the row.
* A group that a schema-3 release had bound and unbound has no row from which
  `store/store.go:125-126` could seed its counter, so its next `/bind` gives epoch 1
  again. No handler that read the old epoch 1 outlives the restart in between, so
  none can mistake the one for the other: `EpochsFresh` excepts these groups from "never used twice" and
  none from "not held by a handler of this process".
* A request whose caller had passed the pause check before a 429 arrived is still
  sent during the pause; `PausedCallersWait` states what does hold.
* Across albums, compaction by a leader with a later time may remove an entry that
  an earlier message has yet to look up.
* A load of `groupSet` that listed the table before `/disallowbot` is stored after
  its Invalidate and stays (`gating/allowlist.go:77`), so the bot is allowed until
  the next command; `docs/guest-bots.md:163` says the commands invalidate the copy.
  `CacheCoherent` names this as one of its two exceptions.
* A failed binding lookup is taken for "not bound" (`gating/gate.go:144`): the message
  is not moderated, and a command in it reaches the dispatcher, which the comment at
  `runtime.go:250-256` promises only to senders with access. The handler's creator
  check still holds: `OnlyCreatorChanges`, `SilentToOthers`.
* A caller who is not the creator gets no refusal, the command is deleted silently;
  `openspec/specs/admin-commands/spec.md:92` wants a reply, the comment in
  `runtime.go:250-256` wants none. `SilentToOthers` states what the code does.
* `openspec/specs/channel-gating/spec.md:140` and `:155` want every pure command kept
  without a membership check, also a stranger's and one for another bot. The code
  judges the sender first and keeps only the commands of those who pass, as the
  comment in `runtime.go:250-256` explains; `NoEscape` states that.
* `updater.go:180` says the executable is replaced atomically; there is a moment,
  between two renames, without one. `BinarySurvives` states what is kept then.
* Two runs of `update` at once share the backup and the temporary file. One may remove
  the backup that the other needs while the executable is away.
* A start that is killed between schema 3's ALTER TABLE and its PRAGMA leaves a
  database that no later start can open (`store/store.go:171`); `ServiceComesBack`
  names it as one of its two exceptions. `StatementsRepeatable` says that no other
  statement has this problem, and `OutageTheorem` that nothing the models know of,
  a later release or a roll-back included, ends it.
* A warning whose answer is lost, and any warning before a restart, is not
  remembered, so the group may be warned again within the hour; `Throttled` names
  both.

## 7. Plan

Done, in this order: the membership cache with its abstract specification, the
album deduplication, the allowlist, guest punishment, the API client, the runtime;
then the gate with the dispatcher and the commands, the self-check, migrations and
updates; proofs for all of them, and abstract specifications of albums and of
moderation that the detailed ones are proved to implement. What is left:

1. A composition of `HandleUpdate` with `MemberCache` and `GroupAllowlist` in place of
   the recorded answers, so that section 2's argument for them becomes a theorem.
2. Abstract specifications of guest punishment (a count of replies and a ladder)
   and of the allowlist's copy, with proofs that the detailed ones implement them.
3. `Metrics`: the deletion window and the error ring against a reference
   definition, with times recorded out of order.
4. A module composing `ApiClient` and `MediaGroupDedup` (albums behind a paused
   chat) if their interaction adds more than `shutdown_stuck` shows.
