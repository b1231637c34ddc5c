----------------------------- MODULE MemberCache -----------------------------
(***************************************************************************)
(* The membership cache shared by the message handlers and the /bind and   *)
(* /unbind commands: the SQLite tables bindings, binding_epochs and        *)
(* verified_members (L2), the in-memory map of gating.MemberCache (L1)     *)
(* with its per-group generation counter, the handlers that go through     *)
(* Gate.decideBase, the commands, the hourly cleanup and restarts.  Every  *)
(* SQL statement or transaction and every critical section of the cache's  *)
(* mutex is one action; everything may happen between two of them.         *)
(*                                                                         *)
(* Tables and maps are sets of records with at most one record per key.    *)
(* lastSeen and wiped, and the fields epoch and via of entries, are        *)
(* history: no guard of the program reads them.                            *)
(***************************************************************************)
EXTENDS Naturals, FiniteSets

CONSTANTS
  Group, Channel, User,
  NoChannel,     \* "this group has no row in bindings"
  Handler,       \* goroutines that gate a message (runtime.handleUpdate)
  Admin,         \* goroutines that run /bind or /unbind
  TTL,           \* lifetime of a verification, in clock ticks
  Second,        \* clock ticks in a second: SQLite keeps whole seconds
  MaxEntries,    \* capacity of the in-memory map (10000 in the code)
  EvictBatch,    \* entries evicted when it is full (maxEntries/10)
  MaxClock,      \* bound on the clock
  MaxEpoch       \* bound on the number of /bind commands per group

ASSUME CacheAssumption ==
  /\ NoChannel \notin Channel
  /\ Group # {} /\ Channel # {} /\ User # {}
  /\ TTL \in Nat \ {0} /\ Second \in Nat \ {0}
  /\ MaxEntries \in Nat \ {0} /\ EvictBatch \in 1 .. MaxEntries
  /\ MaxClock \in Nat /\ MaxEpoch \in Nat

VARIABLES
  clock,
  bindings,      \* table bindings: channel (or NoChannel) and epoch per group
  lastEpoch,     \* table binding_epochs
  verified,      \* table verified_members
  mem,           \* MemberCache.mem
  generations,   \* MemberCache.generations
  job,           \* what each handler is doing
  dropping,      \* dropping[a]: the group whose DropGroup command a still owes
  sweep,         \* tick of the cleanup between its two steps, 0 when it sleeps
  lastSeen,      \* history: when Telegram last confirmed the user, 0 if never
  wiped          \* history: last epoch whose approvals /unbind or /bind revoked

vars == <<clock, bindings, lastEpoch, verified, mem, generations, job,
          dropping, sweep, lastSeen, wiped>>

Key == Group \X Channel \X User
Via == {"set", "refill", "prime"}
Row == [key : Key, exp : Nat, epoch : Nat]
Entry == [key : Key, exp : Nat, epoch : Nat, via : Via]

Pc == {"idle", "now", "get", "purge", "load", "refill", "ask", "set",
       "upsert", "write"}
Job == [pc : Pc, key : Key, epoch : Nat, now : Nat, gen : Nat, entry : Entry]

AnyKey == CHOOSE k \in Key : TRUE
NoEntry == [key |-> AnyKey, exp |-> 0, epoch |-> 0, via |-> "set"]
IdleJob == [pc |-> "idle", key |-> AnyKey, epoch |-> 0, now |-> 0, gen |-> 0,
            entry |-> NoEntry]

\* time.Time.Unix followed by time.Unix: what SQLite keeps of an expiry.
Unix(t) == t - (t % Second)

-----------------------------------------------------------------------------
(* The in-memory map.                                                      *)

\* evictOldestLocked: n entries with the earliest expiry, ties in any order.
Oldest(m, n) ==
  {S \in SUBSET m : /\ Cardinality(S) = n
                    /\ \A e \in S, f \in m \ S : e.exp <= f.exp}

\* Mutant of Stored: an older entry of the same key is left in place.
StoredBesideOld(m, e) ==
  IF (\A f \in m : f.key # e.key) /\ Cardinality(m) >= MaxEntries
  THEN {(m \ S) \union {e} : S \in Oldest(m, EvictBatch)}
  ELSE {m \union {e}}

\* Mutant of Stored: room is made one entry too late.
StoredPastCapacity(m, e) ==
  IF (\A f \in m : f.key # e.key) /\ Cardinality(m) > MaxEntries
  THEN {(m \ S) \union {e} : S \in Oldest(m, EvictBatch)}
  ELSE {{f \in m : f.key # e.key} \union {e}}

\* The write at the end of Get and Set: overwrite, or make room first.
Stored(m, e) ==
  IF (\A f \in m : f.key # e.key) /\ Cardinality(m) >= MaxEntries
  THEN {(m \ S) \union {e} : S \in Oldest(m, EvictBatch)}
  ELSE {{f \in m : f.key # e.key} \union {e}}

\* Prime keeps the MaxEntries longest-lived of the rows it is given.
Primed(rows) ==
  LET entries == {[key |-> r.key, exp |-> r.exp, epoch |-> r.epoch,
                   via |-> "prime"] : r \in rows}
  IN IF Cardinality(entries) <= MaxEntries
     THEN {entries}
     ELSE {entries \ S : S \in Oldest(entries,
                                      Cardinality(entries) - MaxEntries)}

-----------------------------------------------------------------------------
(* The SQL statements.                                                     *)

\* Mutant of StillBound: the row is tied to the channel, not to the epoch.
SameChannel(k, epoch) == bindings[k[1]].channel = k[2]

\* UpsertVerifiedIfBound: its WHERE EXISTS, evaluated with the write.
StillBound(k, epoch) ==
  /\ bindings[k[1]].channel = k[2]
  /\ bindings[k[1]].epoch = epoch

WithoutGroup(rows, g) == {r \in rows : r.key[1] # g}

LoadAllValidVerified(now) == {r \in verified : r.exp > Unix(now)}

\* Mutant of ChannelChanged: /bind never revokes approvals.
ChannelNeverChanges(g, c) == FALSE

ChannelChanged(g, c) == bindings[g].channel \notin {NoChannel, c}

-----------------------------------------------------------------------------
(* A message handler: Gate.decideBase from the binding lookup on.          *)

Go(h, pc) == job' = [job EXCEPT ![h].pc = pc]
Finish(h) == job' = [job EXCEPT ![h] = IdleJob]
store == <<bindings, lastEpoch, verified>>
cache == <<mem, generations>>
rest == <<clock, dropping, sweep, wiped>>

\* A message of u arrives in g; without a binding it is ignored.
Lookup(h, g, u) ==
  /\ job[h].pc = "idle"
  /\ bindings[g].channel # NoChannel
  /\ job' = [job EXCEPT ![h] =
       [IdleJob EXCEPT !.pc = "now", !.key = <<g, bindings[g].channel, u>>,
                       !.epoch = bindings[g].epoch]]
  /\ UNCHANGED <<store, cache, rest, lastSeen>>

\* now := g.now(), once per message; waiting for an album comes after it.
SampleNow(h) ==
  /\ job[h].pc = "now"
  /\ job' = [job EXCEPT ![h].pc = "get", ![h].now = clock]
  /\ UNCHANGED <<store, cache, rest, lastSeen>>

\* MemberCache.Get, under the read lock: a live entry allows the message.
GetMem(h) ==
  /\ job[h].pc = "get"
  /\ \/ /\ \E e \in mem : e.key = job[h].key /\ e.exp > job[h].now
        /\ Finish(h)
     \/ /\ \E e \in mem : e.key = job[h].key /\ e.exp <= job[h].now
        /\ Go(h, "purge")
     \/ /\ \A e \in mem : e.key # job[h].key
        /\ Go(h, "load")
  /\ UNCHANGED <<store, cache, rest, lastSeen>>

\* The expired entry is looked at again under the write lock.
PurgeExpired(h) ==
  /\ job[h].pc = "purge"
  /\ mem' = {e \in mem : e.key = job[h].key => e.exp > job[h].now}
  /\ Go(h, "load")
  /\ UNCHANGED <<store, generations, rest, lastSeen>>

\* store.GetVerified: an unexpired row is on its way into memory.
GetVerified(h) ==
  /\ job[h].pc = "load"
  /\ \/ \E r \in verified :
          /\ r.key = job[h].key /\ r.exp > job[h].now
          /\ job' = [job EXCEPT ![h].pc = "refill", ![h].entry =
                       [key |-> r.key, exp |-> r.exp, epoch |-> r.epoch,
                        via |-> "refill"]]
     \/ /\ \A r \in verified : r.key = job[h].key => r.exp <= job[h].now
        /\ Go(h, "ask")
  /\ UNCHANGED <<store, cache, rest, lastSeen>>

\* Any error of the SQL read counts as a miss.
GetVerifiedFails(h) ==
  /\ job[h].pc = "load"
  /\ Go(h, "ask")
  /\ UNCHANGED <<store, cache, rest, lastSeen>>

\* The second critical section of Get; the message is allowed.
Refill(h) ==
  /\ job[h].pc = "refill"
  /\ mem' \in Stored(mem, job[h].entry)
  /\ Finish(h)
  /\ UNCHANGED <<store, generations, rest, lastSeen>>

\* getChatMember says "in the channel".
ConfirmMember(h) ==
  /\ job[h].pc = "ask"
  /\ lastSeen' = [lastSeen EXCEPT ![<<job[h].key[2], job[h].key[3]>>] = clock]
  /\ Go(h, "set")
  /\ UNCHANGED <<store, cache, rest>>

\* Not a member: delete the message.  An error: let it pass, cache nothing.
AskWithoutApproval(h) ==
  /\ job[h].pc = "ask"
  /\ Finish(h)
  /\ UNCHANGED <<store, cache, rest, lastSeen>>

\* MemberCache.Set samples the generation before it touches SQLite.
SampleGeneration(h) ==
  /\ job[h].pc = "set"
  /\ job' = [job EXCEPT ![h].pc = "upsert",
                        ![h].gen = generations[job[h].key[1]]]
  /\ UNCHANGED <<store, cache, rest, lastSeen>>

\* Mutant of Expiry: the TTL counts from the write, not from the message.
ExpiryFromWrite(h) == clock + TTL

Expiry(h) == job[h].now + TTL

UpsertVerifiedIfBound(h) ==
  /\ job[h].pc = "upsert"
  /\ StillBound(job[h].key, job[h].epoch)
  /\ verified' = {r \in verified : r.key # job[h].key} \union
                   {[key |-> job[h].key, exp |-> Unix(Expiry(h)),
                     epoch |-> job[h].epoch]}
  /\ job' = [job EXCEPT ![h].pc = "write", ![h].entry =
               [key |-> job[h].key, exp |-> Expiry(h),
                epoch |-> job[h].epoch, via |-> "set"]]
  /\ UNCHANGED <<bindings, lastEpoch, cache, rest, lastSeen>>

\* The binding is gone or newer, or the statement fails: nothing is cached.
UpsertRefused(h) ==
  /\ job[h].pc = "upsert"
  /\ Finish(h)
  /\ UNCHANGED <<store, cache, rest, lastSeen>>

\* Mutant of SameGeneration: Set does not notice a DropGroup.
AnyGeneration(h) == TRUE

SameGeneration(h) == generations[job[h].key[1]] = job[h].gen

\* The critical section of Set.
WriteMem(h) ==
  /\ job[h].pc = "write"
  /\ IF SameGeneration(h) THEN mem' \in Stored(mem, job[h].entry)
                          ELSE UNCHANGED mem
  /\ Finish(h)
  /\ UNCHANGED <<store, generations, rest, lastSeen>>

-----------------------------------------------------------------------------
(* The commands: the transaction, then DropGroup when it revoked approvals.*)
(* Their checks ask Telegram only, so any linked channel c may come out.   *)

UpsertBinding(a, g, c) ==
  /\ dropping[a] = {}
  /\ lastEpoch[g] < MaxEpoch
  /\ lastEpoch' = [lastEpoch EXCEPT ![g] = @ + 1]
  /\ bindings' = [bindings EXCEPT ![g] = [channel |-> c,
                                          epoch |-> lastEpoch[g] + 1]]
  /\ IF ChannelChanged(g, c)
     THEN /\ verified' = WithoutGroup(verified, g)
          /\ wiped' = [wiped EXCEPT ![g] = lastEpoch[g]]
          /\ dropping' = [dropping EXCEPT ![a] = {g}]
     ELSE UNCHANGED <<verified, wiped, dropping>>
  /\ UNCHANGED <<cache, job, clock, sweep, lastSeen>>

DeleteBinding(a, g) ==
  /\ dropping[a] = {}
  /\ bindings[g].channel # NoChannel
  /\ bindings' = [bindings EXCEPT ![g] = [channel |-> NoChannel, epoch |-> 0]]
  /\ verified' = WithoutGroup(verified, g)
  /\ wiped' = [wiped EXCEPT ![g] = lastEpoch[g]]
  /\ dropping' = [dropping EXCEPT ![a] = {g}]
  /\ UNCHANGED <<lastEpoch, cache, job, clock, sweep, lastSeen>>

DropGroup(a) ==
  \E g \in dropping[a] :
    /\ mem' = WithoutGroup(mem, g)
    /\ generations' = [generations EXCEPT ![g] = @ + 1]
    /\ dropping' = [dropping EXCEPT ![a] = {}]
    /\ UNCHANGED <<store, job, clock, sweep, lastSeen, wiped>>

-----------------------------------------------------------------------------
(* The hourly cleanup, the clock and restarts.                             *)

DeleteExpiredVerified ==
  /\ sweep = 0
  /\ verified' = LoadAllValidVerified(clock)
  /\ sweep' = clock
  /\ UNCHANGED <<bindings, lastEpoch, cache, job, dropping, clock, lastSeen,
                 wiped>>

Prune ==
  /\ sweep # 0
  /\ mem' = {e \in mem : e.exp > sweep}
  /\ sweep' = 0
  /\ UNCHANGED <<store, generations, job, dropping, clock, lastSeen, wiped>>

Tick ==
  /\ clock < MaxClock
  /\ clock' = clock + 1
  /\ UNCHANGED <<store, cache, job, dropping, sweep, lastSeen, wiped>>

\* Memory and every goroutine are lost; Prime runs before updates are taken,
\* and its failure is tolerated.
Restart ==
  /\ mem' \in {{}} \union Primed(LoadAllValidVerified(clock))
  /\ generations' = [g \in Group |-> 0]
  /\ job' = [h \in Handler |-> IdleJob]
  /\ dropping' = [a \in Admin |-> {}]
  /\ sweep' = 0
  /\ UNCHANGED <<store, clock, lastSeen, wiped>>

-----------------------------------------------------------------------------
Init ==
  /\ clock = 1
  /\ bindings = [g \in Group |-> [channel |-> NoChannel, epoch |-> 0]]
  /\ lastEpoch = [g \in Group |-> 0]
  /\ verified = {}
  /\ mem = {}
  /\ generations = [g \in Group |-> 0]
  /\ job = [h \in Handler |-> IdleJob]
  /\ dropping = [a \in Admin |-> {}]
  /\ sweep = 0
  /\ lastSeen = [p \in Channel \X User |-> 0]
  /\ wiped = [g \in Group |-> 0]

HandlerStep(h) ==
  \/ \E g \in Group, u \in User : Lookup(h, g, u)
  \/ SampleNow(h) \/ GetMem(h) \/ PurgeExpired(h)
  \/ GetVerified(h) \/ GetVerifiedFails(h) \/ Refill(h)
  \/ ConfirmMember(h) \/ AskWithoutApproval(h)
  \/ SampleGeneration(h) \/ UpsertVerifiedIfBound(h) \/ UpsertRefused(h)
  \/ WriteMem(h)

CommandStep(a) ==
  \/ \E g \in Group, c \in Channel : UpsertBinding(a, g, c)
  \/ \E g \in Group : DeleteBinding(a, g)
  \/ DropGroup(a)

Next ==
  \/ \E h \in Handler : HandlerStep(h)
  \/ \E a \in Admin : CommandStep(a)
  \/ DeleteExpiredVerified \/ Prune \/ Tick \/ Restart

Spec == Init /\ [][Next]_vars

-----------------------------------------------------------------------------
(* Properties.                                                             *)

\* Every variable keeps its type, and neither the table nor the map ever
\* holds two records for one (group, channel, user) key.
TypeOK ==
  /\ clock \in Nat
  /\ bindings \in [Group -> [channel : Channel \union {NoChannel},
                             epoch : Nat]]
  /\ lastEpoch \in [Group -> Nat]
  /\ verified \subseteq Row
  /\ \A r, s \in verified : r.key = s.key => r = s
  /\ mem \subseteq Entry
  /\ \A e, f \in mem : e.key = f.key => e = f
  /\ generations \in [Group -> Nat]
  /\ job \in [Handler -> Job]
  /\ dropping \in [Admin -> {{}} \union {{g} : g \in Group}]
  /\ sweep \in Nat
  /\ lastSeen \in [Channel \X User -> Nat]
  /\ wiped \in [Group -> Nat]

Fresh(e) == LET seen == lastSeen[<<e.key[2], e.key[3]>>]
            IN seen # 0 /\ e.exp <= seen + TTL

\* Whatever the route an approval takes (Set, Get's refill, Prime), Telegram
\* confirmed that user in that very channel, at most one TTL before it expires.
ApprovalsFresh == \A e \in mem \union verified : Fresh(e)

\* Every row of verified_members belongs to the channel its group is bound to
\* now, and was granted to a handler that looked the binding up after the last
\* /unbind or change of channel: revoked approvals cannot return to SQLite,
\* however long the handler that asked Telegram was delayed.
StoreFollowsBinding ==
  \A r \in verified : /\ bindings[r.key[1]].channel = r.key[2]
                      /\ wiped[r.key[1]] < r.epoch

DropPending(g) == \E a \in Admin : g \in dropping[a]

Revoked(e) == e.epoch <= wiped[e.key[1]]

\* An entry that MemberCache.Set or Prime wrote outlives its revocation only
\* until the command that revoked it reaches DropGroup: the generation counter
\* keeps a delayed Set from writing after DropGroup.
SetNeverPoisons ==
  \A e \in mem : e.via # "refill" /\ Revoked(e) => DropPending(e.key[1])

\* The map never exceeds its capacity.
CacheBounded == Cardinality(mem) <= MaxEntries

\* An approval revoked by /unbind is never honoured after the group is bound
\* to the same channel again: the user must be checked with getChatMember.
RebindAsksAgain ==
  \A e \in mem : Revoked(e) /\ e.exp > clock /\ StillBound(e.key, lastEpoch[e.key[1]])
                 => DropPending(e.key[1])

boundChannel == [g \in Group |-> bindings[g].channel]

\* h holds a confirmation of u in g that it can still turn into an approval.
Holds(h, g, u) ==
  /\ job[h].pc \in {"set", "upsert"}
  /\ job[h].key[1] = g /\ job[h].key[3] = u
  /\ StillBound(job[h].key, job[h].epoch)

confirmedUsers == [g \in Group |-> {u \in User : \E h \in Handler : Holds(h, g, u)}]

approvedUsers == [g \in Group |-> {u \in User : \E r \in verified :
                                     r.key[1] = g /\ r.key[3] = u}]

\* The tables implement Approvals, whatever the handlers are doing.
Abstract == INSTANCE Approvals WITH
  bound <- boundChannel, confirmed <- confirmedUsers, approved <- approvedUsers

\* Approvals in SQLite are granted, kept and revoked as Approvals says.
ImplementsApprovals == Abstract!Spec
==============================================================================
