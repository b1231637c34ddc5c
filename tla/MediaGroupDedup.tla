--------------------------- MODULE MediaGroupDedup ---------------------------
(***************************************************************************)
(* Gating an album: gating.MediaGroupDedup as Gate.decideBase uses it.     *)
(* Each handler gates one new message of the album AlbumOf[h].  The first  *)
(* becomes the leader, computes the decision (cache or getChatMember) and  *)
(* publishes it, or aborts when it panics; the others block on its         *)
(* channel.  Every critical section of the mutex is one action; a channel  *)
(* is named after the leader that made it.  Edited messages and messages   *)
(* without media_group_id take no part.                                    *)
(***************************************************************************)
EXTENDS Naturals, FiniteSets

CONSTANTS
  Handler,        \* goroutines, one per message of an album
  Album,          \* media_group_id values
  AlbumOf,        \* the album of each handler's message
  TTL,            \* how long a decision is reused (60 s in the code)
  CompactAbove,   \* number of entries that triggers compaction (1024)
  MaxClock        \* bound on the clock

ASSUME DedupAssumption ==
  /\ AlbumOf \in [Handler -> Album]
  /\ TTL \in Nat \ {0} /\ CompactAbove \in Nat /\ MaxClock \in Nat
  /\ "none" \notin Handler

VARIABLES
  clock,
  entries,      \* set of records: album, decision, expires, and by (history)
  pending,      \* pending[a]: the leader whose channel is pending, or "none"
  closed,       \* leaders whose channel is closed
  cancelled,    \* shutdown has cancelled the handlers' context
  pc,
  now,          \* now[h]: the time Gate sampled before Acquire
  awaits,       \* awaits[h]: the leader whose channel h blocks on
  verdict,      \* verdict[h]: the decision h arrived at
  route,        \* route[h]: how it arrived at it
  publishedAt   \* history: when a leader published, 0 if it has not

vars == <<clock, entries, pending, closed, cancelled, pc, now, awaits,
          verdict, route, publishedAt>>

Decision == {"allow", "delete"}
NoOne == "none"
local == <<now, awaits>>
result == <<verdict, route>>

\* Mutant of Live: an entry expires one tick early.
LiveOneTickLess(a, t) == {e \in entries : e.album = a /\ e.expires > t + 1}

Live(a, t) == {e \in entries : e.album = a /\ e.expires > t}
\* Mutant of Without: the expired entry is not deleted.
Unchanged(a) == entries

Without(a) == {e \in entries : e.album # a}
Goto(h, label) == pc' = [pc EXCEPT ![h] = label]

-----------------------------------------------------------------------------
\* now := g.now(), right before Acquire.
Arrive(h) ==
  /\ pc[h] = "start"
  /\ now' = [now EXCEPT ![h] = clock]
  /\ Goto(h, "acquire")
  /\ UNCHANGED <<clock, entries, pending, closed, cancelled, awaits, result,
                 publishedAt>>

\* An unexpired entry: reuse its decision.
AcquireHit(h) ==
  /\ pc[h] = "acquire"
  /\ \E e \in Live(AlbumOf[h], now[h]) :
       verdict' = [verdict EXCEPT ![h] = e.decision]
  /\ route' = [route EXCEPT ![h] = "dedup"]
  /\ Goto(h, "done")
  /\ UNCHANGED <<clock, entries, pending, closed, cancelled, local,
                 publishedAt>>

\* No usable entry (an expired one is deleted), a decision is under way.
AcquireWait(h) ==
  /\ pc[h] = "acquire"
  /\ Live(AlbumOf[h], now[h]) = {}
  /\ pending[AlbumOf[h]] # NoOne
  /\ entries' = Without(AlbumOf[h])
  /\ awaits' = [awaits EXCEPT ![h] = pending[AlbumOf[h]]]
  /\ Goto(h, "wait")
  /\ UNCHANGED <<clock, pending, closed, cancelled, now, result, publishedAt>>

\* Mutant of AcquireLead: a pending decision is overlooked.
AcquireLeadAnyway(h) ==
  /\ pc[h] = "acquire"
  /\ Live(AlbumOf[h], now[h]) = {}
  /\ entries' = Without(AlbumOf[h])
  /\ pending' = [pending EXCEPT ![AlbumOf[h]] = h]
  /\ Goto(h, "lead")
  /\ UNCHANGED <<clock, closed, cancelled, local, result, publishedAt>>

AcquireLead(h) ==
  /\ pc[h] = "acquire"
  /\ Live(AlbumOf[h], now[h]) = {}
  /\ pending[AlbumOf[h]] = NoOne
  /\ entries' = Without(AlbumOf[h])
  /\ pending' = [pending EXCEPT ![AlbumOf[h]] = h]
  /\ Goto(h, "lead")
  /\ UNCHANGED <<clock, closed, cancelled, local, result, publishedAt>>

\* The channel is closed: loop and look again, with the same now.
Wake(h) ==
  /\ pc[h] = "wait"
  /\ awaits[h] \in closed
  /\ Goto(h, "acquire")
  /\ UNCHANGED <<clock, entries, pending, closed, cancelled, local, result,
                 publishedAt>>

\* ctx.Done while waiting: Acquire fails and the handler decides on its own.
WaitCancelled(h) ==
  /\ pc[h] = "wait"
  /\ cancelled
  /\ Goto(h, "alone")
  /\ UNCHANGED <<clock, entries, pending, closed, cancelled, local, result,
                 publishedAt>>

\* The cache, or getChatMember: member, not a member, or an error (allow).
Decide(h) ==
  /\ pc[h] \in {"lead", "alone"}
  /\ \E d \in Decision : verdict' = [verdict EXCEPT ![h] = d]
  /\ route' = [route EXCEPT ![h] = pc[h]]
  /\ Goto(h, IF pc[h] = "lead" THEN "publish" ELSE "done")
  /\ UNCHANGED <<clock, entries, pending, closed, cancelled, local,
                 publishedAt>>

\* Mutant of Panic: the deferred call forgets to Abort.
PanicWithoutAbort(h) ==
  /\ pc[h] \in {"lead", "alone"}
  /\ route' = [route EXCEPT ![h] = "panic"]
  /\ Goto(h, "done")
  /\ UNCHANGED <<clock, entries, pending, closed, cancelled, local, verdict,
                 publishedAt>>

\* Mutant of Panic: Abort removes the channel and does not close it.
PanicWithoutClose(h) ==
  /\ pc[h] \in {"lead", "alone"}
  /\ route' = [route EXCEPT ![h] = "panic"]
  /\ pending' = IF pc[h] = "lead" THEN [pending EXCEPT ![AlbumOf[h]] = NoOne]
                                  ELSE pending
  /\ Goto(h, "done")
  /\ UNCHANGED <<clock, entries, closed, cancelled, local, verdict,
                 publishedAt>>

\* A panic while deciding is recovered by the handler's goroutine; a leader's
\* deferred Abort removes its channel before it closes it.
Panic(h) ==
  /\ pc[h] \in {"lead", "alone"}
  /\ route' = [route EXCEPT ![h] = "panic"]
  /\ IF pc[h] = "lead"
     THEN /\ pending' = [pending EXCEPT ![AlbumOf[h]] = NoOne]
          /\ Goto(h, "close")
     ELSE /\ UNCHANGED pending
          /\ Goto(h, "done")
  /\ UNCHANGED <<clock, entries, closed, cancelled, local, verdict,
                 publishedAt>>

\* The entry lives until the leader's own now plus the TTL.
PublishedEntry(h) == [album |-> AlbumOf[h], decision |-> verdict[h],
                      expires |-> now[h] + TTL, by |-> h]

Publish(h) ==
  /\ pc[h] = "publish"
  /\ entries' = Without(AlbumOf[h]) \union {PublishedEntry(h)}
  /\ pending' = [pending EXCEPT ![AlbumOf[h]] = NoOne]
  /\ publishedAt' = [publishedAt EXCEPT ![h] = clock]
  /\ Goto(h, IF Cardinality(entries') > CompactAbove THEN "closeCompact"
                                                     ELSE "close")
  /\ UNCHANGED <<clock, closed, cancelled, local, result>>

\* close(ch) comes after the mutex is released.
Close(h) ==
  /\ pc[h] \in {"close", "closeCompact"}
  /\ closed' = closed \union {h}
  /\ Goto(h, IF pc[h] = "close" THEN "done" ELSE "compact")
  /\ UNCHANGED <<clock, entries, pending, cancelled, local, result,
                 publishedAt>>

Compact(h) ==
  /\ pc[h] = "compact"
  /\ entries' = {e \in entries : e.expires > now[h]}
  /\ Goto(h, "done")
  /\ UNCHANGED <<clock, pending, closed, cancelled, local, result,
                 publishedAt>>

-----------------------------------------------------------------------------
Tick ==
  /\ clock < MaxClock
  /\ clock' = clock + 1
  /\ UNCHANGED <<entries, pending, closed, cancelled, pc, local, result,
                 publishedAt>>

\* runtime.Run gives up on the handlers after its grace period.
Shutdown ==
  /\ ~cancelled
  /\ cancelled' = TRUE
  /\ UNCHANGED <<clock, entries, pending, closed, pc, local, result,
                 publishedAt>>

\* Every message is decided; nothing is left to do.
AllDone ==
  /\ \A h \in Handler : pc[h] = "done"
  /\ UNCHANGED vars

Init ==
  /\ clock = 1
  /\ entries = {}
  /\ pending = [a \in Album |-> NoOne]
  /\ closed = {}
  /\ cancelled = FALSE
  /\ pc = [h \in Handler |-> "start"]
  /\ now = [h \in Handler |-> 0]
  /\ awaits = [h \in Handler |-> NoOne]
  /\ verdict = [h \in Handler |-> "allow"]
  /\ route = [h \in Handler |-> "none"]
  /\ publishedAt = [h \in Handler |-> 0]

Step(h) ==
  \/ AcquireHit(h) \/ AcquireWait(h) \/ AcquireLead(h) \/ Wake(h)
  \/ WaitCancelled(h) \/ Decide(h) \/ Panic(h) \/ Publish(h) \/ Close(h)
  \/ Compact(h)

Next ==
  \/ \E h \in Handler : Arrive(h) \/ Step(h)
  \/ Tick \/ Shutdown \/ AllDone

\* A goroutine that can run does run; getChatMember returns, because its
\* requests have a timeout.  Messages need not arrive, shutdown need not come.
Fairness == \A h \in Handler : WF_vars(Step(h))

Spec == Init /\ [][Next]_vars /\ Fairness

-----------------------------------------------------------------------------
(* Properties.                                                             *)

Leading == {"lead", "publish"}
Pc == Leading \union {"start", "acquire", "wait", "alone", "close",
                      "closeCompact", "compact", "done"}

\* Every variable keeps its type, and an album has at most one entry.
TypeOK ==
  /\ clock \in Nat
  /\ entries \subseteq [album : Album, decision : Decision, expires : Nat,
                        by : Handler]
  /\ \A e, f \in entries : e.album = f.album => e = f
  /\ pending \in [Album -> Handler \union {NoOne}]
  /\ closed \subseteq Handler
  /\ cancelled \in BOOLEAN
  /\ pc \in [Handler -> Pc]
  /\ now \in [Handler -> Nat]
  /\ awaits \in [Handler -> Handler \union {NoOne}]
  /\ verdict \in [Handler -> Decision]
  /\ route \in [Handler -> {"none", "dedup", "lead", "alone", "panic"}]
  /\ publishedAt \in [Handler -> Nat]

\* Nobody blocks on a channel that no leader is going to close.
WaitersHaveLeader ==
  \A h \in Handler :
    pc[h] = "wait" => \/ awaits[h] \in closed
                      \/ pc[awaits[h]] \in Leading \union {"close", "closeCompact"}

\* As long as nobody panics and no other album has been decided (its leader
\* could compact the map with a later time), two messages that arrive less than
\* one TTL apart are never decided by two leaders, in whatever order they get
\* the mutex and however late the first leader publishes.
OneLeaderPerWindow ==
  \A h, k \in Handler :
    /\ h # k /\ AlbumOf[h] = AlbumOf[k] /\ now[h] <= now[k]
    /\ route[h] = "lead" /\ route[k] = "lead"
    /\ \A x \in Handler : route[x] # "panic"
    /\ \A x \in Handler : AlbumOf[x] # AlbumOf[h] => publishedAt[x] = 0
    => now[k] >= now[h] + TTL

\* The messages of a that decide for it, whatever `pending` says.
deciders == [a \in Album |-> {h \in Handler : AlbumOf[h] = a /\ pc[h] \in Leading}]

standing == [a \in Album |-> {[decision |-> e.decision, until |-> e.expires] :
                               e \in {f \in entries : f.album = a}}]

\* A decision counts from the moment it is published or reused.
Settled == {"close", "closeCompact", "compact", "done"}

fate == [h \in Handler |-> IF pc[h] \notin Settled THEN "open"
                          ELSE IF route[h] = "panic" THEN "lost" ELSE verdict[h]]

Albums == INSTANCE AlbumDecisions WITH
  Message <- Handler, stopping <- cancelled, arrived <- now,
  deciding <- deciders, standing <- standing, fate <- fate

\* Whatever the order in which the messages of an album get the mutex, are woken,
\* panic, are cancelled or compact the map: one of them decides at a time, the
\* others take over a decision that stands and is not too old, no decision is
\* forgotten or replaced before its end, and nobody decides alone before the
\* shutdown.
ImplementsAlbumDecisions == Albums!Spec

\* Every message that arrives gets a decision (or its handler panics): no
\* leader's end, by Publish or Abort, leaves a waiter behind.
EveryMessageDecided ==
  \A h \in Handler : pc[h] = "acquire" ~> pc[h] = "done"
==============================================================================
