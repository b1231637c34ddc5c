------------------------ MODULE MediaGroupDedup_proofs ------------------------
(* Proofs about MediaGroupDedup, for any number of handlers and albums and   *)
(* any TTL, clock and compaction threshold.                                  *)
EXTENDS MediaGroupDedup, TLAPS

Settling == Leading \union {"close", "closeCompact"}

\* The strengthening: an album's pending channel is that of the one handler
\* that leads it, and waiters know a channel that is closed or will be.
LeaderInv ==
  /\ pc \in [Handler -> Pc]
  /\ pending \in [Album -> Handler \union {NoOne}]
  /\ awaits \in [Handler -> Handler \union {NoOne}]
  /\ \A h \in Handler : pc[h] \in Leading <=> pending[AlbumOf[h]] = h
  /\ \A a \in Album : pending[a] # NoOne => AlbumOf[pending[a]] = a
  /\ \A h \in Handler : pc[h] = "wait" =>
       awaits[h] \in Handler /\ (awaits[h] \in closed \/ pc[awaits[h]] \in Settling)

\* A step of one handler that leaves the pending channels alone: its label may
\* change as long as it neither starts nor stops leading, and waiters keep a
\* channel that is closed or will be.
LEMMA PendingKept ==
  ASSUME LeaderInv, NEW h \in Handler, NEW l \in Pc,
         pc' = [pc EXCEPT ![h] = l], UNCHANGED pending,
         pc[h] \in Leading <=> l \in Leading,
         awaits' \in [Handler -> Handler \union {NoOne}],
         \A x \in Handler \ {h} : awaits'[x] = awaits[x],
         l = "wait" => /\ awaits'[h] \in Handler
                       /\ pc[awaits'[h]] \in Settling /\ awaits'[h] # h,
         closed \subseteq closed',
         pc[h] \in Settling => l \in Settling \/ h \in closed'
  PROVE  LeaderInv'
<1>1. pc' \in [Handler -> Pc] /\ \A x \in Handler : pc'[x] = IF x = h THEN l ELSE pc[x]
  BY DEF LeaderInv
<1>2. \A x \in Handler : pc'[x] \in Leading <=> pending'[AlbumOf[x]] = x
  BY <1>1 DEF LeaderInv
<1>3. ASSUME NEW x \in Handler, pc'[x] = "wait"
      PROVE  awaits'[x] \in Handler
             /\ (awaits'[x] \in closed' \/ pc'[awaits'[x]] \in Settling)
  <2>1. CASE x = h
    BY <2>1, <1>1, <1>3
  <2>2. CASE x # h
    <3>1. awaits[x] \in Handler /\ (awaits[x] \in closed \/ pc[awaits[x]] \in Settling)
      BY <2>2, <1>1, <1>3 DEF LeaderInv
    <3>. QED BY <3>1, <2>2, <1>1
  <2>. QED BY <2>1, <2>2
<1>. QED BY <1>1, <1>2, <1>3 DEF LeaderInv

\* A leader that gives up its album's pending channel is about to close it.
LEMMA PendingRemoved ==
  ASSUME LeaderInv, NEW h \in Handler, pc[h] \in Leading,
         NEW l \in {"close", "closeCompact"},
         pc' = [pc EXCEPT ![h] = l],
         pending' = [pending EXCEPT ![AlbumOf[h]] = NoOne],
         UNCHANGED <<closed, awaits>>
  PROVE  LeaderInv'
<1> USE DedupAssumption
<1>a. AlbumOf \in [Handler -> Album] /\ NoOne \notin Handler
  BY DEF NoOne
<1>1. pc' \in [Handler -> Pc] /\ \A x \in Handler : pc'[x] = IF x = h THEN l ELSE pc[x]
  BY DEF LeaderInv, Pc
<1>2. /\ pending' \in [Album -> Handler \union {NoOne}]
      /\ \A a \in Album : pending'[a] = IF a = AlbumOf[h] THEN NoOne ELSE pending[a]
  BY <1>a DEF LeaderInv
<1>3. pending[AlbumOf[h]] = h /\ l \notin Leading /\ l # "wait" /\ l \in Settling
  BY DEF LeaderInv, Leading, Settling
<1>4. ASSUME NEW x \in Handler
      PROVE  pc'[x] \in Leading <=> pending'[AlbumOf[x]] = x
  <2>1. CASE x = h
    BY <2>1, <1>a, <1>1, <1>2, <1>3
  <2>2. CASE x # h /\ AlbumOf[x] = AlbumOf[h]
    BY <2>2, <1>a, <1>1, <1>2, <1>3 DEF LeaderInv
  <2>3. CASE AlbumOf[x] # AlbumOf[h]
    BY <2>3, <1>a, <1>1, <1>2 DEF LeaderInv
  <2>. QED BY <2>1, <2>2, <2>3
<1>5. ASSUME NEW x \in Handler, pc'[x] = "wait"
      PROVE  awaits'[x] \in Handler
             /\ (awaits'[x] \in closed' \/ pc'[awaits'[x]] \in Settling)
  BY <1>1, <1>3, <1>5 DEF LeaderInv
<1>. QED BY <1>1, <1>2, <1>4, <1>5 DEF LeaderInv

LEMMA NextLeaderInv ==
  ASSUME LeaderInv, [Next]_vars
  PROVE  LeaderInv'
<1> USE DedupAssumption DEF Goto, local, result
<1>a. AlbumOf \in [Handler -> Album] /\ NoOne \notin Handler
  BY DEF NoOne
<1>1. ASSUME NEW h \in Handler, Arrive(h) PROVE LeaderInv'
  BY <1>1, PendingKept DEF Arrive, Pc, Leading, Settling, LeaderInv
<1>2. ASSUME NEW h \in Handler, AcquireHit(h) PROVE LeaderInv'
  BY <1>2, PendingKept DEF AcquireHit, Pc, Leading, Settling, LeaderInv
<1>3. ASSUME NEW h \in Handler, AcquireWait(h) PROVE LeaderInv'
  <2>1. PICK l \in Handler : l = pending[AlbumOf[h]] /\ AlbumOf[l] = AlbumOf[h]
    BY <1>3, <1>a DEF AcquireWait, LeaderInv
  <2>2. pc[l] \in Leading
    BY <2>1 DEF LeaderInv
  <2>3. pc[h] = "acquire" /\ pc' = [pc EXCEPT ![h] = "wait"]
        /\ awaits' = [awaits EXCEPT ![h] = l] /\ UNCHANGED <<pending, closed>>
    BY <1>3, <2>1 DEF AcquireWait
  <2>4. awaits' \in [Handler -> Handler \union {NoOne}] /\ awaits'[h] = l
        /\ \A x \in Handler \ {h} : awaits'[x] = awaits[x]
    BY <2>3 DEF LeaderInv
  <2>5. l # h /\ pc[l] \in Settling /\ "wait" \in Pc /\ "wait" \notin Leading
        /\ "acquire" \notin Settling /\ "acquire" \notin Leading
    BY <2>2, <2>3 DEF Leading, Settling, Pc
  <2>. QED BY <2>3, <2>4, <2>5, PendingKept
<1>4. ASSUME NEW h \in Handler, AcquireLead(h) PROVE LeaderInv'
  <2>1. pc[h] = "acquire" /\ pending[AlbumOf[h]] = NoOne
        /\ pc' = [pc EXCEPT ![h] = "lead"]
        /\ pending' = [pending EXCEPT ![AlbumOf[h]] = h]
        /\ UNCHANGED <<closed, awaits>>
    BY <1>4 DEF AcquireLead
  <2>2. pc' \in [Handler -> Pc] /\ \A x \in Handler : pc'[x] = IF x = h THEN "lead" ELSE pc[x]
    BY <2>1 DEF LeaderInv, Pc, Leading
  <2>3. /\ pending' \in [Album -> Handler \union {NoOne}]
        /\ \A a \in Album : pending'[a] = IF a = AlbumOf[h] THEN h ELSE pending[a]
    BY <2>1, <1>a DEF LeaderInv
  <2>4. ASSUME NEW x \in Handler
        PROVE  pc'[x] \in Leading <=> pending'[AlbumOf[x]] = x
    <3>1. CASE x = h
      BY <3>1, <1>a, <2>2, <2>3 DEF Leading
    <3>2. CASE x # h /\ AlbumOf[x] = AlbumOf[h]
      <4>1. pc[x] \notin Leading
        BY <3>2, <2>1, <1>a DEF LeaderInv
      <4>. QED BY <4>1, <3>2, <1>a, <2>2, <2>3
    <3>3. CASE AlbumOf[x] # AlbumOf[h]
      BY <3>3, <1>a, <2>2, <2>3 DEF LeaderInv
    <3>. QED BY <3>1, <3>2, <3>3
  <2>5. ASSUME NEW x \in Handler, pc'[x] = "wait"
        PROVE  awaits'[x] \in Handler
               /\ (awaits'[x] \in closed' \/ pc'[awaits'[x]] \in Settling)
    BY <2>1, <2>2, <2>5 DEF LeaderInv, Settling, Leading
  <2>6. \A a \in Album : pending'[a] # NoOne => AlbumOf[pending'[a]] = a
    BY <2>3 DEF LeaderInv
  <2>. QED BY <2>1, <2>2, <2>3, <2>4, <2>5, <2>6 DEF LeaderInv
<1>5. ASSUME NEW h \in Handler, Wake(h) PROVE LeaderInv'
  BY <1>5, PendingKept DEF Wake, Pc, Leading, Settling, LeaderInv
<1>6. ASSUME NEW h \in Handler, WaitCancelled(h) PROVE LeaderInv'
  BY <1>6, PendingKept DEF WaitCancelled, Pc, Leading, Settling, LeaderInv
<1>7. ASSUME NEW h \in Handler, Decide(h) PROVE LeaderInv'
  BY <1>7, PendingKept DEF Decide, Pc, Leading, Settling, LeaderInv
<1>8. ASSUME NEW h \in Handler, Panic(h) PROVE LeaderInv'
  <2>1. CASE pc[h] = "lead"
    BY <1>8, <2>1, PendingRemoved DEF Panic, Leading
  <2>2. CASE pc[h] = "alone"
    BY <1>8, <2>2, PendingKept DEF Panic, Pc, Leading, Settling, LeaderInv
  <2>. QED BY <1>8, <2>1, <2>2 DEF Panic
<1>9. ASSUME NEW h \in Handler, Publish(h) PROVE LeaderInv'
  <2>1. PICK l \in {"close", "closeCompact"} : pc' = [pc EXCEPT ![h] = l]
    BY <1>9 DEF Publish
  <2>. QED BY <1>9, <2>1, PendingRemoved DEF Publish, Leading
<1>10. ASSUME NEW h \in Handler, Close(h) PROVE LeaderInv'
  <2>1. PICK l \in {"done", "compact"} : pc' = [pc EXCEPT ![h] = l]
    BY <1>10 DEF Close
  <2>2. l \in Pc /\ l \notin Leading /\ l # "wait" /\ pc[h] \notin Leading
    BY <1>10 DEF Close, Pc, Leading
  <2>3. UNCHANGED <<pending, awaits>> /\ h \in closed' /\ closed \subseteq closed'
    BY <1>10 DEF Close
  <2>. QED BY <2>1, <2>2, <2>3, PendingKept DEF LeaderInv
<1>11. ASSUME NEW h \in Handler, Compact(h) PROVE LeaderInv'
  BY <1>11, PendingKept DEF Compact, Pc, Leading, Settling, LeaderInv
<1>12. CASE Tick \/ Shutdown \/ UNCHANGED vars
  BY <1>12 DEF Tick, Shutdown, vars, LeaderInv
<1>. QED
  BY <1>1, <1>2, <1>3, <1>4, <1>5, <1>6, <1>7, <1>8, <1>9, <1>10, <1>11, <1>12
  DEF Next, Step, AllDone

LEMMA LeaderInvariant == Spec => []LeaderInv
<1>1. Init => LeaderInv
  BY DedupAssumption DEF Init, LeaderInv, Pc, Leading, NoOne
<1>2. LeaderInv /\ [Next]_vars => LeaderInv'
  BY NextLeaderInv
<1>. QED BY <1>1, <1>2, PTL DEF Spec

-----------------------------------------------------------------------------
\* Single flight: two handlers never decide for the same album at once.
SingleFlight ==
  \A h, k \in Handler :
    pc[h] \in Leading /\ pc[k] \in Leading /\ AlbumOf[h] = AlbumOf[k] => h = k

\* However many messages of an album arrive, one handler decides for it.
THEOREM SingleFlightTheorem == Spec => []SingleFlight
<1>1. LeaderInv => SingleFlight
  BY DEF LeaderInv, SingleFlight
<1>. QED BY <1>1, LeaderInvariant, PTL

\* No handler ever waits for a channel that nobody is going to close.
THEOREM WaitersTheorem == Spec => []WaitersHaveLeader
<1>1. LeaderInv => WaitersHaveLeader
  BY DEF LeaderInv, WaitersHaveLeader, Settling
<1>. QED BY <1>1, LeaderInvariant, PTL

-----------------------------------------------------------------------------
(* Types, and where the entries come from.                                   *)

LEMMA InitTypes == Init => TypeOK
<1>. SUFFICES ASSUME Init PROVE TypeOK
  OBVIOUS
<1>1. entries = {} /\ closed = {}
  BY DEF Init
<1>2. /\ pc \in [Handler -> Pc] /\ verdict \in [Handler -> Decision]
      /\ route \in [Handler -> {"none", "dedup", "lead", "alone", "panic"}]
  BY DEF Init, Pc, Decision
<1>3. /\ pending \in [Album -> Handler \union {NoOne}]
      /\ awaits \in [Handler -> Handler \union {NoOne}]
  BY DEF Init
<1>4. /\ clock \in Nat /\ cancelled \in BOOLEAN
      /\ now \in [Handler -> Nat] /\ publishedAt \in [Handler -> Nat]
  BY DEF Init
<1>. QED BY <1>1, <1>2, <1>3, <1>4 DEF TypeOK

LEMMA HandlerTypes ==
  ASSUME TypeOK, NEW h \in Handler, Arrive(h) \/ Step(h)
  PROVE  TypeOK'
<1>. USE DedupAssumption DEF TypeOK, Goto, local, result, Pc, Leading, Decision, Without
<1>1. CASE Arrive(h)
  BY <1>1 DEF Arrive
<1>2. CASE AcquireHit(h)
  <2>1. PICK e \in Live(AlbumOf[h], now[h]) : verdict' = [verdict EXCEPT ![h] = e.decision]
    BY <1>2 DEF AcquireHit
  <2>2. e.decision \in Decision
    BY <2>1 DEF Live
  <2>. QED BY <1>2, <2>1, <2>2 DEF AcquireHit
<1>3. CASE AcquireWait(h)
  BY <1>3 DEF AcquireWait
<1>4. CASE AcquireLead(h)
  BY <1>4 DEF AcquireLead
<1>5. CASE Wake(h) \/ WaitCancelled(h)
  BY <1>5 DEF Wake, WaitCancelled
<1>6. CASE Decide(h)
  BY <1>6 DEF Decide
<1>7. CASE Panic(h)
  BY <1>7 DEF Panic
<1>8. CASE Publish(h)
  <2>1. PICK l \in {"close", "closeCompact"} : pc' = [pc EXCEPT ![h] = l]
    BY <1>8 DEF Publish
  <2>2. PublishedEntry(h) \in [album : Album, decision : Decision, expires : Nat,
                               by : Handler]
    BY DEF PublishedEntry
  <2>3. /\ entries' \subseteq [album : Album, decision : Decision, expires : Nat,
                               by : Handler]
        /\ \A e, f \in entries' : e.album = f.album => e = f
    BY <1>8, <2>2 DEF Publish, PublishedEntry
  <2>. QED BY <1>8, <2>1, <2>3 DEF Publish
<1>9. CASE Close(h)
  BY <1>9 DEF Close
<1>10. CASE Compact(h)
  BY <1>10 DEF Compact
<1>. QED BY <1>1, <1>2, <1>3, <1>4, <1>5, <1>6, <1>7, <1>8, <1>9, <1>10 DEF Step

LEMMA NextTypes == TypeOK /\ [Next]_vars => TypeOK'
<1>1. ASSUME TypeOK, Tick \/ Shutdown \/ UNCHANGED vars PROVE TypeOK'
  <2>1. CASE Tick
    BY <1>1, <2>1 DEF TypeOK, Tick, local, result
  <2>2. CASE Shutdown
    BY <1>1, <2>2 DEF TypeOK, Shutdown, local, result
  <2>3. CASE UNCHANGED vars
    BY <1>1, <2>3 DEF TypeOK, vars
  <2>. QED BY <1>1, <2>1, <2>2, <2>3
<1>2. ASSUME TypeOK, NEW h \in Handler, Arrive(h) \/ Step(h) PROVE TypeOK'
  BY <1>2, HandlerTypes
<1>3. Next => \/ \E h \in Handler : Arrive(h) \/ Step(h)
              \/ Tick \/ Shutdown \/ UNCHANGED vars
  BY DEF Next, AllDone
<1>. QED BY <1>1, <1>2, <1>3

\* Every variable keeps its type, and an album has at most one entry.
THEOREM TypeCorrect == Spec => []TypeOK
BY InitTypes, NextTypes, PTL DEF Spec

\* An entry is what its leader published, nobody else's message is stamped later
\* than now, and an album that is being decided has no entry.
EntryInv ==
  /\ clock > 0 /\ \A h \in Handler : now[h] <= clock
  /\ \A h \in Handler : publishedAt[h] # 0 => pc[h] \in Settled
  /\ \A h \in Handler : route[h] = "dedup" => pc[h] = "done"
  /\ \A e \in entries :
       /\ e.album = AlbumOf[e.by] /\ e.decision = verdict[e.by]
       /\ e.expires = now[e.by] + TTL /\ publishedAt[e.by] # 0
  /\ \A h \in Handler : pc[h] \in Leading =>
       \A e \in entries : e.album # AlbumOf[h]

\* A reused decision is the one that a leader of the same album published for
\* a message that arrived less than one TTL earlier.
ReusedFromLeader ==
  \A h \in Handler : route[h] = "dedup" =>
    \E l \in Handler : /\ AlbumOf[l] = AlbumOf[h] /\ publishedAt[l] # 0
                       /\ verdict[l] = verdict[h]
                       /\ now[h] < now[l] + TTL

SourceInv == TypeOK /\ LeaderInv /\ EntryInv /\ ReusedFromLeader

\* Nobody's reason for a reused decision goes away.
LEMMA ReuseKept ==
  ASSUME TypeOK, EntryInv, ReusedFromLeader, NEW h \in Handler,
         \A x \in Handler \ {h} : /\ route'[x] = route[x] /\ verdict'[x] = verdict[x]
                                  /\ now'[x] = now[x]
                                  /\ publishedAt'[x] = publishedAt[x],
         \/ route'[h] # "dedup"
         \/ route'[h] = route[h] /\ verdict'[h] = verdict[h] /\ now'[h] = now[h],
         publishedAt[h] # 0 =>
           /\ verdict'[h] = verdict[h] /\ now'[h] = now[h] /\ publishedAt'[h] # 0
  PROVE  ReusedFromLeader'
<1>1. ASSUME NEW x \in Handler, route'[x] = "dedup"
      PROVE  \E l \in Handler : /\ AlbumOf[l] = AlbumOf[x] /\ publishedAt'[l] # 0
                                /\ verdict'[l] = verdict'[x]
                                /\ now'[x] < now'[l] + TTL
  <2>1. route[x] = "dedup" /\ verdict'[x] = verdict[x] /\ now'[x] = now[x]
    BY <1>1
  <2>2. PICK l \in Handler : /\ AlbumOf[l] = AlbumOf[x] /\ publishedAt[l] # 0
                             /\ verdict[l] = verdict[x] /\ now[x] < now[l] + TTL
    BY <2>1 DEF ReusedFromLeader
  <2>3. verdict'[l] = verdict[l] /\ now'[l] = now[l] /\ publishedAt'[l] # 0
    BY <2>2
  <2>. QED BY <2>1, <2>2, <2>3
<1>. QED BY <1>1 DEF ReusedFromLeader

\* A step that adds no entry and disturbs no published one keeps what entries say.
LEMMA EntriesKept ==
  ASSUME TypeOK, TypeOK', EntryInv, NEW h \in Handler,
         clock' = clock, now'[h] <= clock,
         \A x \in Handler \ {h} : /\ route'[x] = route[x] /\ verdict'[x] = verdict[x]
                                  /\ now'[x] = now[x] /\ pc'[x] = pc[x]
                                  /\ publishedAt'[x] = publishedAt[x],
         publishedAt'[h] = publishedAt[h],
         publishedAt[h] # 0 => /\ verdict'[h] = verdict[h] /\ now'[h] = now[h]
                               /\ pc'[h] \in Settled,
         route'[h] = "dedup" => pc'[h] = "done",
         entries' \subseteq entries,
         pc'[h] \in Leading => \/ pc[h] \in Leading
                              \/ entries' = Without(AlbumOf[h])
  PROVE  EntryInv'
<1>1. clock' > 0 /\ \A x \in Handler : now'[x] <= clock'
  BY DEF EntryInv
<1>2. \A x \in Handler : publishedAt'[x] # 0 => pc'[x] \in Settled
  BY DEF EntryInv
<1>3. \A x \in Handler : route'[x] = "dedup" => pc'[x] = "done"
  BY DEF EntryInv
<1>4. ASSUME NEW e \in entries'
      PROVE  /\ e.album = AlbumOf[e.by] /\ e.decision = verdict'[e.by]
             /\ e.expires = now'[e.by] + TTL /\ publishedAt'[e.by] # 0
  <2>1. e \in entries /\ e.by \in Handler
    BY <1>4 DEF TypeOK
  <2>. QED BY <2>1 DEF EntryInv
<1>5. ASSUME NEW x \in Handler, pc'[x] \in Leading, NEW e \in entries'
      PROVE  e.album # AlbumOf[x]
  BY <1>5 DEF EntryInv, Without
<1>. QED BY <1>1, <1>2, <1>3, <1>4, <1>5 DEF EntryInv

LEMMA HandlerSource ==
  ASSUME SourceInv, TypeOK', NEW h \in Handler, Arrive(h) \/ Step(h)
  PROVE  EntryInv' /\ ReusedFromLeader'
<1>. USE DedupAssumption DEF SourceInv, Goto, local, result, Leading, Settled
<1>t. /\ pc \in [Handler -> Pc] /\ now \in [Handler -> Nat] /\ clock \in Nat
      /\ verdict \in [Handler -> Decision] /\ publishedAt \in [Handler -> Nat]
      /\ route \in [Handler -> {"none", "dedup", "lead", "alone", "panic"}]
      /\ now[h] <= clock
      /\ publishedAt[h] # 0 => pc[h] \in Settled
  BY DEF TypeOK, EntryInv
<1>w. \A a : Without(a) \subseteq entries
  BY DEF Without
<1>1. CASE Arrive(h)
  <2>1. /\ pc[h] = "start" /\ pc' = [pc EXCEPT ![h] = "acquire"]
        /\ now' = [now EXCEPT ![h] = clock]
        /\ UNCHANGED <<clock, entries, verdict, route, publishedAt>>
    BY <1>1 DEF Arrive
  <2>2. publishedAt[h] = 0 /\ route[h] # "dedup"
    BY <2>1, <1>t DEF EntryInv
  <2>3. EntryInv'
    BY <2>1, <2>2, <1>t, EntriesKept
  <2>. QED BY <2>1, <2>2, <2>3, <1>t, ReuseKept
<1>2. CASE AcquireHit(h)
  <2>1. PICK e \in Live(AlbumOf[h], now[h]) : verdict' = [verdict EXCEPT ![h] = e.decision]
    BY <1>2 DEF AcquireHit
  <2>2. /\ pc[h] = "acquire" /\ pc' = [pc EXCEPT ![h] = "done"]
        /\ route' = [route EXCEPT ![h] = "dedup"]
        /\ UNCHANGED <<clock, entries, now, publishedAt>>
    BY <1>2 DEF AcquireHit
  <2>3. publishedAt[h] = 0 /\ route[h] # "dedup"
    BY <2>2, <1>t DEF EntryInv
  <2>4. EntryInv'
    BY <2>1, <2>2, <2>3, <1>t, EntriesKept
  <2>5. PICK l \in Handler : /\ l = e.by /\ AlbumOf[l] = AlbumOf[h] /\ publishedAt[l] # 0
                             /\ verdict[l] = e.decision /\ e.expires = now[l] + TTL
                             /\ e.expires > now[h]
    BY <2>1 DEF Live, TypeOK, EntryInv
  <2>6. ASSUME NEW x \in Handler, route'[x] = "dedup"
        PROVE  \E k \in Handler : /\ AlbumOf[k] = AlbumOf[x] /\ publishedAt'[k] # 0
                                  /\ verdict'[k] = verdict'[x]
                                  /\ now'[x] < now'[k] + TTL
    <3>1. CASE x = h
      <4>1. l # h
        BY <2>3, <2>5
      <4>. QED BY <3>1, <4>1, <2>1, <2>2, <2>5, <1>t
    <3>2. CASE x # h
      <4>1. PICK k \in Handler : /\ AlbumOf[k] = AlbumOf[x] /\ publishedAt[k] # 0
                                 /\ verdict[k] = verdict[x] /\ now[x] < now[k] + TTL
        BY <2>2, <2>6, <3>2, <1>t DEF ReusedFromLeader
      <4>2. k # h
        BY <4>1, <2>3
      <4>. QED BY <4>1, <4>2, <3>2, <2>1, <2>2, <1>t
    <3>. QED BY <3>1, <3>2
  <2>. QED BY <2>4, <2>6 DEF ReusedFromLeader
<1>3. CASE AcquireWait(h)
  <2>1. /\ pc[h] = "acquire" /\ pc' = [pc EXCEPT ![h] = "wait"]
        /\ entries' \subseteq entries
        /\ UNCHANGED <<clock, now, verdict, route, publishedAt>>
    BY <1>3, <1>w DEF AcquireWait
  <2>2. publishedAt[h] = 0 /\ route[h] # "dedup"
    BY <2>1, <1>t DEF EntryInv
  <2>3. EntryInv'
    BY <2>1, <2>2, <1>t, EntriesKept
  <2>. QED BY <2>1, <2>2, <2>3, <1>t, ReuseKept
<1>4. CASE AcquireLead(h)
  <2>1. /\ pc[h] = "acquire" /\ pc' = [pc EXCEPT ![h] = "lead"]
        /\ entries' = Without(AlbumOf[h]) /\ entries' \subseteq entries
        /\ UNCHANGED <<clock, now, verdict, route, publishedAt>>
    BY <1>4, <1>w DEF AcquireLead
  <2>2. publishedAt[h] = 0 /\ route[h] # "dedup"
    BY <2>1, <1>t DEF EntryInv
  <2>3. EntryInv'
    BY <2>1, <2>2, <1>t, EntriesKept
  <2>. QED BY <2>1, <2>2, <2>3, <1>t, ReuseKept
<1>5. CASE Wake(h) \/ WaitCancelled(h)
  <2>1. PICK l \in {"acquire", "alone"} :
          /\ pc[h] = "wait" /\ pc' = [pc EXCEPT ![h] = l]
          /\ UNCHANGED <<clock, entries, now, verdict, route, publishedAt>>
    BY <1>5 DEF Wake, WaitCancelled
  <2>2. publishedAt[h] = 0 /\ route[h] # "dedup"
    BY <2>1, <1>t DEF EntryInv
  <2>3. EntryInv'
    BY <2>1, <2>2, <1>t, EntriesKept
  <2>. QED BY <2>1, <2>2, <2>3, <1>t, ReuseKept
<1>6. CASE Decide(h) \/ Panic(h)
  <2>1. PICK l \in {"publish", "done", "close"}, r \in {"lead", "alone", "panic"} :
          /\ pc[h] \in {"lead", "alone"} /\ pc' = [pc EXCEPT ![h] = l]
          /\ l = "publish" => pc[h] = "lead"
          /\ route' = [route EXCEPT ![h] = r]
          /\ \A x \in Handler \ {h} : verdict'[x] = verdict[x]
          /\ UNCHANGED <<clock, entries, now, publishedAt>>
    BY <1>6, <1>t DEF Decide, Panic
  <2>2. publishedAt[h] = 0 /\ route[h] # "dedup"
    BY <2>1, <1>t DEF EntryInv
  <2>3. EntryInv'
    BY <2>1, <2>2, <1>t, EntriesKept
  <2>. QED BY <2>1, <2>2, <2>3, <1>t, ReuseKept
<1>7. CASE Publish(h)
  <2>1. PICK l \in {"close", "closeCompact"} : pc' = [pc EXCEPT ![h] = l]
    BY <1>7 DEF Publish
  <2>2. /\ pc[h] = "publish" /\ entries' = Without(AlbumOf[h]) \union {PublishedEntry(h)}
        /\ publishedAt' = [publishedAt EXCEPT ![h] = clock]
        /\ UNCHANGED <<clock, now, verdict, route>>
    BY <1>7 DEF Publish
  <2>3. clock # 0 /\ route[h] # "dedup" /\ publishedAt[h] = 0
    BY <2>2, <1>t DEF EntryInv
  <2>4. ASSUME NEW e \in entries'
        PROVE  /\ e.album = AlbumOf[e.by] /\ e.decision = verdict'[e.by]
               /\ e.expires = now'[e.by] + TTL /\ publishedAt'[e.by] # 0
    <3>1. CASE e = PublishedEntry(h)
      BY <3>1, <2>2, <2>3, <1>t DEF PublishedEntry
    <3>2. CASE e \in entries
      BY <3>2, <2>2, <2>3, <1>t DEF EntryInv, TypeOK
    <3>. QED BY <2>2, <2>4, <3>1, <3>2, <1>w
  <2>5. ASSUME NEW x \in Handler, pc'[x] \in Leading, NEW e \in entries'
        PROVE  e.album # AlbumOf[x]
    <3>1. x # h /\ pc[x] \in Leading
      BY <2>1, <2>5, <1>t
    <3>2. AlbumOf[x] # AlbumOf[h]
      BY <3>1, <2>2 DEF LeaderInv
    <3>. QED BY <2>2, <2>5, <3>1, <3>2, <1>w DEF EntryInv, PublishedEntry
  <2>6. EntryInv'
    BY <2>1, <2>2, <2>3, <2>4, <2>5, <1>t DEF EntryInv
  <2>. QED BY <2>2, <2>3, <2>6, <1>t, ReuseKept
<1>8. CASE Close(h) \/ Compact(h)
  <2>1. PICK l \in {"compact", "done"} :
          /\ pc[h] \in {"close", "closeCompact", "compact"}
          /\ pc' = [pc EXCEPT ![h] = l] /\ entries' \subseteq entries
          /\ UNCHANGED <<clock, now, verdict, route, publishedAt>>
    BY <1>8 DEF Close, Compact
  <2>2. route[h] # "dedup"
    BY <2>1 DEF EntryInv
  <2>3. EntryInv'
    BY <2>1, <2>2, <1>t, EntriesKept
  <2>. QED BY <2>1, <2>2, <2>3, <1>t, ReuseKept
<1>. QED BY <1>1, <1>2, <1>3, <1>4, <1>5, <1>6, <1>7, <1>8 DEF Step

LEMMA SourceInvariant == Spec => []SourceInv
<1>1. Init => SourceInv
  <2>1. Init => TypeOK /\ LeaderInv
    BY InitTypes, DedupAssumption DEF Init, LeaderInv, Pc, Leading, NoOne
  <2>2. Init => EntryInv /\ ReusedFromLeader
    BY DEF Init, EntryInv, ReusedFromLeader, Leading
  <2>. QED BY <2>1, <2>2 DEF SourceInv
<1>2. ASSUME SourceInv, [Next]_vars PROVE SourceInv'
  <2>1. TypeOK' /\ LeaderInv'
    BY <1>2, NextTypes, NextLeaderInv DEF SourceInv
  <2>2. ASSUME NEW h \in Handler, Arrive(h) \/ Step(h) PROVE SourceInv'
    BY <1>2, <2>1, <2>2, HandlerSource DEF SourceInv
  <2>3. CASE Tick \/ Shutdown \/ UNCHANGED vars
    <3>1. /\ clock' \in Nat /\ clock <= clock'
          /\ UNCHANGED <<entries, pc, now, verdict, route, publishedAt>>
      BY <1>2, <2>3 DEF SourceInv, TypeOK, Tick, Shutdown, vars, local, result
    <3>2. EntryInv' /\ ReusedFromLeader'
      BY <1>2, <3>1 DEF SourceInv, TypeOK, EntryInv, ReusedFromLeader
    <3>. QED BY <2>1, <3>2 DEF SourceInv
  <2>4. \/ \E h \in Handler : Arrive(h) \/ Step(h)
        \/ Tick \/ Shutdown \/ UNCHANGED vars
    BY <1>2 DEF Next, AllDone
  <2>. QED BY <2>2, <2>3, <2>4
<1>. QED BY <1>1, <1>2, PTL DEF Spec

\* Every reused decision has such a source.
THEOREM ReuseTheorem == Spec => []ReusedFromLeader
BY SourceInvariant, PTL DEF SourceInv

\* A published decision disappears only when its TTL is over, also when another
\* album's leader compacts the map with the time its own message arrived at.
LiveEntriesKept == [][\A e \in entries \ entries' : e.expires <= clock]_entries

\* Published decisions are kept until their TTL is over.
THEOREM EntriesLive == Spec => LiveEntriesKept
<1>1. SourceInv /\ [Next]_vars => [\A e \in entries \ entries' : e.expires <= clock]_entries
  <2>. SUFFICES ASSUME SourceInv, Next, NEW e \in entries, e \notin entries'
                PROVE  e.expires <= clock
    BY DEF vars
  <2>. USE DEF SourceInv
  <2>1. e.expires \in Nat /\ e.album \in Album /\ clock \in Nat
    BY DEF TypeOK
  <2>2. ASSUME NEW h \in Handler, Live(AlbumOf[h], now[h]) = {},
               entries' = Without(AlbumOf[h])
        PROVE  e.expires <= clock
    <3>1. e.album = AlbumOf[h]
      BY <2>2 DEF Without
    <3>2. ~(e.expires > now[h])
      BY <2>2, <3>1 DEF Live
    <3>. QED BY <3>2, <2>1 DEF EntryInv, TypeOK
  <2>3. ASSUME NEW h \in Handler, Publish(h) PROVE e.expires <= clock
    <3>1. e.album = AlbumOf[h] /\ pc[h] \in Leading
      BY <2>3 DEF Publish, Without, Leading
    <3>. QED BY <3>1 DEF EntryInv
  <2>4. ASSUME NEW h \in Handler, Compact(h) PROVE e.expires <= clock
    <3>1. ~(e.expires > now[h])
      BY <2>4 DEF Compact
    <3>. QED BY <3>1, <2>1 DEF EntryInv, TypeOK
  <2>5. ASSUME NEW h \in Handler, AcquireWait(h) \/ AcquireLead(h)
        PROVE  e.expires <= clock
    BY <2>2, <2>5 DEF AcquireWait, AcquireLead
  <2>. QED BY <2>3, <2>4, <2>5 DEF Next, Step, Arrive, AcquireHit, Wake,
              WaitCancelled, Decide, Panic, Close, Tick, Shutdown, AllDone, vars
<1>. QED BY <1>1, SourceInvariant, PTL DEF Spec, LiveEntriesKept

-----------------------------------------------------------------------------
(* One leader per TTL.  As long as an album is calm, the times of its leaders  *)
(* are one TTL apart, because the newest entry or the next leader is in place. *)

Calm(a) ==
  /\ \A x \in Handler : route[x] # "panic"
  /\ \A x \in Handler : AlbumOf[x] # a => publishedAt[x] = 0

Apart(h, k) == now[h] >= now[k] + TTL \/ now[k] >= now[h] + TTL

Covered(h) ==
  \/ pending[AlbumOf[h]] # NoOne
  \/ \E e \in entries : e.album = AlbumOf[h] /\ e.expires >= now[h] + TTL

WindowInv ==
  /\ \A h \in Handler : route[h] = "lead" => pc[h] = "publish" \/ publishedAt[h] # 0
  /\ \A h \in Handler : pc[h] \in {"close", "closeCompact", "compact"} =>
                         publishedAt[h] # 0 \/ route[h] = "panic"
  /\ \A h \in Handler : route[h] = "panic" => pc[h] \in Settled
  /\ \A h \in Handler : Calm(AlbumOf[h]) /\ publishedAt[h] # 0 =>
       /\ Covered(h)
       /\ \A k \in Handler \ {h} : AlbumOf[k] = AlbumOf[h] =>
            /\ pc[k] \in Leading => now[k] >= now[h] + TTL
            /\ publishedAt[k] # 0 => Apart(h, k)

\* A step that neither publishes nor starts to lead, and uncovers nobody.
LEMMA WindowKept ==
  ASSUME SourceInv, WindowInv, NEW h \in Handler,
         \A x \in Handler \ {h} : /\ route'[x] = route[x] /\ now'[x] = now[x]
                                  /\ pc'[x] = pc[x],
         publishedAt' = publishedAt,
         publishedAt[h] # 0 \/ pc[h] \in Leading => now'[h] = now[h],
         pc'[h] \in Leading => pc[h] \in Leading,
         route'[h] = "lead" => pc'[h] = "publish" \/ publishedAt[h] # 0,
         pc'[h] \in {"close", "closeCompact", "compact"} =>
           publishedAt[h] # 0 \/ route'[h] = "panic",
         route[h] = "panic" => route'[h] = "panic",
         route'[h] = "panic" => pc'[h] \in Settled,
         \A x \in Handler : Calm(AlbumOf[x])' /\ Calm(AlbumOf[x])
                            /\ publishedAt[x] # 0 /\ Covered(x) => Covered(x)'
  PROVE  WindowInv'
<1>1. \A x \in Handler : Calm(AlbumOf[x])' => Calm(AlbumOf[x])
  BY DEF Calm
<1>2. \A x \in Handler : publishedAt[x] # 0 => now'[x] = now[x]
  OBVIOUS
<1>3. ASSUME NEW x \in Handler, Calm(AlbumOf[x])', publishedAt'[x] # 0
      PROVE  /\ Covered(x)'
             /\ \A k \in Handler \ {x} : AlbumOf[k] = AlbumOf[x] =>
                  /\ pc'[k] \in Leading => now'[k] >= now'[x] + TTL
                  /\ publishedAt'[k] # 0 => Apart(x, k)'
  <2>1. Calm(AlbumOf[x]) /\ publishedAt[x] # 0
    BY <1>1, <1>3
  <2>2. Covered(x)'
    BY <2>1, <1>3 DEF WindowInv
  <2>3. ASSUME NEW k \in Handler \ {x}, AlbumOf[k] = AlbumOf[x], pc'[k] \in Leading
        PROVE  now'[k] >= now'[x] + TTL
    BY <2>1, <2>3, <1>2 DEF WindowInv
  <2>4. ASSUME NEW k \in Handler \ {x}, AlbumOf[k] = AlbumOf[x], publishedAt'[k] # 0
        PROVE  Apart(x, k)'
    BY <2>1, <2>4, <1>2 DEF WindowInv, Apart
  <2>. QED BY <2>2, <2>3, <2>4
<1>4. /\ \A x \in Handler : route'[x] = "lead" => pc'[x] = "publish" \/ publishedAt'[x] # 0
      /\ \A x \in Handler : pc'[x] \in {"close", "closeCompact", "compact"} =>
                             publishedAt'[x] # 0 \/ route'[x] = "panic"
      /\ \A x \in Handler : route'[x] = "panic" => pc'[x] \in Settled
  BY DEF WindowInv
<1>. QED BY <1>3, <1>4 DEF WindowInv

\* Who takes the lead arrived one TTL after every earlier leader: the newest
\* entry was still there, and had expired.
LEMMA LeadApart ==
  ASSUME SourceInv, WindowInv, NEW h \in Handler, AcquireLead(h),
         NEW x \in Handler, Calm(AlbumOf[x]), publishedAt[x] # 0, AlbumOf[x] = AlbumOf[h]
  PROVE  now[h] >= now[x] + TTL
<1>1. pending[AlbumOf[x]] = NoOne /\ Live(AlbumOf[h], now[h]) = {}
  BY DEF AcquireLead
<1>2. PICK e \in entries : e.album = AlbumOf[x] /\ e.expires >= now[x] + TTL
  BY <1>1 DEF WindowInv, Covered
<1>3. ~(e.expires > now[h])
  BY <1>1, <1>2 DEF Live
<1>4. e.expires \in Nat /\ now[h] \in Nat /\ now[x] \in Nat /\ TTL \in Nat
  BY DedupAssumption DEF SourceInv, TypeOK
<1>. QED BY <1>2, <1>3, <1>4

LEMMA HandlerWindow ==
  ASSUME SourceInv, WindowInv, NEW h \in Handler, Arrive(h) \/ Step(h)
  PROVE  WindowInv'
<1>. USE DedupAssumption DEF SourceInv, Goto, local, result
<1>t. /\ pc \in [Handler -> Pc] /\ now \in [Handler -> Nat] /\ clock \in Nat
      /\ publishedAt \in [Handler -> Nat] /\ clock > 0
      /\ pending \in [Album -> Handler \union {NoOne}]
      /\ route \in [Handler -> {"none", "dedup", "lead", "alone", "panic"}]
      /\ publishedAt[h] # 0 => pc[h] \in Settled
      /\ route[h] = "panic" => pc[h] \in Settled
      /\ AlbumOf \in [Handler -> Album] /\ NoOne \notin Handler
  BY DEF TypeOK, EntryInv, WindowInv, NoOne
<1>1. CASE Arrive(h)
  <2>1. /\ pc[h] = "start" /\ pc' = [pc EXCEPT ![h] = "acquire"]
        /\ now' = [now EXCEPT ![h] = clock]
        /\ UNCHANGED <<entries, pending, route, publishedAt>>
    BY <1>1 DEF Arrive
  <2>2. publishedAt[h] = 0 /\ route[h] # "panic" /\ pc[h] \notin Leading
    BY <2>1, <1>t DEF Settled, Leading
  <2>3. \A x \in Handler : publishedAt[x] # 0 /\ Covered(x) => Covered(x)'
    BY <2>1, <2>2, <1>t DEF Covered
  <2>. QED BY <2>1, <2>2, <2>3, <1>t, WindowKept DEF Leading, WindowInv
<1>2. CASE AcquireHit(h) \/ Wake(h) \/ WaitCancelled(h)
  <2>1. PICK l \in {"done", "acquire", "alone"} :
          /\ pc[h] \in {"acquire", "wait"} /\ pc' = [pc EXCEPT ![h] = l]
          /\ \A x \in Handler \ {h} : route'[x] = route[x]
          /\ route'[h] \in {route[h], "dedup"}
          /\ UNCHANGED <<entries, pending, now, publishedAt>>
    BY <1>2, <1>t DEF AcquireHit, Wake, WaitCancelled
  <2>2. publishedAt[h] = 0 /\ route[h] # "panic" /\ route[h] # "lead"
    BY <2>1, <1>t DEF Settled, WindowInv
  <2>3. \A x \in Handler : Covered(x) => Covered(x)'
    BY <2>1 DEF Covered
  <2>. QED BY <2>1, <2>2, <2>3, <1>t, WindowKept DEF Leading
<1>3. CASE AcquireWait(h)
  <2>1. /\ pc[h] = "acquire" /\ pc' = [pc EXCEPT ![h] = "wait"]
        /\ pending[AlbumOf[h]] # NoOne /\ entries' = Without(AlbumOf[h])
        /\ UNCHANGED <<pending, now, route, publishedAt>>
    BY <1>3 DEF AcquireWait
  <2>2. publishedAt[h] = 0 /\ route[h] # "panic" /\ route[h] # "lead"
    BY <2>1, <1>t DEF Settled, WindowInv
  <2>3. \A x \in Handler : Covered(x) => Covered(x)'
    BY <2>1 DEF Covered, Without
  <2>. QED BY <2>1, <2>2, <2>3, <1>t, WindowKept DEF Leading
<1>4. CASE AcquireLead(h)
  <2>1. /\ pc[h] = "acquire" /\ pc' = [pc EXCEPT ![h] = "lead"]
        /\ pending' = [pending EXCEPT ![AlbumOf[h]] = h]
        /\ entries' = Without(AlbumOf[h]) /\ UNCHANGED <<now, route, publishedAt>>
    BY <1>4 DEF AcquireLead
  <2>2. publishedAt[h] = 0 /\ route[h] # "panic" /\ route[h] # "lead"
    BY <2>1, <1>t DEF Settled, WindowInv
  <2>3. \A x \in Handler : Covered(x) => Covered(x)'
    BY <2>1, <1>t DEF Covered, Without
  <2>4. \A x \in Handler : Calm(AlbumOf[x])' <=> Calm(AlbumOf[x])
    BY <2>1 DEF Calm
  <2>5. \A x \in Handler : pc'[x] = IF x = h THEN "lead" ELSE pc[x]
    BY <2>1, <1>t
  <2>6. ASSUME NEW x \in Handler, Calm(AlbumOf[x]), publishedAt[x] # 0
        PROVE  /\ Covered(x)'
               /\ \A k \in Handler \ {x} : AlbumOf[k] = AlbumOf[x] =>
                    /\ pc'[k] \in Leading => now'[k] >= now'[x] + TTL
                    /\ publishedAt'[k] # 0 => Apart(x, k)'
    <3>1. Covered(x)'
      BY <2>3, <2>6 DEF WindowInv
    <3>2. AlbumOf[h] = AlbumOf[x] => now[h] >= now[x] + TTL
      BY <1>4, <2>6, LeadApart
    <3>3. ASSUME NEW k \in Handler \ {x}, AlbumOf[k] = AlbumOf[x]
          PROVE  /\ pc'[k] \in Leading => now'[k] >= now'[x] + TTL
                 /\ publishedAt'[k] # 0 => Apart(x, k)'
      BY <2>1, <2>5, <2>6, <3>2, <3>3 DEF WindowInv, Apart
    <3>. QED BY <3>1, <3>3
  <2>7. /\ \A x \in Handler : route'[x] = "lead" => pc'[x] = "publish" \/ publishedAt'[x] # 0
        /\ \A x \in Handler : pc'[x] \in {"close", "closeCompact", "compact"} =>
                               publishedAt'[x] # 0 \/ route'[x] = "panic"
        /\ \A x \in Handler : route'[x] = "panic" => pc'[x] \in Settled
    BY <2>1, <2>2, <2>5 DEF WindowInv
  <2>. QED BY <2>1, <2>4, <2>6, <2>7 DEF WindowInv
<1>5. CASE Decide(h)
  <2>1. PICK l \in {"publish", "done"}, r \in {"lead", "alone"} :
          /\ pc[h] \in {"lead", "alone"} /\ pc' = [pc EXCEPT ![h] = l]
          /\ l = "publish" <=> pc[h] = "lead"
          /\ r = pc[h] /\ route' = [route EXCEPT ![h] = r]
          /\ UNCHANGED <<entries, pending, now, publishedAt>>
    BY <1>5, <1>t DEF Decide
  <2>2. publishedAt[h] = 0 /\ route[h] # "panic"
    BY <2>1, <1>t DEF Settled
  <2>3. \A x \in Handler : Covered(x) => Covered(x)'
    BY <2>1 DEF Covered
  <2>. QED BY <2>1, <2>2, <2>3, <1>t, WindowKept DEF Leading
<1>6. CASE Panic(h)
  <2>1. PICK l \in {"close", "done"} :
          /\ pc[h] \in {"lead", "alone"} /\ pc' = [pc EXCEPT ![h] = l]
          /\ route' = [route EXCEPT ![h] = "panic"] /\ UNCHANGED <<now, publishedAt>>
    BY <1>6, <1>t DEF Panic
  <2>2. \A x \in Handler : ~Calm(AlbumOf[x])'
    BY <2>1, <1>t DEF Calm
  <2>. QED BY <2>1, <2>2, <1>t, WindowKept DEF Leading, Settled
<1>7. CASE Publish(h)
  <2>1. PICK l \in {"close", "closeCompact"} : pc' = [pc EXCEPT ![h] = l]
    BY <1>7 DEF Publish
  <2>2. /\ pc[h] = "publish"
        /\ entries' = Without(AlbumOf[h]) \union {PublishedEntry(h)}
        /\ pending' = [pending EXCEPT ![AlbumOf[h]] = NoOne]
        /\ publishedAt' = [publishedAt EXCEPT ![h] = clock]
        /\ UNCHANGED <<now, route>>
    BY <1>7 DEF Publish
  <2>3. route[h] # "panic" /\ publishedAt[h] = 0 /\ clock # 0
    BY <2>2, <1>t DEF Settled
  <2>4. /\ \A x \in Handler : pc'[x] = IF x = h THEN l ELSE pc[x]
        /\ \A x \in Handler : publishedAt'[x] = IF x = h THEN clock ELSE publishedAt[x]
    BY <2>1, <2>2, <1>t
  <2>5. \A x \in Handler : Calm(AlbumOf[x])' =>
          Calm(AlbumOf[x]) /\ AlbumOf[x] = AlbumOf[h]
    BY <2>2, <2>3, <2>4 DEF Calm
  <2>6. /\ PublishedEntry(h) \in entries' /\ PublishedEntry(h).album = AlbumOf[h]
        /\ PublishedEntry(h).expires = now[h] + TTL
    BY <2>2 DEF PublishedEntry
  <2>7. ASSUME NEW x \in Handler, Calm(AlbumOf[x])', publishedAt'[x] # 0
        PROVE  /\ Covered(x)'
               /\ \A k \in Handler \ {x} : AlbumOf[k] = AlbumOf[x] =>
                    /\ pc'[k] \in Leading => now'[k] >= now'[x] + TTL
                    /\ publishedAt'[k] # 0 => Apart(x, k)'
    <3>1. x # h => now[h] >= now[x] + TTL
      BY <2>2, <2>4, <2>5, <2>7 DEF WindowInv, Leading
    <3>2. now[h] + TTL >= now[x] + TTL
      BY <3>1, <1>t
    <3>3. Covered(x)'
      BY <2>2, <2>5, <2>6, <2>7, <3>2 DEF Covered
    <3>4. ASSUME NEW k \in Handler \ {x}, AlbumOf[k] = AlbumOf[x], pc'[k] \in Leading
          PROVE  FALSE
      <4>1. k # h /\ pc[k] \in Leading /\ AlbumOf[k] = AlbumOf[h]
        BY <2>4, <2>5, <2>7, <3>4 DEF Leading
      <4>. QED BY <4>1, <2>2 DEF LeaderInv, Leading
    <3>5. ASSUME NEW k \in Handler \ {x}, AlbumOf[k] = AlbumOf[x], publishedAt'[k] # 0
          PROVE  Apart(x, k)'
      <4>1. CASE x = h
        <5>1. publishedAt[k] # 0 /\ Calm(AlbumOf[k])
          BY <4>1, <2>4, <2>5, <2>7, <3>5
        <5>2. now[h] >= now[k] + TTL
          BY <4>1, <5>1, <3>5, <2>2 DEF WindowInv, Leading
        <5>. QED BY <4>1, <5>2, <2>2 DEF Apart
      <4>2. CASE x # h /\ k = h
        BY <4>2, <3>1, <2>2 DEF Apart
      <4>3. CASE x # h /\ k # h
        BY <4>3, <2>2, <2>4, <2>5, <2>7, <3>5 DEF WindowInv, Apart
      <4>. QED BY <4>1, <4>2, <4>3
    <3>. QED BY <3>3, <3>4, <3>5
  <2>8. /\ \A x \in Handler : route'[x] = "lead" => pc'[x] = "publish" \/ publishedAt'[x] # 0
        /\ \A x \in Handler : pc'[x] \in {"close", "closeCompact", "compact"} =>
                               publishedAt'[x] # 0 \/ route'[x] = "panic"
        /\ \A x \in Handler : route'[x] = "panic" => pc'[x] \in Settled
    BY <2>2, <2>3, <2>4 DEF WindowInv
  <2>. QED BY <2>7, <2>8 DEF WindowInv
<1>8. CASE Close(h)
  <2>1. PICK l \in {"compact", "done"} :
          /\ pc[h] \in {"close", "closeCompact"} /\ pc' = [pc EXCEPT ![h] = l]
          /\ UNCHANGED <<entries, pending, now, route, publishedAt>>
    BY <1>8 DEF Close
  <2>2. \A x \in Handler : Covered(x) => Covered(x)'
    BY <2>1 DEF Covered
  <2>. QED BY <2>1, <2>2, <1>t, WindowKept DEF Leading, Settled, WindowInv
<1>9. CASE Compact(h)
  <2>1. /\ pc[h] = "compact" /\ pc' = [pc EXCEPT ![h] = "done"]
        /\ entries' = {e \in entries : e.expires > now[h]}
        /\ UNCHANGED <<pending, now, route, publishedAt>>
    BY <1>9 DEF Compact
  <2>2. ASSUME NEW x \in Handler, Calm(AlbumOf[x]), publishedAt[x] # 0, Covered(x)
        PROVE  Covered(x)'
    <3>1. publishedAt[h] # 0 /\ AlbumOf[h] = AlbumOf[x]
      BY <2>1, <2>2 DEF WindowInv, Calm
    <3>2. Covered(h)
      BY <2>2, <3>1 DEF WindowInv
    <3>3. CASE pending[AlbumOf[x]] # NoOne
      BY <3>3, <2>1 DEF Covered
    <3>4. CASE pending[AlbumOf[x]] = NoOne
      <4>1. PICK e \in entries : e.album = AlbumOf[x] /\ e.expires >= now[x] + TTL
        BY <2>2, <3>4 DEF Covered
      <4>2. PICK f \in entries : f.album = AlbumOf[h] /\ f.expires >= now[h] + TTL
        BY <3>1, <3>2, <3>4 DEF Covered
      <4>3. e = f /\ e.expires \in Nat /\ now[h] \in Nat /\ TTL \in Nat \ {0}
        BY <3>1, <4>1, <4>2 DEF TypeOK
      <4>4. e \in entries'
        BY <2>1, <4>2, <4>3
      <4>. QED BY <4>1, <4>4, <2>1 DEF Covered
    <3>. QED BY <3>3, <3>4
  <2>. QED BY <2>1, <2>2, <1>t, WindowKept DEF Leading, Settled, WindowInv
<1>. QED BY <1>1, <1>2, <1>3, <1>4, <1>5, <1>6, <1>7, <1>8, <1>9 DEF Step

\* As long as nobody panics and no other album has been decided, two messages that
\* arrive less than one TTL apart are never decided by two leaders.
THEOREM WindowTheorem == Spec => []OneLeaderPerWindow
<1>1. Init => WindowInv
  BY DEF Init, WindowInv
<1>2. ASSUME SourceInv, WindowInv, [Next]_vars PROVE WindowInv'
  <2>1. ASSUME NEW h \in Handler, Arrive(h) \/ Step(h) PROVE WindowInv'
    BY <1>2, <2>1, HandlerWindow
  <2>2. CASE Tick \/ Shutdown \/ UNCHANGED vars
    <3>1. UNCHANGED <<entries, pending, pc, now, route, publishedAt>>
      BY <2>2 DEF Tick, Shutdown, vars, local, result
    <3>. QED BY <1>2, <3>1 DEF WindowInv, Calm, Covered, Apart
  <2>3. \/ \E h \in Handler : Arrive(h) \/ Step(h)
        \/ Tick \/ Shutdown \/ UNCHANGED vars
    BY <1>2 DEF Next, AllDone
  <2>. QED BY <2>1, <2>2, <2>3
<1>3. SourceInv /\ WindowInv => OneLeaderPerWindow
  <2>. SUFFICES ASSUME SourceInv, WindowInv, NEW h \in Handler, NEW k \in Handler,
                       h # k, AlbumOf[h] = AlbumOf[k], now[h] <= now[k],
                       route[h] = "lead", route[k] = "lead", Calm(AlbumOf[h])
                PROVE  now[k] >= now[h] + TTL
    BY DEF OneLeaderPerWindow, Calm
  <2>1. now[h] \in Nat /\ now[k] \in Nat /\ TTL \in Nat \ {0}
    BY DedupAssumption DEF SourceInv, TypeOK
  <2>2. \A x \in {h, k} : pc[x] \in Leading \/ publishedAt[x] # 0
    BY DEF WindowInv, Leading
  <2>3. CASE publishedAt[h] # 0
    BY <2>1, <2>2, <2>3 DEF WindowInv, Apart
  <2>4. CASE publishedAt[h] = 0 /\ publishedAt[k] # 0
    <3>1. now[h] >= now[k] + TTL
      BY <2>2, <2>4 DEF WindowInv
    <3>. QED BY <2>1, <3>1
  <2>5. CASE publishedAt[h] = 0 /\ publishedAt[k] = 0
    BY <2>2, <2>5 DEF SourceInv, LeaderInv
  <2>. QED BY <2>3, <2>4, <2>5
<1>. QED BY <1>1, <1>2, <1>3, SourceInvariant, PTL DEF Spec

-----------------------------------------------------------------------------
(* The refinement: what a step means for the decisions of AlbumDecisions.      *)

\* What the mapping needs besides SourceInv: a message has a time once it has
\* arrived, only the shutdown makes a handler decide alone, and only a handler
\* that has ended can have panicked.
ArrivalInv ==
  \A h \in Handler :
    /\ pc[h] = "start" <=> now[h] = 0
    /\ pc[h] = "alone" => cancelled
    /\ route[h] = "panic" => pc[h] \in Settled

LEMMA ArrivalInvariant == Spec => []ArrivalInv
<1>1. Init => ArrivalInv
  BY DEF Init, ArrivalInv
<1>2. ASSUME SourceInv, ArrivalInv, [Next]_vars PROVE ArrivalInv'
  <2>. USE DEF Goto, local, result, Settled
  <2>t. /\ pc \in [Handler -> Pc] /\ now \in [Handler -> Nat]
        /\ clock # 0 /\ cancelled \in BOOLEAN
        /\ route \in [Handler -> {"none", "dedup", "lead", "alone", "panic"}]
    BY <1>2 DEF SourceInv, TypeOK, EntryInv
  <2>1. ASSUME NEW h \in Handler, Arrive(h) PROVE ArrivalInv'
    <3>1. /\ pc[h] = "start" /\ pc' = [pc EXCEPT ![h] = "acquire"]
          /\ now' = [now EXCEPT ![h] = clock] /\ UNCHANGED <<route, cancelled>>
      BY <2>1 DEF Arrive
    <3>2. route[h] # "panic"
      BY <1>2, <3>1 DEF ArrivalInv
    <3>. QED BY <1>2, <2>t, <3>1, <3>2 DEF ArrivalInv
  <2>2. ASSUME NEW h \in Handler, Step(h) PROVE ArrivalInv'
    <3>1. /\ UNCHANGED <<now, cancelled>> /\ pc[h] # "start"
          /\ \A x \in Handler \ {h} : pc'[x] = pc[x] /\ route'[x] = route[x]
      BY <2>t, <2>2 DEF Step, AcquireHit, AcquireWait, AcquireLead, Wake,
         WaitCancelled, Decide, Panic, Publish, Close, Compact
    <3>2. /\ pc'[h] # "start"
          /\ pc'[h] = "alone" => cancelled
          /\ route'[h] = "panic" => pc'[h] \in Settled
      <4>1. CASE AcquireHit(h) \/ AcquireWait(h) \/ AcquireLead(h) \/ Wake(h)
                 \/ WaitCancelled(h) \/ Decide(h)
        <5>1. route[h] # "panic"
          BY <1>2, <4>1 DEF AcquireHit, AcquireWait, AcquireLead, Wake,
             WaitCancelled, Decide, ArrivalInv
        <5>2. CASE AcquireHit(h) \/ Decide(h)
          BY <2>t, <5>2 DEF AcquireHit, Decide
        <5>3. CASE AcquireWait(h) \/ AcquireLead(h) \/ Wake(h) \/ WaitCancelled(h)
          BY <2>t, <5>1, <5>3 DEF AcquireWait, AcquireLead, Wake, WaitCancelled
        <5>. QED BY <4>1, <5>2, <5>3
      <4>2. CASE Panic(h)
        BY <2>t, <4>2 DEF Panic
      <4>3. CASE Publish(h)
        <5>1. PICK l \in {"close", "closeCompact"} : pc' = [pc EXCEPT ![h] = l]
          BY <4>3 DEF Publish
        <5>. QED BY <2>t, <5>1
      <4>4. CASE Close(h) \/ Compact(h)
        BY <2>t, <4>4 DEF Close, Compact
      <4>. QED BY <2>2, <4>1, <4>2, <4>3, <4>4 DEF Step
    <3>. QED BY <1>2, <3>1, <3>2 DEF ArrivalInv
  <2>3. CASE Tick \/ Shutdown \/ UNCHANGED vars
    <3>1. UNCHANGED <<pc, now, route>> /\ (cancelled => cancelled')
      BY <2>3 DEF Tick, Shutdown, vars
    <3>. QED BY <1>2, <3>1 DEF ArrivalInv
  <2>. QED BY <1>2, <2>1, <2>2, <2>3 DEF Next, AllDone
<1>. QED BY <1>1, <1>2, SourceInvariant, PTL DEF Spec

\* A handler that changes its label changes its own album's deciders, at most.
LEMMA DecidersAfter ==
  ASSUME TypeOK, NEW h \in Handler, NEW l, pc' = [pc EXCEPT ![h] = l]
  PROVE  deciders' = [deciders EXCEPT ![AlbumOf[h]] =
                        IF l \in Leading THEN @ \union {h} ELSE @ \ {h}]
<1>. DEFINE new == [deciders EXCEPT ![AlbumOf[h]] =
                      IF l \in Leading THEN @ \union {h} ELSE @ \ {h}]
<1>1. \A x \in Handler : pc'[x] = IF x = h THEN l ELSE pc[x]
  BY DEF TypeOK
<1>2. ASSUME NEW a \in Album PROVE deciders'[a] = new[a]
  BY <1>1, DedupAssumption DEF deciders
<1>3. deciders' = [a \in Album |-> deciders'[a]] /\ new = [a \in Album |-> new[a]]
  BY DEF deciders
<1>. HIDE DEF new
<1>4. deciders' = new
  BY <1>2, <1>3
<1>. QED BY <1>4 DEF new

\* A handler's step changes its own fate, at most.
LEMMA FateAfter ==
  ASSUME NEW h \in Handler,
         \A x \in Handler \ {h} :
           pc'[x] = pc[x] /\ route'[x] = route[x] /\ verdict'[x] = verdict[x]
  PROVE  fate' = [fate EXCEPT ![h] = fate[h]']
<1>1. \A x \in Handler \ {h} : fate'[x] = fate[x]
  BY DEF fate
<1>2. fate = [x \in Handler |-> fate[x]] /\ fate' = [x \in Handler |-> fate'[x]]
  BY DEF fate
<1>. QED BY <1>1, <1>2

\* An album that a handler leads has that one decider; without a pending channel
\* it has none, and a handler that does not lead is not one.
LEMMA DecidersNow ==
  ASSUME SourceInv, NEW h \in Handler
  PROVE  /\ deciders \in [Album -> SUBSET Handler] /\ AlbumOf[h] \in Album
         /\ h \in deciders[AlbumOf[h]] <=> pc[h] \in Leading
         /\ pc[h] \in Leading => deciders[AlbumOf[h]] = {h}
         /\ pending[AlbumOf[h]] = NoOne => deciders[AlbumOf[h]] = {}
BY DedupAssumption DEF SourceInv, LeaderInv, deciders, NoOne

\* What stands for an album is what the map has for it.
LEMMA StandingNow ==
  ASSUME SourceInv
  PROVE  /\ standing = [a \in Album |-> standing[a]]
         /\ \A a \in Album : \A s : s \in standing[a] <=>
              \E e \in entries : e.album = a /\ s = [decision |-> e.decision,
                                                      until |-> e.expires]
BY DEF standing

\* Removing expired entries forgets decisions whose time is over.
LEMMA ForgetStep ==
  ASSUME SourceInv, entries' \subseteq entries,
         \A e \in entries \ entries' : e.expires <= clock,
         UNCHANGED <<clock, cancelled, now>>, deciders' = deciders, fate' = fate
  PROVE  Albums!Next
<1>. DEFINE old == {a \in Album : standing[a]' # standing[a]}
<1>1. ASSUME NEW a \in old
      PROVE  standing'[a] = {} /\ \A s \in standing[a] : s.until <= clock
  <2>1. PICK e \in entries \ entries' : e.album = a
    BY <1>1 DEF standing
  <2>2. \A f \in entries : f.album = a => f = e
    BY <2>1 DEF SourceInv, TypeOK
  <2>. QED BY <2>1, <2>2 DEF standing
<1>2. standing' = [a \in Album |-> IF a \in old THEN {} ELSE standing[a]]
  BY <1>1 DEF standing
<1>3. Albums!Forget
  BY <1>1, <1>2 DEF Albums!Forget
<1>. QED BY <1>3 DEF Albums!Next

\* Every step of a handler is a step of AlbumDecisions or changes nothing in it.
LEMMA HandlerImplements ==
  ASSUME SourceInv, SourceInv', ArrivalInv, NEW h \in Handler, Arrive(h) \/ Step(h)
  PROVE  Albums!Next \/ UNCHANGED Albums!vars
<1>. USE DEF Goto, local, result
<1>t. /\ pc \in [Handler -> Pc] /\ now \in [Handler -> Nat]
      /\ verdict \in [Handler -> Decision]
      /\ route \in [Handler -> {"none", "dedup", "lead", "alone", "panic"}]
      /\ TypeOK
  BY DEF SourceInv, TypeOK
<1>d. /\ deciders \in [Album -> SUBSET Handler] /\ AlbumOf[h] \in Album
      /\ h \in deciders[AlbumOf[h]] <=> pc[h] \in Leading
      /\ pc[h] \in Leading => deciders[AlbumOf[h]] = {h}
      /\ pending[AlbumOf[h]] = NoOne => deciders[AlbumOf[h]] = {}
  BY DecidersNow
<1>f. fate \in [Handler -> {"open", "lost", "allow", "delete"}]
  BY <1>t DEF fate, Decision
\* A step between two labels of which neither, or both, lead.
<1>same. ASSUME NEW l \in Pc, pc' = [pc EXCEPT ![h] = l],
                l \in Leading <=> pc[h] \in Leading
         PROVE  deciders' = deciders
  <2>1. deciders' = [deciders EXCEPT ![AlbumOf[h]] =
                       IF l \in Leading THEN @ \union {h} ELSE @ \ {h}]
    BY <1>t, <1>same, DecidersAfter
  <2>. QED BY <1>d, <1>same, <2>1
\* A message that waits may be decided.
<1>waits. ASSUME pc[h] \in {"acquire", "wait", "alone"}
          PROVE  Albums!Waiting(h)
  BY <1>waits, <1>d DEF Albums!Waiting, ArrivalInv, fate, Settled, Leading
\* A step that leaves the message as undecided as it was, or as decided.
<1>steady. ASSUME NEW l \in Pc, pc' = [pc EXCEPT ![h] = l],
                  l \in Leading <=> pc[h] \in Leading, fate'[h] = fate[h],
                  UNCHANGED <<clock, cancelled, now>>,
                  \A x \in Handler \ {h} : /\ route'[x] = route[x]
                                           /\ verdict'[x] = verdict[x],
                  entries' \subseteq entries,
                  \A e \in entries \ entries' : e.expires <= clock
           PROVE  Albums!Next
  <2>1. deciders' = deciders
    BY <1>steady, <1>same
  <2>2. fate' = fate
    BY <1>steady, <1>t, <1>f, FateAfter
  <2>. QED BY <1>steady, <2>1, <2>2, ForgetStep
<1>1. CASE Arrive(h)
  <2>1. /\ pc[h] = "start" /\ pc' = [pc EXCEPT ![h] = "acquire"]
        /\ now' = [now EXCEPT ![h] = clock]
        /\ UNCHANGED <<clock, entries, cancelled, verdict, route>>
    BY <1>1 DEF Arrive
  <2>2. now[h] = 0 /\ deciders' = deciders
    BY <2>1, <1>same DEF ArrivalInv, Pc, Leading
  <2>3. fate' = fate /\ standing' = standing
    BY <2>1, <1>t DEF fate, standing, Settled
  <2>4. Albums!Arrive(h)
    BY <2>1, <2>2, <2>3 DEF Albums!Arrive
  <2>. QED BY <2>4 DEF Albums!Next
<1>2. CASE AcquireHit(h)
  <2>1. PICK e \in Live(AlbumOf[h], now[h]) : verdict' = [verdict EXCEPT ![h] = e.decision]
    BY <1>2 DEF AcquireHit
  <2>2. /\ pc[h] = "acquire" /\ pc' = [pc EXCEPT ![h] = "done"]
        /\ route' = [route EXCEPT ![h] = "dedup"]
        /\ UNCHANGED <<clock, entries, cancelled, now>>
    BY <1>2 DEF AcquireHit
  <2>3. deciders' = deciders /\ standing' = standing
    BY <2>2, <1>same DEF Pc, Leading, standing
  <2>4. fate' = [fate EXCEPT ![h] = e.decision]
    <3>1. fate'[h] = e.decision
      BY <2>1, <2>2, <1>t DEF fate, Settled
    <3>. QED BY <3>1, <2>1, <2>2, <1>t, FateAfter
  <2>5. PICK s \in standing[AlbumOf[h]] : s.decision = e.decision /\ s.until = e.expires
    <3>1. e \in entries /\ e.album = AlbumOf[h]
      BY <2>1 DEF Live
    <3>2. [decision |-> e.decision, until |-> e.expires] \in standing[AlbumOf[h]]
      BY <3>1, <1>d, StandingNow
    <3>. QED BY <3>2
  <2>6. now[h] < s.until
    BY <2>1, <2>5, <1>t DEF Live, TypeOK
  <2>7. Albums!TakeOver(h)
    BY <2>2, <2>3, <2>4, <2>5, <2>6, <1>waits DEF Albums!TakeOver, Albums!Settle
  <2>. QED BY <2>7 DEF Albums!Next
\* What a handler removes before it waits or leads is over for its message.
<1>over. ASSUME Live(AlbumOf[h], now[h]) = {}
         PROVE  /\ Without(AlbumOf[h]) \subseteq entries
                /\ \A e \in entries \ Without(AlbumOf[h]) : e.expires <= clock
                /\ \A e \in entries : e.album = AlbumOf[h] => e.expires <= now[h]
  <2>1. \A e \in entries : e.expires \in Nat /\ clock \in Nat /\ now[h] \in Nat
                            /\ now[h] <= clock
    BY <1>t DEF TypeOK, SourceInv, EntryInv
  <2>. QED BY <2>1, <1>over DEF Live, Without
<1>3. CASE AcquireWait(h)
  <2>1. /\ pc[h] = "acquire" /\ pc' = [pc EXCEPT ![h] = "wait"]
        /\ Live(AlbumOf[h], now[h]) = {} /\ entries' = Without(AlbumOf[h])
        /\ UNCHANGED <<clock, cancelled, now, verdict, route>>
    BY <1>3 DEF AcquireWait
  <2>2. fate'[h] = fate[h]
    BY <2>1, <1>t DEF fate, Settled
  <2>. QED BY <2>1, <2>2, <1>over, <1>steady DEF Pc, Leading
<1>4. CASE AcquireLead(h)
  <2>1. /\ pc[h] = "acquire" /\ pc' = [pc EXCEPT ![h] = "lead"]
        /\ pending[AlbumOf[h]] = NoOne
        /\ Live(AlbumOf[h], now[h]) = {} /\ entries' = Without(AlbumOf[h])
        /\ UNCHANGED <<clock, cancelled, now, verdict, route>>
    BY <1>4 DEF AcquireLead
  <2>2. deciders[AlbumOf[h]] = {}
    BY <2>1, <1>d
  <2>3. deciders' = [deciders EXCEPT ![AlbumOf[h]] = {h}]
    <3>1. deciders' = [deciders EXCEPT ![AlbumOf[h]] = @ \union {h}]
      BY <2>1, <1>t, DecidersAfter DEF Leading
    <3>. QED BY <3>1, <2>2, <1>d
  <2>4. fate' = fate
    <3>1. fate'[h] = fate[h]
      BY <2>1, <1>t DEF fate, Settled
    <3>. QED BY <3>1, <2>1, <1>t, <1>f, FateAfter
  <2>5. standing' = [standing EXCEPT ![AlbumOf[h]] = {}]
    <3>1. \A a \in Album : standing'[a] = IF a = AlbumOf[h] THEN {} ELSE standing[a]
      BY <2>1, <1>d DEF standing, Without
    <3>. QED BY <3>1, <1>d DEF standing
  <2>6. \A s \in standing[AlbumOf[h]] : s.until <= now[h]
    BY <2>1, <1>over, <1>d DEF standing
  <2>7. Albums!Begin(h)
    BY <2>1, <2>2, <2>3, <2>4, <2>5, <2>6, <1>waits DEF Albums!Begin
  <2>. QED BY <2>7 DEF Albums!Next
<1>5. CASE Wake(h) \/ WaitCancelled(h)
  <2>1. PICK l \in {"acquire", "alone"} :
          /\ pc[h] = "wait" /\ pc' = [pc EXCEPT ![h] = l]
          /\ UNCHANGED <<clock, entries, cancelled, now, verdict, route>>
    BY <1>5 DEF Wake, WaitCancelled
  <2>2. fate'[h] = fate[h]
    BY <2>1, <1>t DEF fate, Settled
  <2>. QED BY <2>1, <2>2, <1>steady DEF Pc, Leading
<1>6. CASE Decide(h)
  <2>1. PICK d \in Decision : verdict' = [verdict EXCEPT ![h] = d]
    BY <1>6 DEF Decide
  <2>2. CASE pc[h] = "lead"
    <3>1. /\ pc' = [pc EXCEPT ![h] = "publish"]
          /\ route' = [route EXCEPT ![h] = "lead"]
          /\ UNCHANGED <<clock, entries, cancelled, now>>
      BY <1>6, <2>2 DEF Decide
    <3>2. fate'[h] = fate[h]
      BY <2>2, <3>1, <1>t DEF fate, Settled
    <3>. QED BY <2>1, <2>2, <3>1, <3>2, <1>t, <1>steady DEF Pc, Leading
  <2>3. CASE pc[h] = "alone"
    <3>1. /\ pc' = [pc EXCEPT ![h] = "done"]
          /\ route' = [route EXCEPT ![h] = "alone"]
          /\ UNCHANGED <<clock, entries, cancelled, now>>
      BY <1>6, <2>3 DEF Decide
    <3>2. deciders' = deciders /\ standing' = standing
      BY <2>3, <3>1, <1>same DEF Pc, Leading, standing
    <3>3. fate' = [fate EXCEPT ![h] = d]
      <4>1. fate'[h] = d
        BY <2>1, <3>1, <1>t DEF fate, Settled
      <4>. QED BY <4>1, <2>1, <3>1, <1>t, FateAfter
    <3>4. Albums!DecideAlone(h, d)
      BY <2>3, <3>1, <3>2, <3>3, <1>waits DEF Albums!DecideAlone, Albums!Settle, ArrivalInv
    <3>. QED BY <3>4 DEF Albums!Next, Albums!Decision, Decision
  <2>. QED BY <1>6, <2>2, <2>3 DEF Decide
<1>7. CASE Panic(h)
  <2>1. PICK l \in {"close", "done"} :
          /\ pc[h] \in {"lead", "alone"} /\ pc' = [pc EXCEPT ![h] = l]
          /\ route' = [route EXCEPT ![h] = "panic"]
          /\ UNCHANGED <<clock, entries, cancelled, now, verdict>>
    BY <1>7 DEF Panic
  <2>2. deciders' = [deciders EXCEPT ![AlbumOf[h]] = @ \ {h}] /\ standing' = standing
    BY <2>1, <1>t, DecidersAfter DEF Leading, standing
  <2>3. fate' = [fate EXCEPT ![h] = "lost"]
    <3>1. fate'[h] = "lost"
      BY <2>1, <1>t DEF fate, Settled
    <3>. QED BY <3>1, <2>1, <1>t, FateAfter
  <2>4. h \in deciders[AlbumOf[h]] \/ (Albums!Waiting(h) /\ cancelled)
    BY <2>1, <1>d, <1>waits DEF Leading, ArrivalInv
  <2>5. Albums!GiveUp(h)
    BY <2>1, <2>2, <2>3, <2>4 DEF Albums!GiveUp, Albums!Settle
  <2>. QED BY <2>5 DEF Albums!Next
<1>8. CASE Publish(h)
  <2>1. PICK l \in {"close", "closeCompact"} : pc' = [pc EXCEPT ![h] = l]
    BY <1>8 DEF Publish
  <2>2. /\ pc[h] = "publish" /\ entries' = Without(AlbumOf[h]) \union {PublishedEntry(h)}
        /\ UNCHANGED <<clock, cancelled, now, verdict, route>>
    BY <1>8 DEF Publish
  <2>3. deciders' = [deciders EXCEPT ![AlbumOf[h]] = {}]
    <3>1. deciders' = [deciders EXCEPT ![AlbumOf[h]] = @ \ {h}]
      BY <2>1, <1>t, DecidersAfter DEF Leading
    <3>2. deciders[AlbumOf[h]] = {h}
      BY <2>2, <1>d DEF Leading
    <3>. QED BY <3>1, <3>2, <1>d
  <2>4. standing' = [standing EXCEPT ![AlbumOf[h]] =
                       {[decision |-> verdict[h], until |-> now[h] + TTL]}]
    <3>1. \A a \in Album \ {AlbumOf[h]} : standing'[a] = standing[a]
      BY <2>2 DEF standing, Without, PublishedEntry
    <3>2. {f \in entries' : f.album = AlbumOf[h]} = {PublishedEntry(h)}
      BY <2>2 DEF Without, PublishedEntry
    <3>3. standing'[AlbumOf[h]] = {[decision |-> verdict[h], until |-> now[h] + TTL]}
      <4>1. standing'[AlbumOf[h]] = {[decision |-> e.decision, until |-> e.expires] :
                                     e \in {PublishedEntry(h)}}
        BY <3>2, <1>d DEF standing
      <4>2. /\ PublishedEntry(h).decision = verdict[h]
            /\ PublishedEntry(h).expires = now[h] + TTL
        BY DEF PublishedEntry
      <4>. QED BY <4>1, <4>2
    <3>. QED BY <3>1, <3>3, <1>d DEF standing
  <2>5. fate' = [fate EXCEPT ![h] = verdict[h]]
    <3>1. fate'[h] = verdict[h]
      BY <2>1, <2>2, <1>t DEF fate, Settled, ArrivalInv
    <3>. QED BY <3>1, <2>1, <2>2, <1>t, FateAfter
  <2>6. Albums!Conclude(h, verdict[h])
    BY <2>2, <2>3, <2>4, <2>5, <1>d DEF Albums!Conclude, Albums!Settle, Leading
  <2>. QED BY <2>6, <1>t DEF Albums!Next, Albums!Decision, Decision
<1>9. CASE Close(h)
  <2>1. PICK l \in {"compact", "done"} :
          /\ pc[h] \in {"close", "closeCompact"} /\ pc' = [pc EXCEPT ![h] = l]
          /\ UNCHANGED <<clock, entries, cancelled, now, verdict, route>>
    BY <1>9 DEF Close
  <2>2. fate'[h] = fate[h]
    BY <2>1, <1>t DEF fate, Settled
  <2>. QED BY <2>1, <2>2, <1>steady DEF Pc, Leading
<1>10. CASE Compact(h)
  <2>1. /\ pc[h] = "compact" /\ pc' = [pc EXCEPT ![h] = "done"]
        /\ entries' = {e \in entries : e.expires > now[h]}
        /\ UNCHANGED <<clock, cancelled, now, verdict, route>>
    BY <1>10 DEF Compact
  <2>2. fate'[h] = fate[h]
    BY <2>1, <1>t DEF fate, Settled
  <2>3. \A e \in entries \ entries' : e.expires <= clock
    <3>1. \A e \in entries : e.expires \in Nat /\ clock \in Nat /\ now[h] \in Nat
                              /\ now[h] <= clock
      BY <1>t DEF TypeOK, SourceInv, EntryInv
    <3>. QED BY <2>1, <3>1
  <2>. QED BY <2>1, <2>2, <2>3, <1>steady DEF Pc, Leading
<1>. QED BY <1>1, <1>2, <1>3, <1>4, <1>5, <1>6, <1>7, <1>8, <1>9, <1>10 DEF Step

\* Album deduplication keeps the promises of AlbumDecisions, whatever the handlers,
\* the shutdown and the clock do.
THEOREM AlbumsTheorem == Spec => ImplementsAlbumDecisions
<1>1. Init => Albums!Init
  BY DEF Init, Albums!Init, deciders, standing, fate, Settled, Leading
<1>2. SourceInv /\ SourceInv' /\ ArrivalInv /\ [Next]_vars => [Albums!Next]_(Albums!vars)
  <2>. SUFFICES ASSUME SourceInv, SourceInv', ArrivalInv, [Next]_vars
                PROVE  Albums!Next \/ UNCHANGED Albums!vars
    OBVIOUS
  <2>1. ASSUME NEW h \in Handler, Arrive(h) \/ Step(h)
        PROVE  Albums!Next \/ UNCHANGED Albums!vars
    BY <2>1, HandlerImplements
  <2>2. CASE Tick
    <3>1. UNCHANGED <<entries, cancelled, pc, now, verdict, route>> /\ clock' = clock + 1
      BY <2>2 DEF Tick, local, result
    <3>. QED BY <3>1 DEF Albums!Next, Albums!Tick, deciders, standing, fate
  <2>3. CASE Shutdown
    <3>1. UNCHANGED <<clock, entries, pc, now, verdict, route>> /\ cancelled' = TRUE
      BY <2>3 DEF Shutdown, local, result
    <3>. QED BY <3>1 DEF Albums!Next, Albums!Stop, deciders, standing, fate
  <2>4. CASE UNCHANGED vars
    BY <2>4 DEF vars, Albums!vars, deciders, standing, fate
  <2>. QED BY <2>1, <2>2, <2>3, <2>4 DEF Next, AllDone
<1>. QED BY <1>1, <1>2, SourceInvariant, ArrivalInvariant, PTL
         DEF Spec, ImplementsAlbumDecisions, Albums!Spec
==============================================================================
