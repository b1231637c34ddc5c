------------------------ MODULE GroupAllowlist_proofs ------------------------
(***************************************************************************)
(* TLAPS proofs about GroupAllowlist: its types, and the coherence of the  *)
(* loaded copies for every number of groups, bots, handlers and commands.  *)
(***************************************************************************)
EXTENDS GroupAllowlist, TLAPS

USE DEF Load, Reader, Command, NoLoad, IdleReader, IdleCommand

\* The variables keep their types.
THEOREM TypeCorrect == Spec => []TypeOK
<1>1. Init => TypeOK
  BY AllowlistAssumption DEF Init, TypeOK
<1>2. TypeOK /\ [Next]_vars => TypeOK'
  <2> SUFFICES ASSUME TypeOK, [Next]_vars PROVE TypeOK'
    OBVIOUS
  <2> USE AllowlistAssumption DEF TypeOK, tables
  <2>1. ASSUME NEW h \in Handler, NEW g \in Group, AskAllowed(h, g)
        PROVE TypeOK'
    BY <2>1 DEF AskAllowed
  <2>2. ASSUME NEW h \in Handler, CheckCache(h) PROVE TypeOK'
    BY <2>2 DEF CheckCache
  <2>3. ASSUME NEW h \in Handler, ListAllowedBots(h) PROVE TypeOK'
    <3>1. Listed(reader[h].group) \in SUBSET Bot
      BY DEF Listed
    <3> QED
      BY <2>3, <3>1 DEF ListAllowedBots
  <2>4. ASSUME NEW h \in Handler, ListFails(h) PROVE TypeOK'
    BY <2>4 DEF ListFails
  <2>5. ASSUME NEW h \in Handler, FillCache(h) PROVE TypeOK'
    BY <2>5 DEF FillCache
  <2>6. ASSUME NEW a \in Admin, NEW g \in Group, NEW b \in Bot,
               NEW pc \in {"allow", "disallow"}, StartCommand(a, g, b, pc)
        PROVE TypeOK'
    BY <2>6 DEF StartCommand
  <2>7. ASSUME NEW a \in Admin, AbandonCommand(a) PROVE TypeOK'
    BY <2>7 DEF AbandonCommand
  <2>8. ASSUME NEW a \in Admin, AllowBot(a) PROVE TypeOK'
    BY <2>8 DEF AllowBot, Targets, NextAfterStore
  <2>9. ASSUME NEW a \in Admin, DisallowBot(a) PROVE TypeOK'
    BY <2>9 DEF DisallowBot, Targets, NextAfterStore
  <2>10. ASSUME NEW a \in Admin, Invalidate(a) PROVE TypeOK'
    <3>1. ASSUME NEW h \in Handler PROVE reader'[h] \in Reader
      <4>1. reader[h] \in Reader /\ command[a].group \in Group
        BY <2>10 DEF Invalidate
      <4> QED
        BY <2>10, <4>1 DEF Invalidate, Overlap
    <3>2. reader' \in [Handler -> Reader]
      BY <2>10, <3>1 DEF Invalidate, Overlap
    <3>3. \A h \in Handler : reader'[h].pc = reader[h].pc
                              /\ reader'[h].group = reader[h].group
      BY <2>10 DEF Invalidate, Overlap
    <3>4. DOMAIN cache' \subseteq Group /\ cache' \in [DOMAIN cache' -> Load]
      BY <2>10 DEF Invalidate
    <3>5. command' \in [Admin -> Command]
          /\ \A x \in Admin : command'[x].pc # "idle"
                                => command'[x].group \in Group
      BY <2>10 DEF Invalidate
    <3> QED
      BY <2>10, <3>2, <3>3, <3>4, <3>5 DEF Invalidate
  <2>11. ASSUME NEW g \in Group, Bind(g) PROVE TypeOK'
    BY <2>11 DEF Bind
  <2>12. ASSUME NEW g \in Group, Unbind(g) PROVE TypeOK'
    BY <2>12 DEF Unbind
  <2>13. CASE Restart
    BY <2>13 DEF Restart
  <2>14. CASE UNCHANGED vars
    BY <2>14 DEF vars
  <2> HIDE DEF TypeOK
  <2> QED
    BY <2>1, <2>2, <2>3, <2>4, <2>5, <2>6, <2>7, <2>8, <2>9, <2>10, <2>11,
       <2>12, <2>13, <2>14 DEF Next
<1> QED
  BY <1>1, <1>2, PTL DEF Spec

-----------------------------------------------------------------------------
(* Coherence.  The invariant says of a set that is about to be stored what *)
(* it says of a stored one.                                                *)

StoredCoherent ==
  \A g \in DOMAIN cache :
    ~cache[g].overlapped /\ ~InvalidatePending(g) => Current(cache[g], g)

LoadCoherent ==
  \A h \in Handler :
    /\ reader[h].pc = "fill" /\ ~reader[h].load.overlapped
    /\ ~InvalidatePending(reader[h].group)
    => Current(reader[h].load, reader[h].group)

CoherenceInv == StoredCoherent /\ LoadCoherent

\* A step that changes neither the table nor the pending Invalidates leaves
\* every current load current.
LEMMA CurrentKept ==
  ASSUME allowlist' = allowlist, removedBy' = removedBy,
         \A a \in Admin : \/ command'[a] = command[a]
                          \/ command[a].pc # "invalidate" /\
                             command'[a].pc # "invalidate"
  PROVE  \A g \in Group :
           /\ InvalidatePending(g)' <=> InvalidatePending(g)
           /\ \A l \in Load : Current(l, g)' <=> Current(l, g)
BY DEF InvalidatePending, Current, Listed

\* After a statement its own group waits for the Invalidate, and the other
\* groups' rows and pending Invalidates are as they were.
LEMMA StatementKeeps ==
  ASSUME TypeOK, NEW a \in Admin, command[a].pc \in {"allow", "disallow"},
         NEW own \in Group, own = command[a].group,
         command' = [command EXCEPT ![a] = NextAfterStore(a)],
         \A r \in Group \X Bot : r[1] # own =>
           /\ r \in allowlist' <=> r \in allowlist
           /\ removedBy'[r] = removedBy[r]
  PROVE  /\ InvalidatePending(own)'
         /\ \A g \in Group \ {own} :
              /\ InvalidatePending(g)' <=> InvalidatePending(g)
              /\ \A l \in Load : Current(l, g)' <=> Current(l, g)
<1>1. command'[a].pc = "invalidate" /\ command'[a].group = own
  BY DEF TypeOK, NextAfterStore
<1>2. \A b \in Admin \ {a} : command'[b] = command[b]
  BY DEF TypeOK
<1>3. InvalidatePending(own)'
  BY <1>1 DEF InvalidatePending
<1>4. ASSUME NEW g \in Group, g # own
      PROVE /\ InvalidatePending(g)' <=> InvalidatePending(g)
            /\ \A l \in Load : Current(l, g)' <=> Current(l, g)
  <2>1. InvalidatePending(g)' <=> InvalidatePending(g)
    BY <1>1, <1>2, <1>4 DEF InvalidatePending
  <2>2. Listed(g)' = Listed(g)
    BY <1>4 DEF Listed
  <2>3. \A b \in Bot : removedBy'[<<g, b>>] = removedBy[<<g, b>>]
    BY <1>4
  <2> QED
    BY <2>1, <2>2, <2>3 DEF Current
<1> QED
  BY <1>3, <1>4

\* A copy or a load that no Invalidate overlapped stays current but for the
\* rows that /unbind deletes.
LEMMA CoherenceStable == Spec => []CoherenceInv
<1>1. Init => CoherenceInv
  BY DEF Init, CoherenceInv, StoredCoherent, LoadCoherent
<1>2. TypeOK /\ CoherenceInv /\ [Next]_vars => CoherenceInv'
  <2> SUFFICES ASSUME TypeOK, CoherenceInv, [Next]_vars PROVE CoherenceInv'
    OBVIOUS
  <2> USE DEF TypeOK, tables, CoherenceInv, StoredCoherent, LoadCoherent
  <2>1. ASSUME NEW h \in Handler, NEW g \in Group, AskAllowed(h, g)
        PROVE CoherenceInv'
    BY <2>1, CurrentKept DEF AskAllowed
  <2>2. ASSUME NEW h \in Handler, CheckCache(h) PROVE CoherenceInv'
    BY <2>2, CurrentKept DEF CheckCache
  <2>3. ASSUME NEW h \in Handler, ListAllowedBots(h) PROVE CoherenceInv'
    <3> DEFINE g == reader[h].group
    <3>4. reader'[h].load.bots = Listed(g) /\ reader'[h].group = g
      BY <2>3 DEF ListAllowedBots
    <3>5. Current(reader[h].load, reader[h].group)'
      BY <2>3, <3>4 DEF ListAllowedBots, Current, Listed
    <3>6. \A x \in Handler \ {h} : reader'[x] = reader[x]
      BY <2>3 DEF ListAllowedBots
    <3>7. StoredCoherent'
      BY <2>3, CurrentKept DEF ListAllowedBots
    <3>8. LoadCoherent'
      BY <2>3, <3>5, <3>6, CurrentKept DEF ListAllowedBots
    <3> QED
      BY <3>7, <3>8
  <2>4. ASSUME NEW h \in Handler, ListFails(h) PROVE CoherenceInv'
    BY <2>4, CurrentKept DEF ListFails
  <2>5. ASSUME NEW h \in Handler, FillCache(h) PROVE CoherenceInv'
    BY <2>5, CurrentKept DEF FillCache
  <2>6. ASSUME NEW a \in Admin, NEW g \in Group, NEW b \in Bot,
               NEW pc \in {"allow", "disallow"}, StartCommand(a, g, b, pc)
        PROVE CoherenceInv'
    <3>1. \A x \in Admin : \/ command'[x] = command[x]
                           \/ command[x].pc # "invalidate" /\
                              command'[x].pc # "invalidate"
      BY <2>6 DEF StartCommand
    <3> QED
      BY <2>6, <3>1, CurrentKept DEF StartCommand
  <2>7. ASSUME NEW a \in Admin, AbandonCommand(a) PROVE CoherenceInv'
    <3>1. \A x \in Admin : \/ command'[x] = command[x]
                           \/ command[x].pc # "invalidate" /\
                              command'[x].pc # "invalidate"
      BY <2>7 DEF AbandonCommand
    <3> QED
      BY <2>7, <3>1, CurrentKept DEF AbandonCommand
  <2>8. ASSUME NEW a \in Admin, AllowBot(a) PROVE CoherenceInv'
    <3> PICK own \in Group : own = command[a].group
      BY <2>8 DEF AllowBot
    <3>1. \A r \in Group \X Bot : r[1] # own =>
            /\ r \in allowlist' <=> r \in allowlist
            /\ removedBy'[r] = removedBy[r]
      BY <2>8 DEF AllowBot, Targets
    <3>2. UNCHANGED <<cache, reader>>
      BY <2>8 DEF AllowBot
    <3>3. /\ InvalidatePending(own)'
          /\ \A g \in Group \ {own} :
               /\ InvalidatePending(g)' <=> InvalidatePending(g)
               /\ \A l \in Load : Current(l, g)' <=> Current(l, g)
      BY <2>8, <3>1, StatementKeeps DEF AllowBot
    <3>4. ASSUME NEW g \in DOMAIN cache, ~cache[g].overlapped,
                 ~InvalidatePending(g)'
          PROVE  Current(cache[g], g)'
      <4>1. g \in Group \ {own} /\ cache[g] \in Load
        BY <3>3, <3>4
      <4>2. Current(cache[g], g)
        BY <3>3, <3>4, <4>1
      <4> QED
        BY <3>2, <3>3, <4>1, <4>2
    <3>5. ASSUME NEW h \in Handler, reader[h].pc = "fill",
                 ~reader[h].load.overlapped,
                 ~InvalidatePending(reader[h].group)'
          PROVE  Current(reader[h].load, reader[h].group)'
      <4>1. reader[h].group \in Group /\ reader[h].load \in Load
        BY <3>5
      <4>2. reader[h].group # own
        BY <3>2, <3>3, <3>5
      <4>3. ~InvalidatePending(reader[h].group)
        BY <3>2, <3>3, <3>5, <4>1, <4>2
      <4>4. Current(reader[h].load, reader[h].group)
        BY <3>5, <4>3
      <4> QED
        BY <3>2, <3>3, <4>1, <4>2, <4>4
    <3> QED
      BY <3>2, <3>4, <3>5
  <2>9. ASSUME NEW a \in Admin, DisallowBot(a) PROVE CoherenceInv'
    <3> PICK own \in Group : own = command[a].group
      BY <2>9 DEF DisallowBot
    <3>1. \A r \in Group \X Bot : r[1] # own =>
            /\ r \in allowlist' <=> r \in allowlist
            /\ removedBy'[r] = removedBy[r]
      BY <2>9 DEF DisallowBot, Targets
    <3>2. UNCHANGED <<cache, reader>>
      BY <2>9 DEF DisallowBot
    <3>3. /\ InvalidatePending(own)'
          /\ \A g \in Group \ {own} :
               /\ InvalidatePending(g)' <=> InvalidatePending(g)
               /\ \A l \in Load : Current(l, g)' <=> Current(l, g)
      BY <2>9, <3>1, StatementKeeps DEF DisallowBot
    <3>4. ASSUME NEW g \in DOMAIN cache, ~cache[g].overlapped,
                 ~InvalidatePending(g)'
          PROVE  Current(cache[g], g)'
      <4>1. g \in Group \ {own} /\ cache[g] \in Load
        BY <3>3, <3>4
      <4>2. Current(cache[g], g)
        BY <3>3, <3>4, <4>1
      <4> QED
        BY <3>2, <3>3, <4>1, <4>2
    <3>5. ASSUME NEW h \in Handler, reader[h].pc = "fill",
                 ~reader[h].load.overlapped,
                 ~InvalidatePending(reader[h].group)'
          PROVE  Current(reader[h].load, reader[h].group)'
      <4>1. reader[h].group \in Group /\ reader[h].load \in Load
        BY <3>5
      <4>2. reader[h].group # own
        BY <3>2, <3>3, <3>5
      <4>3. ~InvalidatePending(reader[h].group)
        BY <3>2, <3>3, <3>5, <4>1, <4>2
      <4>4. Current(reader[h].load, reader[h].group)
        BY <3>5, <4>3
      <4> QED
        BY <3>2, <3>3, <4>1, <4>2, <4>4
    <3> QED
      BY <3>2, <3>4, <3>5
  <2>10. ASSUME NEW a \in Admin, Invalidate(a) PROVE CoherenceInv'
    <3> DEFINE own == command[a].group
    <3>1. \A g \in Group \ {own} :
            /\ InvalidatePending(g)' <=> InvalidatePending(g)
            /\ \A l \in Load : Current(l, g)' <=> Current(l, g)
      BY <2>10 DEF Invalidate, InvalidatePending, Current, Listed
    <3>2. \A g \in DOMAIN cache' : g # own /\ g \in DOMAIN cache
                                   /\ cache'[g] = cache[g]
      BY <2>10 DEF Invalidate
    <3>3. StoredCoherent'
      BY <3>1, <3>2
    <3>4. \A h \in Handler : \/ reader'[h] = reader[h] /\ reader[h].group # own
                             \/ reader'[h].pc # "fill"
                             \/ reader'[h].load.overlapped
      BY <2>10 DEF Invalidate, Overlap
    <3>5. LoadCoherent'
      BY <3>1, <3>4
    <3> QED
      BY <3>3, <3>5
  <2>11. ASSUME NEW g \in Group, Bind(g) PROVE CoherenceInv'
    BY <2>11, CurrentKept DEF Bind
  <2>12. ASSUME NEW g \in Group, Unbind(g) PROVE CoherenceInv'
    <3>1. \A f \in Group : InvalidatePending(f)' <=> InvalidatePending(f)
      BY <2>12 DEF Unbind, InvalidatePending
    <3>2. \A f \in Group, l \in Load : Current(l, f) => Current(l, f)'
      <4> SUFFICES ASSUME NEW f \in Group, NEW l \in Load, Current(l, f)
                   PROVE Current(l, f)'
        OBVIOUS
      <4>1. CASE f = g
        <5>1. Listed(f)' = {}
          BY <2>12, <4>1 DEF Unbind, Listed
        <5>2. \A b \in l.bots : removedBy'[<<f, b>>] = "unbind"
          BY <2>12, <4>1 DEF Unbind, Current, Listed
        <5> QED
          BY <5>1, <5>2 DEF Current
      <4>2. CASE f # g
        <5>1. Listed(f)' = Listed(f)
          BY <2>12, <4>2 DEF Unbind, Listed
        <5>2. \A b \in Bot : removedBy'[<<f, b>>] = removedBy[<<f, b>>]
          BY <2>12, <4>2 DEF Unbind
        <5> QED
          BY <5>1, <5>2 DEF Current
      <4> QED
        BY <4>1, <4>2
    <3> QED
      BY <2>12, <3>1, <3>2 DEF Unbind
  <2>13. CASE Restart
    BY <2>13 DEF Restart
  <2>14. CASE UNCHANGED vars
    BY <2>14, CurrentKept DEF vars
  <2> QED
    BY <2>1, <2>2, <2>3, <2>4, <2>5, <2>6, <2>7, <2>8, <2>9, <2>10, <2>11,
       <2>12, <2>13, <2>14 DEF Next
<1> QED
  BY <1>1, <1>2, TypeCorrect, PTL DEF Spec

-----------------------------------------------------------------------------
(* Where a loaded set comes from, whatever overlapped it.                  *)

HeldInv ==
  /\ \A g \in DOMAIN cache : cache[g].bots \subseteq HeldOnce(g)
  /\ \A h \in Handler : reader[h].pc = "fill" =>
       reader[h].load.bots \subseteq HeldOnce(reader[h].group)

\* No step forgets that a group once allowed a bot.
LEMMA HeldGrows ==
  ASSUME TypeOK, [Next]_vars, NEW g \in Group
  PROVE  HeldOnce(g) \subseteq HeldOnce(g)'
<1> SUFFICES ASSUME NEW b \in Bot, b \in HeldOnce(g)
             PROVE <<g, b>> \in allowlist' \/ removedBy'[<<g, b>>] # "none"
  BY DEF HeldOnce
<1>1. <<g, b>> \in allowlist \/ removedBy[<<g, b>>] # "none"
  BY DEF HeldOnce
<1>2. <<g, b>> \in DOMAIN removedBy
  BY DEF TypeOK
<1>3. CASE UNCHANGED tables
  BY <1>1, <1>3 DEF tables
<1>4. ASSUME NEW a \in Admin, AllowBot(a)
      PROVE  <<g, b>> \in allowlist' \/ removedBy'[<<g, b>>] # "none"
  BY <1>1, <1>2, <1>4 DEF AllowBot
<1>5. ASSUME NEW a \in Admin, DisallowBot(a)
      PROVE  <<g, b>> \in allowlist' \/ removedBy'[<<g, b>>] # "none"
  BY <1>1, <1>2, <1>5 DEF DisallowBot
<1>6. ASSUME NEW f \in Group, Unbind(f)
      PROVE  <<g, b>> \in allowlist' \/ removedBy'[<<g, b>>] # "none"
  BY <1>1, <1>2, <1>6 DEF Unbind
<1>7. ASSUME NEW f \in Group, Bind(f)
      PROVE  <<g, b>> \in allowlist' \/ removedBy'[<<g, b>>] # "none"
  BY <1>1, <1>7 DEF Bind
<1> QED
  BY <1>3, <1>4, <1>5, <1>6, <1>7
  DEF Next, vars, tables, AskAllowed, CheckCache, ListAllowedBots, ListFails,
      FillCache, StartCommand, AbandonCommand, Invalidate, Restart

\* What is loaded for a group was allowed there.
LEMMA HeldStable == Spec => []HeldInv
<1>1. Init => HeldInv
  BY DEF Init, HeldInv
<1>2. TypeOK /\ HeldInv /\ [Next]_vars => HeldInv'
  <2> SUFFICES ASSUME TypeOK, HeldInv, [Next]_vars PROVE HeldInv'
    OBVIOUS
  <2>1. \A g \in Group : HeldOnce(g) \subseteq HeldOnce(g)'
    BY HeldGrows
  <2>2. ASSUME NEW g \in DOMAIN cache' PROVE cache'[g].bots \subseteq HeldOnce(g)'
    <3>1. CASE g \in DOMAIN cache /\ cache'[g] = cache[g]
      BY <2>1, <3>1 DEF HeldInv, TypeOK
    <3>2. ASSUME NEW h \in Handler, FillCache(h), g = reader[h].group
          PROVE  cache'[g].bots \subseteq HeldOnce(g)'
      BY <2>1, <3>2 DEF FillCache, HeldInv, TypeOK
    <3>3. ASSUME NEW h \in Handler, FillCache(h), g # reader[h].group
          PROVE  cache'[g].bots \subseteq HeldOnce(g)'
      BY <3>1, <3>3 DEF FillCache
    <3>4. ASSUME NEW a \in Admin, Invalidate(a)
          PROVE  cache'[g].bots \subseteq HeldOnce(g)'
      BY <3>1, <3>4 DEF Invalidate
    <3> QED
      BY <3>1, <3>2, <3>3, <3>4
      DEF Next, vars, tables, AskAllowed, CheckCache, ListAllowedBots, ListFails,
          StartCommand, AbandonCommand, AllowBot, DisallowBot, Bind, Unbind, Restart
  <2>3. ASSUME NEW h \in Handler, reader'[h].pc = "fill"
        PROVE  reader'[h].load.bots \subseteq HeldOnce(reader[h].group)'
    <3>1. CASE /\ reader[h].pc = "fill"
               /\ reader'[h].load.bots = reader[h].load.bots
               /\ reader'[h].group = reader[h].group
      BY <2>1, <3>1 DEF HeldInv, TypeOK
    <3>2. ASSUME NEW x \in Handler, ListAllowedBots(x), x = h
          PROVE  reader'[h].load.bots \subseteq HeldOnce(reader[h].group)'
      <4>1. /\ reader'[h].load.bots = Listed(reader[h].group)
            /\ reader'[h].group = reader[h].group /\ reader[h].group \in Group
        BY <3>2 DEF ListAllowedBots, TypeOK
      <4>2. Listed(reader[h].group) \subseteq HeldOnce(reader[h].group)
        BY DEF Listed, HeldOnce
      <4> QED
        BY <2>1, <4>1, <4>2
    <3>3. ASSUME NEW x \in Handler,
                 \/ \E g \in Group : AskAllowed(x, g)
                 \/ CheckCache(x) \/ ListAllowedBots(x) \/ ListFails(x) \/ FillCache(x)
          PROVE  reader'[h].load.bots \subseteq HeldOnce(reader[h].group)'
      BY <2>3, <3>1, <3>2, <3>3
      DEF AskAllowed, CheckCache, ListAllowedBots, ListFails, FillCache, TypeOK
    <3>4. ASSUME NEW a \in Admin, Invalidate(a)
          PROVE  reader'[h].load.bots \subseteq HeldOnce(reader[h].group)'
      BY <2>3, <3>1, <3>4 DEF Invalidate, Overlap, TypeOK
    <3>5. CASE Restart
      BY <2>3, <3>5 DEF Restart
    <3> QED
      BY <2>3, <3>1, <3>3, <3>4, <3>5
      DEF Next, vars, StartCommand, AbandonCommand, AllowBot, DisallowBot, Bind,
          Unbind
  <2> QED
    BY <2>2, <2>3 DEF HeldInv
<1> QED
  BY <1>1, <1>2, TypeCorrect, PTL DEF Spec

-----------------------------------------------------------------------------
\* A group's copy holds nothing that the group never allowed, and differs from
\* its rows only for the reasons CacheCoherent names: a load that overlapped an
\* Invalidate, or rows deleted by /unbind.
THEOREM CoherenceTheorem == Spec => []CacheCoherent
<1>1. CoherenceInv /\ HeldInv => CacheCoherent
  BY DEF CoherenceInv, StoredCoherent, HeldInv, CacheCoherent
<1> QED
  BY <1>1, CoherenceStable, HeldStable, PTL
==============================================================================
