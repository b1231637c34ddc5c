-------------------------- MODULE MemberCache_proofs --------------------------
(* Proofs about MemberCache, for every value of its constants. *)
EXTENDS MemberCache, FiniteSetTheorems, TLAPS

LEMMA KeyFacts ==
  ASSUME NEW k \in Key
  PROVE  /\ k[1] \in Group /\ k[2] \in Channel /\ k[3] \in User
         /\ <<k[2], k[3]>> \in Channel \X User
         /\ k = <<k[1], k[2], k[3]>>
BY DEF Key

LEMMA IdleJobType == IdleJob \in Job /\ IdleJob.pc = "idle"
<1>1. PICK g \in Group, c \in Channel, u \in User : TRUE
  BY CacheAssumption
<1>2. <<g, c, u>> \in Key
  BY DEF Key
<1>3. AnyKey \in Key
  BY <1>2 DEF AnyKey
<1>. QED BY <1>3 DEF IdleJob, NoEntry, Job, Entry, Pc, Via

\* Rounding an expiry to whole seconds never makes it later.
LEMMA UnixRoundsDown ==
  ASSUME NEW t \in Nat
  PROVE  Unix(t) \in Nat /\ Unix(t) <= t
<1>1. t % Second \in 0 .. (Second - 1)
  BY CacheAssumption
<1>2. t % Second <= t
  BY CacheAssumption
<1>. QED BY <1>1, <1>2 DEF Unix

\* Storing an entry adds nothing else, and keeps one entry per key.
LEMMA StoredFacts ==
  ASSUME NEW m, NEW e, NEW n \in Stored(m, e),
         \A f, f2 \in m : f.key = f2.key => f = f2
  PROVE  /\ n \subseteq m \union {e}
         /\ \A f, f2 \in n : f.key = f2.key => f = f2
BY DEF Stored

\* Priming turns rows into entries of the same key, expiry and epoch.
LEMMA PrimedFacts ==
  ASSUME NEW rows, NEW n \in {{}} \union Primed(rows), rows \subseteq Row,
         \A r, s \in rows : r.key = s.key => r = s
  PROVE  /\ n \subseteq Entry
         /\ \A e, f \in n : e.key = f.key => e = f
         /\ \A e \in n : e.via = "prime" /\ \E r \in rows :
              r.key = e.key /\ r.exp = e.exp /\ r.epoch = e.epoch
<1> DEFINE entries == {[key |-> r.key, exp |-> r.exp, epoch |-> r.epoch,
                        via |-> "prime"] : r \in rows}
<1>1. n \subseteq entries
  BY DEF Primed
<1>2. entries \subseteq Entry
  BY DEF Row, Entry, Via
<1>3. \A e \in entries : e.via = "prime" /\ \E r \in rows :
        r.key = e.key /\ r.exp = e.exp /\ r.epoch = e.epoch
  OBVIOUS
<1>4. \A e, f \in entries : e.key = f.key => e = f
  OBVIOUS
<1>. QED BY <1>1, <1>2, <1>3, <1>4

-----------------------------------------------------------------------------
(* Type correctness.                                                       *)

LEMMA JobUpdates ==
  ASSUME TypeOK, NEW h \in Handler, NEW j \in Job,
         job' = [job EXCEPT ![h] = j]
  PROVE  job' \in [Handler -> Job]
BY DEF TypeOK

LEMMA HandlerTypes ==
  ASSUME TypeOK, NEW h \in Handler, HandlerStep(h)
  PROVE  TypeOK'
<1> USE DEF store, cache, rest
<1>j. job[h] \in Job /\ job[h].key \in Key
  BY DEF TypeOK, Job
<1>1. CASE \E g \in Group, u \in User : Lookup(h, g, u)
  <2>1. PICK g \in Group, u \in User : Lookup(h, g, u)
    BY <1>1
  <2>2. bindings[g].channel \in Channel /\ bindings[g].epoch \in Nat
    BY <2>1 DEF Lookup, TypeOK
  <2>3. <<g, bindings[g].channel, u>> \in Key
    BY <2>2 DEF Key
  <2>4. [IdleJob EXCEPT !.pc = "now", !.key = <<g, bindings[g].channel, u>>,
                        !.epoch = bindings[g].epoch] \in Job
    BY <2>2, <2>3, IdleJobType DEF Job, Pc
  <2>. QED BY <2>1, <2>4 DEF Lookup, TypeOK
<1>2. CASE SampleNow(h)
  BY <1>2, <1>j DEF SampleNow, TypeOK, Job, Pc
<1>3. CASE GetMem(h)
  <2>1. CASE Finish(h)
    BY <1>3, <2>1, IdleJobType DEF GetMem, Finish, TypeOK
  <2>2. CASE Go(h, "purge")
    BY <1>3, <1>j, <2>2 DEF GetMem, Go, TypeOK, Job, Pc
  <2>3. CASE Go(h, "load")
    BY <1>3, <1>j, <2>3 DEF GetMem, Go, TypeOK, Job, Pc
  <2>. QED BY <1>3, <2>1, <2>2, <2>3 DEF GetMem
<1>4. CASE PurgeExpired(h)
  BY <1>4, <1>j DEF PurgeExpired, Go, TypeOK, Job, Pc
<1>5. CASE GetVerified(h)
  <2>1. CASE \E r \in verified :
          /\ r.key = job[h].key /\ r.exp > job[h].now
          /\ job' = [job EXCEPT ![h].pc = "refill", ![h].entry =
                       [key |-> r.key, exp |-> r.exp, epoch |-> r.epoch,
                        via |-> "refill"]]
    <3>1. PICK r \in verified :
            job' = [job EXCEPT ![h].pc = "refill", ![h].entry =
                       [key |-> r.key, exp |-> r.exp, epoch |-> r.epoch,
                        via |-> "refill"]]
      BY <2>1
    <3>2. [key |-> r.key, exp |-> r.exp, epoch |-> r.epoch,
           via |-> "refill"] \in Entry
      BY DEF TypeOK, Row, Entry, Via
    <3>. QED BY <1>5, <1>j, <3>1, <3>2 DEF GetVerified, TypeOK, Job, Pc
  <2>2. CASE Go(h, "ask")
    BY <1>5, <1>j, <2>2 DEF GetVerified, Go, TypeOK, Job, Pc
  <2>. QED BY <1>5, <2>1, <2>2 DEF GetVerified
<1>6. CASE GetVerifiedFails(h)
  BY <1>6, <1>j DEF GetVerifiedFails, Go, TypeOK, Job, Pc
<1>7. CASE Refill(h)
  <2>1. mem' \subseteq mem \union {job[h].entry}
        /\ \A e, f \in mem' : e.key = f.key => e = f
    BY <1>7, StoredFacts DEF Refill, TypeOK
  <2>. QED BY <1>7, <1>j, <2>1, IdleJobType DEF Refill, Finish, TypeOK, Job
<1>8. CASE ConfirmMember(h)
  <2>1. lastSeen' \in [Channel \X User -> Nat]
    BY <1>8, <1>j, KeyFacts DEF ConfirmMember, TypeOK
  <2>. QED BY <1>8, <1>j, <2>1 DEF ConfirmMember, Go, TypeOK, Job, Pc
<1>9. CASE AskWithoutApproval(h)
  BY <1>9, IdleJobType DEF AskWithoutApproval, Finish, TypeOK
<1>10. CASE SampleGeneration(h)
  <2>1. generations[job[h].key[1]] \in Nat
    BY <1>j, KeyFacts DEF TypeOK
  <2>. QED BY <1>10, <1>j, <2>1 DEF SampleGeneration, TypeOK, Job, Pc
<1>11. CASE UpsertVerifiedIfBound(h)
  <2>1. Expiry(h) \in Nat /\ Unix(Expiry(h)) \in Nat
    BY <1>j, CacheAssumption, UnixRoundsDown DEF Job, Expiry
  <2>2. [key |-> job[h].key, exp |-> Unix(Expiry(h)),
         epoch |-> job[h].epoch] \in Row
    BY <1>j, <2>1 DEF Job, Row
  <2>3. /\ verified' \subseteq Row
        /\ \A r, s \in verified' : r.key = s.key => r = s
    BY <1>11, <2>2 DEF UpsertVerifiedIfBound, TypeOK
  <2>4. [key |-> job[h].key, exp |-> Expiry(h),
         epoch |-> job[h].epoch, via |-> "set"] \in Entry
    BY <1>j, <2>1 DEF Job, Entry, Via
  <2>5. job' \in [Handler -> Job]
    BY <1>11, <1>j, <2>4 DEF UpsertVerifiedIfBound, TypeOK, Job, Pc
  <2>. QED BY <1>11, <2>3, <2>5 DEF UpsertVerifiedIfBound, TypeOK
<1>12. CASE UpsertRefused(h)
  BY <1>12, IdleJobType DEF UpsertRefused, Finish, TypeOK
<1>13. CASE WriteMem(h)
  <2>1. mem' = mem \/ mem' \in Stored(mem, job[h].entry)
    BY <1>13 DEF WriteMem
  <2>2. mem' \subseteq mem \union {job[h].entry}
        /\ \A e, f \in mem' : e.key = f.key => e = f
    BY <2>1, StoredFacts DEF TypeOK
  <2>. QED BY <1>13, <1>j, <2>2, IdleJobType DEF WriteMem, Finish, TypeOK, Job
<1>. QED
  BY <1>1, <1>2, <1>3, <1>4, <1>5, <1>6, <1>7, <1>8, <1>9, <1>10, <1>11,
     <1>12, <1>13 DEF HandlerStep

LEMMA CommandTypes ==
  ASSUME TypeOK, NEW a \in Admin, CommandStep(a)
  PROVE  TypeOK'
<1> USE DEF store, cache
<1>1. ASSUME NEW g \in Group, NEW c \in Channel, UpsertBinding(a, g, c)
      PROVE  TypeOK'
  <2>1. bindings' \in [Group -> [channel : Channel \union {NoChannel},
                                 epoch : Nat]]
    BY <1>1 DEF UpsertBinding, TypeOK
  <2>2. lastEpoch' \in [Group -> Nat]
    BY <1>1 DEF UpsertBinding, TypeOK
  <2>3. /\ verified' \subseteq verified
        /\ wiped' \in [Group -> Nat]
        /\ dropping' \in [Admin -> {{}} \union {{x} : x \in Group}]
    <3> DEFINE D == {{}} \union {{x} : x \in Group}
    <3>1. verified' \subseteq verified
      BY <1>1 DEF UpsertBinding, WithoutGroup
    <3>2. wiped' \in [Group -> Nat]
      BY <1>1 DEF UpsertBinding, TypeOK
    <3>3. dropping \in [Admin -> D]
      BY DEF TypeOK
    <3>4. {g} \in D
      OBVIOUS
    <3> HIDE DEF D
    <3>5. dropping' \in [Admin -> D]
      BY <1>1, <3>3, <3>4 DEF UpsertBinding
    <3>. QED BY <3>1, <3>2, <3>5 DEF D
  <2>. QED BY <1>1, <2>1, <2>2, <2>3 DEF UpsertBinding, TypeOK
<1>2. ASSUME NEW g \in Group, DeleteBinding(a, g)
      PROVE  TypeOK'
  BY <1>2 DEF DeleteBinding, WithoutGroup, TypeOK
<1>3. CASE DropGroup(a)
  <2>1. PICK g \in dropping[a] :
          /\ mem' = WithoutGroup(mem, g)
          /\ generations' = [generations EXCEPT ![g] = @ + 1]
          /\ dropping' = [dropping EXCEPT ![a] = {}]
    BY <1>3 DEF DropGroup
  <2>2. mem' \subseteq mem
    BY <2>1 DEF WithoutGroup
  <2>3. generations' \in [Group -> Nat]
    BY <2>1 DEF TypeOK
  <2>4. dropping' \in [Admin -> {{}} \union {{x} : x \in Group}]
    <3> DEFINE D == {{}} \union {{x} : x \in Group}
    <3>1. dropping \in [Admin -> D]
      BY DEF TypeOK
    <3>2. {} \in D
      OBVIOUS
    <3> HIDE DEF D
    <3>3. dropping' \in [Admin -> D]
      BY <2>1, <3>1, <3>2
    <3>. QED BY <3>3 DEF D
  <2>5. UNCHANGED <<store, job, clock, sweep, lastSeen, wiped>>
    BY <1>3 DEF DropGroup
  <2>. QED BY <2>2, <2>3, <2>4, <2>5 DEF TypeOK
<1>. QED BY <1>1, <1>2, <1>3 DEF CommandStep

LEMMA LoadedRows ==
  ASSUME TypeOK
  PROVE  /\ LoadAllValidVerified(clock) \subseteq verified
         /\ LoadAllValidVerified(clock) \subseteq Row
BY DEF LoadAllValidVerified, TypeOK

\* A restart fills the map from the table.
LEMMA RestartRows ==
  ASSUME TypeOK, Restart
  PROVE  /\ mem' \subseteq Entry
         /\ \A e, f \in mem' : e.key = f.key => e = f
         /\ \A e \in mem' : e.via = "prime" /\ \E r \in verified :
              r.key = e.key /\ r.exp = e.exp /\ r.epoch = e.epoch
<1>. DEFINE rows == LoadAllValidVerified(clock)
<1>1. /\ rows \subseteq Row /\ rows \subseteq verified
      /\ \A r, s \in rows : r.key = s.key => r = s
  BY LoadedRows DEF TypeOK
<1>2. mem' \in {{}} \union Primed(rows)
  BY DEF Restart
<1>. HIDE DEF rows
<1>3. PICK n \in {{}} \union Primed(rows) : mem' = n
  BY <1>2
<1>4. /\ n \subseteq Entry
      /\ \A e, f \in n : e.key = f.key => e = f
      /\ \A e \in n : e.via = "prime" /\ \E r \in rows :
           r.key = e.key /\ r.exp = e.exp /\ r.epoch = e.epoch
  BY <1>1, PrimedFacts
<1>. QED BY <1>1, <1>3, <1>4

LEMMA RestartTypes ==
  ASSUME TypeOK, Restart
  PROVE  TypeOK'
<1>1. /\ mem' \subseteq Entry
      /\ \A e, f \in mem' : e.key = f.key => e = f
  BY RestartRows
<1>2. /\ generations' \in [Group -> Nat] /\ sweep' \in Nat
      /\ job' \in [Handler -> Job]
  BY IdleJobType DEF Restart
<1>3. dropping' \in [Admin -> {{}} \union {{g} : g \in Group}]
  <2>. DEFINE D == {{}} \union {{g} : g \in Group}
  <2>1. {} \in D /\ dropping' = [a \in Admin |-> {}]
    BY DEF Restart
  <2>. HIDE DEF D
  <2>2. dropping' \in [Admin -> D]
    BY <2>1
  <2>. QED BY <2>2 DEF D
<1>4. UNCHANGED <<bindings, lastEpoch, verified, clock, lastSeen, wiped>>
  BY DEF Restart, store
<1>. QED BY <1>1, <1>2, <1>3, <1>4 DEF TypeOK

\* Every reachable state is well typed, with one record per key in the table
\* and in the map.
THEOREM TypeCorrect == Spec => []TypeOK
<1>1. Init => TypeOK
  BY IdleJobType DEF Init, TypeOK
<1>2. TypeOK /\ [Next]_vars => TypeOK'
  <2> SUFFICES ASSUME TypeOK, [Next]_vars PROVE TypeOK'
    OBVIOUS
  <2>1. CASE \E h \in Handler : HandlerStep(h)
    BY <2>1, HandlerTypes
  <2>2. CASE \E a \in Admin : CommandStep(a)
    BY <2>2, CommandTypes
  <2>3. CASE DeleteExpiredVerified
    BY <2>3 DEF DeleteExpiredVerified, LoadAllValidVerified, TypeOK, cache
  <2>4. CASE Prune
    BY <2>4 DEF Prune, TypeOK, store
  <2>5. CASE Tick
    BY <2>5 DEF Tick, TypeOK, store, cache
  <2>6. CASE Restart
    BY <2>6, RestartTypes
  <2>7. CASE UNCHANGED vars
    BY <2>7 DEF vars, TypeOK
  <2>. QED BY <2>1, <2>2, <2>3, <2>4, <2>5, <2>6, <2>7 DEF Next
<1>. QED BY <1>1, <1>2, PTL DEF Spec

-----------------------------------------------------------------------------
(* Freshness.  On its way to the cache an approval passes through the local *)
(* variables of a handler: the handler's now precedes the confirmation it   *)
(* obtains later, and clocks only move forward.                             *)

SeenFor(h) == lastSeen[<<job[h].key[2], job[h].key[3]>>]

JobFresh(h) ==
  /\ job[h].now <= clock
  /\ job[h].pc \in {"set", "upsert"} => /\ SeenFor(h) # 0
                                        /\ job[h].now <= SeenFor(h)
  /\ job[h].pc \in {"refill", "write"} => Fresh(job[h].entry)

FreshInv ==
  /\ clock # 0
  /\ \A p \in Channel \X User : lastSeen[p] <= clock
  /\ \A e \in mem : Fresh(e)
  /\ \A r \in verified : Fresh(r)
  /\ \A h \in Handler : JobFresh(h)

\* A later confirmation keeps fresh what was fresh.
LEMMA FreshMonotone ==
  ASSUME TypeOK, FreshInv, NEW p \in Channel \X User,
         lastSeen' = [lastSeen EXCEPT ![p] = clock],
         NEW e, e.key \in Key, e.exp \in Nat, Fresh(e)
  PROVE  Fresh(e)'
<1>1. <<e.key[2], e.key[3]>> \in Channel \X User
  BY KeyFacts
<1>. QED BY <1>1, CacheAssumption DEF TypeOK, FreshInv, Fresh

LEMMA HandlerFresh ==
  ASSUME TypeOK, FreshInv, NEW h \in Handler, HandlerStep(h)
  PROVE  FreshInv'
<1> USE DEF store, cache, rest
<1>j. job[h] \in Job /\ job[h].key \in Key /\ job[h].entry \in Entry
      /\ job[h].now \in Nat /\ clock \in Nat /\ JobFresh(h)
      /\ IdleJob.now = 0 /\ IdleJob.pc = "idle" /\ job \in [Handler -> Job]
  BY DEF TypeOK, Job, FreshInv, IdleJob
<1>frame. ASSUME UNCHANGED <<clock, lastSeen>>, JobFresh(h)',
                 \A x \in Handler \ {h} : job'[x] = job[x],
                 \A e \in mem' : Fresh(e), \A r \in verified' : Fresh(r)
          PROVE  FreshInv'
  BY <1>frame DEF FreshInv, JobFresh, SeenFor, Fresh
<1>idle. ASSUME Finish(h), UNCHANGED <<clock, lastSeen>>
         PROVE  JobFresh(h)' /\ \A x \in Handler \ {h} : job'[x] = job[x]
  BY <1>idle, <1>j DEF Finish, JobFresh
<1>go. ASSUME NEW pc \in {"purge", "load", "ask"}, Go(h, pc),
              UNCHANGED <<clock, lastSeen>>
       PROVE  JobFresh(h)' /\ \A x \in Handler \ {h} : job'[x] = job[x]
  BY <1>go, <1>j DEF Go, JobFresh, Job
<1>rows. ASSUME UNCHANGED <<mem, verified>>
         PROVE  (\A e \in mem' : Fresh(e)) /\ (\A r \in verified' : Fresh(r))
  BY <1>rows DEF FreshInv
<1>1. CASE \E g \in Group, u \in User : Lookup(h, g, u)
  <2>1. PICK g \in Group, u \in User : Lookup(h, g, u)
    BY <1>1
  <2>2. JobFresh(h)'
    BY <2>1, <1>j DEF Lookup, IdleJob, JobFresh
  <2>. QED BY <2>1, <2>2, <1>j, <1>frame, <1>rows DEF Lookup
<1>2. CASE SampleNow(h)
  <2>1. JobFresh(h)'
    BY <1>2, <1>j DEF SampleNow, JobFresh, Job
  <2>. QED BY <1>2, <2>1, <1>j, <1>frame, <1>rows DEF SampleNow
<1>3. CASE GetMem(h)
  BY <1>3, <1>frame, <1>rows, <1>idle, <1>go DEF GetMem
<1>4. CASE PurgeExpired(h)
  <2>1. \A e \in mem' : Fresh(e)
    BY <1>4 DEF PurgeExpired, FreshInv
  <2>. QED BY <1>4, <2>1, <1>frame, <1>go DEF PurgeExpired, FreshInv
<1>5. CASE GetVerified(h)
  <2>1. CASE Go(h, "ask")
    BY <1>5, <2>1, <1>frame, <1>rows, <1>go DEF GetVerified
  <2>2. CASE ~Go(h, "ask")
    <3>1. PICK r \in verified :
            job' = [job EXCEPT ![h].pc = "refill", ![h].entry =
                       [key |-> r.key, exp |-> r.exp, epoch |-> r.epoch,
                        via |-> "refill"]]
      BY <1>5, <2>2 DEF GetVerified
    <3>2. job'[h].now = job[h].now /\ job'[h].pc = "refill"
          /\ job'[h].entry.key = r.key /\ job'[h].entry.exp = r.exp
      BY <3>1, <1>j DEF Job
    <3>3. UNCHANGED <<clock, lastSeen, mem, verified>>
      BY <1>5 DEF GetVerified
    <3>4. JobFresh(h)'
      BY <3>2, <3>3, <1>j DEF JobFresh, Fresh, FreshInv
    <3>. QED BY <3>1, <3>3, <3>4, <1>j, <1>frame, <1>rows
  <2>. QED BY <2>1, <2>2
<1>6. CASE GetVerifiedFails(h)
  BY <1>6, <1>frame, <1>rows, <1>go DEF GetVerifiedFails
<1>7. CASE Refill(h)
  <2>1. mem' \subseteq mem \union {job[h].entry}
    BY <1>7, StoredFacts DEF Refill, TypeOK
  <2>2. \A e \in mem' : Fresh(e)
    BY <1>7, <2>1, <1>j DEF Refill, FreshInv, JobFresh
  <2>. QED BY <1>7, <2>2, <1>frame, <1>idle DEF Refill, FreshInv
<1>8. CASE ConfirmMember(h)
  <2> DEFINE p == <<job[h].key[2], job[h].key[3]>>
  <2>1. p \in Channel \X User
    BY <1>j, KeyFacts
  <2>2. lastSeen' = [lastSeen EXCEPT ![p] = clock]
        /\ UNCHANGED <<clock, mem, verified>>
        /\ job' = [job EXCEPT ![h].pc = "set"]
    BY <1>8 DEF ConfirmMember, Go
  <2> HIDE DEF p
  <2>3. \A e \in Entry \union Row : Fresh(e) => Fresh(e)'
    BY <2>1, <2>2, FreshMonotone DEF Entry, Row
  <2>4. \A e \in mem' : Fresh(e)'
    BY <2>2, <2>3 DEF FreshInv, TypeOK, Entry
  <2>5. \A r \in verified' : Fresh(r)'
    BY <2>2, <2>3 DEF FreshInv, TypeOK, Row
  <2>6. \A q \in Channel \X User : lastSeen[q] <= lastSeen'[q]
                                   /\ lastSeen'[q] <= clock
    BY <2>1, <2>2, <1>j DEF FreshInv, TypeOK
  <2>7. ASSUME NEW x \in Handler \ {h} PROVE JobFresh(x)'
    <3>1. job'[x] = job[x] /\ JobFresh(x) /\ job[x] \in Job
      BY <2>2, <1>j DEF FreshInv
    <3>2. job[x].key \in Key /\ job[x].entry \in Entry /\ job[x].now \in Nat
      BY <3>1 DEF Job
    <3>3. SeenFor(x) \in Nat /\ SeenFor(x)' \in Nat /\ SeenFor(x) <= SeenFor(x)'
      BY <3>1, <3>2, <2>6, <2>2, <1>j, KeyFacts DEF SeenFor, TypeOK
    <3>4. Fresh(job[x].entry) => Fresh(job[x].entry)'
      BY <3>1, <3>2, <2>3 DEF Fresh
    <3>5. SeenFor(x) # 0 => SeenFor(x)' # 0
      BY <3>3
    <3>6. job'[x].now <= clock'
      BY <3>1, <2>2 DEF JobFresh
    <3>7. job'[x].pc \in {"set", "upsert"} => SeenFor(x)' # 0
                                            /\ job'[x].now <= SeenFor(x)'
      BY <3>1, <3>2, <3>3, <3>5 DEF JobFresh
    <3>. QED BY <3>1, <3>4, <3>6, <3>7 DEF JobFresh
  <2>8. JobFresh(h)'
    BY <2>1, <2>2, <1>j DEF JobFresh, SeenFor, p, Job, FreshInv, TypeOK
  <2>. QED BY <2>2, <2>4, <2>5, <2>6, <2>7, <2>8 DEF FreshInv
<1>9. CASE AskWithoutApproval(h)
  BY <1>9, <1>frame, <1>rows, <1>idle DEF AskWithoutApproval
<1>10. CASE SampleGeneration(h)
  <2>1. JobFresh(h)'
    BY <1>10, <1>j DEF SampleGeneration, JobFresh, SeenFor, Job
  <2>. QED BY <1>10, <2>1, <1>j, <1>frame, <1>rows DEF SampleGeneration
<1>11. CASE UpsertVerifiedIfBound(h)
  <2>1. SeenFor(h) # 0 /\ SeenFor(h) \in Nat /\ job[h].now <= SeenFor(h)
    BY <1>11, <1>j, KeyFacts DEF UpsertVerifiedIfBound, JobFresh, SeenFor, TypeOK
  <2>2. Expiry(h) \in Nat /\ Expiry(h) <= SeenFor(h) + TTL
        /\ Unix(Expiry(h)) <= SeenFor(h) + TTL
    BY <2>1, <1>j, CacheAssumption, UnixRoundsDown DEF Expiry
  <2>3. \A r \in verified' : Fresh(r)
    <3> DEFINE new == [key |-> job[h].key, exp |-> Unix(Expiry(h)),
                       epoch |-> job[h].epoch]
    <3>1. Fresh(new)
      BY <2>1, <2>2 DEF Fresh, SeenFor
    <3>2. verified' \subseteq verified \union {new}
      BY <1>11 DEF UpsertVerifiedIfBound
    <3>. QED BY <3>1, <3>2 DEF FreshInv
  <2>4. UNCHANGED <<clock, lastSeen, mem>>
    BY <1>11 DEF UpsertVerifiedIfBound
  <2>5. job'[h].now = job[h].now /\ job'[h].pc = "write"
        /\ job'[h].entry.key = job[h].key /\ job'[h].entry.exp = Expiry(h)
    BY <1>11, <1>j DEF UpsertVerifiedIfBound, Job
  <2>6. JobFresh(h)'
    BY <2>1, <2>2, <2>4, <2>5, <1>j DEF JobFresh, Fresh, SeenFor
  <2>. QED
    BY <1>11, <2>3, <2>4, <2>6, <1>j, <1>frame
    DEF UpsertVerifiedIfBound, FreshInv
<1>12. CASE UpsertRefused(h)
  BY <1>12, <1>frame, <1>rows, <1>idle DEF UpsertRefused
<1>13. CASE WriteMem(h)
  <2>1. mem' \subseteq mem \union {job[h].entry}
    BY <1>13, StoredFacts DEF WriteMem, TypeOK
  <2>2. \A e \in mem' : Fresh(e)
    BY <1>13, <2>1, <1>j DEF WriteMem, FreshInv, JobFresh
  <2>. QED BY <1>13, <2>2, <1>frame, <1>idle DEF WriteMem, FreshInv
<1>. QED
  BY <1>1, <1>2, <1>3, <1>4, <1>5, <1>6, <1>7, <1>8, <1>9, <1>10, <1>11,
     <1>12, <1>13 DEF HandlerStep

\* Whatever route brought an approval into the map or the table, it expires at
\* most one TTL after Telegram confirmed that user in that channel.
THEOREM FreshnessTheorem == Spec => []ApprovalsFresh
<1>1. Init => FreshInv
  BY DEF Init, FreshInv, JobFresh, SeenFor, IdleJob
<1>2. TypeOK /\ FreshInv /\ [Next]_vars => FreshInv'
  <2> SUFFICES ASSUME TypeOK, FreshInv, [Next]_vars PROVE FreshInv'
    OBVIOUS
  <2> USE DEF store, cache
  <2>1. CASE \E h \in Handler : HandlerStep(h)
    BY <2>1, HandlerFresh
  <2>2. CASE \E a \in Admin : CommandStep(a)
    <3>1. UNCHANGED <<clock, lastSeen, job>>
          /\ mem' \subseteq mem /\ verified' \subseteq verified
      BY <2>2 DEF CommandStep, UpsertBinding, DeleteBinding, DropGroup,
                  WithoutGroup
    <3>. QED BY <3>1 DEF FreshInv, JobFresh, SeenFor, Fresh
  <2>3. CASE DeleteExpiredVerified
    BY <2>3 DEF DeleteExpiredVerified, LoadAllValidVerified, FreshInv,
                JobFresh, SeenFor, Fresh
  <2>4. CASE Prune
    BY <2>4 DEF Prune, FreshInv, JobFresh, SeenFor, Fresh
  <2>5. CASE Tick
    <3>1. /\ clock \in Nat /\ clock' = clock + 1
          /\ UNCHANGED <<mem, verified, job, lastSeen>>
          /\ \A p \in Channel \X User : lastSeen[p] \in Nat
          /\ \A h \in Handler : job[h].now \in Nat
      BY <2>5 DEF Tick, TypeOK, Job
    <3>2. clock' # 0 /\ \A p \in Channel \X User : lastSeen'[p] <= clock'
      BY <3>1 DEF FreshInv
    <3>3. ASSUME NEW h \in Handler PROVE JobFresh(h)'
      <4>1. JobFresh(h) /\ job[h].now \in Nat
        BY <3>1 DEF FreshInv
      <4>2. job'[h].now <= clock'
        BY <3>1, <4>1 DEF JobFresh
      <4>. QED BY <3>1, <4>1, <4>2 DEF JobFresh, SeenFor, Fresh
    <3>. QED BY <3>1, <3>2, <3>3 DEF FreshInv, Fresh
  <2>6. CASE Restart
    <3>1. UNCHANGED <<clock, lastSeen, verified>>
          /\ \A h \in Handler : job'[h] = IdleJob
      BY <2>6 DEF Restart
    <3>2. \A h \in Handler : JobFresh(h)'
      BY <3>1 DEF JobFresh, IdleJob, TypeOK
    <3>3. \A e \in mem' : \E r \in verified : r.key = e.key /\ r.exp = e.exp
      BY <2>6, RestartRows
    <3>4. \A e \in mem' : Fresh(e)
      BY <3>3 DEF FreshInv, Fresh
    <3>. QED BY <3>1, <3>2, <3>4 DEF FreshInv, Fresh
  <2>7. CASE UNCHANGED vars
    BY <2>7 DEF vars, FreshInv, JobFresh, SeenFor, Fresh
  <2>. QED BY <2>1, <2>2, <2>3, <2>4, <2>5, <2>6, <2>7 DEF Next
<1>3. FreshInv => ApprovalsFresh
  BY DEF FreshInv, ApprovalsFresh
<1>. QED BY <1>1, <1>2, <1>3, TypeCorrect, PTL DEF Spec

-----------------------------------------------------------------------------
(* Revocation.  A Set that is about to write either has nothing revoked to  *)
(* write, or DropGroup is still to come, or DropGroup has come and its      *)
(* sampled generation is out of date.                                       *)

JobRevocation(h) ==
  /\ job[h].pc = "refill" => job[h].entry.via = "refill"
  /\ job[h].pc \in {"upsert", "write"} =>
       job[h].gen <= generations[job[h].key[1]]
  /\ job[h].pc = "write" =>
       /\ job[h].entry.key = job[h].key
       /\ Revoked(job[h].entry) /\ SameGeneration(h) =>
            DropPending(job[h].key[1])

EpochOrder ==
  \A g \in Group :
    /\ wiped[g] <= lastEpoch[g]
    /\ bindings[g].channel # NoChannel => wiped[g] < bindings[g].epoch

RevocationInv ==
  /\ EpochOrder
  /\ StoreFollowsBinding
  /\ SetNeverPoisons
  /\ \A h \in Handler : JobRevocation(h)

LEMMA HandlerRevocation ==
  ASSUME TypeOK, RevocationInv, NEW h \in Handler, HandlerStep(h)
  PROVE  RevocationInv'
<1> USE DEF store, cache, rest
<1>j. job[h] \in Job /\ job[h].key \in Key /\ job[h].entry \in Entry
      /\ job[h].epoch \in Nat /\ JobRevocation(h)
      /\ IdleJob.pc = "idle" /\ job \in [Handler -> Job]
  BY DEF TypeOK, Job, RevocationInv, IdleJob
<1>frame. ASSUME UNCHANGED <<bindings, lastEpoch, generations, dropping, wiped>>,
                 JobRevocation(h)',
                 \A x \in Handler \ {h} : job'[x] = job[x],
                 \A e \in mem' : e.via # "refill" /\ Revoked(e) =>
                                   DropPending(e.key[1]),
                 \A r \in verified' : /\ bindings[r.key[1]].channel = r.key[2]
                                      /\ wiped[r.key[1]] < r.epoch
          PROVE  RevocationInv'
  <2>1. EpochOrder' /\ StoreFollowsBinding' /\ SetNeverPoisons'
    BY <1>frame DEF RevocationInv, EpochOrder, StoreFollowsBinding,
                    SetNeverPoisons, Revoked, DropPending
  <2>2. \A x \in Handler : JobRevocation(x)'
    BY <1>frame DEF RevocationInv, JobRevocation, Revoked, SameGeneration,
                    DropPending
  <2>. QED BY <2>1, <2>2 DEF RevocationInv
<1>idle. ASSUME Finish(h)
         PROVE  JobRevocation(h)' /\ \A x \in Handler \ {h} : job'[x] = job[x]
  BY <1>idle, <1>j DEF Finish, JobRevocation
<1>go. ASSUME NEW pc \in {"purge", "load", "ask", "set"}, Go(h, pc)
       PROVE  JobRevocation(h)' /\ \A x \in Handler \ {h} : job'[x] = job[x]
  BY <1>go, <1>j DEF Go, JobRevocation, Job
<1>mem. ASSUME mem' \subseteq mem, UNCHANGED <<wiped, dropping>>
        PROVE  \A e \in mem' : e.via # "refill" /\ Revoked(e) =>
                                 DropPending(e.key[1])
  BY <1>mem DEF RevocationInv, SetNeverPoisons
<1>rows. ASSUME verified' = verified
         PROVE  \A r \in verified' : /\ bindings[r.key[1]].channel = r.key[2]
                                     /\ wiped[r.key[1]] < r.epoch
  BY <1>rows DEF RevocationInv, StoreFollowsBinding
<1>1. CASE \E g \in Group, u \in User : Lookup(h, g, u)
  <2>1. PICK g \in Group, u \in User : Lookup(h, g, u)
    BY <1>1
  <2>2. JobRevocation(h)'
    BY <2>1, <1>j DEF Lookup, IdleJob, JobRevocation
  <2>. QED BY <2>1, <2>2, <1>j, <1>frame, <1>mem, <1>rows DEF Lookup
<1>2. CASE SampleNow(h)
  <2>1. JobRevocation(h)'
    BY <1>2, <1>j DEF SampleNow, JobRevocation, Job
  <2>. QED BY <1>2, <2>1, <1>j, <1>frame, <1>mem, <1>rows DEF SampleNow
<1>3. CASE GetMem(h)
  BY <1>3, <1>frame, <1>mem, <1>rows, <1>idle, <1>go DEF GetMem
<1>4. CASE PurgeExpired(h)
  BY <1>4, <1>frame, <1>mem, <1>rows, <1>go DEF PurgeExpired
<1>5. CASE GetVerified(h)
  <2>1. CASE Go(h, "ask")
    BY <1>5, <2>1, <1>frame, <1>mem, <1>rows, <1>go DEF GetVerified
  <2>2. CASE ~Go(h, "ask")
    <3>1. PICK r \in verified :
            job' = [job EXCEPT ![h].pc = "refill", ![h].entry =
                       [key |-> r.key, exp |-> r.exp, epoch |-> r.epoch,
                        via |-> "refill"]]
      BY <1>5, <2>2 DEF GetVerified
    <3>2. job'[h].pc = "refill" /\ job'[h].entry.via = "refill"
      BY <3>1, <1>j DEF Job
    <3>3. JobRevocation(h)'
      BY <3>2 DEF JobRevocation
    <3>. QED BY <1>5, <3>1, <3>3, <1>j, <1>frame, <1>mem, <1>rows
             DEF GetVerified
  <2>. QED BY <2>1, <2>2
<1>6. CASE GetVerifiedFails(h)
  BY <1>6, <1>frame, <1>mem, <1>rows, <1>go DEF GetVerifiedFails
<1>7. CASE Refill(h)
  <2>1. mem' \subseteq mem \union {job[h].entry}
    BY <1>7, StoredFacts DEF Refill, TypeOK
  <2>2. job[h].entry.via = "refill"
    BY <1>7, <1>j DEF Refill, JobRevocation
  <2>3. \A e \in mem' : e.via # "refill" /\ Revoked(e) =>
                          DropPending(e.key[1])
    BY <2>1, <2>2 DEF RevocationInv, SetNeverPoisons
  <2>. QED BY <1>7, <2>3, <1>frame, <1>rows, <1>idle DEF Refill
<1>8. CASE ConfirmMember(h)
  BY <1>8, <1>frame, <1>mem, <1>rows, <1>go DEF ConfirmMember
<1>9. CASE AskWithoutApproval(h)
  BY <1>9, <1>frame, <1>mem, <1>rows, <1>idle DEF AskWithoutApproval
<1>10. CASE SampleGeneration(h)
  <2>1. generations[job[h].key[1]] \in Nat
    BY <1>j, KeyFacts DEF TypeOK
  <2>2. job'[h].pc = "upsert" /\ job'[h].key = job[h].key
        /\ job'[h].gen = generations[job[h].key[1]]
        /\ generations' = generations
    BY <1>10, <1>j DEF SampleGeneration, Job
  <2>3. JobRevocation(h)'
    BY <2>1, <2>2 DEF JobRevocation
  <2>. QED BY <1>10, <2>3, <1>j, <1>frame, <1>mem, <1>rows DEF SampleGeneration
<1>11. CASE UpsertVerifiedIfBound(h)
  <2> DEFINE k == job[h].key
  <2>1. /\ k[1] \in Group /\ k[2] \in Channel
        /\ bindings[k[1]].channel = k[2]
        /\ bindings[k[1]].epoch = job[h].epoch
    BY <1>11, <1>j, KeyFacts DEF UpsertVerifiedIfBound, StillBound
  <2>2. wiped[k[1]] < job[h].epoch
    BY <2>1, CacheAssumption DEF RevocationInv, EpochOrder
  <2>3. \A r \in verified' : /\ bindings[r.key[1]].channel = r.key[2]
                             /\ wiped[r.key[1]] < r.epoch
    <3> DEFINE new == [key |-> k, exp |-> Unix(Expiry(h)),
                       epoch |-> job[h].epoch]
    <3>1. verified' \subseteq verified \union {new}
      BY <1>11 DEF UpsertVerifiedIfBound
    <3>. QED BY <2>1, <2>2, <3>1 DEF RevocationInv, StoreFollowsBinding
  <2>4. UNCHANGED <<generations, wiped, dropping>>
    BY <1>11 DEF UpsertVerifiedIfBound
  <2>5. /\ job'[h].pc = "write" /\ job'[h].key = k /\ job'[h].gen = job[h].gen
        /\ job'[h].entry.key = k /\ job'[h].entry.epoch = job[h].epoch
    BY <1>11, <1>j DEF UpsertVerifiedIfBound, Job
  <2>6. job[h].gen <= generations[k[1]]
    BY <1>11, <1>j DEF UpsertVerifiedIfBound, JobRevocation
  <2>7. wiped[k[1]] \in Nat /\ ~Revoked(job[h].entry)'
    BY <2>1, <2>2, <2>4, <2>5, <1>j DEF Revoked, TypeOK
  <2>8. JobRevocation(h)'
    BY <2>4, <2>5, <2>6, <2>7 DEF JobRevocation
  <2>. QED BY <1>11, <2>3, <2>8, <1>j, <1>frame, <1>mem
           DEF UpsertVerifiedIfBound
<1>12. CASE UpsertRefused(h)
  BY <1>12, <1>frame, <1>mem, <1>rows, <1>idle DEF UpsertRefused
<1>13. CASE WriteMem(h)
  <2>1. mem' \subseteq mem \/ (/\ mem' \subseteq mem \union {job[h].entry}
                               /\ SameGeneration(h))
    BY <1>13, StoredFacts DEF WriteMem, TypeOK
  <2>2. \A e \in mem' : e.via # "refill" /\ Revoked(e) =>
                          DropPending(e.key[1])
    BY <1>13, <2>1, <1>j DEF WriteMem, RevocationInv, SetNeverPoisons,
                             JobRevocation
  <2>. QED BY <1>13, <2>2, <1>frame, <1>rows, <1>idle DEF WriteMem
<1>. QED
  BY <1>1, <1>2, <1>3, <1>4, <1>5, <1>6, <1>7, <1>8, <1>9, <1>10, <1>11,
     <1>12, <1>13 DEF HandlerStep

\* A transaction that revokes the approvals of g leaves g to be dropped.
LEMMA RevokingTransaction ==
  ASSUME TypeOK, RevocationInv, NEW a \in Admin, NEW g \in Group,
         dropping[a] = {}, dropping' = [dropping EXCEPT ![a] = {g}],
         wiped' = [wiped EXCEPT ![g] = lastEpoch[g]],
         verified' = WithoutGroup(verified, g),
         \A x \in Group \ {g} : bindings'[x] = bindings[x],
         UNCHANGED <<mem, generations, job>>
  PROVE  /\ StoreFollowsBinding'
         /\ SetNeverPoisons'
         /\ \A h \in Handler : JobRevocation(h)'
<1>1. \A x \in Group : DropPending(x)' <=> (x = g \/ DropPending(x))
  BY DEF DropPending, TypeOK
<1>2. \A x \in Group \ {g} : wiped'[x] = wiped[x]
  BY DEF TypeOK
<1>3. StoreFollowsBinding'
  <2> SUFFICES ASSUME NEW r \in verified'
               PROVE  /\ bindings'[r.key[1]].channel = r.key[2]
                      /\ wiped'[r.key[1]] < r.epoch
    BY DEF StoreFollowsBinding
  <2>1. r \in verified /\ r.key[1] \in Group \ {g}
    BY KeyFacts DEF WithoutGroup, TypeOK, Row
  <2>. QED BY <2>1, <1>2 DEF RevocationInv, StoreFollowsBinding
<1>4. SetNeverPoisons'
  <2> SUFFICES ASSUME NEW e \in mem, e.via # "refill", Revoked(e)'
               PROVE  DropPending(e.key[1])'
    BY DEF SetNeverPoisons, Revoked
  <2>1. e.key[1] \in Group
    BY KeyFacts DEF TypeOK, Entry
  <2>. QED BY <2>1, <1>1, <1>2 DEF RevocationInv, SetNeverPoisons, Revoked
<1>5. ASSUME NEW h \in Handler PROVE JobRevocation(h)'
  <2>1. /\ JobRevocation(h) /\ job[h].key[1] \in Group
    BY KeyFacts DEF RevocationInv, TypeOK, Job
  <2>. QED BY <2>1, <1>1, <1>2 DEF JobRevocation, Revoked, SameGeneration
<1>. QED BY <1>3, <1>4, <1>5

LEMMA CommandRevocation ==
  ASSUME TypeOK, RevocationInv, NEW a \in Admin, CommandStep(a)
  PROVE  RevocationInv'
<1> USE DEF store, cache
<1>1. ASSUME NEW g \in Group, NEW c \in Channel, UpsertBinding(a, g, c)
      PROVE  RevocationInv'
  <2>1. /\ \A x \in Group \ {g} : bindings'[x] = bindings[x]
        /\ bindings'[g] = [channel |-> c, epoch |-> lastEpoch[g] + 1]
        /\ lastEpoch' = [lastEpoch EXCEPT ![g] = @ + 1]
        /\ UNCHANGED <<mem, generations, job>> /\ dropping[a] = {}
    BY <1>1 DEF UpsertBinding, TypeOK
  <2>2. CASE ChannelChanged(g, c)
    <3>1. /\ dropping' = [dropping EXCEPT ![a] = {g}]
          /\ wiped' = [wiped EXCEPT ![g] = lastEpoch[g]]
          /\ verified' = WithoutGroup(verified, g)
      BY <1>1, <2>2 DEF UpsertBinding
    <3>2. EpochOrder'
      BY <2>1, <3>1 DEF RevocationInv, EpochOrder, TypeOK
    <3>. QED BY <2>1, <3>1, <3>2, RevokingTransaction DEF RevocationInv
  <2>3. CASE ~ChannelChanged(g, c)
    <3>1. UNCHANGED <<verified, wiped, dropping>>
      BY <1>1, <2>3 DEF UpsertBinding
    <3>2. EpochOrder'
      BY <2>1, <3>1 DEF RevocationInv, EpochOrder, TypeOK
    <3>3. StoreFollowsBinding'
      <4> SUFFICES ASSUME NEW r \in verified
                   PROVE  bindings'[r.key[1]].channel = r.key[2]
        BY <3>1 DEF StoreFollowsBinding, RevocationInv
      <4>1. /\ r.key[1] \in Group /\ r.key[2] \in Channel
            /\ bindings[r.key[1]].channel = r.key[2]
        BY KeyFacts DEF TypeOK, Row, RevocationInv, StoreFollowsBinding
      <4>. QED BY <4>1, <2>1, <2>3, CacheAssumption DEF ChannelChanged
    <3>4. /\ SetNeverPoisons'
          /\ \A h \in Handler : JobRevocation(h)'
      BY <2>1, <3>1 DEF RevocationInv, SetNeverPoisons, JobRevocation, Revoked,
                        SameGeneration, DropPending
    <3>. QED BY <3>2, <3>3, <3>4 DEF RevocationInv
  <2>. QED BY <2>2, <2>3
<1>2. ASSUME NEW g \in Group, DeleteBinding(a, g)
      PROVE  RevocationInv'
  <2>1. /\ \A x \in Group \ {g} : bindings'[x] = bindings[x]
        /\ bindings'[g].channel = NoChannel
        /\ UNCHANGED <<lastEpoch, mem, generations, job>> /\ dropping[a] = {}
        /\ dropping' = [dropping EXCEPT ![a] = {g}]
        /\ wiped' = [wiped EXCEPT ![g] = lastEpoch[g]]
        /\ verified' = WithoutGroup(verified, g)
    BY <1>2 DEF DeleteBinding, TypeOK
  <2>2. EpochOrder'
    BY <2>1 DEF RevocationInv, EpochOrder, TypeOK
  <2>. QED BY <2>1, <2>2, RevokingTransaction DEF RevocationInv
<1>3. CASE DropGroup(a)
  <2>1. PICK g \in dropping[a] :
          /\ mem' = WithoutGroup(mem, g)
          /\ generations' = [generations EXCEPT ![g] = @ + 1]
          /\ dropping' = [dropping EXCEPT ![a] = {}]
    BY <1>3 DEF DropGroup
  <2>2. UNCHANGED <<bindings, lastEpoch, verified, wiped, job>>
    BY <1>3 DEF DropGroup
  <2>3. g \in Group /\ dropping[a] = {g}
    BY <2>1 DEF TypeOK
  <2>4. \A x \in Group \ {g} : /\ generations'[x] = generations[x]
                               /\ DropPending(x)' <=> DropPending(x)
    BY <2>1, <2>3 DEF DropPending, TypeOK
  <2>5. SetNeverPoisons'
    <3> SUFFICES ASSUME NEW e \in mem', e.via # "refill", Revoked(e)'
                 PROVE  DropPending(e.key[1])'
      BY DEF SetNeverPoisons
    <3>1. e \in mem /\ e.key[1] \in Group \ {g}
      BY <2>1, KeyFacts DEF WithoutGroup, TypeOK, Entry
    <3>. QED BY <2>2, <2>4, <3>1 DEF RevocationInv, SetNeverPoisons, Revoked
  <2>6. ASSUME NEW h \in Handler PROVE JobRevocation(h)'
    <3>1. /\ JobRevocation(h) /\ job[h].key[1] \in Group /\ job[h].gen \in Nat
          /\ generations[g] \in Nat
      BY <2>3, KeyFacts DEF RevocationInv, TypeOK, Job
    <3>2. CASE job[h].key[1] = g
      <4>1. generations'[g] = generations[g] + 1
        BY <2>1, <2>3 DEF TypeOK
      <4>. QED BY <2>2, <3>1, <3>2, <4>1 DEF JobRevocation, SameGeneration
    <3>3. CASE job[h].key[1] # g
      BY <2>2, <2>4, <3>1, <3>3 DEF JobRevocation, SameGeneration, Revoked
    <3>. QED BY <3>2, <3>3
  <2>7. EpochOrder' /\ StoreFollowsBinding'
    BY <2>2 DEF RevocationInv, EpochOrder, StoreFollowsBinding
  <2>. QED BY <2>5, <2>6, <2>7 DEF RevocationInv
<1>. QED BY <1>1, <1>2, <1>3 DEF CommandStep

LEMMA RevocationInvariant == Spec => []RevocationInv
<1>1. Init => RevocationInv
  BY DEF Init, RevocationInv, EpochOrder, StoreFollowsBinding,
         SetNeverPoisons, JobRevocation, IdleJob
<1>2. TypeOK /\ RevocationInv /\ [Next]_vars => RevocationInv'
  <2> SUFFICES ASSUME TypeOK, RevocationInv, [Next]_vars PROVE RevocationInv'
    OBVIOUS
  <2> USE DEF store, cache
  <2>frame. ASSUME mem' \subseteq mem, verified' \subseteq verified,
                   UNCHANGED <<bindings, lastEpoch, generations, job,
                               dropping, wiped>>
            PROVE  RevocationInv'
    BY <2>frame DEF RevocationInv, EpochOrder, StoreFollowsBinding,
      SetNeverPoisons, JobRevocation, Revoked, SameGeneration, DropPending
  <2>1. CASE \E h \in Handler : HandlerStep(h)
    BY <2>1, HandlerRevocation
  <2>2. CASE \E a \in Admin : CommandStep(a)
    BY <2>2, CommandRevocation
  <2>3. CASE DeleteExpiredVerified
    BY <2>3, <2>frame, LoadedRows DEF DeleteExpiredVerified
  <2>4. CASE Prune
    BY <2>4, <2>frame DEF Prune
  <2>5. CASE Tick
    BY <2>5, <2>frame DEF Tick
  <2>6. CASE Restart
    <3>1. UNCHANGED <<bindings, lastEpoch, verified, wiped>>
          /\ \A h \in Handler : job'[h] = IdleJob
      BY <2>6 DEF Restart
    <3>2. \A h \in Handler : JobRevocation(h)'
      BY <3>1 DEF JobRevocation, IdleJob
    <3>3. \A e \in mem' : \E r \in verified : r.key = e.key /\ r.epoch = e.epoch
      BY <2>6, RestartRows
    <3>4. \A e \in mem' : ~Revoked(e)'
      <4> SUFFICES ASSUME NEW e \in mem' PROVE ~Revoked(e)'
        OBVIOUS
      <4>1. PICK r \in verified : r.key = e.key /\ r.epoch = e.epoch
        BY <3>3
      <4>2. /\ wiped[r.key[1]] < r.epoch
            /\ wiped[r.key[1]] \in Nat /\ r.epoch \in Nat
        BY KeyFacts DEF RevocationInv, StoreFollowsBinding, TypeOK, Row
      <4>. QED BY <3>1, <4>1, <4>2 DEF Revoked
    <3>5. SetNeverPoisons'
      BY <3>4 DEF SetNeverPoisons
    <3>. QED BY <3>1, <3>2, <3>5
             DEF RevocationInv, EpochOrder, StoreFollowsBinding
  <2>7. CASE UNCHANGED vars
    BY <2>7, <2>frame DEF vars
  <2>. QED BY <2>1, <2>2, <2>3, <2>4, <2>5, <2>6, <2>7 DEF Next
<1>. QED BY <1>1, <1>2, TypeCorrect, PTL DEF Spec

\* No approval revoked by /unbind or by /bind to another channel is in SQLite,
\* and none returns, however long the handler that obtained it is delayed.
THEOREM StoreTheorem == Spec => []StoreFollowsBinding
BY RevocationInvariant, PTL DEF RevocationInv

\* MemberCache.Set and Prime never leave a revoked approval in memory beyond
\* the DropGroup of the command that revoked it.
THEOREM SetTheorem == Spec => []SetNeverPoisons
BY RevocationInvariant, PTL DEF RevocationInv

-----------------------------------------------------------------------------
(* The capacity of the map.                                                  *)

SizeInv ==
  /\ IsFiniteSet(verified)
  /\ IsFiniteSet(mem) /\ Cardinality(mem) <= MaxEntries

Bounded(m) == IsFiniteSet(m) /\ Cardinality(m) <= MaxEntries

LEMMA BoundedSubset ==
  ASSUME NEW m, Bounded(m), NEW n \in SUBSET m
  PROVE  Bounded(n)
<1>1. IsFiniteSet(n) /\ Cardinality(n) <= Cardinality(m)
  BY FS_Subset DEF Bounded
<1>2. Cardinality(n) \in Nat /\ Cardinality(m) \in Nat
  BY <1>1, FS_CardinalityType DEF Bounded
<1>. QED BY <1>1, <1>2, CacheAssumption DEF Bounded

LEMMA OneMore ==
  ASSUME NEW m, IsFiniteSet(m), NEW e
  PROVE  IsFiniteSet(m \union {e}) /\ Cardinality(m \union {e}) <= Cardinality(m) + 1
<1>1. Cardinality(m) \in Nat
  BY FS_CardinalityType
<1>2. /\ IsFiniteSet(m \union {e})
      /\ Cardinality(m \union {e}) = IF e \in m THEN Cardinality(m) ELSE Cardinality(m) + 1
  BY FS_AddElement
<1>. QED BY <1>1, <1>2

\* Room is made before a new key is stored; overwriting needs none.
LEMMA StoredBounded ==
  ASSUME NEW m, Bounded(m), NEW e, NEW n \in Stored(m, e)
  PROVE  Bounded(n)
<1>m. Cardinality(m) \in Nat
  BY FS_CardinalityType DEF Bounded
<1>1. CASE (\A f \in m : f.key # e.key) /\ Cardinality(m) >= MaxEntries
  <2>1. PICK S \in SUBSET m : Cardinality(S) = EvictBatch /\ n = (m \ S) \union {e}
    BY <1>1 DEF Stored, Oldest
  <2>2. IsFiniteSet(m \ S) /\ Cardinality(m \ S) = Cardinality(m) - EvictBatch
    <3>1. m \intersect S = S
      OBVIOUS
    <3>. QED BY <2>1, <3>1, FS_Difference DEF Bounded
  <2>3. /\ IsFiniteSet(n)
        /\ Cardinality(n) = IF e \in m \ S THEN Cardinality(m \ S)
                                           ELSE Cardinality(m \ S) + 1
    BY <2>1, <2>2, FS_AddElement
  <2>4. Cardinality(n) <= MaxEntries
    BY <1>m, <2>2, <2>3, CacheAssumption DEF Bounded
  <2>. QED BY <2>3, <2>4 DEF Bounded
<1>2. CASE ~(\A f \in m : f.key # e.key)
  <2>1. PICK f \in m : f.key = e.key
    BY <1>2
  <2>2. n = {x \in m : x.key # e.key} \union {e}
    BY <1>2 DEF Stored
  <2>3. IsFiniteSet(m \ {f}) /\ Cardinality(m \ {f}) = Cardinality(m) - 1
    BY FS_RemoveElement DEF Bounded
  <2>4. /\ IsFiniteSet({x \in m : x.key # e.key})
        /\ Cardinality({x \in m : x.key # e.key}) <= Cardinality(m \ {f})
    <3>1. {x \in m : x.key # e.key} \in SUBSET (m \ {f})
      BY <2>1
    <3>. QED BY <2>3, <3>1, FS_Subset
  <2>5. Cardinality({x \in m : x.key # e.key}) \in Nat
    BY <2>4, FS_CardinalityType
  <2>6. IsFiniteSet(n) /\ Cardinality(n) <= Cardinality({x \in m : x.key # e.key}) + 1
    BY <2>2, <2>4, <2>5, OneMore
  <2>7. Cardinality(n) \in Nat
    BY <2>6, FS_CardinalityType
  <2>. QED BY <1>m, <2>3, <2>4, <2>5, <2>6, <2>7, CacheAssumption DEF Bounded
<1>3. CASE (\A f \in m : f.key # e.key) /\ ~(Cardinality(m) >= MaxEntries)
  <2>1. n = m \union {e}
    BY <1>3 DEF Stored
  <2>2. IsFiniteSet(n) /\ Cardinality(n) <= Cardinality(m) + 1
    BY <2>1, OneMore DEF Bounded
  <2>3. Cardinality(n) \in Nat
    BY <2>2, FS_CardinalityType
  <2>. QED BY <1>3, <1>m, <2>2, <2>3, CacheAssumption DEF Bounded
<1>. QED BY <1>1, <1>2, <1>3

\* Prime keeps what fits.
LEMMA PrimedBounded ==
  ASSUME NEW rows, IsFiniteSet(rows), NEW n \in {{}} \union Primed(rows)
  PROVE  Bounded(n)
<1>. DEFINE entry(r) == [key |-> r.key, exp |-> r.exp, epoch |-> r.epoch, via |-> "prime"]
            entries == {entry(r) : r \in rows}
<1>1. IsFiniteSet(entries)
  <2>1. [r \in rows |-> entry(r)] \in Surjection(rows, entries)
    BY DEF Surjection
  <2>. HIDE DEF entries
  <2>. QED BY <2>1, FS_Surjection
<1>2. Primed(rows) = IF Cardinality(entries) <= MaxEntries THEN {entries}
                     ELSE {entries \ S : S \in Oldest(entries, Cardinality(entries) - MaxEntries)}
  BY DEF Primed
<1>. HIDE DEF entries
<1>3. Cardinality(entries) \in Nat
  BY <1>1, FS_CardinalityType
<1>4. CASE n = {}
  BY <1>4, FS_EmptySet, CacheAssumption DEF Bounded
<1>5. CASE n \in Primed(rows) /\ Cardinality(entries) <= MaxEntries
  BY <1>1, <1>2, <1>5 DEF Bounded
<1>6. CASE n \in Primed(rows) /\ ~(Cardinality(entries) <= MaxEntries)
  <2>1. PICK S \in SUBSET entries :
          Cardinality(S) = Cardinality(entries) - MaxEntries /\ n = entries \ S
    BY <1>2, <1>6 DEF Oldest
  <2>2. entries \intersect S = S
    OBVIOUS
  <2>3. /\ IsFiniteSet(entries \ S)
        /\ Cardinality(entries \ S) = Cardinality(entries) - Cardinality(entries \intersect S)
    BY <1>1, FS_Difference
  <2>4. IsFiniteSet(n) /\ Cardinality(n) = Cardinality(entries) - Cardinality(S)
    BY <2>1, <2>2, <2>3
  <2>. QED BY <1>3, <2>1, <2>4, CacheAssumption DEF Bounded
<1>. QED BY <1>4, <1>5, <1>6

\* The map never exceeds its capacity, whatever is stored, evicted and primed.
THEOREM CapacityTheorem == Spec => []CacheBounded
<1>. USE DEF store, cache, rest
<1>1. Init => SizeInv
  BY FS_EmptySet, CacheAssumption DEF Init, SizeInv
<1>2. ASSUME SizeInv, [Next]_vars PROVE SizeInv'
  <2>m. Bounded(mem) /\ IsFiniteSet(verified)
    BY <1>2 DEF SizeInv, Bounded
  <2>s. \A t : t \subseteq verified => IsFiniteSet(t)
    BY <2>m, FS_Subset
  <2>b. \A n : n \subseteq mem => Bounded(n)
    BY <2>m, BoundedSubset
  <2>1. ASSUME NEW h \in Handler, HandlerStep(h)
        PROVE  IsFiniteSet(verified') /\ Bounded(mem')
    <3>1. CASE PurgeExpired(h)
      BY <3>1, <2>m, <2>b DEF PurgeExpired
    <3>2. CASE Refill(h)
      BY <3>2, <2>m, StoredBounded DEF Refill
    <3>3. CASE WriteMem(h)
      BY <3>3, <2>m, StoredBounded DEF WriteMem
    <3>4. CASE UpsertVerifiedIfBound(h)
      <4>1. PICK r : verified' = {x \in verified : x.key # job[h].key} \union {r}
        BY <3>4 DEF UpsertVerifiedIfBound
      <4>2. IsFiniteSet({x \in verified : x.key # job[h].key})
        BY <2>s
      <4>3. IsFiniteSet(verified')
        BY <4>1, <4>2, FS_AddElement
      <4>. QED BY <3>4, <4>3, <2>m DEF UpsertVerifiedIfBound
    <3>. QED BY <2>1, <2>m, <3>1, <3>2, <3>3, <3>4 DEF HandlerStep, Lookup, SampleNow,
          GetMem, GetVerified, GetVerifiedFails, ConfirmMember, AskWithoutApproval,
          SampleGeneration, UpsertRefused
  <2>2. ASSUME NEW a \in Admin, CommandStep(a)
        PROVE  IsFiniteSet(verified') /\ Bounded(mem')
    BY <2>2, <2>m, <2>s, <2>b DEF CommandStep, UpsertBinding, DeleteBinding, DropGroup,
       WithoutGroup
  <2>3. CASE DeleteExpiredVerified \/ Prune \/ Tick \/ UNCHANGED vars
    BY <2>3, <2>m, <2>s, <2>b DEF DeleteExpiredVerified, LoadAllValidVerified, Prune,
       Tick, vars, SizeInv, Bounded
  <2>4. CASE Restart
    <3>1. IsFiniteSet(LoadAllValidVerified(clock))
      BY <2>s DEF LoadAllValidVerified
    <3>. QED BY <2>4, <2>m, <3>1, PrimedBounded DEF Restart, SizeInv, Bounded
  <2>. QED BY <1>2, <2>1, <2>2, <2>3, <2>4 DEF Next, SizeInv, Bounded
<1>. QED BY <1>1, <1>2, PTL DEF Spec, SizeInv, CacheBounded

-----------------------------------------------------------------------------
(* MemberCache implements Approvals, for every value of the constants: each   *)
(* step of a handler, a command, the cleanup or a restart is a step of        *)
(* Approvals on boundChannel, confirmedUsers and approvedUsers.               *)

\* Epochs are handed out in order, so a handler never holds a future one.

EpochInv ==
  /\ \A g \in Group : bindings[g].epoch <= lastEpoch[g]
  /\ \A h \in Handler : job[h].epoch <= lastEpoch[job[h].key[1]]

LEMMA HandlerEpochs ==
  ASSUME TypeOK, EpochInv, NEW h \in Handler, HandlerStep(h)
  PROVE  EpochInv'
<1>. USE DEF store, cache, rest
<1>t. /\ job \in [Handler -> Job] /\ job[h] \in Job /\ job[h].key[1] \in Group
      /\ IdleJob \in Job /\ IdleJob.epoch = 0
      /\ \A g \in Group : lastEpoch[g] \in Nat
  BY KeyFacts, IdleJobType DEF TypeOK, Job, IdleJob
<1>b. UNCHANGED <<bindings, lastEpoch>>
  BY DEF HandlerStep, Lookup, SampleNow, GetMem, PurgeExpired, GetVerified,
    GetVerifiedFails, Refill, ConfirmMember, AskWithoutApproval,
    SampleGeneration, UpsertVerifiedIfBound, UpsertRefused, WriteMem
<1>1. /\ \A x \in Handler \ {h} : job'[x] = job[x]
      /\ \/ job'[h] = IdleJob
         \/ job'[h].key = job[h].key /\ job'[h].epoch = job[h].epoch
         \/ \E g \in Group : job'[h].key[1] = g /\ job'[h].epoch = bindings[g].epoch
  <2>1. ASSUME NEW g \in Group, NEW u \in User, Lookup(h, g, u)
        PROVE  /\ \A x \in Handler \ {h} : job'[x] = job[x]
               /\ job'[h].key[1] = g /\ job'[h].epoch = bindings[g].epoch
    BY <2>1, <1>t DEF Lookup, IdleJob
  <2>2. CASE SampleNow(h) \/ GetMem(h) \/ PurgeExpired(h) \/ GetVerified(h)
             \/ GetVerifiedFails(h) \/ Refill(h) \/ ConfirmMember(h)
    BY <2>2, <1>t DEF SampleNow, GetMem, PurgeExpired, GetVerified,
      GetVerifiedFails, Refill, ConfirmMember, Go, Finish, Job
  <2>3. CASE AskWithoutApproval(h) \/ SampleGeneration(h)
             \/ UpsertVerifiedIfBound(h) \/ UpsertRefused(h) \/ WriteMem(h)
    BY <2>3, <1>t DEF AskWithoutApproval, SampleGeneration,
      UpsertVerifiedIfBound, UpsertRefused, WriteMem, Go, Finish, Job
  <2>. QED BY <2>1, <2>2, <2>3 DEF HandlerStep
<1>2. job'[h].epoch <= lastEpoch'[job'[h].key[1]]
  <2>1. CASE job'[h] = IdleJob
    <3>1. IdleJob.key[1] \in Group
      BY <1>t, KeyFacts DEF Job
    <3>. QED BY <2>1, <3>1, <1>b, <1>t
  <2>2. CASE job'[h] # IdleJob
    BY <2>2, <1>1, <1>b DEF EpochInv
  <2>. QED BY <2>1, <2>2
<1>. QED BY <1>b, <1>1, <1>2 DEF EpochInv

LEMMA EpochInvariant == Spec => []EpochInv
<1>1. Init => EpochInv
  <2>. SUFFICES ASSUME Init PROVE EpochInv
    OBVIOUS
  <2>1. IdleJob \in Job /\ IdleJob.epoch = 0
    BY IdleJobType DEF IdleJob
  <2>2. IdleJob.key[1] \in Group
    BY <2>1, KeyFacts DEF Job
  <2>. QED BY <2>1, <2>2 DEF Init, EpochInv
<1>2. TypeOK /\ EpochInv /\ [Next]_vars => EpochInv'
  <2>. SUFFICES ASSUME TypeOK, EpochInv, [Next]_vars PROVE EpochInv'
    OBVIOUS
  <2>. USE DEF store, cache
  <2>k. \A h \in Handler : job[h].epoch \in Nat /\ job[h].key[1] \in Group
    BY KeyFacts DEF TypeOK, Job
  <2>1. CASE \E h \in Handler : HandlerStep(h)
    BY <2>1, HandlerEpochs
  <2>2. ASSUME NEW a \in Admin, NEW g \in Group, NEW c \in Channel,
               UpsertBinding(a, g, c)
        PROVE  EpochInv'
    <3>1. /\ UNCHANGED job
          /\ bindings'[g].epoch = lastEpoch'[g]
          /\ \A x \in Group \ {g} : bindings'[x] = bindings[x]
          /\ \A x \in Group : lastEpoch'[x] \in Nat /\ lastEpoch[x] <= lastEpoch'[x]
                              /\ lastEpoch[x] \in Nat
      BY <2>2 DEF UpsertBinding, TypeOK
    <3>2. \A x \in Group : bindings'[x].epoch <= lastEpoch'[x]
      BY <3>1 DEF EpochInv, TypeOK
    <3>3. \A h \in Handler : job'[h].epoch <= lastEpoch'[job'[h].key[1]]
      BY <3>1, <2>k DEF EpochInv
    <3>. QED BY <3>2, <3>3 DEF EpochInv
  <2>3. ASSUME NEW a \in Admin, NEW g \in Group, DeleteBinding(a, g)
        PROVE  EpochInv'
    BY <2>3 DEF DeleteBinding, EpochInv, TypeOK
  <2>4. ASSUME NEW a \in Admin, DropGroup(a)
        PROVE  EpochInv'
    BY <2>4 DEF DropGroup, EpochInv
  <2>5. CASE DeleteExpiredVerified \/ Prune \/ Tick \/ UNCHANGED vars
    BY <2>5 DEF DeleteExpiredVerified, Prune, Tick, vars, EpochInv
  <2>6. CASE Restart
    <3>1. IdleJob \in Job /\ IdleJob.epoch = 0
      BY IdleJobType DEF IdleJob
    <3>2. IdleJob.key[1] \in Group
      BY <3>1, KeyFacts DEF Job
    <3>. QED BY <2>6, <3>1, <3>2 DEF Restart, EpochInv, TypeOK
  <2>. QED BY <2>1, <2>2, <2>3, <2>4, <2>5, <2>6 DEF Next, CommandStep
<1>. QED BY <1>1, <1>2, TypeCorrect, PTL DEF Spec

-----------------------------------------------------------------------------
(* The steps of Approvals.                                                 *)

LEMMA AbstractTypes ==
  /\ boundChannel = [g \in Group |-> boundChannel[g]]
  /\ confirmedUsers \in [Group -> SUBSET User]
  /\ approvedUsers \in [Group -> SUBSET User]
  /\ \A g \in Group, u \in User :
       u \in confirmedUsers[g] <=> \E h \in Handler : Holds(h, g, u)
  /\ \A g \in Group, u \in User :
       u \in approvedUsers[g] <=> \E r \in verified : r.key[1] = g /\ r.key[3] = u
  /\ \A g \in Group : boundChannel[g] = bindings[g].channel
BY DEF boundChannel, confirmedUsers, approvedUsers

LEMMA AbstractTypesAfter ==
  /\ boundChannel' = [g \in Group |-> boundChannel'[g]]
  /\ confirmedUsers' \in [Group -> SUBSET User]
  /\ approvedUsers' \in [Group -> SUBSET User]
  /\ \A g \in Group, u \in User :
       u \in confirmedUsers'[g] <=> \E h \in Handler : Holds(h, g, u)'
  /\ \A g \in Group, u \in User :
       u \in approvedUsers'[g] <=> \E r \in verified' : r.key[1] = g /\ r.key[3] = u
  /\ \A g \in Group : boundChannel'[g] = bindings'[g].channel
BY DEF boundChannel, confirmedUsers, approvedUsers

\* Functions to sets of users are compared user by user.
LEMMA ConfirmedPointwise ==
  ASSUME NEW g \in Group, NEW S \in SUBSET User,
         \A u \in User : u \in confirmedUsers'[g] <=> u \in S,
         \A x \in Group \ {g}, u \in User :
           u \in confirmedUsers'[x] <=> u \in confirmedUsers[x]
  PROVE  confirmedUsers' = [confirmedUsers EXCEPT ![g] = S]
<1>t. /\ confirmedUsers \in [Group -> SUBSET User]
      /\ confirmedUsers' \in [Group -> SUBSET User]
  BY AbstractTypes, AbstractTypesAfter
<1>1. confirmedUsers'[g] = S
  BY <1>t
<1>2. ASSUME NEW x \in Group \ {g} PROVE confirmedUsers'[x] = confirmedUsers[x]
  BY <1>t
<1>. QED BY <1>t, <1>1, <1>2

LEMMA ApprovedPointwise ==
  ASSUME NEW g \in Group, NEW S \in SUBSET User,
         \A u \in User : u \in approvedUsers'[g] <=> u \in S,
         \A x \in Group \ {g}, u \in User :
           u \in approvedUsers'[x] <=> u \in approvedUsers[x]
  PROVE  approvedUsers' = [approvedUsers EXCEPT ![g] = S]
<1>t. /\ approvedUsers \in [Group -> SUBSET User]
      /\ approvedUsers' \in [Group -> SUBSET User]
  BY AbstractTypes, AbstractTypesAfter
<1>1. approvedUsers'[g] = S
  BY <1>t
<1>2. ASSUME NEW x \in Group \ {g} PROVE approvedUsers'[x] = approvedUsers[x]
  BY <1>t
<1>. QED BY <1>t, <1>1, <1>2

LEMMA BoundPointwise ==
  ASSUME NEW g \in Group, NEW c, bindings'[g].channel = c,
         \A x \in Group \ {g} : bindings'[x] = bindings[x]
  PROVE  boundChannel' = [boundChannel EXCEPT ![g] = c]
BY DEF boundChannel

\* Confirmations and approvals that only disappear are a Lapse.
LEMMA OnlyLapses ==
  ASSUME UNCHANGED bindings, verified' \subseteq verified,
         \A h \in Handler, g \in Group, u \in User :
           Holds(h, g, u)' => Holds(h, g, u)
  PROVE  Abstract!Next
<1>1. boundChannel' = boundChannel
  BY DEF boundChannel
<1>2. \A g \in Group : confirmedUsers'[g] \subseteq confirmedUsers[g]
  BY AbstractTypes, AbstractTypesAfter
<1>3. \A g \in Group : approvedUsers'[g] \subseteq approvedUsers[g]
  BY AbstractTypes, AbstractTypesAfter
<1>. QED BY <1>1, <1>2, <1>3, AbstractTypesAfter DEF Abstract!Next, Abstract!Lapse

\* A handler whose job holds no more than before only lets confirmations lapse.
LEMMA HandlerLapses ==
  ASSUME NEW h \in Handler, UNCHANGED <<bindings, verified>>,
         \A x \in Handler \ {h} : job'[x] = job[x],
         \/ job'[h].pc \notin {"set", "upsert"}
         \/ /\ job[h].pc \in {"set", "upsert"}
            /\ job'[h].key = job[h].key /\ job'[h].epoch = job[h].epoch
  PROVE  Abstract!Next
<1>1. ASSUME NEW x \in Handler, NEW g \in Group, NEW u \in User, Holds(x, g, u)'
      PROVE  Holds(x, g, u)
  <2>1. CASE x = h
    BY <2>1, <1>1 DEF Holds, StillBound
  <2>2. CASE x # h
    BY <2>2, <1>1 DEF Holds, StillBound
  <2>. QED BY <2>1, <2>2
<1>. QED BY <1>1, OnlyLapses

\* Telegram's answer is a Confirm, unless the binding is gone or newer.
LEMMA ConfirmStep ==
  ASSUME TypeOK, NEW h \in Handler, ConfirmMember(h)
  PROVE  Abstract!Next
<1>t. job[h] \in Job /\ job \in [Handler -> Job]
  BY DEF TypeOK
<1>1. PICK g \in Group, u \in User : g = job[h].key[1] /\ u = job[h].key[3]
  BY <1>t, KeyFacts DEF Job
<1>2. /\ UNCHANGED <<bindings, verified>> /\ job[h].pc = "ask"
      /\ job' = [job EXCEPT ![h].pc = "set"]
  BY DEF ConfirmMember, Go, store
<1>3. /\ \A x \in Handler \ {h} : job'[x] = job[x]
      /\ job'[h].pc = "set" /\ job'[h].key = job[h].key
      /\ job'[h].epoch = job[h].epoch
  BY <1>2, <1>t DEF Job
<1>4. ASSUME NEW x \in Handler \ {h}, NEW g2 \in Group, NEW u2 \in User
      PROVE  Holds(x, g2, u2)' <=> Holds(x, g2, u2)
  BY <1>2, <1>3 DEF Holds, StillBound
<1>5. ASSUME NEW g2 \in Group, NEW u2 \in User
      PROVE  /\ ~Holds(h, g2, u2)
             /\ Holds(h, g2, u2)' <=>
                  /\ g2 = g /\ u2 = u
                  /\ StillBound(job[h].key, job[h].epoch)
  BY <1>1, <1>2, <1>3 DEF Holds, StillBound
<1>6. CASE StillBound(job[h].key, job[h].epoch)
  <2>1. boundChannel' = boundChannel /\ approvedUsers' = approvedUsers
    BY <1>2 DEF boundChannel, approvedUsers
  <2>2. boundChannel[g] # NoChannel
    <3>1. job[h].key[2] \in Channel /\ bindings[g].channel = job[h].key[2]
      BY <1>1, <1>6, <1>t, KeyFacts DEF StillBound, Job
    <3>. QED BY <3>1, AbstractTypes, CacheAssumption
  <2>3. ASSUME NEW g2 \in Group, NEW u2 \in User
        PROVE  u2 \in confirmedUsers'[g2] <=>
                 (u2 \in confirmedUsers[g2] \/ (g2 = g /\ u2 = u))
    <3>1. (\E x \in Handler : Holds(x, g2, u2)') <=>
            ((\E x \in Handler : Holds(x, g2, u2)) \/ (g2 = g /\ u2 = u))
      BY <1>4, <1>5, <1>6
    <3>. QED BY <3>1, AbstractTypes, AbstractTypesAfter
  <2>4. confirmedUsers' = [confirmedUsers EXCEPT ![g] = @ \union {u}]
    <3>. DEFINE S == confirmedUsers[g] \union {u}
    <3>1. S \in SUBSET User /\ \A u2 \in User : u2 \in confirmedUsers'[g] <=> u2 \in S
      BY <2>3, AbstractTypes
    <3>2. confirmedUsers' = [confirmedUsers EXCEPT ![g] = S]
      BY <2>3, <3>1, ConfirmedPointwise
    <3>. QED BY <3>2
  <2>. QED BY <2>1, <2>2, <2>4 DEF Abstract!Next, Abstract!Confirm
<1>7. CASE ~StillBound(job[h].key, job[h].epoch)
  BY <1>2, <1>4, <1>5, <1>7, OnlyLapses
<1>. QED BY <1>6, <1>7

\* UpsertVerifiedIfBound is an Approve of a confirmation it still holds.
LEMMA ApproveStep ==
  ASSUME TypeOK, NEW h \in Handler, UpsertVerifiedIfBound(h)
  PROVE  Abstract!Next
<1>t. job[h] \in Job /\ job \in [Handler -> Job]
  BY DEF TypeOK
<1>1. PICK g \in Group, u \in User : g = job[h].key[1] /\ u = job[h].key[3]
  BY <1>t, KeyFacts DEF Job
<1>2. /\ UNCHANGED bindings /\ job[h].pc = "upsert"
      /\ StillBound(job[h].key, job[h].epoch)
      /\ \A x \in Handler \ {h} : job'[x] = job[x]
      /\ job'[h].pc = "write"
  BY <1>t DEF UpsertVerifiedIfBound
<1>3. PICK row : /\ row.key = job[h].key
                 /\ verified' = {r \in verified : r.key # job[h].key} \union {row}
  BY DEF UpsertVerifiedIfBound
<1>4. boundChannel' = boundChannel /\ u \in confirmedUsers[g]
  BY <1>1, <1>2, AbstractTypes DEF Holds, boundChannel
<1>5. ASSUME NEW g2 \in Group, NEW u2 \in User
      PROVE  (\E r \in verified' : r.key[1] = g2 /\ r.key[3] = u2) <=>
               \/ g2 = g /\ u2 = u
               \/ \E r \in verified : r.key[1] = g2 /\ r.key[3] = u2
  BY <1>1, <1>3
<1>6. ASSUME NEW g2 \in Group, NEW u2 \in User
      PROVE  u2 \in approvedUsers'[g2] <=>
               (u2 \in approvedUsers[g2] \/ (g2 = g /\ u2 = u))
  BY <1>5, AbstractTypes, AbstractTypesAfter
<1>7. approvedUsers' = [approvedUsers EXCEPT ![g] = @ \union {u}]
  <2>. DEFINE S == approvedUsers[g] \union {u}
  <2>1. S \in SUBSET User /\ \A u2 \in User : u2 \in approvedUsers'[g] <=> u2 \in S
    BY <1>6, AbstractTypes
  <2>2. approvedUsers' = [approvedUsers EXCEPT ![g] = S]
    BY <1>6, <2>1, ApprovedPointwise
  <2>. QED BY <2>2
<1>8. ASSUME NEW x \in Handler, NEW g2 \in Group, NEW u2 \in User
      PROVE  Holds(x, g2, u2)' <=> (x # h /\ Holds(x, g2, u2))
  BY <1>2 DEF Holds, StillBound
<1>9. ASSUME NEW g2 \in Group, NEW u2 \in User, ~(g2 = g /\ u2 = u)
      PROVE  ~Holds(h, g2, u2)
  BY <1>1, <1>9 DEF Holds
<1>10. ASSUME NEW g2 \in Group, NEW u2 \in User, ~(g2 = g /\ u2 = u)
       PROVE  u2 \in confirmedUsers'[g2] <=> u2 \in confirmedUsers[g2]
  BY <1>8, <1>9, <1>10, AbstractTypes, AbstractTypesAfter
<1>11. confirmedUsers' = [confirmedUsers EXCEPT ![g] = @ \ {u}]
       \/ UNCHANGED confirmedUsers
  <2>1. CASE u \in confirmedUsers'[g]
    <3>1. \A g2 \in Group, u2 \in User :
            u2 \in confirmedUsers'[g2] <=> u2 \in confirmedUsers[g2]
      BY <2>1, <1>4, <1>10
    <3>2. confirmedUsers' = [confirmedUsers EXCEPT ![g] = confirmedUsers[g]]
      BY <3>1, ConfirmedPointwise, AbstractTypes
    <3>. QED BY <3>2, AbstractTypes
  <2>2. CASE u \notin confirmedUsers'[g]
    <3>. DEFINE S == confirmedUsers[g] \ {u}
    <3>1. S \in SUBSET User /\ \A u2 \in User : u2 \in confirmedUsers'[g] <=> u2 \in S
      BY <2>2, <1>10, AbstractTypes
    <3>2. confirmedUsers' = [confirmedUsers EXCEPT ![g] = S]
      BY <1>10, <3>1, ConfirmedPointwise
    <3>. QED BY <3>2
  <2>. QED BY <2>1, <2>2
<1>. QED BY <1>4, <1>7, <1>11 DEF Abstract!Next, Abstract!Approve

\* After a /bind or /unbind in g no handler holds a confirmation for g: the
\* binding is gone, or its epoch is newer than any a handler has read.
LEMMA ConfirmationsVoid ==
  ASSUME NEW g \in Group, UNCHANGED job,
         \A x \in Group \ {g} : bindings'[x] = bindings[x],
         \A h \in Handler : job[h].key[1] = g =>
                              ~StillBound(job[h].key, job[h].epoch)'
  PROVE  confirmedUsers' = [confirmedUsers EXCEPT ![g] = {}]
<1>1. ASSUME NEW h \in Handler, NEW x \in Group, NEW u \in User
      PROVE  Holds(h, x, u)' <=> (x # g /\ Holds(h, x, u))
  BY DEF Holds, StillBound
<1>2. \A x \in Group, u \in User :
        u \in confirmedUsers'[x] <=> (x # g /\ u \in confirmedUsers[x])
  BY <1>1, AbstractTypes, AbstractTypesAfter
<1>. QED BY <1>2, ConfirmedPointwise

LEMMA BindStep ==
  ASSUME TypeOK, RevocationInv, EpochInv, NEW a \in Admin, NEW g \in Group,
         NEW c \in Channel, UpsertBinding(a, g, c)
  PROVE  Abstract!Next
<1>1. /\ UNCHANGED job
      /\ \A x \in Group \ {g} : bindings'[x] = bindings[x]
      /\ bindings'[g] = [channel |-> c, epoch |-> lastEpoch[g] + 1]
      /\ lastEpoch[g] \in Nat
  BY DEF UpsertBinding, TypeOK
<1>2. boundChannel' = [boundChannel EXCEPT ![g] = c]
  BY <1>1, BoundPointwise
<1>3. confirmedUsers' = [confirmedUsers EXCEPT ![g] = {}]
  <2>1. ASSUME NEW h \in Handler, job[h].key[1] = g
        PROVE  ~StillBound(job[h].key, job[h].epoch)'
    <3>1. job[h].epoch \in Nat /\ job[h].epoch <= lastEpoch[g]
      BY <2>1 DEF EpochInv, TypeOK, Job
    <3>. QED BY <2>1, <3>1, <1>1 DEF StillBound
  <2>. QED BY <2>1, <1>1, ConfirmationsVoid
<1>4. approvedUsers' = [approvedUsers EXCEPT
                          ![g] = IF boundChannel[g] = c THEN @ ELSE {}]
  <2>k. \A r \in verified : /\ r.key[1] \in Group /\ r.key[2] \in Channel
                            /\ bindings[r.key[1]].channel = r.key[2]
    BY KeyFacts DEF TypeOK, Row, RevocationInv, StoreFollowsBinding
  <2>1. ASSUME NEW x \in Group, NEW u \in User
        PROVE  u \in approvedUsers'[x] <=>
                 u \in approvedUsers[x] /\ (x # g \/ boundChannel[g] = c)
    <3>1. CASE ChannelChanged(g, c)
      <4>1. verified' = WithoutGroup(verified, g) /\ boundChannel[g] # c
        BY <3>1, AbstractTypes DEF UpsertBinding, ChannelChanged
      <4>. QED BY <4>1, AbstractTypes, AbstractTypesAfter DEF WithoutGroup
    <3>2. CASE ~ChannelChanged(g, c)
      <4>1. verified' = verified /\ boundChannel[g] \in {NoChannel, c}
        BY <3>2, AbstractTypes DEF UpsertBinding, ChannelChanged
      <4>2. boundChannel[g] = NoChannel => u \notin approvedUsers[g]
        BY <2>k, AbstractTypes, CacheAssumption
      <4>. QED BY <4>1, <4>2, AbstractTypes, AbstractTypesAfter
    <3>. QED BY <3>1, <3>2
  <2>. DEFINE S == IF boundChannel[g] = c THEN approvedUsers[g] ELSE {}
  <2>2. S \in SUBSET User /\ \A u \in User : u \in approvedUsers'[g] <=> u \in S
    BY <2>1, AbstractTypes
  <2>3. approvedUsers' = [approvedUsers EXCEPT ![g] = S]
    BY <2>1, <2>2, ApprovedPointwise
  <2>. QED BY <2>3
<1>. QED BY <1>2, <1>3, <1>4 DEF Abstract!Next, Abstract!Bind

LEMMA UnbindStep ==
  ASSUME TypeOK, NEW a \in Admin, NEW g \in Group, DeleteBinding(a, g)
  PROVE  Abstract!Next
<1>1. /\ UNCHANGED job
      /\ \A x \in Group \ {g} : bindings'[x] = bindings[x]
      /\ bindings'[g].channel = NoChannel
      /\ verified' = WithoutGroup(verified, g)
  BY DEF DeleteBinding, TypeOK
<1>2. boundChannel' = [boundChannel EXCEPT ![g] = NoChannel]
  BY <1>1, BoundPointwise
<1>3. confirmedUsers' = [confirmedUsers EXCEPT ![g] = {}]
  <2>1. ASSUME NEW h \in Handler, job[h].key[1] = g
        PROVE  ~StillBound(job[h].key, job[h].epoch)'
    <3>1. job[h].key[2] \in Channel
      BY KeyFacts DEF TypeOK, Job
    <3>. QED BY <2>1, <3>1, <1>1, CacheAssumption DEF StillBound
  <2>. QED BY <2>1, <1>1, ConfirmationsVoid
<1>4. approvedUsers' = [approvedUsers EXCEPT ![g] = {}]
  <2>1. \A x \in Group, u \in User :
          u \in approvedUsers'[x] <=> (x # g /\ u \in approvedUsers[x])
    BY <1>1, AbstractTypes, AbstractTypesAfter DEF WithoutGroup
  <2>. QED BY <2>1, ApprovedPointwise
<1>. QED BY <1>2, <1>3, <1>4 DEF Abstract!Next, Abstract!Unbind

-----------------------------------------------------------------------------
LEMMA HandlerImplements ==
  ASSUME TypeOK, NEW h \in Handler, HandlerStep(h)
  PROVE  Abstract!Next
<1>. USE DEF store, cache, rest
<1>t. /\ job \in [Handler -> Job] /\ job[h] \in Job /\ IdleJob.pc = "idle"
  BY DEF TypeOK, IdleJob
<1>1. ASSUME NEW g \in Group, NEW u \in User, Lookup(h, g, u)
      PROVE  Abstract!Next
  <2>1. job'[h].pc = "now" /\ \A x \in Handler \ {h} : job'[x] = job[x]
    BY <1>1, <1>t DEF Lookup, IdleJob
  <2>. QED BY <2>1, <1>1, HandlerLapses DEF Lookup
<1>2. CASE SampleNow(h) \/ GetMem(h) \/ PurgeExpired(h) \/ GetVerified(h)
           \/ GetVerifiedFails(h) \/ Refill(h) \/ AskWithoutApproval(h)
           \/ UpsertRefused(h) \/ WriteMem(h)
  <2>1. UNCHANGED <<bindings, verified>>
    BY <1>2 DEF SampleNow, GetMem, PurgeExpired, GetVerified,
      GetVerifiedFails, Refill, AskWithoutApproval, UpsertRefused, WriteMem
  <2>2. PICK r : job' = [job EXCEPT ![h] = r]
                 /\ r.pc \in {"get", "purge", "load", "refill", "ask", "idle"}
    <3>1. CASE SampleNow(h) \/ PurgeExpired(h) \/ GetVerifiedFails(h)
      BY <3>1, <1>t DEF SampleNow, PurgeExpired, GetVerifiedFails, Go, Job
    <3>2. CASE GetMem(h)
      BY <3>2, <1>t DEF GetMem, Go, Finish, Job
    <3>3. CASE GetVerified(h)
      BY <3>3, <1>t DEF GetVerified, Go, Job
    <3>4. CASE Refill(h) \/ AskWithoutApproval(h) \/ UpsertRefused(h)
               \/ WriteMem(h)
      BY <3>4, <1>t DEF Refill, AskWithoutApproval, UpsertRefused, WriteMem,
                        Finish
    <3>. QED BY <1>2, <3>1, <3>2, <3>3, <3>4
  <2>3. /\ job'[h].pc \notin {"set", "upsert"}
        /\ \A x \in Handler \ {h} : job'[x] = job[x]
    BY <2>2, <1>t
  <2>. QED BY <2>1, <2>3, HandlerLapses
<1>3. CASE ConfirmMember(h)
  BY <1>3, ConfirmStep
<1>4. CASE SampleGeneration(h)
  <2>1. /\ job[h].pc = "set" /\ job'[h].key = job[h].key
        /\ job'[h].epoch = job[h].epoch
        /\ \A x \in Handler \ {h} : job'[x] = job[x]
        /\ UNCHANGED <<bindings, verified>>
    BY <1>4, <1>t DEF SampleGeneration, Job
  <2>. QED BY <2>1, HandlerLapses
<1>5. CASE UpsertVerifiedIfBound(h)
  BY <1>5, ApproveStep
<1>. QED BY <1>1, <1>2, <1>3, <1>4, <1>5 DEF HandlerStep

LEMMA NextImplements ==
  ASSUME TypeOK, RevocationInv, EpochInv, [Next]_vars
  PROVE  Abstract!Next
<1>. USE DEF store, cache
<1>1. CASE \E h \in Handler : HandlerStep(h)
  BY <1>1, HandlerImplements
<1>2. ASSUME NEW a \in Admin, CommandStep(a)
      PROVE  Abstract!Next
  <2>1. CASE DropGroup(a)
    <3>1. UNCHANGED <<bindings, verified, job>>
      BY <2>1 DEF DropGroup
    <3>. QED BY <3>1, OnlyLapses DEF Holds, StillBound
  <2>. QED BY <1>2, <2>1, BindStep, UnbindStep DEF CommandStep
<1>3. CASE DeleteExpiredVerified \/ Prune \/ Tick \/ UNCHANGED vars
  <2>1. UNCHANGED <<bindings, job>> /\ verified' \subseteq verified
    BY <1>3, LoadedRows DEF DeleteExpiredVerified, Prune, Tick, vars
  <2>. QED BY <2>1, OnlyLapses DEF Holds, StillBound
<1>4. CASE Restart
  <2>1. /\ UNCHANGED <<bindings, verified>>
        /\ \A h \in Handler : job'[h].pc = "idle"
    BY <1>4 DEF Restart, IdleJob
  <2>. QED BY <2>1, OnlyLapses DEF Holds
<1>. QED BY <1>1, <1>2, <1>3, <1>4 DEF Next

LEMMA InitImplements == Init => Abstract!Init
<1>. SUFFICES ASSUME Init PROVE Abstract!Init
  OBVIOUS
<1>1. boundChannel = [g \in Group |-> NoChannel]
  BY DEF Init, boundChannel
<1>2. confirmedUsers = [g \in Group |-> {}]
  BY DEF Init, confirmedUsers, Holds, IdleJob
<1>3. approvedUsers = [g \in Group |-> {}]
  BY DEF Init, approvedUsers
<1>. QED BY <1>1, <1>2, <1>3 DEF Abstract!Init

\* The tables keep the promise of Approvals: an approval is granted only to a
\* user confirmed since the current /bind, and goes with the binding.
THEOREM ApprovalsTheorem == Spec => ImplementsApprovals
<1>1. TypeOK /\ RevocationInv /\ EpochInv /\ [Next]_vars =>
        [Abstract!Next]_(Abstract!vars)
  BY NextImplements
<1>. QED BY InitImplements, <1>1, TypeCorrect, RevocationInvariant,
            EpochInvariant, PTL
         DEF Spec, ImplementsApprovals, Abstract!Spec
==============================================================================
