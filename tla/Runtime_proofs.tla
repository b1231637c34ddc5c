---------------------------- MODULE Runtime_proofs ----------------------------
(* Proofs about BotProcess, for every number of updates and every capacity of *)
(* the semaphore and of the channel, any groups, cooldown and number of       *)
(* restarts: an invariant of UpdateRuntime and one of SelfCheck, and that     *)
(* every step of the process is a step of both, a new start, or an end.       *)
EXTENDS BotProcess, FiniteSetTheorems, TLAPS

-----------------------------------------------------------------------------
(* UpdateRuntime.                                                            *)

Looping == pc \in {"receive", "slot"}

\* What the loop has given to a goroutine: everything it took, except the
\* update that waits for a slot.
Given == IF pc = "slot" THEN 1 .. (taken - 1) ELSE 1 .. taken

\* The strengthening that makes the properties inductive: the loop ends only
\* with the channel closed and empty, and only the end of the grace period lets
\* Run go on past handlers that still run.
RunInv ==
  /\ TypeOK
  /\ pc = "slot" => taken # 0
  /\ running \union finished = Given
  /\ ~Looping => closed /\ taken = fetched
  /\ Looping \/ pc = "grace" => ~cancelled
  /\ pc = "forced" => graceOver
  /\ pc \in {"background", "returned"} => running = {} \/ graceOver
  /\ cancelled => graceOver \/ pc = "returned"
  /\ storeClosed => pc = "returned"

\* The semaphore: the set of running handlers is finite, so its size is a number.
LEMMA RunningFinite ==
  ASSUME TypeOK
  PROVE  IsFiniteSet(running) /\ Cardinality(running) \in Nat
<1>1. IsFiniteSet(1 .. taken)
  BY FS_Interval DEF TypeOK
<1>2. IsFiniteSet(running)
  BY <1>1, FS_Subset DEF TypeOK
<1>. QED BY <1>2, FS_CardinalityType

LEMMA InitRunInv == Init => RunInv
<1>1. Cardinality({}) = 0
  BY FS_EmptySet
<1>2. 1 .. 0 = {}
  OBVIOUS
<1>. SUFFICES ASSUME Init PROVE RunInv
  OBVIOUS
<1>3. TypeOK
  <2>1. Cardinality(running) = 0
    BY <1>1, Zenon DEF Init
  <2>2. Cardinality(running) <= Slots
    BY <2>1, RuntimeAssumption
  <2>3. running \subseteq 1 .. taken /\ finished \subseteq 1 .. taken
        /\ running \intersect finished = {} /\ background \subseteq Background
    BY DEF Init
  <2>4. fetched \in 0 .. NumUpdates /\ taken \in 0 .. fetched
    BY RuntimeAssumption DEF Init
  <2>5. /\ signalled \in BOOLEAN /\ closed \in BOOLEAN /\ cancelled \in BOOLEAN
        /\ graceOver \in BOOLEAN /\ storeClosed \in BOOLEAN
        /\ pc = "receive"
    BY DEF Init
  <2>. QED BY <2>2, <2>3, <2>4, <2>5 DEF TypeOK
<1>4. Given = {} /\ Looping /\ pc = "receive"
  BY <1>2 DEF Init, Given, Looping
<1>5. running \union finished = {} /\ ~cancelled /\ ~storeClosed
  BY DEF Init
<1>. QED BY <1>3, <1>4, <1>5 DEF RunInv

LEMMA NextRunInv ==
  ASSUME RunInv, [Next]_vars
  PROVE  RunInv'
<1> USE RuntimeAssumption DEF polling, handlers, resources, Goto
<1>t. /\ taken \in Nat /\ fetched \in Nat /\ taken <= fetched
      /\ fetched <= NumUpdates /\ NumUpdates \in Nat
      /\ IsFiniteSet(running) /\ Cardinality(running) \in Nat
  BY RunningFinite DEF RunInv, TypeOK
<1>1. CASE Signal
  BY <1>1, <1>t DEF Signal, RunInv, TypeOK, Looping, Given
<1>2. CASE Fetch
  BY <1>2, <1>t DEF Fetch, RunInv, TypeOK, Looping, Given
<1>3. CASE CloseChannel
  BY <1>3, <1>t DEF CloseChannel, RunInv, TypeOK, Looping, Given
<1>4. CASE Receive
  BY <1>4, <1>t DEF Receive, RunInv, TypeOK, Looping, Given
<1>5. CASE Spawn
  <2>1. taken \in 1 .. taken /\ taken \notin running /\ taken \notin finished
    BY <1>5, <1>t DEF Spawn, RunInv, Given
  <2>2. Cardinality(running') = Cardinality(running) + 1
    BY <1>5, <2>1, <1>t, FS_AddElement DEF Spawn
  <2>3. Cardinality(running') <= Slots
    BY <1>5, <2>2, <1>t DEF Spawn, FreeSlot
  <2>4. running' \union finished' = 1 .. taken
    BY <1>5, <2>1, <1>t DEF Spawn, RunInv, Given
  <2>5. TypeOK'
    BY <1>5, <2>1, <2>3, <1>t DEF Spawn, RunInv, TypeOK
  <2>. QED BY <1>5, <2>4, <2>5, <1>t DEF Spawn, RunInv, Looping, Given
<1>6. CASE LoopEnds
  BY <1>6, <1>t DEF LoopEnds, RunInv, TypeOK, Looping, Given
<1>7. ASSUME NEW u \in Update, HandlerEnds(u)
      PROVE  RunInv'
  <2>1. Cardinality(running') <= Slots
    <3>1. Cardinality(running') <= Cardinality(running)
      BY <1>7, <1>t, FS_Subset DEF HandlerEnds
    <3>. QED BY <3>1, <1>7, <1>t, FS_Subset, FS_CardinalityType
             DEF HandlerEnds, RunInv, TypeOK
  <2>2. TypeOK'
    BY <1>7, <2>1, <1>t DEF HandlerEnds, RunInv, TypeOK
  <2>3. running' \union finished' = running \union finished
    BY <1>7 DEF HandlerEnds
  <2>. QED BY <1>7, <2>2, <2>3, <1>t DEF HandlerEnds, RunInv, Looping, Given
<1>8. CASE HandlersDrained
  BY <1>8, <1>t DEF HandlersDrained, Drained, RunInv, TypeOK, Looping, Given
<1>9. CASE GraceExceeded
  BY <1>9, <1>t DEF GraceExceeded, RunInv, TypeOK, Looping, Given
<1>10. CASE GiveUp
  BY <1>10, <1>t DEF GiveUp, RunInv, TypeOK, Looping, Given
<1>11. ASSUME NEW b \in Background, BackgroundStops(b)
       PROVE  RunInv'
  BY <1>11, <1>t DEF BackgroundStops, RunInv, TypeOK, Looping, Given
<1>12. CASE Return
  BY <1>12, <1>t DEF Return, RunInv, TypeOK, Looping, Given
<1>13. CASE UNCHANGED vars
  BY <1>13 DEF vars, RunInv, TypeOK, Looping, Given
<1>. QED
  BY <1>1, <1>2, <1>3, <1>4, <1>5, <1>6, <1>7, <1>8, <1>9, <1>10, <1>11, <1>12,
     <1>13 DEF Next, RunStep, Stopped

-----------------------------------------------------------------------------
(* SelfCheck.                                                                *)

\* What is left of a group's cooldown and the time since its last warning make
\* up a cooldown, unless the group may be warned early; a warning is in the
\* group for a moment before the cooldown starts.
Paced(g) ==
  g \in excused \/ Checks(g, "mark") \/ cooling[g] + since[g] >= Cooldown

SelfCheckInv ==
  /\ SelfCheckTypeOK
  /\ \A g \in Group : Paced(g)
  /\ Throttled

LEMMA InitSelfCheckInv == SelfCheckInit => SelfCheckInv
<1>. SUFFICES ASSUME SelfCheckInit PROVE SelfCheckInv
  OBVIOUS
<1>. USE SelfCheckAssumption DEF SelfCheckInit
<1>1. SelfCheckTypeOK
  BY DEF SelfCheckTypeOK, NoOne, Answer
<1>2. \A g \in Group : Paced(g)
  BY DEF Paced
<1>3. Throttled
  BY DEF Throttled, Checks
<1>. QED BY <1>1, <1>2, <1>3 DEF SelfCheckInv

\* The end of the process, and its new start, leave the loop idle.
LEMMA SelfCheckLost ==
  ASSUME SelfCheckTypeOK, MemoryLost, restarts' \in 0 .. MaxRestarts
  PROVE  SelfCheckInv'
<1>1. /\ stage' = "idle" /\ excused' = Group
      /\ todo' = {} /\ current' = NoOne /\ answers' = {}
      /\ UNCHANGED <<bindings, since>> /\ cooling' = [g \in Group |-> 0]
  BY DEF MemoryLost, Enter
<1>2. cooling' \in [Group -> 0 .. Cooldown]
  BY <1>1, SelfCheckAssumption
<1>3. SelfCheckTypeOK'
  BY <1>1, <1>2 DEF SelfCheckTypeOK, NoOne, Answer
<1>. QED BY <1>1, <1>3 DEF SelfCheckInv, Paced, Throttled, Checks

\* Restarts are bounded, so the count keeps its type.
LEMMA RestartCounts ==
  ASSUME SelfCheckTypeOK, Restart
  PROVE  restarts' \in 0 .. MaxRestarts
BY SelfCheckAssumption DEF SelfCheckTypeOK, Restart

\* Types, and that the loop works on a group between taking it from the list
\* and taking the next one.
LEMMA SelfCheckTypes ==
  ASSUME SelfCheckTypeOK, [SelfCheckNext]_selfCheckVars
  PROVE  SelfCheckTypeOK'
<1>. USE SelfCheckAssumption DEF SelfCheckTypeOK, Enter, history, Checks
<1>1. CASE List
  BY <1>1 DEF List
<1>2. CASE ListFails \/ UNCHANGED selfCheckVars
  BY <1>2 DEF ListFails, selfCheckVars
<1>3. CASE TickEnds
  BY <1>3 DEF TickEnds, Answer
<1>4. ASSUME NEW g \in Group, NextBinding(g) PROVE SelfCheckTypeOK'
  BY <1>4 DEF NextBinding, NoOne, Answer
<1>5. ASSUME NEW g \in Group, NEW a \in Answer, CheckChannel(g, a) \/ CheckGroup(g, a)
      PROVE  SelfCheckTypeOK'
  <2>1. answers' \subseteq Answer
    BY <1>5 DEF CheckChannel, CheckGroup
  <2>. QED BY <1>5, <2>1 DEF CheckChannel, CheckGroup
<1>6. ASSUME NEW g \in Group, Warn(g) \/ KeepQuiet(g) \/ SendFails(g)
      PROVE  SelfCheckTypeOK'
  BY <1>6 DEF Warn, KeepQuiet, SendFails
<1>7. ASSUME NEW g \in Group, Recovered(g) PROVE SelfCheckTypeOK'
  BY <1>7 DEF Recovered
<1>8. ASSUME NEW g \in Group, SendSucceeds(g) \/ SendAnswerLost(g)
      PROVE  SelfCheckTypeOK'
  BY <1>8 DEF SendSucceeds, SendAnswerLost, Delivered
<1>9. ASSUME NEW g \in Group, MarkWarned(g) PROVE SelfCheckTypeOK'
  BY <1>9 DEF MarkWarned
<1>10. ASSUME NEW g \in Group, Bind(g) \/ Unbind(g) PROVE SelfCheckTypeOK'
  BY <1>10 DEF Bind, Unbind
<1>11. CASE Clock
  <2>1. /\ cooling' \in [Group -> 0 .. Cooldown] /\ since' \in [Group -> 0 .. Cooldown]
    BY <1>11 DEF Clock
  <2>. QED BY <1>11, <2>1 DEF Clock
<1>12. CASE Restart
  BY <1>12, SelfCheckLost, RestartCounts DEF Restart, SelfCheckInv
<1>. QED
  BY <1>1, <1>2, <1>3, <1>4, <1>5, <1>6, <1>7, <1>8, <1>9, <1>10, <1>11, <1>12
     DEF SelfCheckNext, Tick, Check

LEMMA NextSelfCheckInv ==
  ASSUME SelfCheckInv, [SelfCheckNext]_selfCheckVars
  PROVE  SelfCheckInv'
<1>1. SelfCheckTypeOK /\ SelfCheckTypeOK'
  BY SelfCheckTypes DEF SelfCheckInv
<1>2. /\ Cooldown \in Nat \ {0}
      /\ \A g \in Group : cooling[g] \in 0 .. Cooldown /\ since[g] \in 0 .. Cooldown
  BY <1>1, SelfCheckAssumption DEF SelfCheckTypeOK
<1>3. \A g \in Group : Paced(g)
  BY DEF SelfCheckInv
<1>. USE DEF Enter, history, Checks
<1>4. CASE \/ List \/ TickEnds
           \/ \E g \in Group : \/ NextBinding(g) \/ KeepQuiet(g) \/ SendFails(g)
                               \/ \E a \in Answer : CheckChannel(g, a) \/ CheckGroup(g, a)
  <2>1. UNCHANGED <<cooling, since, excused>> /\ stage # "mark" /\ stage' # "send"
    BY <1>4 DEF List, TickEnds, NextBinding, KeepQuiet, SendFails, CheckChannel, CheckGroup
  <2>. QED BY <1>1, <1>3, <2>1 DEF SelfCheckInv, Paced, Throttled
<1>5. ASSUME NEW g \in Group, Warn(g) PROVE SelfCheckInv'
  <2>1. /\ UNCHANGED <<cooling, since, excused, current>> /\ current = g
        /\ stage = "judge" /\ stage' = "send" /\ cooling[g] = 0
    BY <1>5 DEF Warn, CanWarn
  <2>2. since[g] = Cooldown \/ g \in excused
    BY <2>1, <1>2, <1>3 DEF Paced
  <2>. QED BY <1>1, <1>3, <2>1, <2>2 DEF SelfCheckInv, Paced, Throttled
<1>6. ASSUME NEW g \in Group, Recovered(g) PROVE SelfCheckInv'
  <2>1. /\ excused' = excused \union {g} /\ since' = since
        /\ \A x \in Group \ {g} : cooling'[x] = cooling[x]
        /\ stage = "judge" /\ stage' = "next"
    BY <1>1, <1>6 DEF Recovered, BothClean, SelfCheckTypeOK
  <2>. QED BY <1>1, <1>3, <2>1 DEF SelfCheckInv, Paced, Throttled
<1>7. ASSUME NEW g \in Group, SendSucceeds(g) PROVE SelfCheckInv'
  <2>1. /\ excused' = excused \ {g} /\ cooling' = cooling
        /\ \A x \in Group \ {g} : since'[x] = since[x]
        /\ stage = "send" /\ stage' = "mark" /\ current' = g
    BY <1>1, <1>7 DEF SendSucceeds, Delivered, SelfCheckTypeOK
  <2>. QED BY <1>1, <1>3, <2>1 DEF SelfCheckInv, Paced, Throttled
<1>8. ASSUME NEW g \in Group, SendAnswerLost(g) PROVE SelfCheckInv'
  <2>1. /\ excused' = excused \union {g} /\ cooling' = cooling
        /\ \A x \in Group \ {g} : since'[x] = since[x]
        /\ stage = "send" /\ stage' = "next"
    BY <1>1, <1>8 DEF SendAnswerLost, Delivered, SelfCheckTypeOK
  <2>. QED BY <1>1, <1>3, <2>1 DEF SelfCheckInv, Paced, Throttled
<1>9. ASSUME NEW g \in Group, MarkWarned(g) PROVE SelfCheckInv'
  <2>1. /\ UNCHANGED <<excused, since>> /\ cooling'[g] = Cooldown
        /\ \A x \in Group \ {g} : cooling'[x] = cooling[x]
        /\ current = g /\ stage' = "next"
    BY <1>1, <1>9 DEF MarkWarned, SelfCheckTypeOK
  <2>2. cooling'[g] + since'[g] >= Cooldown
    BY <1>2, <2>1
  <2>. QED BY <1>1, <1>3, <2>1, <2>2 DEF SelfCheckInv, Paced, Throttled
<1>10. CASE Clock
  <2>1. /\ UNCHANGED <<excused, stage, current>>
        /\ \A g \in Group :
             /\ cooling'[g] = IF cooling[g] = 0 THEN 0 ELSE cooling[g] - 1
             /\ since'[g] = IF since[g] = Cooldown THEN Cooldown ELSE since[g] + 1
    BY <1>10 DEF Clock
  <2>2. ASSUME NEW g \in Group PROVE Paced(g)'
    <3>1. CASE cooling[g] + since[g] >= Cooldown
      BY <1>2, <2>1, <3>1 DEF Paced
    <3>. QED BY <1>3, <2>1, <3>1 DEF Paced
  <2>3. Throttled'
    BY <2>1 DEF SelfCheckInv, Throttled
  <2>. QED BY <1>1, <2>2, <2>3 DEF SelfCheckInv
<1>11. CASE Restart
  BY <1>1, <1>11, SelfCheckLost, RestartCounts DEF Restart
<1>12. CASE \/ ListFails \/ UNCHANGED selfCheckVars
            \/ \E g \in Group : Bind(g) \/ Unbind(g)
  <2>1. UNCHANGED <<cooling, since, excused, stage, current>>
    BY <1>12 DEF ListFails, selfCheckVars, Bind, Unbind
  <2>. QED BY <1>1, <1>3, <2>1 DEF SelfCheckInv, Paced, Throttled
<1>. QED
  BY <1>4, <1>5, <1>6, <1>7, <1>8, <1>9, <1>10, <1>11, <1>12
     DEF SelfCheckNext, Tick, Check

-----------------------------------------------------------------------------
(* The process.                                                              *)

\* A step of the process is for each of its parts a step, a stutter, or its
\* start or end.
LEMMA ProcessSteps ==
  ASSUME [ProcessNext]_processVars
  PROVE  /\ [Next]_vars \/ NewProcess
         /\ [SelfCheckNext]_selfCheckVars \/ Exit
<1>1. CASE RunGoesOn \/ ChannelCloses \/ Environment \/ LoopStops
           \/ \E u \in Update : HandlerDone(u)
  <2>1. UNCHANGED selfCheckVars
    BY <1>1 DEF RunGoesOn, ChannelCloses, Environment, LoopStops, HandlerDone
  <2>2. Next
    BY <1>1 DEF RunGoesOn, ChannelCloses, Environment, LoopStops, HandlerDone, Next,
                Background
  <2>. QED BY <2>1, <2>2
<1>2. CASE SelfCheckTick
  BY <1>2 DEF SelfCheckTick, LoopRuns, SelfCheckNext
<1>3. CASE CommandRuns
  BY <1>3 DEF CommandRuns, SelfCheckNext
<1>4. CASE TimePasses
  BY <1>4 DEF TimePasses, SelfCheckNext
<1>5. CASE NewProcess
  BY <1>5 DEF NewProcess, SelfCheckNext
<1>6. CASE Exit
  BY <1>6 DEF Exit, Next, RunStep
<1>7. CASE UNCHANGED processVars
  BY <1>7 DEF processVars
<1>. QED BY <1>1, <1>2, <1>3, <1>4, <1>5, <1>6, <1>7 DEF ProcessNext

ProcessInv == RunInv /\ SelfCheckInv

LEMMA NextProcessInv ==
  ASSUME ProcessInv, [ProcessNext]_processVars, Init' => RunInv'
  PROVE  ProcessInv'
<1>1. RunInv'
  <2>1. CASE NewProcess
    <3>1. Init'
      BY <2>1 DEF NewProcess, Init, Goto
    <3>. QED BY <3>1
  <2>. QED BY <2>1, ProcessSteps, NextRunInv DEF ProcessInv
<1>2. SelfCheckInv'
  <2>1. CASE Exit
    <3>1. SelfCheckTypeOK /\ MemoryLost /\ restarts' \in 0 .. MaxRestarts
      BY <2>1 DEF Exit, ProcessInv, SelfCheckInv, SelfCheckTypeOK
    <3>. QED BY <3>1, SelfCheckLost
  <2>. QED BY <2>1, ProcessSteps, NextSelfCheckInv DEF ProcessInv
<1>. QED BY <1>1, <1>2 DEF ProcessInv

LEMMA ProcessInvariant == ProcessSpec => []ProcessInv
<1>1. ProcessInit => ProcessInv
  BY InitRunInv, InitSelfCheckInv DEF ProcessInit, ProcessInv
<1>2. Init' => RunInv'
  BY InitRunInv, PTL
<1>3. ProcessInv /\ [ProcessNext]_processVars => ProcessInv'
  BY <1>2, NextProcessInv
<1>. QED BY <1>1, <1>3, PTL DEF ProcessSpec

-----------------------------------------------------------------------------
\* The variables of the runtime keep their types; at most Slots handlers run at
\* once, and no update is both running and finished.
THEOREM TypeCorrect == ProcessSpec => []TypeOK
<1>1. ProcessInv => TypeOK
  BY DEF ProcessInv, RunInv
<1>. QED BY <1>1, ProcessInvariant, PTL

\* A graceful shutdown loses no fetched update: when the loop is over, each has
\* been given to a handler.
THEOREM FetchedTheorem == ProcessSpec => []FetchedAreHandled
<1>1. ProcessInv => FetchedAreHandled
  BY DEF ProcessInv, RunInv, FetchedAreHandled, Looping, Given
<1>. QED BY <1>1, ProcessInvariant, PTL

\* Nobody takes the context or the database away from a running handler before
\* the end of the grace period.
THEOREM ResourcesTheorem == ProcessSpec => []HandlersKeepResources
<1>1. ProcessInv => HandlersKeepResources
  BY DEF ProcessInv, RunInv, HandlersKeepResources
<1>. QED BY <1>1, ProcessInvariant, PTL

\* The variables of the self-check keep their types, and the loop works on a
\* group exactly between taking it from the list and taking the next one.
THEOREM SelfCheckTypeCorrect == ProcessSpec => []SelfCheckTypeOK
<1>1. ProcessInv => SelfCheckTypeOK
  BY DEF ProcessInv, SelfCheckInv
<1>. QED BY <1>1, ProcessInvariant, PTL

\* A group is warned again before its cooldown is over only after a recovery, a
\* restart or a lost answer, also when a shutdown interrupts the self-check.
THEOREM ThrottleTheorem == ProcessSpec => []Throttled
<1>1. ProcessInv => Throttled
  BY DEF ProcessInv, SelfCheckInv
<1>. QED BY <1>1, ProcessInvariant, PTL
==============================================================================
