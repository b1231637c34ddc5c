---------------------------- MODULE UpdateRuntime ----------------------------
(***************************************************************************)
(* runtime.Run: long polling, the dispatch loop with its semaphore, the    *)
(* handlers, the background loops and the graceful shutdown.  Updates are  *)
(* numbered in the order Telegram hands them out; telego's goroutine puts  *)
(* them into a channel that it closes once the root context is cancelled.  *)
(***************************************************************************)
EXTENDS Naturals, FiniteSets

CONSTANTS
  NumUpdates,     \* bound on the number of updates
  Slots,          \* capacity of the semaphore (updateHandlerConcurrency)
  Buffer          \* capacity of telego's update channel

ASSUME RuntimeAssumption ==
  NumUpdates \in Nat /\ Slots \in Nat \ {0} /\ Buffer \in Nat \ {0}

Update == 1 .. NumUpdates
Background == {"cleanupLoop", "SelfCheck"}

VARIABLES
  signalled,    \* SIGINT or SIGTERM has cancelled rootCtx
  closed,       \* telego has closed the update channel
  fetched,      \* updates up to this one were put into the channel
  taken,        \* updates up to this one were received by the dispatch loop
  pc,           \* where Run is
  running,      \* updates whose handlers run
  finished,     \* updates whose handlers have ended, by return or panic
  cancelled,    \* cancelHandlers has been called
  graceOver,    \* history: the grace period has passed
  background,   \* background loops that have not stopped
  storeClosed   \* Run has returned and its deferred st.Close has run

vars == <<signalled, closed, fetched, taken, pc, running, finished, cancelled,
          graceOver, background, storeClosed>>

polling == <<signalled, closed, fetched>>
handlers == <<running, finished>>
resources == <<cancelled, graceOver, storeClosed>>
Goto(label) == pc' = label

-----------------------------------------------------------------------------
(* Long polling.                                                           *)

Signal ==
  /\ ~signalled
  /\ signalled' = TRUE
  /\ UNCHANGED <<closed, fetched, taken, pc, handlers, resources, background>>

Fetch ==
  /\ ~closed
  /\ fetched < NumUpdates
  /\ fetched - taken < Buffer
  /\ fetched' = fetched + 1
  /\ UNCHANGED <<signalled, closed, taken, pc, handlers, resources,
                 background>>

CloseChannel ==
  /\ signalled /\ ~closed
  /\ closed' = TRUE
  /\ UNCHANGED <<signalled, fetched, taken, pc, handlers, resources,
                 background>>

-----------------------------------------------------------------------------
(* The dispatch loop.                                                      *)

Receive ==
  /\ pc = "receive"
  /\ taken < fetched
  /\ taken' = taken + 1
  /\ Goto("slot")
  /\ UNCHANGED <<polling, handlers, resources, background>>

\* Mutant of FreeSlot: no limit on the handlers.
AlwaysFree == TRUE

FreeSlot == Cardinality(running) < Slots

\* The semaphore has a free slot: the update gets its goroutine.  The other
\* arm of the select, handlerCtx.Done, cannot be ready here: only GraceExceeded
\* and Return cancel it, and both come after the loop.
Spawn ==
  /\ pc = "slot"
  /\ FreeSlot
  /\ running' = running \union {taken}
  /\ Goto("receive")
  /\ UNCHANGED <<polling, taken, finished, resources, background>>

\* Mutant of LoopEnds: the loop stops as soon as it sees the signal.
LoopStopsAtSignal ==
  /\ pc = "receive"
  /\ signalled
  /\ Goto("grace")
  /\ UNCHANGED <<polling, taken, handlers, resources, background>>

\* The range over the channel ends when it is closed and drained.
LoopEnds ==
  /\ pc = "receive"
  /\ closed /\ taken = fetched
  /\ Goto("grace")
  /\ UNCHANGED <<polling, taken, handlers, resources, background>>

\* Mutant of HandlerEnds: the slot is not released.
HandlerKeepsSlot(u) ==
  /\ u \in running
  /\ finished' = finished \union {u}
  /\ UNCHANGED <<polling, taken, pc, running, resources, background>>

\* A handler returns, or panics and is recovered; both release the slot.
HandlerEnds(u) ==
  /\ u \in running
  /\ running' = running \ {u}
  /\ finished' = finished \union {u}
  /\ UNCHANGED <<polling, taken, pc, resources, background>>

-----------------------------------------------------------------------------
(* Shutdown.                                                               *)

\* Mutant of Drained: the handlers are not waited for.
NotWaitedFor == running \subseteq Update

\* handlerWG.Wait returns.
Drained == running = {}

HandlersDrained ==
  /\ pc \in {"grace", "forced"}
  /\ Drained
  /\ Goto("background")
  /\ UNCHANGED <<polling, taken, handlers, resources, background>>

\* Five seconds have passed.
GraceExceeded ==
  /\ pc = "grace"
  /\ graceOver' = TRUE
  /\ cancelled' = TRUE
  /\ Goto("forced")
  /\ UNCHANGED <<polling, taken, handlers, background, storeClosed>>

\* Another half second has passed.
GiveUp ==
  /\ pc = "forced"
  /\ Goto("background")
  /\ UNCHANGED <<polling, taken, handlers, resources, background>>

\* cleanupLoop and SelfCheck.Run notice rootCtx.Done.
BackgroundStops(b) ==
  /\ signalled
  /\ b \in background
  /\ background' = background \ {b}
  /\ UNCHANGED <<polling, taken, pc, handlers, resources>>

\* Both have stopped, or two seconds have passed: Run returns, and its deferred
\* calls cancel the handlers' context and close the store.
Return ==
  /\ pc = "background"
  /\ Goto("returned")
  /\ cancelled' = TRUE /\ storeClosed' = TRUE
  /\ UNCHANGED <<polling, taken, handlers, graceOver, background>>

\* The process has exited.
Stopped == pc = "returned" /\ UNCHANGED vars

Init ==
  /\ signalled = FALSE /\ closed = FALSE /\ cancelled = FALSE
  /\ graceOver = FALSE
  /\ fetched = 0 /\ taken = 0
  /\ pc = "receive"
  /\ running = {} /\ finished = {}
  /\ background = Background
  /\ storeClosed = FALSE

RunStep ==
  \/ Receive \/ Spawn \/ LoopEnds
  \/ HandlersDrained \/ GraceExceeded \/ GiveUp \/ Return

Next ==
  \/ Signal \/ Fetch \/ CloseChannel
  \/ RunStep
  \/ \E u \in Update : HandlerEnds(u)
  \/ \E b \in Background : BackgroundStops(b)
  \/ Stopped

\* Run's goroutine runs and its timers fire; telego closes its channel.
RunFairness == WF_vars(RunStep) /\ WF_vars(CloseChannel)

\* A handler may wait for a 429 pause, whose length Telegram chooses, until its
\* context is cancelled.
SpecLongPause == /\ Init /\ [][Next]_vars /\ RunFairness
                 /\ \A u \in Update : WF_vars(cancelled /\ HandlerEnds(u))

-----------------------------------------------------------------------------
(* Properties.                                                             *)

\* Every variable keeps its type; the semaphore bounds the handlers, and an
\* update is handled once, after it was received.
TypeOK ==
  /\ signalled \in BOOLEAN /\ closed \in BOOLEAN /\ cancelled \in BOOLEAN
  /\ graceOver \in BOOLEAN /\ storeClosed \in BOOLEAN
  /\ fetched \in 0 .. NumUpdates /\ taken \in 0 .. fetched
  /\ pc \in {"receive", "slot", "grace", "forced", "background", "returned"}
  /\ running \subseteq 1 .. taken /\ finished \subseteq 1 .. taken
  /\ running \intersect finished = {}
  /\ Cardinality(running) <= Slots
  /\ background \subseteq Background

\* Nothing that was fetched is lost by a graceful shutdown: once Run waits for
\* its handlers, every update in the channel has been given to one.
FetchedAreHandled ==
  pc \notin {"receive", "slot"} => running \union finished = 1 .. fetched

\* In-flight handlers keep their context and the database until they are done
\* or the grace period is over: neither the signal, nor the closed channel, nor
\* the calls that Run deferred take them away earlier.
HandlersKeepResources ==
  cancelled \/ storeClosed => running = {} \/ graceOver

\* After a signal the process comes to its end, however many updates are still
\* in the channel and in the semaphore's queue.
ShutdownCompletes == signalled ~> pc = "returned"

\* After a signal Run returns, even when handlers wait for Telegram until
\* their context is cancelled.
ShutdownNeverBlocks == signalled ~> pc = "returned"
==============================================================================
