------------------------------ MODULE BotProcess ------------------------------
(***************************************************************************)
(* The process that runtime.Run is: the dispatch loop with its handlers    *)
(* and its shutdown (UpdateRuntime), and the self-check loop beside it     *)
(* (SelfCheck).  The handlers run the commands that bind and unbind, the   *)
(* signal stops the self-check between two ticks only, Run's end cuts it   *)
(* off wherever it is, and a process that was killed or has ended is       *)
(* started again with empty cooldowns.                                     *)
(***************************************************************************)
EXTENDS UpdateRuntime, SelfCheck

processVars == <<vars, selfCheckVars>>

-----------------------------------------------------------------------------
\* Run up to its return, long polling, and the other background loop.
RunGoesOn == RunStep /\ pc' # "returned" /\ UNCHANGED selfCheckVars

ChannelCloses == CloseChannel /\ UNCHANGED selfCheckVars

HandlerDone(u) == HandlerEnds(u) /\ UNCHANGED selfCheckVars

Environment ==
  /\ Signal \/ Fetch \/ BackgroundStops("cleanupLoop")
  /\ UNCHANGED selfCheckVars

\* Run's context is looked at between two ticks.  A tick that the signal
\* interrupts goes on: its calls fail, or their answers are lost.
LoopStops ==
  /\ stage = "idle"
  /\ BackgroundStops("SelfCheck")
  /\ UNCHANGED selfCheckVars

LoopRuns == pc # "returned" /\ "SelfCheck" \in background /\ UNCHANGED vars

SelfCheckTick == (Tick \/ ListFails) /\ LoopRuns

WarningArrives(g) == SendSucceeds(g) /\ LoopRuns

\* Run returns, and the goroutines that are left end with the process.
Exit ==
  /\ Return
  /\ MemoryLost
  /\ UNCHANGED restarts

\* /bind and /unbind: a handler is running.
CommandRuns ==
  /\ running # {}
  /\ \E g \in Group : Bind(g) \/ Unbind(g)
  /\ UNCHANGED vars

TimePasses == Clock /\ UNCHANGED vars

\* The process is killed before a signal, or has ended, and is started again;
\* a second batch of updates waits for it.
NewProcess ==
  /\ ~signalled \/ pc = "returned"
  /\ Restart
  /\ signalled' = FALSE /\ closed' = FALSE /\ cancelled' = FALSE
  /\ graceOver' = FALSE /\ storeClosed' = FALSE
  /\ fetched' = 0 /\ taken' = 0
  /\ Goto("receive")
  /\ running' = {} /\ finished' = {}
  /\ background' = Background

ProcessInit == Init /\ SelfCheckInit

ProcessNext ==
  \/ RunGoesOn \/ ChannelCloses \/ Environment \/ Exit
  \/ \E u \in Update : HandlerDone(u)
  \/ SelfCheckTick \/ LoopStops \/ CommandRuns
  \/ TimePasses \/ NewProcess

\* Goroutines run and timers fire, telego closes its channel, every handler ends
\* since its API calls have timeouts, time passes, and a warning that is sent
\* again and again is accepted again and again.
ProcessSpec ==
  /\ ProcessInit /\ [][ProcessNext]_processVars
  /\ WF_processVars(RunGoesOn \/ Exit) /\ WF_processVars(ChannelCloses)
  /\ \A u \in Update : WF_processVars(HandlerDone(u))
  /\ WF_processVars(SelfCheckTick) /\ WF_processVars(TimePasses)
  /\ \A g \in Group : SF_processVars(WarningArrives(g))
==============================================================================
