------------------------------ MODULE ApiClient ------------------------------
(***************************************************************************)
(* The rate-limited Telegram client, telegram.TelegoClient: the per-chat   *)
(* pause after a 429 answer and the token bucket shared by every call.     *)
(* acquire checks the pause under the mutex, sleeps without it, looks      *)
(* again, and then waits for a token; the request itself comes after that. *)
(*                                                                         *)
(* Times are kept as the time left, so a tick of the clock lowers them.    *)
(* The field late is history: no guard of the program reads it.            *)
(***************************************************************************)
EXTENDS Naturals

CONSTANTS
  Caller,      \* goroutines with one API call each
  Chat,
  MaxRetry,    \* largest retry_after of a 429 answer, in ticks
  Burst,       \* capacity of the token bucket (30)
  Refill       \* tokens added per tick (30 per second)

ASSUME ClientAssumption ==
  Chat # {} /\ MaxRetry \in Nat /\ Burst \in Nat \ {0} /\ Refill \in Nat \ {0}

VARIABLES
  pause,      \* chatPause: how long a chat is paused, 0 when there is no pause
  tokens,     \* rate.Limiter: tokens in the bucket
  call        \* what each caller is doing

vars == <<pause, tokens, call>>

AnyChat == CHOOSE c \in Chat : TRUE
Idle == [pc |-> "idle", chat |-> AnyChat, wait |-> 0, late |-> FALSE]
Goto(c, pc) == call' = [call EXCEPT ![c].pc = pc]

Smaller(m, n) == IF m < n THEN m ELSE n
Longer(m, n) == IF m > n THEN m ELSE n

-----------------------------------------------------------------------------
(* acquire.                                                                *)

Start(c, chat) ==
  /\ call[c].pc = "idle"
  /\ call' = [call EXCEPT ![c] = [Idle EXCEPT !.pc = "check", !.chat = chat]]
  /\ UNCHANGED <<pause, tokens>>

\* One look at the pause, under the mutex; an elapsed one is deleted.
CheckPause(c) ==
  /\ call[c].pc = "check"
  /\ call' = IF pause[call[c].chat] = 0
             THEN [call EXCEPT ![c].pc = "token"]
             ELSE [call EXCEPT ![c].pc = "sleep",
                               ![c].wait = pause[call[c].chat]]
  /\ UNCHANGED <<pause, tokens>>

\* Mutant of WakeUp: a pause that was prolonged meanwhile is not noticed.
WakeUpAndGo(c) ==
  /\ call[c].pc = "sleep" /\ call[c].wait = 0
  /\ Goto(c, "token")
  /\ UNCHANGED <<pause, tokens>>

\* Mutant of WakeUp: the timer is started again.
SleepAgain(c) ==
  /\ call[c].pc = "sleep" /\ call[c].wait = 0
  /\ call' = [call EXCEPT ![c].wait = MaxRetry]
  /\ UNCHANGED <<pause, tokens>>

\* The timer fires: loop and check again.
WakeUp(c) ==
  /\ call[c].pc = "sleep" /\ call[c].wait = 0
  /\ Goto(c, "check")
  /\ UNCHANGED <<pause, tokens>>

\* limiter.Wait returns and the request is sent.
TakeToken(c) ==
  /\ call[c].pc = "token"
  /\ tokens > 0
  /\ tokens' = tokens - 1
  /\ Goto(c, "sent")
  /\ UNCHANGED pause

\* The caller's context ends while it sleeps or waits for its token.
Cancel(c) ==
  /\ call[c].pc \in {"sleep", "token"}
  /\ call' = [call EXCEPT ![c] = Idle]
  /\ UNCHANGED <<pause, tokens>>

-----------------------------------------------------------------------------
(* The answer.                                                             *)

\* A result, another error, or the request's own five-second timeout.
Answer(c) ==
  /\ call[c].pc = "sent"
  /\ call' = [call EXCEPT ![c] = Idle]
  /\ UNCHANGED <<pause, tokens>>

\* Mutants of Prolonged: the latest answer wins, or the pauses add up.
Replaced(old, d) == d
Added(old, d) == old + d

\* setPause keeps a pause that ends later.
Prolonged(old, d) == Longer(old, d)

\* History: the callers that have passed their check before the pause.
Late(chat) == [c \in Caller |->
  IF call[c].chat = chat /\ call[c].pc \in {"token", "sent"}
  THEN [call[c] EXCEPT !.late = TRUE] ELSE call[c]]

\* 429: handleAPIError pauses the chat (for a second if Telegram does not say).
TooManyRequests(c, d) ==
  /\ call[c].pc = "sent"
  /\ pause' = [pause EXCEPT ![call[c].chat] = Prolonged(@, d)]
  /\ call' = [Late(call[c].chat) EXCEPT ![c] = Idle]
  /\ UNCHANGED tokens

-----------------------------------------------------------------------------
Before(n) == IF n = 0 THEN 0 ELSE n - 1

Tick ==
  /\ pause' = [chat \in Chat |-> Before(pause[chat])]
  /\ tokens' = Smaller(Burst, tokens + Refill)
  /\ call' = [c \in Caller |-> [call[c] EXCEPT !.wait = Before(@)]]

Init ==
  /\ pause = [chat \in Chat |-> 0]
  /\ tokens = Burst
  /\ call = [c \in Caller |-> Idle]

TooMany == \E c \in Caller, d \in 1 .. MaxRetry : TooManyRequests(c, d)

Next ==
  \/ \E c \in Caller :
       \/ \E chat \in Chat : Start(c, chat)
       \/ CheckPause(c) \/ WakeUp(c) \/ TakeToken(c) \/ Cancel(c) \/ Answer(c)
  \/ TooMany
  \/ Tick

\* Time passes, goroutines run, a request ends by an answer or its timeout, and
\* the limiter serves its waiters in turn.  Calls need not start or be cancelled.
Fairness ==
  /\ WF_vars(Tick)
  /\ \A c \in Caller :
       /\ WF_vars(CheckPause(c)) /\ WF_vars(WakeUp(c))
       /\ SF_vars(TakeToken(c))
       /\ WF_vars(Answer(c) \/ \E d \in 1 .. MaxRetry : TooManyRequests(c, d))

Spec == Init /\ [][Next]_vars /\ Fairness

-----------------------------------------------------------------------------
(* Properties.                                                             *)

\* Every variable keeps its type, and no pause exceeds what Telegram asked for.
TypeOK ==
  /\ pause \in [Chat -> 0 .. MaxRetry]
  /\ tokens \in 0 .. Burst
  /\ call \in [Caller -> [pc : {"idle", "check", "sleep", "token", "sent"},
                          chat : Chat, wait : 0 .. MaxRetry, late : BOOLEAN]]

\* A request goes out during a pause of its chat only if its caller had passed
\* the check before the 429 arrived: whoever finds the chat paused, or starts
\* later, or slept through a prolongation, waits for the end of the pause.
PausedCallersWait ==
  \A c \in Caller :
    call[c].pc \in {"token", "sent"} /\ pause[call[c].chat] > 0 => call[c].late

\* A pause in force ends no earlier because of another 429; only time shortens
\* it.
PauseNeverShortens ==
  [][Tick \/ \A chat \in Chat : pause'[chat] >= pause[chat]]_vars

\* Once Telegram stops answering 429, every call comes to its end: pauses run
\* out, sleepers wake and the bucket serves everyone.
CallsReturn ==
  \A c \in Caller :
    <>[][~TooMany]_vars => (call[c].pc # "idle" ~> call[c].pc = "idle")
==============================================================================
