--------------------------- MODULE ApiClient_proofs ---------------------------
(* Proofs about ApiClient, for all callers, chats, pauses and buckets.        *)
EXTENDS ApiClient, TLAPS

Call == [pc : {"idle", "check", "sleep", "token", "sent"}, chat : Chat,
         wait : 0 .. MaxRetry, late : BOOLEAN]

LEMMA IdleCall == Idle \in Call /\ Idle.pc = "idle"
<1>1. AnyChat \in Chat
  BY ClientAssumption DEF AnyChat
<1>. QED BY <1>1, ClientAssumption DEF Idle, Call

\* The longer of two pauses is a pause, and no shorter than either.
LEMMA ProlongedFacts ==
  ASSUME NEW m \in 0 .. MaxRetry, NEW n \in 0 .. MaxRetry
  PROVE  Prolonged(m, n) \in 0 .. MaxRetry /\ Prolonged(m, n) >= m
BY ClientAssumption DEF Prolonged, Longer

LEMMA BeforeFacts ==
  ASSUME NEW n \in 0 .. MaxRetry
  PROVE  Before(n) \in 0 .. MaxRetry /\ Before(n) <= n
BY ClientAssumption DEF Before

\* A caller's step that is not a 429 answer keeps the types when it replaces
\* the caller's record by another one.
LEMMA CallReplaced ==
  ASSUME TypeOK, NEW c \in Caller, NEW r \in Call,
         call' = [call EXCEPT ![c] = r], UNCHANGED pause, tokens' \in 0 .. Burst
  PROVE  /\ TypeOK' /\ call'[c] = r
         /\ \A x \in Caller \ {c} : call'[x] = call[x]
BY DEF TypeOK, Call

Inv == TypeOK /\ PausedCallersWait

LEMMA InitInv == Init => Inv
<1>1. ASSUME Init PROVE TypeOK
  BY <1>1, IdleCall, ClientAssumption DEF Init, TypeOK, Call
<1>2. ASSUME Init PROVE PausedCallersWait
  BY <1>2, IdleCall DEF Init, PausedCallersWait
<1>. QED BY <1>1, <1>2 DEF Inv

\* acquire and the ordinary end of a request.
LEMMA CallerStep ==
  ASSUME Inv, NEW c \in Caller,
         \/ \E chat \in Chat : Start(c, chat)
         \/ CheckPause(c) \/ WakeUp(c) \/ TakeToken(c) \/ Cancel(c) \/ Answer(c)
  PROVE  Inv' /\ UNCHANGED pause
<1>t. /\ call[c] \in Call /\ call \in [Caller -> Call]
      /\ tokens \in 0 .. Burst /\ Burst \in Nat /\ MaxRetry \in Nat
      /\ pause \in [Chat -> 0 .. MaxRetry]
  BY ClientAssumption DEF Inv, TypeOK, Call
<1> DEFINE r == call'[c]
<1>wait. ASSUME r \in Call, call' = [call EXCEPT ![c] = r], UNCHANGED pause,
                tokens' \in 0 .. Burst,
                r.pc \in {"token", "sent"} /\ pause[r.chat] > 0 => r.late
         PROVE  Inv'
  <2>1. /\ TypeOK' /\ \A x \in Caller \ {c} : call'[x] = call[x]
    BY <1>wait, CallReplaced DEF Inv
  <2>2. PausedCallersWait'
    BY <2>1, <1>wait DEF Inv, PausedCallersWait
  <2>. QED BY <2>1, <2>2 DEF Inv
<1>1. ASSUME NEW chat \in Chat, Start(c, chat)
      PROVE  Inv' /\ UNCHANGED pause
  <2>1. r = [pc |-> "check", chat |-> chat, wait |-> Idle.wait,
             late |-> Idle.late]
    BY <1>1, <1>t DEF Start, Idle
  <2>2. r \in Call
    BY <2>1, IdleCall DEF Call
  <2>. QED BY <1>1, <1>t, <1>wait, <2>1, <2>2 DEF Start
<1>2. CASE CheckPause(c)
  <2>p. pause[call[c].chat] \in 0 .. MaxRetry /\ call[c].chat \in Chat
    BY <1>t DEF Call
  <2>1. CASE pause[call[c].chat] = 0
    <3>1. r = [call[c] EXCEPT !.pc = "token"]
      BY <1>2, <2>1, <1>t DEF CheckPause
    <3>2. r \in Call /\ r.chat = call[c].chat
      BY <3>1, <1>t DEF Call
    <3>. QED BY <1>2, <2>1, <2>p, <3>1, <3>2, <1>t, <1>wait DEF CheckPause
  <2>2. CASE pause[call[c].chat] # 0
    <3>1. r = [pc |-> "sleep", chat |-> call[c].chat,
               wait |-> pause[call[c].chat], late |-> call[c].late]
      BY <1>2, <2>2, <1>t DEF CheckPause, Call
    <3>2. r \in Call
      BY <3>1, <2>p, <1>t DEF Call
    <3>. QED BY <1>2, <2>2, <3>1, <3>2, <1>t, <1>wait DEF CheckPause
  <2>. QED BY <2>1, <2>2
<1>3. CASE WakeUp(c)
  <2>1. r = [call[c] EXCEPT !.pc = "check"] /\ r \in Call
    BY <1>3, <1>t DEF WakeUp, Goto, Call
  <2>. QED BY <1>3, <2>1, <1>t, <1>wait DEF WakeUp, Goto, Call
<1>4. CASE TakeToken(c)
  <2>1. r = [call[c] EXCEPT !.pc = "sent"] /\ r \in Call
        /\ r.chat = call[c].chat /\ r.late = call[c].late
    BY <1>4, <1>t DEF TakeToken, Goto, Call
  <2>2. pause[call[c].chat] > 0 => call[c].late
    BY <1>4 DEF TakeToken, Inv, PausedCallersWait
  <2>3. tokens' \in 0 .. Burst
    BY <1>4, <1>t DEF TakeToken
  <2>. QED BY <1>4, <2>1, <2>2, <2>3, <1>t, <1>wait DEF TakeToken, Goto
<1>5. CASE Cancel(c)
  BY <1>5, IdleCall, <1>t, <1>wait DEF Cancel
<1>6. CASE Answer(c)
  BY <1>6, IdleCall, <1>t, <1>wait DEF Answer
<1>. QED BY <1>1, <1>2, <1>3, <1>4, <1>5, <1>6

\* A 429 answer marks the callers that can no longer be stopped as late.
LEMMA TooManyStep ==
  ASSUME Inv, NEW c \in Caller, NEW d \in 1 .. MaxRetry, TooManyRequests(c, d)
  PROVE  Inv' /\ \A chat \in Chat : pause'[chat] >= pause[chat]
<1> DEFINE own == call[c].chat
<1>t. /\ call \in [Caller -> Call] /\ own \in Chat /\ MaxRetry \in Nat
      /\ pause \in [Chat -> 0 .. MaxRetry] /\ d \in 0 .. MaxRetry
  BY ClientAssumption DEF Inv, TypeOK, Call
<1>1. /\ pause' = [pause EXCEPT ![own] = Prolonged(pause[own], d)]
      /\ Prolonged(pause[own], d) \in 0 .. MaxRetry
      /\ Prolonged(pause[own], d) >= pause[own]
  BY <1>t, ProlongedFacts DEF TooManyRequests
<1>2. pause' \in [Chat -> 0 .. MaxRetry]
      /\ \A chat \in Chat : pause'[chat] >= pause[chat]
  BY <1>1, <1>t
<1>3. call' = [Late(own) EXCEPT ![c] = Idle] /\ tokens' = tokens
  BY DEF TooManyRequests
<1>4. Late(own) \in [Caller -> Call]
  <2>1. \A x \in Caller : [call[x] EXCEPT !.late = TRUE] \in Call
    BY <1>t DEF Call
  <2>. QED BY <2>1, <1>t DEF Late
<1>5. call' \in [Caller -> Call]
  BY <1>3, <1>4, IdleCall
<1>6. TypeOK'
  BY <1>2, <1>3, <1>5 DEF Inv, TypeOK, Call
<1>7. ASSUME NEW x \in Caller, call'[x].pc \in {"token", "sent"},
             pause'[call'[x].chat] > 0
      PROVE  call'[x].late
  <2>1. x # c
    BY <1>3, <1>4, <1>7, IdleCall
  <2>2. call'[x] = IF call[x].chat = own /\ call[x].pc \in {"token", "sent"}
                   THEN [call[x] EXCEPT !.late = TRUE] ELSE call[x]
    BY <1>3, <1>4, <2>1 DEF Late
  <2>x. call[x] \in Call
    BY <1>t
  <2>3. CASE call[x].chat = own /\ call[x].pc \in {"token", "sent"}
    BY <2>2, <2>3, <2>x DEF Call
  <2>4. CASE ~(call[x].chat = own /\ call[x].pc \in {"token", "sent"})
    <3>1. call'[x] = call[x] /\ call[x].chat # own
      BY <2>2, <2>4, <1>7
    <3>2. pause'[call[x].chat] = pause[call[x].chat]
      BY <3>1, <1>1, <1>t, <2>x DEF Call
    <3>. QED BY <3>1, <3>2, <1>7 DEF Inv, PausedCallersWait
  <2>. QED BY <2>3, <2>4
<1>. QED BY <1>2, <1>6, <1>7 DEF Inv, PausedCallersWait

LEMMA TickStep ==
  ASSUME Inv, Tick
  PROVE  Inv'
<1>t. /\ call \in [Caller -> Call] /\ pause \in [Chat -> 0 .. MaxRetry]
      /\ tokens \in 0 .. Burst
  BY DEF Inv, TypeOK, Call
<1>1. /\ pause' \in [Chat -> 0 .. MaxRetry]
      /\ \A chat \in Chat : pause'[chat] <= pause[chat]
  BY <1>t, BeforeFacts, ClientAssumption DEF Tick
<1>2. tokens' \in 0 .. Burst
  BY <1>t, ClientAssumption DEF Tick, Smaller
<1>3. ASSUME NEW x \in Caller
      PROVE  /\ call'[x] \in Call /\ call'[x].pc = call[x].pc
             /\ call'[x].chat = call[x].chat /\ call'[x].late = call[x].late
  <2>1. call[x] \in Call /\ Before(call[x].wait) \in 0 .. MaxRetry
    BY <1>t, BeforeFacts DEF Call
  <2>2. call'[x] = [call[x] EXCEPT !.wait = Before(call[x].wait)]
    BY DEF Tick
  <2>. QED BY <2>1, <2>2 DEF Call
<1>4. call' \in [Caller -> Call]
  BY <1>3 DEF Tick
<1>5. TypeOK'
  BY <1>1, <1>2, <1>4 DEF TypeOK, Call
<1>6. PausedCallersWait'
  <2>1. ASSUME NEW x \in Caller, call'[x].pc \in {"token", "sent"},
               pause'[call'[x].chat] > 0
        PROVE  call'[x].late
    <3>1. call[x].chat \in Chat
      BY <1>t DEF Call
    <3>2. pause[call[x].chat] > 0
      BY <3>1, <2>1, <1>3, <1>1, <1>t, ClientAssumption
    <3>. QED BY <3>2, <2>1, <1>3 DEF Inv, PausedCallersWait
  <2>. QED BY <2>1 DEF PausedCallersWait
<1>. QED BY <1>5, <1>6 DEF Inv

LEMMA NextInv ==
  ASSUME Inv, [Next]_vars
  PROVE  Inv' /\ (Tick \/ \A chat \in Chat : pause'[chat] >= pause[chat])
<1>p. \A chat \in Chat : pause[chat] \in Nat /\ pause[chat] >= pause[chat]
  BY ClientAssumption DEF Inv, TypeOK
<1>1. ASSUME NEW c \in Caller,
             \/ \E chat \in Chat : Start(c, chat)
             \/ CheckPause(c) \/ WakeUp(c) \/ TakeToken(c) \/ Cancel(c)
             \/ Answer(c)
      PROVE  Inv' /\ \A chat \in Chat : pause'[chat] >= pause[chat]
  <2>1. Inv' /\ pause' = pause
    BY <1>1, CallerStep
  <2>. QED BY <2>1, <1>p
<1>2. CASE TooMany
  BY <1>2, TooManyStep DEF TooMany
<1>3. CASE Tick
  BY <1>3, TickStep
<1>4. CASE UNCHANGED vars
  <2>1. Inv' /\ pause' = pause
    BY <1>4 DEF vars, Inv, TypeOK, PausedCallersWait
  <2>. QED BY <2>1, <1>p
<1>. QED BY <1>1, <1>2, <1>3, <1>4 DEF Next

LEMMA Invariance == Spec => []Inv
<1>1. Inv /\ [Next]_vars => Inv'
  BY NextInv
<1>. QED BY InitInv, <1>1, PTL DEF Spec

-----------------------------------------------------------------------------
\* The variables of the client keep their types: no pause is longer than the
\* longest retry_after, and the bucket neither overflows nor goes into debt.
THEOREM TypeCorrect == Spec => []TypeOK
<1>1. Inv => TypeOK
  BY DEF Inv
<1>. QED BY <1>1, Invariance, PTL

\* Requests go out during a pause of their chat only from callers that had
\* passed the check before the 429 arrived.
THEOREM PauseTheorem == Spec => []PausedCallersWait
<1>1. Inv => PausedCallersWait
  BY DEF Inv
<1>. QED BY <1>1, Invariance, PTL

\* setPause never shortens a pause in force; only time does.
THEOREM NeverShorter == Spec => PauseNeverShortens
<1>1. Inv /\ [Next]_vars =>
        [Tick \/ \A chat \in Chat : pause'[chat] >= pause[chat]]_vars
  BY NextInv
<1>. QED BY <1>1, Invariance, PTL DEF Spec, PauseNeverShortens
==============================================================================
