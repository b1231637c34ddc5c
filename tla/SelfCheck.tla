------------------------------ MODULE SelfCheck ------------------------------
(***************************************************************************)
(* runtime.SelfCheck: a loop that asks Telegram for the bot's rights in    *)
(* every bound channel and group and warns the groups it can no longer     *)
(* guard, with a cooldown per group.  /bind and /unbind go on meanwhile;   *)
(* the process may be restarted at any step, which empties the cooldowns.  *)
(* Its names differ from those of UpdateRuntime, the other loop of the     *)
(* package, so that one module can hold the proofs about both.             *)
(***************************************************************************)
EXTENDS Naturals

CONSTANTS
  Group,
  Cooldown,     \* warnCooldown (one hour), in ticks of the clock
  MaxRestarts   \* bound on the number of restarts

ASSUME SelfCheckAssumption ==
  Cooldown \in Nat \ {0} /\ MaxRestarts \in Nat /\ "none" \notin Group

VARIABLES
  bindings,   \* the groups that are bound
  stage,      \* where the loop is
  todo,       \* bindings listed by this tick and not yet checked
  current,    \* the group being checked
  answers,    \* what its two checks have found
  cooling,    \* lastWarned: what is left of a group's cooldown
  restarts,
  since,      \* history: time since a group received a warning
  excused     \* history: groups that may be warned before their cooldown ends

selfCheckVars == <<bindings, stage, todo, current, answers, cooling, restarts,
                   since, excused>>
history == <<since, excused>>

NoOne == "none"
Answer == {"clean", "degraded", "transient"}
Enter(label) == stage' = label

-----------------------------------------------------------------------------
\* ListBindings fails: the tick is over.
ListFails ==
  /\ stage = "idle"
  /\ UNCHANGED selfCheckVars

List ==
  /\ stage = "idle"
  /\ todo' = bindings
  /\ Enter("next")
  /\ UNCHANGED <<bindings, current, answers, cooling, restarts, history>>

\* Mutant of NextBinding: the group stays in the list.
SameBinding(g) ==
  /\ stage = "next"
  /\ g \in todo
  /\ current' = g
  /\ answers' = {}
  /\ Enter("channel")
  /\ UNCHANGED <<bindings, todo, cooling, restarts, history>>

\* The next binding of the list, in no particular order.
NextBinding(g) ==
  /\ stage = "next"
  /\ g \in todo
  /\ current' = g
  /\ todo' = todo \ {g}
  /\ answers' = {}
  /\ Enter("channel")
  /\ UNCHANGED <<bindings, cooling, restarts, history>>

TickEnds ==
  /\ stage = "next"
  /\ todo = {}
  /\ current' = NoOne
  /\ answers' = {}
  /\ Enter("idle")
  /\ UNCHANGED <<bindings, todo, cooling, restarts, history>>

Checks(g, from) == stage = from /\ current = g

\* getChatMember of the channel.  An error that is not transient, and a status
\* other than administrator, count as degraded.
CheckChannel(g, a) ==
  /\ Checks(g, "channel")
  /\ answers' = {a}
  /\ Enter("group")
  /\ UNCHANGED <<bindings, todo, current, cooling, restarts, history>>

\* GetChatMemberCanDelete in the group.
CheckGroup(g, a) ==
  /\ Checks(g, "group")
  /\ answers' = answers \union {a}
  /\ Enter("judge")
  /\ UNCHANGED <<bindings, todo, current, cooling, restarts, history>>

Degraded == "degraded" \in answers

\* Mutant of BothClean: an unanswered check does not count against it.
NoneDegraded == ~Degraded

BothClean == answers = {"clean"}

CanWarn(g) == cooling[g] = 0

Warn(g) ==
  /\ Checks(g, "judge")
  /\ Degraded /\ CanWarn(g)
  /\ Enter("send")
  /\ UNCHANGED <<bindings, todo, current, answers, cooling, restarts,
                 history>>

\* Mutant of KeepQuiet: the cooldown starts again each time.
KeepQuietLonger(g) ==
  /\ Checks(g, "judge")
  /\ IF Degraded THEN ~CanWarn(g) ELSE ~BothClean
  /\ cooling' = [cooling EXCEPT ![g] = IF Degraded THEN Cooldown ELSE @]
  /\ Enter("next")
  /\ UNCHANGED <<bindings, todo, current, answers, restarts, history>>

\* Degraded within the cooldown, or no definite answer.
KeepQuiet(g) ==
  /\ Checks(g, "judge")
  /\ IF Degraded THEN ~CanWarn(g) ELSE ~BothClean
  /\ Enter("next")
  /\ UNCHANGED <<bindings, todo, current, answers, cooling, restarts,
                 history>>

\* Both checks are clean: clearWarned.
Recovered(g) ==
  /\ Checks(g, "judge")
  /\ ~Degraded /\ BothClean
  /\ cooling' = [cooling EXCEPT ![g] = 0]
  /\ excused' = excused \union {x \in {g} : answers = {"clean"}}
  /\ Enter("next")
  /\ UNCHANGED <<bindings, todo, current, answers, restarts, since>>

\* The warning is in the group.
Delivered(g) == since' = [since EXCEPT ![g] = 0]

SendSucceeds(g) ==
  /\ Checks(g, "send")
  /\ Delivered(g)
  /\ excused' = excused \ {g}
  /\ Enter("mark")
  /\ UNCHANGED <<bindings, todo, current, answers, cooling, restarts>>

\* The warning is delivered, its answer is lost.
SendAnswerLost(g) ==
  /\ Checks(g, "send")
  /\ Delivered(g)
  /\ excused' = excused \union {g}
  /\ Enter("next")
  /\ UNCHANGED <<bindings, todo, current, answers, cooling, restarts>>

SendFails(g) ==
  /\ Checks(g, "send")
  /\ Enter("next")
  /\ UNCHANGED <<bindings, todo, current, answers, cooling, restarts,
                 history>>

MarkWarned(g) ==
  /\ Checks(g, "mark")
  /\ cooling' = [cooling EXCEPT ![g] = Cooldown]
  /\ Enter("next")
  /\ UNCHANGED <<bindings, todo, current, answers, restarts, history>>

-----------------------------------------------------------------------------
Bind(g) ==
  /\ bindings' = bindings \union {g}
  /\ UNCHANGED <<stage, todo, current, answers, cooling, restarts, history>>

Unbind(g) ==
  /\ bindings' = bindings \ {g}
  /\ UNCHANGED <<stage, todo, current, answers, cooling, restarts, history>>

\* Time passes; times beyond the cooldown are not told apart.
Clock ==
  /\ cooling' = [g \in Group |-> IF cooling[g] = 0 THEN 0 ELSE cooling[g] - 1]
  /\ since' = [g \in Group |-> IF since[g] = Cooldown THEN Cooldown
                                                     ELSE since[g] + 1]
  /\ UNCHANGED <<bindings, stage, todo, current, answers, restarts,
                 excused>>

\* The process ends at any point, and its cooldowns with it.
MemoryLost ==
  /\ cooling' = [g \in Group |-> 0]
  /\ excused' = Group
  /\ todo' = {} /\ current' = NoOne /\ answers' = {}
  /\ Enter("idle")
  /\ UNCHANGED <<bindings, since>>

\* And is started again.
Restart ==
  /\ restarts < MaxRestarts
  /\ restarts' = restarts + 1
  /\ MemoryLost

SelfCheckInit ==
  /\ bindings = {}
  /\ stage = "idle" /\ todo = {} /\ current = NoOne /\ answers = {}
  /\ cooling = [g \in Group |-> 0]
  /\ restarts = 0
  /\ since = [g \in Group |-> Cooldown] /\ excused = {}

Check(g) ==
  \/ NextBinding(g)
  \/ \E a \in Answer : CheckChannel(g, a) \/ CheckGroup(g, a)
  \/ Warn(g) \/ KeepQuiet(g) \/ Recovered(g)
  \/ SendSucceeds(g) \/ SendAnswerLost(g) \/ SendFails(g) \/ MarkWarned(g)

Tick == List \/ TickEnds \/ \E g \in Group : Check(g)

SelfCheckNext ==
  \/ Tick \/ ListFails
  \/ \E g \in Group : Bind(g) \/ Unbind(g)
  \/ Clock \/ Restart

-----------------------------------------------------------------------------
(* Properties.                                                             *)

\* Every variable keeps its type; the loop works on a group exactly between
\* taking it from the list and taking the next one.
SelfCheckTypeOK ==
  /\ bindings \subseteq Group /\ todo \subseteq Group
  /\ stage \in {"idle", "next", "channel", "group", "judge", "send", "mark"}
  /\ current \in Group \union {NoOne}
  /\ stage \notin {"idle", "next"} => current \in Group \ todo
  /\ answers \subseteq Answer
  /\ cooling \in [Group -> 0 .. Cooldown]
  /\ restarts \in 0 .. MaxRestarts
  /\ since \in [Group -> 0 .. Cooldown] /\ excused \subseteq Group

\* A group gets a second warning before one cooldown has passed only when both
\* its checks were clean in between, the process was restarted, or the answer to
\* the first warning was lost: no mix of transient errors, failed warnings,
\* /unbind and /bind opens the throttle.
Throttled ==
  \A g \in Group :
    Checks(g, "send") => since[g] = Cooldown \/ g \in excused

\* A group that is found degraded again and again is warned again and again,
\* whatever the transient errors, failed and lost warnings in between.
AlertsArrive ==
  \A g \in Group :
    []<>(Checks(g, "judge") /\ Degraded) => []<>(since[g] = 0)
==============================================================================
