--------------------------- MODULE GuestPunishment ---------------------------
(***************************************************************************)
(* Escalating punishment of users who summon guest bots in one group:      *)
(* gating.Executor (Apply, handleGuest), the table guest_violations, which *)
(* /unbind empties, and the updates it works from.  Telegram hands updates *)
(* out in order and forgets those below the offset of the next getUpdates; *)
(* after a restart it delivers the others again, handled or not.  Every    *)
(* update here is a guest reply of a bot on no allowlist.                  *)
(***************************************************************************)
EXTENDS Naturals, FiniteSets

CONSTANTS
  Reply,          \* guest replies (messages in the group)
  User,           \* users who summon
  NumUpdates,     \* updates are numbered 1 .. NumUpdates
  ReplyOf,        \* the reply an update is about
  CallerOf,       \* the user who summoned the bot that wrote a reply
  Edit,           \* the updates that are edited_message updates
  MuteThreshold, BanThreshold,
  MaxRestarts     \* bound on the number of restarts

Update == 1 .. NumUpdates

ASSUME PunishmentAssumption ==
  /\ NumUpdates \in Nat /\ MaxRestarts \in Nat
  /\ ReplyOf \in [Update -> Reply] /\ CallerOf \in [Reply -> User]
  /\ Edit \subseteq Update
  /\ \A u, v \in Update \ Edit : ReplyOf[u] = ReplyOf[v] => u = v
  /\ MuteThreshold \in Nat /\ BanThreshold \in Nat
  /\ MuteThreshold >= 2 /\ BanThreshold > MuteThreshold   \* config.validate

VARIABLES
  bound,       \* the group has a binding
  violations,  \* table guest_violations
  present,     \* replies still visible in the group
  received,    \* updates up to this one have been received by this process
  offset,      \* updates up to this one will not be delivered again
  pc,          \* the handler of each update
  restarts

\* History, read by no action of the program.
VARIABLES
  taken,       \* updates up to this one were received by earlier processes
  judged,      \* new replies found to be violations since the last /unbind
  counted,     \* those of them that have been counted
  surplus      \* counts, per user, that no reply of the present binding is due

program == <<bound, violations, present, received, offset, pc, restarts>>
history == <<taken, judged, counted, surplus>>
vars == <<program, history>>

Caller(u) == CallerOf[ReplyOf[u]]
Goto(u, label) == pc' = [pc EXCEPT ![u] = label]
queue == <<received, offset, restarts>>

\* The caller's replies in a set of replies.
RepliesOf(c, replies) == {r \in replies : CallerOf[r] = c}

-----------------------------------------------------------------------------
\* The next update arrives and gets a goroutine.
Deliver(u) ==
  /\ u = received + 1
  /\ received' = u
  /\ Goto(u, "classify")
  /\ UNCHANGED <<bound, violations, present, offset, restarts, history>>

\* The next getUpdates confirms some of what has been received.
Confirm ==
  /\ offset' \in (offset + 1) .. received
  /\ UNCHANGED <<bound, violations, present, received, pc, restarts, history>>

\* Gate: a guest reply in a bound group is deleted, elsewhere it is ignored.
Classify(u) ==
  /\ pc[u] = "classify"
  /\ Goto(u, IF bound THEN "delete" ELSE "done")
  /\ judged' = IF bound /\ u \notin Edit THEN judged \union {ReplyOf[u]} ELSE judged
  /\ UNCHANGED <<bound, violations, present, queue, taken, counted, surplus>>

\* deleteMessage succeeds, or finds the message already gone.
DeleteReply(u) ==
  /\ pc[u] = "delete"
  /\ present' = present \ {ReplyOf[u]}
  /\ Goto(u, "count")
  /\ UNCHANGED <<bound, violations, queue, history>>

\* deleteMessage fails otherwise: Apply returns.
DeleteFails(u) ==
  /\ pc[u] = "delete"
  /\ Goto(u, "done")
  /\ UNCHANGED <<bound, violations, present, queue, history>>

\* Mutant of Counts: an edited reply is counted like a new one.
CountsEdits(u) == TRUE

Counts(u) == u \notin Edit

Exceeds(n, threshold) == n >= threshold

\* The call that a count leads to, if any.
Penalty(n) == IF Exceeds(n, BanThreshold) THEN "ban"
              ELSE IF Exceeds(n, MuteThreshold) THEN "mute" ELSE "done"

\* A count that no reply of the present binding is due: the reply was counted
\* by an earlier process, or judged before the last /unbind.
Undue(u) == \/ u <= taken /\ ReplyOf[u] \in counted
            \/ ReplyOf[u] \notin judged

\* handleGuest, once the summon is deleted: IncrementGuestViolation, which
\* does not look at bindings, and the thresholds.
Count(u) ==
  /\ pc[u] = "count"
  /\ Counts(u)
  /\ LET n == violations[Caller(u)] + 1
     IN /\ violations' = [violations EXCEPT ![Caller(u)] = n]
        /\ Goto(u, Penalty(n))
  /\ IF Undue(u)
     THEN surplus' = [surplus EXCEPT ![Caller(u)] = @ + 1] /\ UNCHANGED counted
     ELSE counted' = counted \union {ReplyOf[u]} /\ UNCHANGED surplus
  /\ UNCHANGED <<bound, present, queue, taken, judged>>

\* An edited reply, or an SQL error.
CountNot(u) ==
  /\ pc[u] = "count"
  /\ Goto(u, "done")
  /\ UNCHANGED <<bound, violations, present, queue, history>>

\* restrictChatMember or banChatMember; a failure is tolerated.
Punish(u) ==
  /\ pc[u] \in {"mute", "ban"}
  /\ Goto(u, "done")
  /\ UNCHANGED <<bound, violations, present, queue, history>>

-----------------------------------------------------------------------------
Bind ==
  /\ ~bound
  /\ bound' = TRUE
  /\ UNCHANGED <<violations, present, pc, queue, history>>

\* DeleteBinding cascades to guest_violations.
Unbind ==
  /\ bound
  /\ bound' = FALSE
  /\ violations' = [c \in User |-> 0]
  /\ judged' = {} /\ counted' = {} /\ surplus' = [c \in User |-> 0]
  /\ UNCHANGED <<present, pc, queue, taken>>

\* Mutant of Restart: the first getUpdates asks for everything again.
RestartFromZero ==
  /\ restarts < MaxRestarts
  /\ restarts' = restarts + 1
  /\ received' = 0
  /\ pc' = [u \in Update |-> "unseen"]
  /\ UNCHANGED <<bound, violations, present, offset, history>>

\* Every handler dies; unconfirmed updates will be delivered again.
Restart ==
  /\ restarts < MaxRestarts
  /\ restarts' = restarts + 1
  /\ received' = offset
  /\ pc' = [u \in Update |-> IF u <= offset THEN "done" ELSE "unseen"]
  /\ taken' = IF received > taken THEN received ELSE taken
  /\ UNCHANGED <<bound, violations, present, offset, judged, counted, surplus>>

Init ==
  /\ bound = FALSE
  /\ violations = [c \in User |-> 0]
  /\ present = Reply
  /\ received = 0 /\ offset = 0 /\ restarts = 0
  /\ pc = [u \in Update |-> "unseen"]
  /\ taken = 0 /\ judged = {} /\ counted = {}
  /\ surplus = [c \in User |-> 0]

Handle(u) ==
  \/ Classify(u) \/ DeleteReply(u) \/ DeleteFails(u) \/ Count(u) \/ CountNot(u)
  \/ Punish(u)

Next ==
  \/ \E u \in Update : Deliver(u) \/ Handle(u)
  \/ Confirm \/ Bind \/ Unbind \/ Restart

Spec == Init /\ [][Next]_vars

-----------------------------------------------------------------------------
(* Properties.                                                             *)

Pc == {"unseen", "classify", "delete", "count", "mute", "ban", "done"}

\* Every variable keeps its type; only received updates are being handled.
TypeOK ==
  /\ bound \in BOOLEAN
  /\ violations \in [User -> Nat]
  /\ present \subseteq Reply
  /\ received \in Nat /\ offset \in Nat /\ restarts \in Nat /\ taken \in Nat
  /\ offset <= received
  /\ pc \in [Update -> Pc]
  /\ \A u \in Update : u > received => pc[u] = "unseen"
  /\ judged \subseteq Reply /\ counted \subseteq Reply
  /\ surplus \in [User -> Nat]

Threshold(penalty) == IF penalty = "ban" THEN BanThreshold ELSE MuteThreshold

\* A count leads to a call against the caller.
Punishes(u) == pc[u] # pc'[u] /\ pc'[u] \in {"mute", "ban"}

\* The caller's distinct new replies that were judged since the last /unbind.
Offences(u) == Cardinality(RepliesOf(Caller(u), judged))

\* A call that mutes (bans) a user rests on MuteThreshold (BanThreshold) distinct
\* new replies of theirs, all judged violations since the last /unbind, less the
\* surplus: every count but the first of a reply must come from a redelivery to a
\* later process, or from a reply that was judged before the /unbind.  Edits,
\* failed calls and handlers that overlap never raise a count.
PunishmentJustified ==
  [][ \A u \in Update :
        Punishes(u) => Threshold(pc'[u]) <= Offences(u) + surplus'[Caller(u)]
    ]_pc

\* What the specification of gating says: violations are counted when a reply
\* first arrives as a `message`, and the first is never punished; /unbind clears
\* the counts.  So whoever is muted (banned) has written MuteThreshold
\* (BanThreshold) different replies under the present binding.  A reply that is
\* delivered again after a restart breaks it, and so does a reply that is judged
\* before an /unbind and counted after it.
PunishedForDistinctReplies ==
  [][ \A u \in Update : Punishes(u) => Threshold(pc'[u]) <= Offences(u) ]_pc
==============================================================================
