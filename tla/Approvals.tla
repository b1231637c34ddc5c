------------------------------ MODULE Approvals ------------------------------
(***************************************************************************)
(* What the bot promises about persisted approvals, with no epochs, no     *)
(* handlers and no transactions.  A group is bound to at most one channel; *)
(* an approval is granted only to a user whom Telegram has confirmed since *)
(* the current /bind, and it does not outlive the binding to that channel. *)
(***************************************************************************)
CONSTANTS Group, Channel, User, NoChannel

VARIABLES
  bound,      \* bound[g]: the channel g is bound to, or NoChannel
  confirmed,  \* confirmed[g]: users confirmed since the latest /bind in g
  approved    \* approved[g]: users holding a persisted approval in g

vars == <<bound, confirmed, approved>>

Init ==
  /\ bound = [g \in Group |-> NoChannel]
  /\ confirmed = [g \in Group |-> {}]
  /\ approved = [g \in Group |-> {}]

\* A confirmation obtained before a /bind never counts after it, even when the
\* channel stays the same; approvals survive a /bind only to the same channel.
Bind(g, c) ==
  /\ bound' = [bound EXCEPT ![g] = c]
  /\ confirmed' = [confirmed EXCEPT ![g] = {}]
  /\ approved' = [approved EXCEPT ![g] = IF bound[g] = c THEN @ ELSE {}]

Unbind(g) ==
  /\ bound' = [bound EXCEPT ![g] = NoChannel]
  /\ confirmed' = [confirmed EXCEPT ![g] = {}]
  /\ approved' = [approved EXCEPT ![g] = {}]

Confirm(g, u) ==
  /\ bound[g] # NoChannel
  /\ confirmed' = [confirmed EXCEPT ![g] = @ \union {u}]
  /\ UNCHANGED <<bound, approved>>

\* The confirmation may be used up or still be held by another handler.
Approve(g, u) ==
  /\ u \in confirmed[g]
  /\ approved' = [approved EXCEPT ![g] = @ \union {u}]
  /\ \/ confirmed' = [confirmed EXCEPT ![g] = @ \ {u}]
     \/ UNCHANGED confirmed
  /\ UNCHANGED bound

\* Approvals lapse and confirmations are lost (TTL, failed writes, restarts).
Lapse ==
  /\ UNCHANGED bound
  /\ confirmed' \in [Group -> SUBSET User]
  /\ approved' \in [Group -> SUBSET User]
  /\ \A g \in Group : /\ confirmed'[g] \subseteq confirmed[g]
                      /\ approved'[g] \subseteq approved[g]

Next ==
  \/ \E g \in Group, c \in Channel : Bind(g, c)
  \/ \E g \in Group : Unbind(g)
  \/ \E g \in Group, u \in User : Confirm(g, u) \/ Approve(g, u)
  \/ Lapse

Spec == Init /\ [][Next]_vars
==============================================================================
