------------------------------ MODULE Moderation ------------------------------
(***************************************************************************)
(* What the bot promises about the messages of a group, with no branches,  *)
(* caches, albums or API calls.  A message is judged once, for the channel *)
(* the group was bound to when it arrived.  It is kept because its sender  *)
(* has access to that channel, or in doubt because nobody could be asked,  *)
(* or it is removed, which Telegram may refuse.  A command is served when  *)
(* its sender has access, or when the group was not moderated; only the    *)
(* creator's commands change anything, each at most once.                  *)
(***************************************************************************)

CONSTANTS
  Worker,
  Message,
  NoMessage,   \* what lies on an empty desk
  Channel,
  Target,      \* bots that can be permitted
  NoOne,
  Private,     \* messages that were not sent in the group
  Trusted,     \* <<m, c>>: m itself shows access to c
  Exempt,      \* messages that are nobody's
  Bots,        \* Bots[m]: whose permission speaks for m
  Members,     \* Members[m]: whose membership speaks for m
  Order,       \* Order[m]: the command that m gives to this bot, or NoOne
  Owned        \* the creator's messages in the group

VARIABLES
  binding,     \* the group's channel, or NoOne
  allowlist,   \* bots the creator permits now
  permitted,   \* bots the creator has permitted
  confirmed,   \* <<c, u>>: Telegram has confirmed that u is a member of c
  stage,       \* stage[w]: how far worker w is
  post,        \* post[w]: the message on its desk
  channel,     \* channel[w]: the channel it is judged for, or NoOne
  verdict,
  visible      \* visible[w]: the message is still there

vars == <<binding, allowlist, permitted, confirmed, stage, post, channel, verdict,
          visible>>
authority == <<binding, allowlist, permitted>>

Init ==
  /\ binding = NoOne /\ allowlist = {} /\ permitted = {} /\ confirmed = {}
  /\ stage = [w \in Worker |-> "free"]
  /\ post = [w \in Worker |-> NoMessage]
  /\ channel = [w \in Worker |-> NoOne]
  /\ verdict = [w \in Worker |-> "none"]
  /\ visible = [w \in Worker |-> TRUE]

Reach(w, s) == stage' = [stage EXCEPT ![w] = s]

\* The binding is not there, is not found, or does not concern the message.
Take(w) ==
  /\ stage[w] = "free"
  /\ \E c \in {NoOne} \union {binding} :
       /\ Reach(w, IF c = NoOne THEN "judged" ELSE "judging")
       /\ channel' = [channel EXCEPT ![w] = c]
       /\ verdict' = [verdict EXCEPT ![w] = IF c = NoOne THEN "unmoderated" ELSE "none"]
       /\ \E m \in Message :
            /\ m \in Private => c = NoOne
            /\ post' = [post EXCEPT ![w] = m]
  /\ UNCHANGED <<authority, confirmed, visible>>

-----------------------------------------------------------------------------
Access(m, c) ==
  \/ <<m, c>> \in Trusted
  \/ Bots[m] \cap permitted # {}
  \/ \E u \in Members[m] : <<c, u>> \in confirmed

\* Telegram may confirm a member for whom a message is being judged.
Ask(w) ==
  \E new \in SUBSET Members[post[w]] :
    confirmed' = confirmed \union {<<channel[w], u>> : u \in new}

Judged(w, v) == verdict' = [verdict EXCEPT ![w] = v]

Keep(w) ==
  /\ Judged(w, "keep") /\ Ask(w)
  /\ post[w] \in Exempt \/ Access(post[w], channel[w])'

Serve(w) ==
  /\ Judged(w, "serve") /\ Ask(w)
  /\ Access(post[w], channel[w])'

KeepInDoubt(w) ==
  /\ Judged(w, "doubt") /\ UNCHANGED confirmed
  /\ Members[post[w]] # {}

Remove(w) ==
  /\ Judged(w, "remove") /\ UNCHANGED confirmed
  /\ post[w] \notin Exempt /\ <<post[w], channel[w]>> \notin Trusted

Judge(w) ==
  /\ stage[w] = "judging"
  /\ Reach(w, "judged")
  /\ Keep(w) \/ Serve(w) \/ KeepInDoubt(w) \/ Remove(w)
  /\ UNCHANGED <<authority, post, channel, visible>>

MayDisappear(w) == \E v \in {FALSE, visible[w]} : visible' = [visible EXCEPT ![w] = v]

\* The verdict is carried out.
Enact(w) ==
  /\ stage[w] = "judged"
  /\ Reach(w, IF verdict[w] \in {"serve", "unmoderated"} /\ Order[post[w]] # NoOne
              THEN "serving" ELSE "done")
  /\ IF verdict[w] = "remove" THEN MayDisappear(w) ELSE UNCHANGED visible
  /\ UNCHANGED <<authority, confirmed, post, channel, verdict>>

-----------------------------------------------------------------------------
\* The command is refused, or something it needs is missing.
Decline(w) ==
  /\ IF post[w] \in Owned THEN UNCHANGED visible ELSE MayDisappear(w)
  /\ UNCHANGED authority

Obey(w, order) ==
  /\ Order[post[w]] = order /\ post[w] \in Owned
  /\ UNCHANGED visible

Bind(w) ==
  /\ Obey(w, "bind")
  /\ binding' \in Channel
  /\ UNCHANGED <<allowlist, permitted>>

Unbind(w) ==
  /\ Obey(w, "unbind")
  /\ binding # NoOne
  /\ binding' = NoOne /\ allowlist' = {}
  /\ UNCHANGED permitted

Permit(w) ==
  /\ Obey(w, "allowbot")
  /\ \E b \in Target : /\ allowlist' = allowlist \union {b}
                       /\ permitted' = permitted \union {b}
  /\ UNCHANGED binding

Forbid(w) ==
  /\ Obey(w, "disallowbot")
  /\ \E b \in Target : allowlist' = allowlist \ {b}
  /\ UNCHANGED <<binding, permitted>>

Command(w) ==
  /\ stage[w] = "serving"
  /\ Reach(w, "done")
  /\ Decline(w) \/ Bind(w) \/ Unbind(w) \/ Permit(w) \/ Forbid(w)
  /\ UNCHANGED <<confirmed, post, channel, verdict>>

Leave(w) ==
  /\ stage[w] = "done"
  /\ Reach(w, "free")
  /\ post' = [post EXCEPT ![w] = NoMessage]
  /\ channel' = [channel EXCEPT ![w] = NoOne]
  /\ verdict' = [verdict EXCEPT ![w] = "none"]
  /\ visible' = [visible EXCEPT ![w] = TRUE]
  /\ UNCHANGED <<authority, confirmed>>

-----------------------------------------------------------------------------
Next == \E w \in Worker : Take(w) \/ Judge(w) \/ Enact(w) \/ Command(w) \/ Leave(w)

Spec == Init /\ [][Next]_vars
==============================================================================
