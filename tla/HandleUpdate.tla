----------------------------- MODULE HandleUpdate -----------------------------
(***************************************************************************)
(* runtime.handleUpdate: gating and command dispatch of the messages of    *)
(* one group.  A handler looks up the binding, classifies the message,     *)
(* applies the outcome and, for a command the gate lets through, runs the  *)
(* command's handler, which changes the binding or the group's allowlist   *)
(* under the feet of the other handlers.                                   *)
(*                                                                         *)
(* The membership cache and the allowlist's cache have modules of their    *)
(* own.  Here a lookup in them may miss at any time, and may hit only when *)
(* a positive answer was recorded before.                                  *)
(***************************************************************************)
EXTENDS Naturals

CONSTANTS
  Handler,        \* goroutines, each with one update at a time
  Message,        \* the messages that can arrive
  Input,          \* Input[h]: those that handler h may receive
  Channel,        \* channels the group may be linked to
  Sender,         \* users and bots that write
  Target,         \* those that /allowbot and /disallowbot name
  Bot,            \* the senders with is_bot
  GlobalBots,     \* bots of BOT_ALLOWLIST
  Self,           \* this bot
  Creator,        \* the group's creator
  AnonymousBot,   \* GroupAnonymousBot
  AllowAnonymousAdmin

NoOne == "none"
Registered == {"bind", "unbind", "status", "allowbot", "disallowbot"}
ArgCmds == {"allowbot", "disallowbot"}

\* What parse makes of a text.  A text that is no command, or a caption, has cmd
\* "none"; a keyword that is not registered is "unknown".
Text == [cmd : Registered \union {"unknown", "none"}, toThisBot : BOOLEAN,
         args : BOOLEAN]

MessageType ==
  [from : Sender \union {NoOne},
   senderChat : Channel \union {NoOne, "group", "other"},
   form : {"text", "album", "service", "guest"},
   text : Text, edit : BOOLEAN,
   private : BOOLEAN]         \* sent to the bot, not in the group

ASSUME HandleUpdateAssumption ==
  /\ Message \subseteq MessageType /\ Message # {}
  /\ Input \in [Handler -> SUBSET Message]
  /\ Bot \subseteq Sender /\ GlobalBots \subseteq Bot /\ Target \subseteq Sender
  /\ {Self, AnonymousBot} \subseteq Bot /\ Creator \in Sender \ Bot
  /\ NoOne \notin Sender /\ {NoOne, "group", "other", "error"} \cap Channel = {}
  /\ AllowAnonymousAdmin \in BOOLEAN

VARIABLES
  binding,     \* the channel the group is bound to, or NoOne
  allowlist,   \* table group_bot_allowlist
  pc,
  msg,         \* the update each handler works on
  seen,        \* what Lookup returned: a channel, NoOne, or "error"
  outcome,     \* decision and reason
  leads,       \* the handler must publish its album's decision
  published,   \* the decision last published for the album, or NoOne
  linked,      \* the linked channel that /bind read
  approved,    \* history: positive getChatMember answers, <<channel, user>>
  everAllowed, \* history: bots that were on the group's allowlist
  visible,     \* the message has not been deleted
  checked,     \* what the creator check answered
  replied      \* the bot wrote a reply to the command

vars == <<binding, allowlist, pc, msg, seen, outcome, leads, published, linked,
          approved, everAllowed, visible, checked, replied>>
tables == <<binding, allowlist, everAllowed>>
gateVars == <<seen, outcome, leads, published, approved>>
commandVars == <<linked, checked, replied>>

Ignore(reason) == [decision |-> "ignore", reason |-> reason]
Allow(reason) == [decision |-> "allow", reason |-> reason]
Delete(reason) == [decision |-> "delete", reason |-> reason]
Undecided == Ignore("none")

NoMessage == CHOOSE m \in Message : TRUE
Goto(h, label) == pc' = [pc EXCEPT ![h] = label]

-----------------------------------------------------------------------------
(* Commands.                                                               *)

\* Dispatcher.IsPureCommand.
IsPureCommand(t) ==
  /\ t.cmd # "none"
  /\ IF t.toThisBot THEN t.cmd \in Registered /\ (t.cmd \in ArgCmds \/ ~t.args)
                    ELSE ~t.args

\* What Dispatch hands to a handler.
Dispatched(t) ==
  /\ t.cmd \in Registered /\ t.toThisBot
  /\ t.cmd \in ArgCmds \/ ~t.args

\* Mutant of VerifiedAccess: the fail-open reason counts as well.
AnyReason == {"member", "cache_hit", "channel_root_post", "anonymous_admin",
              "bot_allowlist", "error_default_allow"}

\* isVerifiedAccessReason.
VerifiedAccess == {"member", "cache_hit", "channel_root_post",
                   "anonymous_admin", "bot_allowlist"}

\* demoteAllowedCommand: only what a positive check allowed becomes a command.
Demoted(m, out) ==
  IF /\ out.decision = "allow" /\ out.reason \in VerifiedAccess
     /\ ~m.edit /\ IsPureCommand(m.text)
  THEN Ignore("command") ELSE out

\* Decide returns.
Decided(h, out) ==
  /\ outcome' = [outcome EXCEPT ![h] = Demoted(msg[h], out)]
  /\ Goto(h, "apply")

-----------------------------------------------------------------------------
(* Gate.Decide.                                                            *)

\* The message arrives and its binding is looked up.  A private chat has none.
Lookup(h) ==
  /\ pc[h] = "idle"
  /\ \E m \in Input[h] :
       \E result \in {"error", IF m.private THEN NoOne ELSE binding} :
         /\ msg' = [msg EXCEPT ![h] = m]
         /\ seen' = [seen EXCEPT ![h] = result]
         /\ IF result \in Channel
            THEN Goto(h, "classify") /\ UNCHANGED outcome
            ELSE /\ Goto(h, "apply")
                 /\ outcome' = [outcome EXCEPT ![h] = Ignore("no_binding")]
  /\ UNCHANGED <<tables, published, leads, approved, visible, commandVars>>

Deciding(h) ==
  UNCHANGED <<tables, msg, seen, published, leads, approved, visible,
              commandVars>>

ServiceMessage(h) ==
  /\ pc[h] = "classify" /\ msg[h].form = "service"
  /\ Decided(h, Ignore("service_message"))
  /\ Deciding(h)

\* Mutant of IsGuestReply: the sender_chat branch comes first.
IsGuestReplyOfBot(m) == m.form = "guest" /\ m.senderChat = NoOne

IsGuestReply(m) == m.form = "guest"

\* botAllowed: the answers the two allowlists can give.  The group's is read
\* through its cache, which may be behind the table or fail to load.
BotAllowed(b) ==
  IF b \in GlobalBots THEN {TRUE} ELSE {FALSE, (b \in everAllowed)}

\* decideGuest.
GuestReply(h, allowed) ==
  /\ pc[h] = "classify" /\ IsGuestReply(msg[h])
  /\ allowed \in BotAllowed(msg[h].from)
  /\ Decided(h, IF msg[h].from # NoOne /\ (msg[h].from = Self \/ allowed)
                THEN Allow("bot_allowlist") ELSE Delete("guest_bot"))
  /\ Deciding(h)

Ordinary(h) ==
  /\ pc[h] = "classify"
  /\ msg[h].form # "service" /\ ~IsGuestReply(msg[h])

\* Mutant of IsChannelPost: the binding of now instead of the one looked up.
IsPostOfBoundChannel(h) == msg[h].senderChat = binding

IsChannelPost(h) == msg[h].senderChat = seen[h]
IsAnonymousAdmin(m) ==
  /\ AllowAnonymousAdmin /\ m.from = AnonymousBot /\ m.senderChat = "group"

SenderChat(h) ==
  /\ Ordinary(h) /\ msg[h].senderChat # NoOne
  /\ Decided(h, IF IsChannelPost(h) THEN Allow("channel_root_post")
                ELSE IF IsAnonymousAdmin(msg[h]) THEN Allow("anonymous_admin")
                ELSE Delete("other_sender_chat"))
  /\ Deciding(h)

Personal(h) == Ordinary(h) /\ msg[h].senderChat = NoOne

MissingSender(h) ==
  /\ Personal(h) /\ msg[h].from = NoOne
  /\ Decided(h, Ignore("missing_sender"))
  /\ Deciding(h)

AllowedBot(h) ==
  /\ Personal(h) /\ msg[h].from \in Bot
  /\ msg[h].from = Self \/ TRUE \in BotAllowed(msg[h].from)
  /\ Decided(h, Allow("bot_allowlist"))
  /\ Deciding(h)

\* Neither this bot nor found on an allowlist.
OtherSender(h) ==
  /\ Personal(h) /\ msg[h].from \notin {NoOne, Self}
  /\ msg[h].from \in Bot => FALSE \in BotAllowed(msg[h].from)

BareAnonymousAdmin(h) ==
  /\ OtherSender(h) /\ AllowAnonymousAdmin /\ msg[h].from = AnonymousBot
  /\ Decided(h, Allow("anonymous_admin"))
  /\ Deciding(h)

NeedsMembership(h) ==
  /\ OtherSender(h)
  /\ ~(AllowAnonymousAdmin /\ msg[h].from = AnonymousBot)
  /\ Goto(h, IF msg[h].form = "album" /\ ~msg[h].edit THEN "album" ELSE "cache")
  /\ UNCHANGED outcome
  /\ Deciding(h)

\* Acquire: a decision is reused, or the handler leads, or its context is over
\* and it decides on its own.
ReuseAlbum(h) ==
  /\ pc[h] = "album" /\ published # NoOne
  /\ Decided(h, [decision |-> published, reason |-> "media_group_dedup"])
  /\ Deciding(h)

AcquireAlbum(h, leader) ==
  /\ pc[h] = "album"
  /\ leads' = [leads EXCEPT ![h] = leader]
  /\ Goto(h, "cache")
  /\ UNCHANGED <<tables, msg, seen, outcome, published, approved, visible,
                 commandVars>>

\* publishOnce and the return of the outcome.
Conclude(h, out) ==
  /\ Decided(h, out)
  /\ published' = IF leads[h] THEN out.decision ELSE published
  /\ UNCHANGED <<tables, msg, seen, leads, visible, commandVars>>

Asked(h) == <<seen[h], msg[h].from>>

CacheHit(h) ==
  /\ pc[h] = "cache" /\ Asked(h) \in approved
  /\ Conclude(h, Allow("cache_hit"))
  /\ UNCHANGED approved

CacheMiss(h) ==
  /\ pc[h] = "cache"
  /\ Goto(h, "ask")
  /\ UNCHANGED outcome
  /\ Deciding(h)

\* getChatMember of the bound channel; a positive answer goes into the cache.
Member(h) ==
  /\ pc[h] = "ask"
  /\ Conclude(h, Allow("member"))
  /\ approved' = approved \union {Asked(h)}

NotMember(h) ==
  /\ pc[h] = "ask"
  /\ Conclude(h, Delete("not_member"))
  /\ UNCHANGED approved

AskFails(h) ==
  /\ pc[h] = "ask"
  /\ Conclude(h, Allow("error_default_allow"))
  /\ UNCHANGED approved

-----------------------------------------------------------------------------
(* Executor.Apply, and what handleUpdate does with the outcome.            *)

\* Mutant of Reaches: edited messages are dispatched as well.
ReachesEdited(h) ==
  /\ msg[h].senderChat \in {NoOne, "group"}
  /\ outcome[h] \in {Ignore("command"), Ignore("no_binding")}
  /\ Dispatched(msg[h].text)

\* The outcome leads to a command's handler.
Reaches(h) ==
  /\ ~msg[h].edit
  /\ msg[h].senderChat \in {NoOne, "group"}
  /\ outcome[h] \in {Ignore("command"), Ignore("no_binding")}
  /\ Dispatched(msg[h].text)

\* deleteMessage removes the message, or fails; then the dispatcher.
Apply(h) ==
  /\ pc[h] = "apply"
  /\ \/ outcome[h].decision = "delete" /\ visible' = [visible EXCEPT ![h] = FALSE]
     \/ UNCHANGED visible
  /\ Goto(h, IF Reaches(h) THEN "command" ELSE "done")
  /\ UNCHANGED <<tables, msg, gateVars, commandVars>>

-----------------------------------------------------------------------------
(* The command handlers: commands.Deps and binding.Service.                *)

\* The handler ends without touching the tables.
Quit(h, check, reply) ==
  /\ Goto(h, "done")
  /\ checked' = [checked EXCEPT ![h] = check]
  /\ replied' = [replied EXCEPT ![h] = reply]
  /\ UNCHANGED <<tables, msg, gateVars, linked>>

WrongChat(h) ==
  /\ pc[h] = "command" /\ msg[h].private
  /\ Quit(h, "none", TRUE)
  /\ UNCHANGED visible

InGroup(h) == pc[h] = "command" /\ ~msg[h].private

SilentDelete(h) ==
  \E v \in {FALSE, visible[h]} : visible' = [visible EXCEPT ![h] = v]

\* Only the handlers of /allowbot and /disallowbot delete the command.
NoSender(h) ==
  /\ InGroup(h) /\ msg[h].from = NoOne
  /\ Quit(h, "none", FALSE)
  /\ IF msg[h].text.cmd \in ArgCmds THEN SilentDelete(h) ELSE UNCHANGED visible

CheckFails(h) ==
  /\ InGroup(h) /\ msg[h].from # NoOne
  /\ Quit(h, "error", TRUE)
  /\ UNCHANGED visible

\* Mutant of NotCreator: the refusal is explained.
NotCreatorIsTold(h) ==
  /\ InGroup(h) /\ msg[h].from \notin {NoOne, Creator}
  /\ Quit(h, "other", TRUE)
  /\ UNCHANGED visible

NotCreator(h) ==
  /\ InGroup(h) /\ msg[h].from \notin {NoOne, Creator}
  /\ Quit(h, "other", FALSE)
  /\ SilentDelete(h)

CreatorChecked(h) ==
  /\ InGroup(h) /\ msg[h].from = Creator
  /\ checked' = [checked EXCEPT ![h] = "creator"]
  /\ Goto(h, "act")
  /\ UNCHANGED <<tables, msg, gateVars, linked, replied, visible>>

Acts(h, cmd) == pc[h] = "act" /\ msg[h].text.cmd = cmd

\* An API call or the database fails, the bot lacks a right, the group is not
\* bound, the name cannot be resolved: the creator is told.
ActFails(h) ==
  /\ pc[h] \in {"act", "write"}
  /\ Quit(h, "creator", TRUE)
  /\ UNCHANGED visible

Status(h) ==
  /\ Acts(h, "status")
  /\ Quit(h, "creator", TRUE)
  /\ UNCHANGED visible

\* Mutant of IsLinked: a group without a linked channel is not refused.
MayBeLinked(c) == c \in Channel \union {NoOne}

IsLinked(c) == c # NoOne

\* The linked channel is read; the bot's rights are checked.
BindChecks(h, c) ==
  /\ Acts(h, "bind") /\ IsLinked(c)
  /\ linked' = [linked EXCEPT ![h] = c]
  /\ Goto(h, "write")
  /\ UNCHANGED <<tables, msg, gateVars, checked, replied, visible>>

\* requireBoundGroupCreator finds a binding; the bot's name is resolved.
AllowlistChecks(h) ==
  /\ pc[h] = "act" /\ msg[h].text.cmd \in ArgCmds
  /\ binding # NoOne
  /\ Goto(h, "write")
  /\ UNCHANGED <<tables, msg, gateVars, commandVars, visible>>

\* The command writes its table and answers.
Answered(h) ==
  /\ Goto(h, "done")
  /\ replied' = [replied EXCEPT ![h] = TRUE]
  /\ UNCHANGED <<msg, gateVars, linked, checked, visible>>

Writes(h, cmd) == pc[h] = "write" /\ msg[h].text.cmd = cmd

UpsertBinding(h) ==
  /\ Writes(h, "bind")
  /\ binding' = linked[h]
  /\ UNCHANGED <<allowlist, everAllowed>>
  /\ Answered(h)

\* Mutant of DeleteBinding: the rows of the group's allowlist stay.
DeleteBindingOnly(h) ==
  /\ Acts(h, "unbind")
  /\ binding # NoOne
  /\ binding' = NoOne
  /\ UNCHANGED <<allowlist, everAllowed>>
  /\ Answered(h)

\* The rows of the group's allowlist go with the binding.
DeleteBinding(h) ==
  /\ Acts(h, "unbind")
  /\ binding # NoOne
  /\ binding' = NoOne /\ allowlist' = {}
  /\ UNCHANGED everAllowed
  /\ Answered(h)

AllowBot(h, b) ==
  /\ Writes(h, "allowbot")
  /\ allowlist' = allowlist \union {b}
  /\ everAllowed' = everAllowed \union {b}
  /\ UNCHANGED binding
  /\ Answered(h)

DisallowBot(h, b) ==
  /\ Writes(h, "disallowbot")
  /\ allowlist' = allowlist \ {b}
  /\ UNCHANGED <<binding, everAllowed>>
  /\ Answered(h)

\* handleUpdate returns; its locals are gone.
Return(h) ==
  /\ pc[h] = "done"
  /\ Goto(h, "idle")
  /\ msg' = [msg EXCEPT ![h] = NoMessage]
  /\ seen' = [seen EXCEPT ![h] = NoOne]
  /\ outcome' = [outcome EXCEPT ![h] = Undecided]
  /\ leads' = [leads EXCEPT ![h] = FALSE]
  /\ linked' = [linked EXCEPT ![h] = NoOne]
  /\ visible' = [visible EXCEPT ![h] = TRUE]
  /\ checked' = [checked EXCEPT ![h] = "none"]
  /\ replied' = [replied EXCEPT ![h] = FALSE]
  /\ UNCHANGED <<tables, published, approved>>

-----------------------------------------------------------------------------
Init ==
  /\ binding = NoOne /\ allowlist = {} /\ everAllowed = {}
  /\ pc = [h \in Handler |-> "idle"]
  /\ msg = [h \in Handler |-> NoMessage]
  /\ seen = [h \in Handler |-> NoOne]
  /\ outcome = [h \in Handler |-> Undecided]
  /\ leads = [h \in Handler |-> FALSE]
  /\ published = NoOne /\ approved = {}
  /\ linked = [h \in Handler |-> NoOne]
  /\ visible = [h \in Handler |-> TRUE]
  /\ checked = [h \in Handler |-> "none"]
  /\ replied = [h \in Handler |-> FALSE]

Classify(h) ==
  \/ ServiceMessage(h) \/ SenderChat(h) \/ MissingSender(h) \/ AllowedBot(h)
  \/ BareAnonymousAdmin(h) \/ NeedsMembership(h)
  \/ \E a \in BOOLEAN : GuestReply(h, a)

CheckMembership(h) ==
  \/ ReuseAlbum(h)
  \/ \E l \in BOOLEAN : AcquireAlbum(h, l)
  \/ CacheHit(h) \/ CacheMiss(h)
  \/ Member(h) \/ NotMember(h) \/ AskFails(h)

Command(h) ==
  \/ WrongChat(h) \/ NoSender(h) \/ CheckFails(h) \/ NotCreator(h)
  \/ CreatorChecked(h) \/ ActFails(h) \/ Status(h)
  \/ \E c \in Channel \union {NoOne} : BindChecks(h, c)
  \/ AllowlistChecks(h) \/ UpsertBinding(h) \/ DeleteBinding(h)
  \/ \E b \in Target : AllowBot(h, b) \/ DisallowBot(h, b)

Step(h) ==
  Lookup(h) \/ Classify(h) \/ CheckMembership(h) \/ Apply(h) \/ Command(h)
  \/ Return(h)

Next == \E h \in Handler : Step(h)

Spec == Init /\ [][Next]_vars

-----------------------------------------------------------------------------
(* Properties.                                                             *)

Reason == AnyReason \union {"none", "no_binding", "service_message", "guest_bot",
            "other_sender_chat", "missing_sender", "media_group_dedup",
            "not_member", "command"}

\* InPipeline(h): the message of h is being gated in a bound group.
InPipeline(h) == pc[h] \in {"classify", "album", "cache", "ask"}

\* Every variable keeps its type; membership is only asked of a channel, and a
\* /bind about to be written names one.
TypeOK ==
  /\ \A h \in Handler : InPipeline(h) => seen[h] \in Channel
  /\ \A h \in Handler : Writes(h, "bind") => linked[h] \in Channel
  /\ binding \in Channel \union {NoOne}
  /\ allowlist \subseteq everAllowed /\ everAllowed \subseteq Target
  /\ pc \in [Handler -> {"idle", "done", "classify", "album", "cache", "ask", "apply",
                         "command", "act", "write"}]
  /\ msg \in [Handler -> MessageType]
  /\ seen \in [Handler -> Channel \union {NoOne, "error"}]
  /\ outcome \in [Handler -> [decision : {"ignore", "allow", "delete"},
                              reason : Reason]]
  /\ leads \in [Handler -> BOOLEAN]
  /\ published \in {NoOne, "allow", "delete"}
  /\ approved \subseteq (Channel \X (Sender \union {NoOne}))
  /\ linked \in [Handler -> Channel \union {NoOne}]
  /\ visible \in [Handler -> BOOLEAN] /\ replied \in [Handler -> BOOLEAN]
  /\ checked \in [Handler -> {"none", "creator", "other", "error"}]

\* m itself shows access to channel c: it comes from this bot, a globally allowed
\* one, the channel, or an anonymous administrator.
Inherent(m, c) ==
  IF m.form = "guest" THEN m.from \in {Self} \union GlobalBots
  ELSE \/ m.senderChat = c
       \/ IsAnonymousAdmin(m)
       \/ /\ m.senderChat = NoOne
          /\ \/ m.from \in {Self} \union GlobalBots
             \/ AllowAnonymousAdmin /\ m.from = AnonymousBot

\* The bot whose permission, and the user whose membership, speaks for m.
BotOf(m) ==
  IF m.form = "guest" THEN {m.from}
  ELSE IF m.senderChat = NoOne THEN {m.from} \cap Bot ELSE {}

MemberOf(m) ==
  IF m.form = "guest" \/ m.senderChat # NoOne THEN {} ELSE {m.from} \ {NoOne}

\* The sender of m has shown access to channel c: m shows it, or the creator has
\* allowed the bot, or Telegram has confirmed the membership.
HasAccess(m, c) ==
  \/ Inherent(m, c)
  \/ BotOf(m) \cap everAllowed # {}
  \/ \E u \in MemberOf(m) : <<c, u>> \in approved

Gated(h) == seen[h] \in Channel /\ pc[h] \in {"apply", "command", "act", "write", "done"}

\* In a bound group nothing that a message carries (a command, a sender_chat, a
\* guest marker, an edit, an album) keeps it from being deleted when its sender
\* has not shown access; the exceptions are the fail-open after an API error, a
\* reused album decision, service messages and messages without a sender.
NoEscape ==
  \A h \in Handler :
    Gated(h) /\ ~HasAccess(msg[h], seen[h]) =>
      \/ outcome[h].decision = "delete"
      \/ outcome[h].reason \in {"error_default_allow", "media_group_dedup",
                                "service_message", "missing_sender"}

\* Posts of the bound channel, of this bot and of the globally allowed bots are
\* never deleted, also when the group is bound to another channel while the post
\* is being classified.
TrustedNeverDeleted ==
  \A h \in Handler :
    /\ Gated(h) /\ outcome[h].decision = "delete"
    => LET m == msg[h]
       IN /\ m.form # "service"
          /\ m.form # "guest" => m.senderChat # seen[h]
          /\ m.form = "guest" \/ m.senderChat = NoOne =>
               m.from \notin {Self} \union GlobalBots

\* A command's handler runs only for a message nobody edited, and, unless the
\* group was not bound or its binding could not be read when it arrived, only for
\* a sender that has shown access: the fail-open after an API error never reaches
\* the dispatcher.
CommandsNeedAccess ==
  \A h \in Handler :
    pc[h] \in {"command", "act", "write"} =>
      /\ ~msg[h].edit
      /\ seen[h] \in Channel => HasAccess(msg[h], seen[h])

\* The bot answers in a group only the creator, or somebody whose status it could
\* not find out: a stranger cannot make it write messages.
SilentToOthers ==
  \A h \in Handler :
    replied[h] /\ ~msg[h].private => checked[h] \in {"creator", "error"}

\* The tables change only by a message of the creator that this group's handler
\* was checked for, in its original form, and each table only by its commands.
OnlyCreatorChanges ==
  [][ /\ binding' # binding =>
           \E h \in Handler : /\ msg[h].from = Creator /\ ~msg[h].edit
                              /\ msg[h].text.cmd \in {"bind", "unbind"}
                              /\ msg[h].text.toThisBot /\ ~msg[h].text.args
                              /\ ~msg[h].private
      /\ \A b \in everAllowed' \ everAllowed :
           \E h \in Handler : /\ msg[h].from = Creator /\ ~msg[h].edit
                              /\ msg[h].text.cmd = "allowbot"
                              /\ msg[h].text.toThisBot
    ]_<<binding, everAllowed>>
-----------------------------------------------------------------------------
(* The abstract specification.                                             *)

Stage(label) ==
  IF label = "idle" THEN "free"
  ELSE IF label \in {"classify", "album", "cache", "ask"} THEN "judging"
  ELSE IF label = "apply" THEN "judged"
  ELSE IF label = "done" THEN "done" ELSE "serving"

JudgedFor(c) == IF c \in Channel THEN c ELSE NoOne

\* What an outcome means for the message.
Verdict(out) ==
  IF out = Undecided THEN "none"
  ELSE IF out.decision = "delete" THEN "remove"
  ELSE IF out.reason = "no_binding" THEN "unmoderated"
  ELSE IF out.reason = "command" THEN "serve"
  ELSE IF out.reason \in {"error_default_allow", "media_group_dedup"} THEN "doubt"
  ELSE "keep"

\* The commands a message can give to the dispatcher.
OrderOf(m) ==
  IF ~m.edit /\ m.senderChat \in {NoOne, "group"} /\ Dispatched(m.text)
  THEN m.text.cmd ELSE NoOne

Trusted == {mc \in Message \X Channel : Inherent(mc[1], mc[2])}
Exempt == {m \in Message : \/ m.form = "service"
                          \/ /\ m.form # "guest" /\ m.senderChat = NoOne
                             /\ m.from = NoOne}
Bots == [m \in Message |-> BotOf(m)]
Members == [m \in Message |-> MemberOf(m)]
Order == [m \in Message |-> OrderOf(m)]
Private == {m \in Message : m.private}
Owned == {m \in Message : m.from = Creator /\ ~m.private}

stage == [h \in Handler |-> Stage(pc[h])]
channel == [h \in Handler |-> JudgedFor(seen[h])]
verdict == [h \in Handler |-> Verdict(outcome[h])]

Moderated == INSTANCE Moderation WITH
  Worker <- Handler, permitted <- everAllowed, confirmed <- approved, post <- msg

\* Whatever branch, cache, album or API call decides, and whatever the commands of
\* other handlers change meanwhile: a message is judged once, for the channel it
\* arrived under, on access that was really shown, and only the creator's commands
\* change the tables, each once and after its message was judged.
ImplementsModeration == Moderated!Spec
==============================================================================
