-------------------------- MODULE HandleUpdate_proofs --------------------------
(* Proofs about HandleUpdate, for any number of handlers, messages, channels,  *)
(* users and bots.                                                             *)
EXTENDS HandleUpdate, TLAPS

OutcomeType == [decision : {"ignore", "allow", "delete"}, reason : Reason]

-----------------------------------------------------------------------------
(* Types.                                                                    *)

LEMMA InitTypes == Init => TypeOK
<1>. SUFFICES ASSUME Init PROVE TypeOK
  OBVIOUS
<1>1. NoMessage \in MessageType
  BY HandleUpdateAssumption DEF NoMessage
<1>2. Undecided \in OutcomeType
  BY DEF Undecided, Ignore, OutcomeType, Reason
<1>. QED BY <1>1, <1>2 DEF Init, TypeOK, Writes, InPipeline, OutcomeType

\* The outcome of Demoted is the one it was given, or the command of a sender
\* that a positive check has allowed.
LEMMA DemotedCases ==
  ASSUME NEW m, NEW out \in OutcomeType
  PROVE  /\ Demoted(m, out) \in OutcomeType
         /\ \/ Demoted(m, out) = out
            \/ /\ Demoted(m, out) = Ignore("command")
               /\ out.decision = "allow" /\ out.reason \in VerifiedAccess
               /\ ~m.edit /\ IsPureCommand(m.text)
<1>1. Ignore("command") \in OutcomeType
  BY DEF Ignore, OutcomeType, Reason
<1>. QED BY <1>1 DEF Demoted

\* Deciding an outcome keeps the types.
LEMMA DecidedTypes ==
  ASSUME TypeOK, NEW h \in Handler, NEW out \in OutcomeType, Decided(h, out),
         UNCHANGED <<tables, msg, seen, leads, visible, commandVars>>,
         published' \in {NoOne, "allow", "delete"},
         approved' \subseteq (Channel \X (Sender \union {NoOne}))
  PROVE  TypeOK'
<1>1. Demoted(msg[h], out) \in OutcomeType
  BY DemotedCases
<1>2. outcome' \in [Handler -> OutcomeType]
  BY <1>1 DEF Decided, TypeOK, OutcomeType
<1>3. pc' \in [Handler -> {"idle", "done", "classify", "album", "cache", "ask", "apply",
                         "command", "act", "write"}]
  BY DEF Decided, Goto, TypeOK
<1>4. \A k \in Handler : Writes(k, "bind")' => linked'[k] \in Channel
  BY DEF Decided, Goto, TypeOK, Writes, commandVars
<1>5. \A k \in Handler : InPipeline(k)' => seen'[k] \in Channel
  BY DEF Decided, Goto, TypeOK, InPipeline
<1>. QED BY <1>2, <1>3, <1>4, <1>5 DEF TypeOK, tables, commandVars, OutcomeType

LEMMA ClassifyTypes ==
  ASSUME TypeOK, NEW h \in Handler, Classify(h)
  PROVE  TypeOK'
<1>. USE DEF Deciding, Ignore, Allow, Delete
<1>p. /\ published \in {NoOne, "allow", "delete"}
      /\ approved \subseteq (Channel \X (Sender \union {NoOne}))
  BY DEF TypeOK
<1>o. \A d \in {"ignore", "allow", "delete"}, r \in Reason :
        [decision |-> d, reason |-> r] \in OutcomeType
  BY DEF OutcomeType
<1>r. {"service_message", "bot_allowlist", "guest_bot", "channel_root_post",
       "anonymous_admin", "other_sender_chat", "missing_sender"} \subseteq Reason
  BY DEF Reason, AnyReason
<1>1. ASSUME NEW a \in BOOLEAN, GuestReply(h, a) PROVE TypeOK'
  <2>1. PICK out \in OutcomeType : Decided(h, out)
    BY <1>1, <1>o, <1>r DEF GuestReply
  <2>. QED BY <1>1, <2>1, <1>p, DecidedTypes DEF GuestReply
<1>2. CASE ServiceMessage(h)
  <2>1. PICK out \in OutcomeType : Decided(h, out)
    BY <1>2, <1>o, <1>r DEF ServiceMessage
  <2>. QED BY <1>2, <2>1, <1>p, DecidedTypes DEF ServiceMessage
<1>3. CASE SenderChat(h)
  <2>1. PICK out \in OutcomeType : Decided(h, out)
    BY <1>3, <1>o, <1>r DEF SenderChat
  <2>. QED BY <1>3, <2>1, <1>p, DecidedTypes DEF SenderChat
<1>4. CASE MissingSender(h)
  <2>1. PICK out \in OutcomeType : Decided(h, out)
    BY <1>4, <1>o, <1>r DEF MissingSender
  <2>. QED BY <1>4, <2>1, <1>p, DecidedTypes DEF MissingSender
<1>5. CASE AllowedBot(h)
  <2>1. PICK out \in OutcomeType : Decided(h, out)
    BY <1>5, <1>o, <1>r DEF AllowedBot
  <2>. QED BY <1>5, <2>1, <1>p, DecidedTypes DEF AllowedBot
<1>6. CASE BareAnonymousAdmin(h)
  <2>1. PICK out \in OutcomeType : Decided(h, out)
    BY <1>6, <1>o, <1>r DEF BareAnonymousAdmin
  <2>. QED BY <1>6, <2>1, <1>p, DecidedTypes DEF BareAnonymousAdmin
<1>7. CASE NeedsMembership(h)
  BY <1>7 DEF NeedsMembership, Ordinary, OtherSender, Personal, Goto, TypeOK, Writes,
               InPipeline, tables, commandVars
<1>. QED BY <1>1, <1>2, <1>3, <1>4, <1>5, <1>6, <1>7 DEF Classify

LEMMA MembershipTypes ==
  ASSUME TypeOK, NEW h \in Handler, CheckMembership(h)
  PROVE  TypeOK'
<1>. USE DEF Allow, Delete
<1>p. /\ published \in {NoOne, "allow", "delete"}
      /\ approved \subseteq (Channel \X (Sender \union {NoOne}))
  BY DEF TypeOK
<1>o. \A d \in {"ignore", "allow", "delete"}, r \in Reason :
        [decision |-> d, reason |-> r] \in OutcomeType
  BY DEF OutcomeType
<1>r. {"media_group_dedup", "cache_hit", "member", "not_member",
       "error_default_allow"} \subseteq Reason
  BY DEF Reason, AnyReason
<1>1. CASE ReuseAlbum(h)
  <2>1. [decision |-> published, reason |-> "media_group_dedup"] \in OutcomeType
    BY <1>1, <1>p, <1>o, <1>r DEF ReuseAlbum
  <2>. QED BY <1>1, <2>1, <1>p, DecidedTypes DEF ReuseAlbum, Deciding
<1>2. ASSUME NEW l \in BOOLEAN, AcquireAlbum(h, l) PROVE TypeOK'
  BY <1>2 DEF AcquireAlbum, Goto, TypeOK, Writes, InPipeline, tables, commandVars
<1>3. CASE CacheMiss(h)
  BY <1>3 DEF CacheMiss, Deciding, Goto, TypeOK, Writes, InPipeline, tables, commandVars
<1>4. ASSUME NEW out \in OutcomeType, out.decision \in {"allow", "delete"},
             Conclude(h, out),
             approved' \subseteq (Channel \X (Sender \union {NoOne}))
      PROVE  TypeOK'
  <2>1. published' \in {NoOne, "allow", "delete"}
    BY <1>4, <1>p DEF Conclude
  <2>. QED BY <1>4, <2>1, DecidedTypes DEF Conclude
<1>5. CASE CacheHit(h)
  BY <1>5, <1>4, <1>p, <1>o, <1>r DEF CacheHit
<1>6. CASE Member(h)
  <2>1. seen[h] \in Channel
    BY <1>6 DEF Member, TypeOK, InPipeline
  <2>2. msg[h] \in MessageType
    BY DEF TypeOK
  <2>3. msg[h].from \in Sender \union {NoOne}
    BY <2>2 DEF MessageType
  <2>4. Asked(h) \in Channel \X (Sender \union {NoOne})
    BY <2>1, <2>3 DEF Asked
  <2>. QED BY <1>6, <2>4, <1>4, <1>p, <1>o, <1>r DEF Member
<1>7. CASE NotMember(h) \/ AskFails(h)
  BY <1>7, <1>4, <1>p, <1>o, <1>r DEF NotMember, AskFails
<1>. QED BY <1>1, <1>2, <1>3, <1>5, <1>6, <1>7 DEF CheckMembership

\* A command's step ends the handler, moves it to "act" or "write", or writes a
\* table.
LEMMA CommandTypes ==
  ASSUME TypeOK, NEW h \in Handler, Command(h)
  PROVE  TypeOK'
<1>. USE DEF TypeOK, Writes, InPipeline, Goto, InGroup, tables, gateVars, commandVars
<1>1. ASSUME NEW c \in {"none", "creator", "other", "error"}, NEW r \in BOOLEAN,
             Quit(h, c, r), visible' \in [Handler -> BOOLEAN]
      PROVE  TypeOK'
  BY <1>1 DEF Quit
<1>2. SilentDelete(h) => visible' \in [Handler -> BOOLEAN]
  BY DEF SilentDelete
<1>3. CASE WrongChat(h)
  BY <1>3, <1>1 DEF WrongChat
<1>4. CASE NoSender(h)
  BY <1>4, <1>1, <1>2 DEF NoSender
<1>5. CASE CheckFails(h)
  BY <1>5, <1>1 DEF CheckFails
<1>6. CASE NotCreator(h)
  BY <1>6, <1>1, <1>2 DEF NotCreator
<1>7. CASE CreatorChecked(h)
  BY <1>7 DEF CreatorChecked
<1>8. CASE ActFails(h)
  BY <1>8, <1>1 DEF ActFails
<1>9. CASE Status(h)
  BY <1>9, <1>1 DEF Status
<1>10. ASSUME NEW c \in Channel \union {NoOne}, BindChecks(h, c) PROVE TypeOK'
  BY <1>10 DEF BindChecks, IsLinked
<1>11. CASE AllowlistChecks(h)
  <2>1. msg[h].text.cmd # "bind"
    BY <1>11 DEF AllowlistChecks, ArgCmds
  <2>. QED BY <1>11, <2>1 DEF AllowlistChecks
<1>12. CASE UpsertBinding(h)
  BY <1>12 DEF UpsertBinding, Answered
<1>13. CASE DeleteBinding(h)
  BY <1>13 DEF DeleteBinding, Answered
<1>14. ASSUME NEW b \in Target, AllowBot(h, b) PROVE TypeOK'
  BY <1>14 DEF AllowBot, Answered
<1>15. ASSUME NEW b \in Target, DisallowBot(h, b) PROVE TypeOK'
  BY <1>15 DEF DisallowBot, Answered
<1>. QED BY <1>3, <1>4, <1>5, <1>6, <1>7, <1>8, <1>9, <1>10, <1>11, <1>12, <1>13,
            <1>14, <1>15 DEF Command

\* Every step keeps the types.
LEMMA StepTypes ==
  ASSUME TypeOK, NEW h \in Handler, Step(h)
  PROVE  TypeOK'
<1>. USE DEF Goto, Writes, InPipeline, tables, gateVars, commandVars
<1>1. CASE Lookup(h)
  <2>1. PICK m \in Input[h], result \in {"error", NoOne, binding} :
          /\ msg' = [msg EXCEPT ![h] = m]
          /\ seen' = [seen EXCEPT ![h] = result]
          /\ IF result \in Channel
             THEN Goto(h, "classify") /\ UNCHANGED outcome
             ELSE /\ Goto(h, "apply")
                  /\ outcome' = [outcome EXCEPT ![h] = Ignore("no_binding")]
    BY <1>1 DEF Lookup
  <2>2. m \in MessageType
    BY HandleUpdateAssumption
  <2>3. result \in Channel \union {NoOne, "error"}
    BY DEF TypeOK
  <2>4. Ignore("no_binding") \in OutcomeType
    BY DEF Ignore, OutcomeType, Reason
  <2>5. outcome' \in [Handler -> OutcomeType]
    BY <2>1, <2>4 DEF TypeOK, OutcomeType
  <2>6. UNCHANGED <<tables, published, leads, approved, visible, commandVars>>
    BY <1>1 DEF Lookup
  <2>7. /\ msg' \in [Handler -> MessageType]
        /\ seen' \in [Handler -> Channel \union {NoOne, "error"}]
        /\ pc' \in [Handler -> {"idle", "done", "classify", "album", "cache", "ask",
                                "apply", "command", "act", "write"}]
    BY <2>1, <2>2, <2>3 DEF TypeOK
  <2>8. /\ \A k \in Handler : InPipeline(k)' => seen'[k] \in Channel
        /\ \A k \in Handler : Writes(k, "bind")' => linked'[k] \in Channel
    BY <2>1, <2>6 DEF TypeOK
  <2>. QED BY <2>5, <2>6, <2>7, <2>8 DEF TypeOK, OutcomeType
<1>2. CASE Apply(h)
  BY <1>2 DEF Apply, TypeOK
<1>3. CASE Return(h)
  <2>1. NoMessage \in MessageType
    BY HandleUpdateAssumption DEF NoMessage
  <2>2. Undecided \in OutcomeType
    BY DEF Undecided, Ignore, OutcomeType, Reason
  <2>. QED BY <1>3, <2>1, <2>2 DEF Return, TypeOK, OutcomeType
<1>. QED BY <1>1, <1>2, <1>3, ClassifyTypes, MembershipTypes, CommandTypes DEF Step

\* Every variable keeps its type; membership is only asked of a channel, and a
\* /bind about to be written names one.
THEOREM TypeCorrect == Spec => []TypeOK
<1>1. TypeOK /\ [Next]_vars => TypeOK'
  <2>1. ASSUME TypeOK, Next PROVE TypeOK'
    BY <2>1, StepTypes DEF Next
  <2>2. ASSUME TypeOK, UNCHANGED vars PROVE TypeOK'
    BY <2>2 DEF vars, tables, gateVars, commandVars, TypeOK, Writes, InPipeline
  <2>. QED BY <2>1, <2>2
<1>. QED BY <1>1, InitTypes, PTL DEF Spec

-----------------------------------------------------------------------------
(* The gate.  Its invariant says what the outcome of a decided message rests *)
(* on (Judged), which needs who is asked for membership (Asking).            *)

Excused == {"error_default_allow", "media_group_dedup", "service_message",
            "missing_sender"}

\* The message of h is not one that must never be deleted.
Deletable(h) ==
  /\ msg[h].form # "service"
  /\ ~Inherent(msg[h], seen[h])
  /\ msg[h].form # "guest" /\ msg[h].senderChat = NoOne => msg[h].from # NoOne

Sound(h, out) ==
  /\ out.reason # "no_binding"
  /\ out.decision = "delete" \/ out.reason \in Excused \/ HasAccess(msg[h], seen[h])
  /\ out.reason = "command" => HasAccess(msg[h], seen[h])
  /\ out.decision = "delete" => Deletable(h)

Judged(h) == Gated(h) => Sound(h, outcome[h])

\* Only an ordinary message of a sender that nothing else allows is looked up.
Asking(h) ==
  pc[h] \in {"album", "cache", "ask"} =>
    /\ msg[h].form \notin {"guest", "service"} /\ msg[h].senderChat = NoOne
    /\ msg[h].from \notin {NoOne, Self} \union GlobalBots
    /\ ~(AllowAnonymousAdmin /\ msg[h].from = AnonymousBot)

GateInv == \A h \in Handler : Judged(h) /\ Asking(h)

\* A justified outcome stays justified when it becomes a command's.
LEMMA DecidedSound ==
  ASSUME TypeOK, NEW h \in Handler, NEW out \in OutcomeType, Decided(h, out),
         UNCHANGED <<msg, seen>>, Sound(h, out)', out.reason # "command"
  PROVE  Judged(h)' /\ Asking(h)'
<1>1. outcome'[h] = Demoted(msg[h], out) /\ pc'[h] = "apply"
  BY DEF Decided, Goto, TypeOK
<1>2. CASE outcome'[h] = out
  BY <1>1, <1>2 DEF Judged, Asking, Sound
<1>3. CASE /\ outcome'[h] = Ignore("command")
           /\ out.decision = "allow" /\ out.reason \in VerifiedAccess
  <2>1. HasAccess(msg[h], seen[h])'
    BY <1>3 DEF Sound, Excused, VerifiedAccess
  <2>. QED BY <1>1, <1>3, <2>1 DEF Judged, Asking, Sound, Ignore
<1>. QED BY <1>1, <1>2, <1>3, DemotedCases

\* What holds of an outcome when the histories stand still holds after the step.
LEMMA SoundKept ==
  ASSUME NEW h, NEW out, Sound(h, out),
         UNCHANGED <<msg, seen, everAllowed, approved>>
  PROVE  Sound(h, out)'
BY DEF Sound, Deletable, HasAccess, Inherent, BotOf, MemberOf, IsAnonymousAdmin

\* Classification justifies every outcome.
LEMMA ClassifySound ==
  ASSUME TypeOK, NEW h \in Handler, Classify(h)
  PROVE  Judged(h)' /\ Asking(h)'
<1>. USE DEF Deciding, Ignore, Allow, Delete
<1>o. \A d \in {"ignore", "allow", "delete"}, r \in Reason :
        [decision |-> d, reason |-> r] \in OutcomeType
  BY DEF OutcomeType
<1>r. {"service_message", "bot_allowlist", "guest_bot", "channel_root_post",
       "anonymous_admin", "other_sender_chat", "missing_sender"} \subseteq Reason
  BY DEF Reason, AnyReason
<1>f. UNCHANGED <<msg, seen, everAllowed, approved>>
  BY DEF Classify, ServiceMessage, GuestReply, SenderChat, MissingSender,
         AllowedBot, BareAnonymousAdmin, NeedsMembership, tables
<1>a. \A b : /\ TRUE \in BotAllowed(b) => b \in GlobalBots \union everAllowed
             /\ FALSE \in BotAllowed(b) => b \notin GlobalBots
  BY DEF BotAllowed
<1>s. NoOne \notin {Self} \union GlobalBots /\ NoOne \notin Channel
  BY HandleUpdateAssumption
<1>d. ASSUME NEW out \in OutcomeType, Decided(h, out), Sound(h, out),
             out.reason # "command"
      PROVE  Judged(h)' /\ Asking(h)'
  BY <1>d, <1>f, SoundKept, DecidedSound
<1>1. ASSUME NEW a \in BOOLEAN, GuestReply(h, a) PROVE Judged(h)' /\ Asking(h)'
  <2>1. PICK out \in OutcomeType :
          /\ Decided(h, out)
          /\ out = IF msg[h].from # NoOne /\ (msg[h].from = Self \/ a)
                   THEN Allow("bot_allowlist") ELSE Delete("guest_bot")
    BY <1>1, <1>o, <1>r DEF GuestReply
  <2>2. Sound(h, out)
    BY <1>1, <2>1, <1>a, <1>s DEF GuestReply, IsGuestReply, Sound, Deletable, HasAccess,
                Inherent, BotOf, MemberOf
  <2>. QED BY <2>1, <2>2, <1>d
<1>2. CASE ServiceMessage(h)
  <2>1. Sound(h, Ignore("service_message"))
    BY DEF Sound, Excused
  <2>. QED BY <1>2, <2>1, <1>d, <1>o, <1>r DEF ServiceMessage
<1>3. CASE SenderChat(h)
  <2>1. PICK out \in OutcomeType :
          /\ Decided(h, out)
          /\ out = IF IsChannelPost(h) THEN Allow("channel_root_post")
                   ELSE IF IsAnonymousAdmin(msg[h]) THEN Allow("anonymous_admin")
                   ELSE Delete("other_sender_chat")
    BY <1>3, <1>o, <1>r DEF SenderChat
  <2>2. Sound(h, out)
    BY <1>3, <2>1 DEF SenderChat, Ordinary, IsGuestReply, IsChannelPost, Sound,
                      Deletable, HasAccess, Inherent, BotOf, MemberOf
  <2>. QED BY <2>1, <2>2, <1>d
<1>4. CASE MissingSender(h)
  <2>1. Sound(h, Ignore("missing_sender"))
    BY DEF Sound, Excused
  <2>. QED BY <1>4, <2>1, <1>d, <1>o, <1>r DEF MissingSender
<1>5. CASE AllowedBot(h)
  <2>1. Sound(h, Allow("bot_allowlist"))
    BY <1>5, <1>a DEF AllowedBot, Personal, Ordinary, IsGuestReply, Sound, HasAccess,
                Inherent, BotOf, MemberOf
  <2>. QED BY <1>5, <2>1, <1>d, <1>o, <1>r DEF AllowedBot
<1>6. CASE BareAnonymousAdmin(h)
  <2>1. Sound(h, Allow("anonymous_admin"))
    BY <1>6 DEF BareAnonymousAdmin, OtherSender, Personal, Ordinary, IsGuestReply,
                Sound, HasAccess, Inherent, BotOf, MemberOf
  <2>. QED BY <1>6, <2>1, <1>d, <1>o, <1>r DEF BareAnonymousAdmin
<1>7. CASE NeedsMembership(h)
  <2>1. pc'[h] \in {"album", "cache"}
    BY <1>7 DEF NeedsMembership, Goto, TypeOK
  <2>2. msg[h].from \notin GlobalBots
    BY <1>7, <1>a, HandleUpdateAssumption DEF NeedsMembership, OtherSender
  <2>. QED BY <1>7, <1>f, <2>1, <2>2 DEF NeedsMembership, OtherSender, Personal,
              Ordinary, IsGuestReply, Judged, Gated, Asking
<1>. QED BY <1>1, <1>2, <1>3, <1>4, <1>5, <1>6, <1>7 DEF Classify

\* So does the membership check.
LEMMA MembershipSound ==
  ASSUME TypeOK, NEW h \in Handler, Asking(h), CheckMembership(h)
  PROVE  Judged(h)' /\ Asking(h)'
<1>. USE DEF Allow, Delete
<1>o. \A d \in {"ignore", "allow", "delete"}, r \in Reason :
        [decision |-> d, reason |-> r] \in OutcomeType
  BY DEF OutcomeType
<1>r. {"media_group_dedup", "cache_hit", "member", "not_member",
       "error_default_allow"} \subseteq Reason
  BY DEF Reason, AnyReason
<1>c. pc[h] \in {"album", "cache", "ask"}
  BY DEF CheckMembership, ReuseAlbum, AcquireAlbum, CacheHit, CacheMiss, Member,
         NotMember, AskFails
<1>f. UNCHANGED <<msg, seen, everAllowed>>
  BY DEF CheckMembership, ReuseAlbum, AcquireAlbum, CacheHit, CacheMiss, Member,
         NotMember, AskFails, Conclude, Deciding, tables
<1>x. /\ Deletable(h)
      /\ msg[h].form \notin {"guest", "service"} /\ msg[h].senderChat = NoOne
  BY <1>c, HandleUpdateAssumption DEF Asking, Deletable, Inherent, IsAnonymousAdmin, TypeOK,
                                     InPipeline
<1>m. MemberOf(msg[h]) = {msg[h].from}
  BY <1>c, <1>x DEF Asking, MemberOf
<1>d. ASSUME NEW out \in OutcomeType, Decided(h, out), Sound(h, out)',
             out.reason # "command"
      PROVE  Judged(h)' /\ Asking(h)'
  BY <1>d, <1>f, DecidedSound
<1>k. ASSUME NEW out, Sound(h, out), approved' = approved PROVE Sound(h, out)'
  BY <1>k, <1>f, SoundKept
<1>1. CASE ReuseAlbum(h)
  <2>1. PICK out \in OutcomeType :
          /\ Decided(h, out)
          /\ out = [decision |-> published, reason |-> "media_group_dedup"]
    BY <1>1, <1>o, <1>r DEF ReuseAlbum, TypeOK
  <2>2. Sound(h, out)
    BY <2>1, <1>x DEF Sound, Excused
  <2>. QED BY <1>1, <2>1, <2>2, <1>d, <1>k DEF ReuseAlbum, Deciding
<1>2. ASSUME NEW l \in BOOLEAN, AcquireAlbum(h, l) PROVE Judged(h)' /\ Asking(h)'
  <2>1. pc'[h] = "cache"
    BY <1>2 DEF AcquireAlbum, Goto, TypeOK
  <2>. QED BY <2>1, <1>c, <1>f DEF Judged, Gated, Asking
<1>3. CASE CacheMiss(h)
  <2>1. pc'[h] = "ask"
    BY <1>3 DEF CacheMiss, Goto, TypeOK
  <2>. QED BY <2>1, <1>c, <1>f DEF Judged, Gated, Asking
<1>4. CASE CacheHit(h)
  <2>1. Sound(h, Allow("cache_hit"))
    <3>1. HasAccess(msg[h], seen[h])
      BY <1>4, <1>m DEF CacheHit, Asked, HasAccess
    <3>. QED BY <3>1 DEF Sound
  <2>. QED BY <1>4, <2>1, <1>d, <1>k, <1>o, <1>r DEF CacheHit, Conclude
<1>5. CASE Member(h)
  <2>1. <<seen[h], msg[h].from>> \in approved'
    BY <1>5 DEF Member, Asked
  <2>2. MemberOf(msg[h])' = {msg'[h].from}
    BY <1>m, <1>f DEF MemberOf
  <2>3. HasAccess(msg[h], seen[h])'
    BY <2>1, <2>2, <1>f DEF HasAccess
  <2>4. Sound(h, Allow("member"))'
    BY <2>3 DEF Sound
  <2>. QED BY <1>5, <2>4, <1>d, <1>o, <1>r DEF Member, Conclude
<1>6. CASE NotMember(h)
  <2>1. Sound(h, Delete("not_member"))
    BY <1>x DEF Sound
  <2>. QED BY <1>6, <2>1, <1>d, <1>k, <1>o, <1>r DEF NotMember, Conclude
<1>7. CASE AskFails(h)
  <2>1. Sound(h, Allow("error_default_allow"))
    BY DEF Sound, Excused
  <2>. QED BY <1>7, <2>1, <1>d, <1>k, <1>o, <1>r DEF AskFails, Conclude
<1>. QED BY <1>1, <1>2, <1>3, <1>4, <1>5, <1>6, <1>7 DEF CheckMembership

-----------------------------------------------------------------------------
(* The commands: who is in a handler's act, and to whom it replied.          *)

CommandInv ==
  \A h \in Handler :
    /\ pc[h] \in {"command", "act", "write"} => Reaches(h)
    /\ pc[h] \in {"act", "write"} =>
         msg[h].from = Creator /\ ~msg[h].private /\ checked[h] = "creator"
    /\ replied[h] => /\ pc[h] = "done"
                     /\ msg[h].private \/ checked[h] \in {"creator", "error"}

Inv == TypeOK /\ GateInv /\ CommandInv

LEMMA InitInv == Init => Inv
<1>. SUFFICES ASSUME Init PROVE Inv
  OBVIOUS
<1>1. TypeOK
  BY InitTypes
<1>2. GateInv
  BY DEF Init, GateInv, Judged, Gated, Asking
<1>3. CommandInv
  BY DEF Init, CommandInv
<1>. QED BY <1>1, <1>2, <1>3 DEF Inv

\* What a handler's step leaves alone: the other handlers; and the histories grow.
LEMMA Frame ==
  ASSUME TypeOK, NEW h \in Handler, Step(h)
  PROVE  /\ everAllowed \subseteq everAllowed' /\ approved \subseteq approved'
         /\ \A k \in Handler \ {h} :
              /\ pc'[k] = pc[k] /\ msg'[k] = msg[k] /\ seen'[k] = seen[k]
              /\ outcome'[k] = outcome[k]
              /\ checked'[k] = checked[k] /\ replied'[k] = replied[k]
<1>. DEFINE Kept ==
       /\ everAllowed \subseteq everAllowed' /\ approved \subseteq approved'
       /\ \A k \in Handler \ {h} :
            /\ pc'[k] = pc[k] /\ msg'[k] = msg[k] /\ seen'[k] = seen[k]
            /\ outcome'[k] = outcome[k]
            /\ checked'[k] = checked[k] /\ replied'[k] = replied[k]
<1>. USE DEF TypeOK, Goto, tables, gateVars, commandVars, Deciding, Decided
<1>1. CASE Lookup(h)
  BY <1>1 DEF Lookup
<1>2. CASE Classify(h)
  BY <1>2 DEF Classify, ServiceMessage, GuestReply, SenderChat, MissingSender,
              AllowedBot, BareAnonymousAdmin, NeedsMembership
<1>3. CASE CheckMembership(h)
  BY <1>3 DEF CheckMembership, ReuseAlbum, AcquireAlbum, CacheHit, CacheMiss,
              Member, NotMember, AskFails, Conclude
<1>4. CASE Apply(h)
  BY <1>4 DEF Apply
<1>5. CASE Command(h)
  BY <1>5 DEF Command, WrongChat, NoSender, CheckFails, NotCreator, CreatorChecked,
              ActFails, Status, BindChecks, AllowlistChecks, UpsertBinding,
              DeleteBinding, AllowBot, DisallowBot, Quit, Answered
<1>6. CASE Return(h)
  BY <1>6 DEF Return
<1>. QED BY <1>1, <1>2, <1>3, <1>4, <1>5, <1>6 DEF Step

\* A handler that stands still keeps its part of the gate's invariant.
LEMMA GateKept ==
  ASSUME NEW h \in Handler, Judged(h), Asking(h),
         everAllowed \subseteq everAllowed', approved \subseteq approved',
         msg'[h] = msg[h], seen'[h] = seen[h], outcome'[h] = outcome[h],
         Gated(h)' => Gated(h),
         pc'[h] \in {"album", "cache", "ask"} => pc'[h] = pc[h]
  PROVE  Judged(h)' /\ Asking(h)'
<1>1. HasAccess(msg[h], seen[h]) => HasAccess(msg[h], seen[h])'
  BY DEF HasAccess, Inherent, BotOf, MemberOf, IsAnonymousAdmin
<1>2. Deletable(h) => Deletable(h)'
  BY DEF Deletable, Inherent, IsAnonymousAdmin
<1>3. Judged(h)'
  BY <1>1, <1>2 DEF Judged, Sound
<1>. QED BY <1>3 DEF Asking

LEMMA GateStep ==
  ASSUME TypeOK, GateInv, NEW h \in Handler, Step(h)
  PROVE  GateInv'
<1>1. ASSUME NEW k \in Handler \ {h} PROVE Judged(k)' /\ Asking(k)'
  BY <1>1, Frame, GateKept DEF GateInv, Gated
<1>2. Judged(h)' /\ Asking(h)'
  <2>1. CASE Lookup(h)
    BY <2>1 DEF Lookup, Goto, TypeOK, Judged, Gated, Asking
  <2>2. CASE Apply(h)
    <3>1. pc[h] = "apply" /\ pc'[h] \in {"command", "done"}
      BY <2>2 DEF Apply, Goto, TypeOK
    <3>2. UNCHANGED <<msg, seen, outcome>>
      BY <2>2 DEF Apply, gateVars
    <3>. QED BY <3>1, <3>2, Frame, GateKept DEF GateInv, Gated
  <2>3. CASE Command(h)
    <3>1. /\ pc[h] \in {"command", "act", "write"}
          /\ pc'[h] \in {"act", "write", "done"}
      BY <2>3 DEF Command, WrongChat, InGroup, NoSender, CheckFails, NotCreator,
                  CreatorChecked, ActFails, Status, BindChecks, AllowlistChecks,
                  UpsertBinding, DeleteBinding, AllowBot, DisallowBot, Quit,
                  Answered, Acts, Writes, Goto, TypeOK
    <3>2. UNCHANGED <<msg, seen, outcome>>
      BY <2>3 DEF Command, WrongChat, NoSender, CheckFails, NotCreator,
                  CreatorChecked, ActFails, Status, BindChecks, AllowlistChecks,
                  UpsertBinding, DeleteBinding, AllowBot, DisallowBot, Quit,
                  Answered, gateVars
    <3>. QED BY <3>1, <3>2, Frame, GateKept DEF GateInv, Gated
  <2>4. CASE Return(h)
    BY <2>4 DEF Return, Goto, TypeOK, Judged, Gated, Asking
  <2>. QED BY <2>1, <2>2, <2>3, <2>4, ClassifySound, MembershipSound DEF Step, GateInv
<1>. QED BY <1>1, <1>2 DEF GateInv

LEMMA CommandStep ==
  ASSUME TypeOK, CommandInv, NEW h \in Handler, Step(h)
  PROVE  CommandInv'
<1>. DEFINE Own(k) ==
       /\ pc[k] \in {"command", "act", "write"} => Reaches(k)
       /\ pc[k] \in {"act", "write"} =>
            msg[k].from = Creator /\ ~msg[k].private /\ checked[k] = "creator"
       /\ replied[k] => /\ pc[k] = "done"
                        /\ msg[k].private \/ checked[k] \in {"creator", "error"}
<1>1. ASSUME NEW k \in Handler \ {h} PROVE Own(k)'
  BY <1>1, Frame DEF CommandInv, Reaches
<1>2. Own(h)'
  <2>. USE DEF TypeOK, Goto, CommandInv
  <2>1. CASE Lookup(h)
    BY <2>1 DEF Lookup, commandVars
  <2>2. CASE Classify(h)
    BY <2>2 DEF Classify, ServiceMessage, GuestReply, SenderChat, MissingSender,
                AllowedBot, BareAnonymousAdmin, NeedsMembership, Ordinary, Personal,
                OtherSender, Decided, Deciding, commandVars
  <2>3. CASE CheckMembership(h)
    BY <2>3 DEF CheckMembership, ReuseAlbum, AcquireAlbum, CacheHit, CacheMiss,
                Member, NotMember, AskFails, Conclude, Decided, Deciding, commandVars
  <2>4. CASE Apply(h)
    BY <2>4 DEF Apply, Reaches, gateVars, commandVars
  <2>5. CASE Command(h)
    <3>. USE DEF gateVars, commandVars, Quit, Answered, InGroup, Acts, Writes, Reaches
    <3>1. CASE WrongChat(h) \/ NoSender(h) \/ CheckFails(h) \/ NotCreator(h)
      BY <3>1 DEF WrongChat, NoSender, CheckFails, NotCreator
    <3>2. CASE CreatorChecked(h)
      BY <3>2 DEF CreatorChecked
    <3>3. CASE ActFails(h) \/ Status(h)
      BY <3>3 DEF ActFails, Status
    <3>4. CASE \/ AllowlistChecks(h)
               \/ \E c \in Channel \union {NoOne} : BindChecks(h, c)
      BY <3>4 DEF AllowlistChecks, BindChecks
    <3>5. CASE \/ UpsertBinding(h) \/ DeleteBinding(h)
               \/ \E b \in Target : AllowBot(h, b) \/ DisallowBot(h, b)
      BY <3>5 DEF UpsertBinding, DeleteBinding, AllowBot, DisallowBot
    <3>. QED BY <2>5, <3>1, <3>2, <3>3, <3>4, <3>5 DEF Command
  <2>6. CASE Return(h)
    BY <2>6 DEF Return
  <2>. QED BY <2>1, <2>2, <2>3, <2>4, <2>5, <2>6 DEF Step
<1>. QED BY <1>1, <1>2 DEF CommandInv

LEMMA Invariance == Spec => []Inv
<1>1. Inv /\ [Next]_vars => Inv'
  <2>1. ASSUME Inv, Next PROVE Inv'
    BY <2>1, StepTypes, GateStep, CommandStep DEF Next, Inv
  <2>2. ASSUME Inv, UNCHANGED vars PROVE Inv'
    <3>. USE <2>2 DEF Inv, vars, tables, gateVars, commandVars
    <3>1. TypeOK'
      BY DEF TypeOK, Writes, InPipeline
    <3>2. GateInv'
      BY GateKept DEF GateInv, Gated
    <3>3. CommandInv'
      BY DEF CommandInv, Reaches
    <3>. QED BY <3>1, <3>2, <3>3
  <2>. QED BY <2>1, <2>2
<1>. QED BY <1>1, InitInv, PTL DEF Spec

\* In a bound group nothing a message carries keeps it from being deleted when its
\* sender has not shown access; the exceptions are the fail-open after an API
\* error, a reused album decision, service messages and messages without a sender.
THEOREM NothingEscapes == Spec => []NoEscape
<1>1. Inv => NoEscape
  BY DEF Inv, GateInv, Judged, Sound, Excused, NoEscape
<1>. QED BY <1>1, Invariance, PTL

\* Posts of the bound channel, of this bot and of the globally allowed bots are
\* never deleted.
THEOREM TrustedAreSafe == Spec => []TrustedNeverDeleted
<1>1. Inv => TrustedNeverDeleted
  BY DEF Inv, GateInv, Judged, Sound, Deletable, Inherent, TrustedNeverDeleted
<1>. QED BY <1>1, Invariance, PTL

\* A command's handler runs only for an unedited message of a sender that has
\* shown access, unless the group was not bound when it arrived.
THEOREM CommandsAreAuthorised == Spec => []CommandsNeedAccess
<1>1. Inv => CommandsNeedAccess
  BY DEF Inv, GateInv, Judged, Gated, Sound, CommandInv, Reaches, Ignore,
         CommandsNeedAccess
<1>. QED BY <1>1, Invariance, PTL

\* The bot answers in a group only the creator, or somebody whose status it could
\* not find out.
THEOREM StrangersGetNoReply == Spec => []SilentToOthers
<1>1. Inv => SilentToOthers
  BY DEF Inv, CommandInv, SilentToOthers
<1>. QED BY <1>1, Invariance, PTL

\* A step that changes the binding or allows a bot is the creator's.
LEMMA ChangesAreTheCreators ==
  ASSUME Inv, NEW h \in Handler, Step(h)
  PROVE  /\ binding' # binding =>
              /\ msg[h].from = Creator /\ ~msg[h].edit
              /\ msg[h].text.cmd \in {"bind", "unbind"}
              /\ msg[h].text.toThisBot /\ ~msg[h].text.args /\ ~msg[h].private
         /\ everAllowed' # everAllowed =>
              /\ msg[h].from = Creator /\ ~msg[h].edit
              /\ msg[h].text.cmd = "allowbot" /\ msg[h].text.toThisBot
<1>. USE DEF tables
<1>1. CASE Lookup(h) \/ Apply(h) \/ Return(h)
  BY <1>1 DEF Lookup, Apply, Return
<1>2. CASE Classify(h)
  BY <1>2 DEF Classify, ServiceMessage, GuestReply, SenderChat, MissingSender,
              AllowedBot, BareAnonymousAdmin, NeedsMembership, Deciding
<1>3. CASE CheckMembership(h)
  BY <1>3 DEF CheckMembership, ReuseAlbum, AcquireAlbum, CacheHit, CacheMiss,
              Member, NotMember, AskFails, Conclude, Deciding
<1>4. CASE Command(h)
  <2>. USE DEF Inv, CommandInv, Reaches, Dispatched, ArgCmds, Acts, Writes
  <2>1. CASE UpsertBinding(h)
    BY <2>1 DEF UpsertBinding
  <2>2. CASE DeleteBinding(h)
    BY <2>2 DEF DeleteBinding
  <2>3. CASE \E b \in Target : AllowBot(h, b) \/ DisallowBot(h, b)
    BY <2>3 DEF AllowBot, DisallowBot
  <2>. QED BY <1>4, <2>1, <2>2, <2>3 DEF Command, WrongChat, NoSender, CheckFails,
              NotCreator, CreatorChecked, ActFails, Status, BindChecks,
              AllowlistChecks, Quit
<1>. QED BY <1>1, <1>2, <1>3, <1>4 DEF Step

\* The tables change only by a message of the creator, in its original form.
THEOREM CreatorOnly == Spec => OnlyCreatorChanges
<1>. DEFINE ByCreator ==
       /\ binding' # binding =>
            \E h \in Handler : /\ msg[h].from = Creator /\ ~msg[h].edit
                               /\ msg[h].text.cmd \in {"bind", "unbind"}
                               /\ msg[h].text.toThisBot /\ ~msg[h].text.args
                               /\ ~msg[h].private
       /\ \A b \in everAllowed' \ everAllowed :
            \E h \in Handler : /\ msg[h].from = Creator /\ ~msg[h].edit
                               /\ msg[h].text.cmd = "allowbot"
                               /\ msg[h].text.toThisBot
<1>1. Inv /\ [Next]_vars => [ByCreator]_<<binding, everAllowed>>
  <2>1. ASSUME Inv, Next PROVE ByCreator
    BY <2>1, ChangesAreTheCreators DEF Next
  <2>2. UNCHANGED vars => UNCHANGED <<binding, everAllowed>>
    BY DEF vars
  <2>. QED BY <2>1, <2>2
<1>. QED BY <1>1, Invariance, PTL DEF Spec, OnlyCreatorChanges

-----------------------------------------------------------------------------
(* The abstract specification.  A step that decides is a Judge, whose verdict *)
(* GateInv justifies; the steps before it and between a command's checks      *)
(* change nothing there.                                                      *)

MessageInv ==
  \A h \in Handler :
    /\ msg[h] \in Message
    /\ pc[h] = "idle" => outcome[h] = Undecided
    /\ outcome[h].reason \in {"command", "no_binding"} => outcome[h].decision = "ignore"

LEMMA MessageStep ==
  ASSUME TypeOK, MessageInv, NEW h \in Handler, Step(h)
  PROVE  MessageInv'
<1>. DEFINE Own(k) ==
       /\ msg[k] \in Message
       /\ pc[k] = "idle" => outcome[k] = Undecided
       /\ outcome[k].reason \in {"command", "no_binding"} => outcome[k].decision = "ignore"
<1>. USE DEF TypeOK, MessageInv, Goto, Ignore, Allow, Delete
<1>1. ASSUME NEW k \in Handler \ {h} PROVE Own(k)'
  BY <1>1, Frame
<1>2. ASSUME NEW out, Decided(h, out), UNCHANGED msg,
             out.reason \notin {"command", "no_binding"}
      PROVE  Own(h)'
  <2>1. outcome'[h] = Demoted(msg[h], out) /\ pc'[h] = "apply" /\ msg'[h] = msg[h]
    BY <1>2 DEF Decided
  <2>2. Demoted(msg[h], out) \in {out, Ignore("command")}
    BY DEF Demoted
  <2>. QED BY <1>2, <2>1, <2>2
<1>f. Classify(h) \/ CheckMembership(h) => UNCHANGED msg
  BY DEF Classify, ServiceMessage, GuestReply, SenderChat, MissingSender, AllowedBot,
         BareAnonymousAdmin, NeedsMembership, CheckMembership, ReuseAlbum,
         AcquireAlbum, CacheHit, CacheMiss, Member, NotMember, AskFails, Conclude,
         Deciding
<1>3. Own(h)'
  <2>1. CASE Lookup(h)
    <3>1. PICK m \in Input[h], result \in {"error", NoOne, binding} :
            /\ msg' = [msg EXCEPT ![h] = m]
            /\ IF result \in Channel
               THEN Goto(h, "classify") /\ UNCHANGED outcome
               ELSE /\ Goto(h, "apply")
                    /\ outcome' = [outcome EXCEPT ![h] = Ignore("no_binding")]
      BY <2>1 DEF Lookup
    <3>2. m \in Message
      BY HandleUpdateAssumption
    <3>. QED BY <3>1, <3>2
  <2>2. CASE Classify(h)
    <3>1. CASE NeedsMembership(h)
      BY <3>1 DEF NeedsMembership, Deciding
    <3>2. CASE ServiceMessage(h) \/ MissingSender(h)
      <4>1. PICK out : Decided(h, out) /\ out.reason \notin {"command", "no_binding"}
        BY <3>2 DEF ServiceMessage, MissingSender
      <4>. QED BY <4>1, <1>2, <2>2, <1>f
    <3>3. CASE SenderChat(h)
      <4>1. PICK out : Decided(h, out) /\ out.reason \notin {"command", "no_binding"}
        BY <3>3 DEF SenderChat
      <4>. QED BY <4>1, <1>2, <2>2, <1>f
    <3>5. CASE AllowedBot(h) \/ BareAnonymousAdmin(h)
      <4>1. PICK r \in {"bot_allowlist", "anonymous_admin"} : Decided(h, Allow(r))
        BY <3>5 DEF AllowedBot, BareAnonymousAdmin
      <4>. QED BY <4>1, <1>2, <2>2, <1>f
    <3>4. CASE \E a \in BOOLEAN : GuestReply(h, a)
      <4>1. PICK out : Decided(h, out) /\ out.reason \notin {"command", "no_binding"}
        BY <3>4 DEF GuestReply
      <4>. QED BY <4>1, <1>2, <2>2, <1>f
    <3>. QED BY <2>2, <3>1, <3>2, <3>3, <3>4, <3>5 DEF Classify
  <2>3. CASE CheckMembership(h)
    <3>1. CASE ReuseAlbum(h)
      <4>1. PICK out : Decided(h, out) /\ out.reason \notin {"command", "no_binding"}
        BY <3>1 DEF ReuseAlbum
      <4>. QED BY <4>1, <1>2, <2>3, <1>f
    <3>2. CASE CacheMiss(h) \/ \E l \in BOOLEAN : AcquireAlbum(h, l)
      BY <3>2 DEF CacheMiss, AcquireAlbum, Deciding
    <3>3. CASE CacheHit(h) \/ Member(h) \/ NotMember(h) \/ AskFails(h)
      <4>1. PICK out : Decided(h, out) /\ out.reason \notin {"command", "no_binding"}
        BY <3>3 DEF CacheHit, Member, NotMember, AskFails, Conclude
      <4>. QED BY <4>1, <1>2, <2>3, <1>f
    <3>. QED BY <2>3, <3>1, <3>2, <3>3 DEF CheckMembership
  <2>4. CASE Apply(h)
    BY <2>4 DEF Apply, gateVars
  <2>5. CASE Command(h)
    BY <2>5 DEF Command, WrongChat, NoSender, CheckFails, NotCreator, CreatorChecked,
                ActFails, Status, BindChecks, AllowlistChecks, UpsertBinding,
                DeleteBinding, AllowBot, DisallowBot, Quit, Answered, gateVars
  <2>6. CASE Return(h)
    <3>1. NoMessage \in Message
      BY HandleUpdateAssumption DEF NoMessage
    <3>. QED BY <2>6, <3>1 DEF Return, Undecided
  <2>. QED BY <2>1, <2>2, <2>3, <2>4, <2>5, <2>6 DEF Step
<1>. QED BY <1>1, <1>3

LEMMA MessageInvariant == Spec => []MessageInv
<1>1. Init => MessageInv
  <2>1. NoMessage \in Message
    BY HandleUpdateAssumption DEF NoMessage
  <2>2. Undecided.reason \notin {"command", "no_binding"}
    BY DEF Undecided, Ignore
  <2>. QED BY <2>1, <2>2 DEF Init, MessageInv
<1>2. TypeOK /\ MessageInv /\ [Next]_vars => MessageInv'
  BY MessageStep DEF Next, MessageInv, vars
<1>. QED BY <1>1, <1>2, TypeCorrect, PTL DEF Spec

\* How the abstract state follows a handler's step.
LEMMA StageAfter ==
  ASSUME TypeOK, NEW h \in Handler, NEW l, Goto(h, l)
  PROVE  stage' = [stage EXCEPT ![h] = Stage(l)]
<1>1. \A k \in Handler : pc'[k] = IF k = h THEN l ELSE pc[k]
  BY DEF TypeOK, Goto
<1>. QED BY <1>1 DEF stage

LEMMA VerdictAfter ==
  ASSUME TypeOK, NEW h \in Handler, NEW out, outcome' = [outcome EXCEPT ![h] = out]
  PROVE  verdict' = [verdict EXCEPT ![h] = Verdict(out)]
<1>1. outcome \in [Handler -> OutcomeType]
  BY DEF TypeOK, OutcomeType
<1>2. \A k \in Handler : outcome'[k] = IF k = h THEN out ELSE outcome[k]
  BY <1>1
<1>3. \A k \in Handler : Verdict(outcome'[k]) = IF k = h THEN Verdict(out)
                                                     ELSE Verdict(outcome[k])
  BY <1>2
<1>. QED BY <1>3 DEF verdict

LEMMA ChannelAfter ==
  ASSUME TypeOK, NEW h \in Handler, NEW c, seen' = [seen EXCEPT ![h] = c]
  PROVE  channel' = [channel EXCEPT ![h] = JudgedFor(c)]
<1>1. seen \in [Handler -> Channel \union {NoOne, "error"}]
  BY DEF TypeOK
<1>2. \A k \in Handler : seen'[k] = IF k = h THEN c ELSE seen[k]
  BY <1>1
<1>3. \A k \in Handler : JudgedFor(seen'[k]) = IF k = h THEN JudgedFor(c)
                                                   ELSE JudgedFor(seen[k])
  BY <1>2
<1>. QED BY <1>3 DEF channel

LEMMA Unchanged ==
  /\ UNCHANGED pc => UNCHANGED stage
  /\ UNCHANGED seen => UNCHANGED channel
  /\ UNCHANGED outcome => UNCHANGED verdict
BY DEF stage, channel, verdict

LEMMA TakeStep ==
  ASSUME TypeOK, MessageInv, NEW h \in Handler, Lookup(h)
  PROVE  Moderated!Take(h)
<1>. PICK m \in Input[h], result \in {"error", NoOne, binding} :
       /\ m.private => result \in {"error", NoOne}
       /\ msg' = [msg EXCEPT ![h] = m]
       /\ seen' = [seen EXCEPT ![h] = result]
       /\ IF result \in Channel
          THEN Goto(h, "classify") /\ UNCHANGED outcome
          ELSE /\ Goto(h, "apply")
               /\ outcome' = [outcome EXCEPT ![h] = Ignore("no_binding")]
  BY DEF Lookup
<1>. DEFINE c == JudgedFor(result)
<1>1. m \in Message /\ NoOne \notin Channel /\ "error" \notin Channel
  BY HandleUpdateAssumption
<1>2. c \in {NoOne} \union {binding} /\ (m \in Private => c = NoOne)
  BY <1>1 DEF JudgedFor, Private
<1>3. c = NoOne <=> result \notin Channel
  BY <1>1 DEF JudgedFor
<1>4. stage' = [stage EXCEPT ![h] = IF c = NoOne THEN "judged" ELSE "judging"]
  BY <1>3, StageAfter DEF Stage
<1>5. channel' = [channel EXCEPT ![h] = c]
  BY ChannelAfter
<1>6. verdict' = [verdict EXCEPT ![h] = IF c = NoOne THEN "unmoderated" ELSE "none"]
  <2>1. CASE result \in Channel
    <3>1. verdict[h] = "none"
      BY DEF Lookup, MessageInv, verdict, Verdict
    <3>. QED BY <2>1, <3>1, <1>3, Unchanged DEF verdict
  <2>2. CASE result \notin Channel
    <3>1. verdict' = [verdict EXCEPT ![h] = Verdict(Ignore("no_binding"))]
      BY <2>2, VerdictAfter
    <3>2. Verdict(Ignore("no_binding")) = "unmoderated"
      BY DEF Verdict, Ignore, Undecided
    <3>. QED BY <2>2, <1>3, <3>1, <3>2
  <2>. QED BY <2>1, <2>2
<1>7. stage[h] = "free" /\ UNCHANGED <<binding, allowlist, everAllowed, approved, visible>>
  BY DEF Lookup, stage, Stage, tables
<1>. HIDE DEF c
<1>. QED BY <1>1, <1>2, <1>4, <1>5, <1>6, <1>7
         DEF Moderated!Take, Moderated!Reach, Moderated!authority

\* A step that arrives at an outcome, and what it found on the way.
Decides(h) ==
  /\ Goto(h, "apply") /\ \E out : outcome' = [outcome EXCEPT ![h] = out]
  /\ outcome'[h].reason # "none"
  /\ outcome'[h].reason = "service_message" => msg[h].form = "service"
  /\ outcome'[h].reason = "missing_sender" => Personal(h) /\ msg[h].from = NoOne
  /\ outcome'[h].reason \in {"error_default_allow", "media_group_dedup"} =>
       pc[h] \in {"album", "cache", "ask"}
  /\ \/ UNCHANGED approved
     \/ /\ pc[h] = "ask" /\ approved' = approved \union {Asked(h)}
        /\ outcome'[h] \in {Allow("member"), Ignore("command")}

\* A step that is still looking for one.
Searches(h) ==
  /\ \E l \in {"album", "cache", "ask"} : Goto(h, l)
  /\ UNCHANGED <<outcome, approved>>

PlainReason(reason) == reason \notin {"none", "service_message", "missing_sender",
                               "error_default_allow", "media_group_dedup"}

LEMMA DecidedFacts ==
  ASSUME TypeOK, NEW h \in Handler, NEW out, Decided(h, out)
  PROVE  /\ Goto(h, "apply") /\ \E o : outcome' = [outcome EXCEPT ![h] = o]
         /\ outcome'[h] \in {out, Ignore("command")}
         /\ Ignore("command").reason = "command"
BY DEF Decided, Demoted, Ignore, TypeOK

LEMMA PlainDecides ==
  ASSUME TypeOK, NEW h \in Handler, NEW out, Decided(h, out), PlainReason(out.reason),
         UNCHANGED approved
  PROVE  Decides(h)
BY DecidedFacts DEF Decides, PlainReason

LEMMA ClassifyDecides ==
  ASSUME TypeOK, NEW h \in Handler, Classify(h)
  PROVE  Decides(h) \/ Searches(h)
<1>a. UNCHANGED approved
  BY DEF Classify, ServiceMessage, GuestReply, SenderChat, MissingSender,
         AllowedBot, BareAnonymousAdmin, NeedsMembership, Deciding
<1>r. /\ \A r : Allow(r).reason = r /\ Delete(r).reason = r /\ Ignore(r).reason = r
      /\ PlainReason("bot_allowlist") /\ PlainReason("guest_bot") /\ PlainReason("channel_root_post")
      /\ PlainReason("anonymous_admin") /\ PlainReason("other_sender_chat")
  BY DEF Allow, Delete, Ignore, PlainReason
<1>1. CASE ServiceMessage(h)
  BY <1>1, <1>a, <1>r, DecidedFacts DEF ServiceMessage, Decides
<1>2. CASE MissingSender(h)
  BY <1>2, <1>a, <1>r, DecidedFacts DEF MissingSender, Decides
<1>3. CASE SenderChat(h)
  <2>1. PICK r \in {"channel_root_post", "anonymous_admin", "other_sender_chat"} :
          Decided(h, Allow(r)) \/ Decided(h, Delete(r))
    BY <1>3 DEF SenderChat
  <2>. QED BY <2>1, <1>a, <1>r, PlainDecides
<1>4. CASE AllowedBot(h)
  BY <1>4, <1>a, <1>r, PlainDecides DEF AllowedBot
<1>5. CASE BareAnonymousAdmin(h)
  BY <1>5, <1>a, <1>r, PlainDecides DEF BareAnonymousAdmin
<1>6. CASE \E a \in BOOLEAN : GuestReply(h, a)
  <2>1. Decided(h, Allow("bot_allowlist")) \/ Decided(h, Delete("guest_bot"))
    BY <1>6 DEF GuestReply
  <2>. QED BY <2>1, <1>a, <1>r, PlainDecides
<1>7. CASE NeedsMembership(h)
  BY <1>7, <1>a DEF NeedsMembership, Searches
<1>. QED BY <1>1, <1>2, <1>3, <1>4, <1>5, <1>6, <1>7 DEF Classify

LEMMA MembershipDecides ==
  ASSUME TypeOK, NEW h \in Handler, CheckMembership(h)
  PROVE  Decides(h) \/ Searches(h)
<1>r. /\ \A r : Allow(r).reason = r /\ Delete(r).reason = r
      /\ \A d, r : [decision |-> d, reason |-> r].reason = r
      /\ PlainReason("cache_hit") /\ PlainReason("not_member") /\ PlainReason("member")
  BY DEF Allow, Delete, PlainReason
<1>1. CASE ReuseAlbum(h)
  BY <1>1, <1>r, DecidedFacts DEF ReuseAlbum, Deciding, Decides
<1>2. CASE CacheMiss(h) \/ \E l \in BOOLEAN : AcquireAlbum(h, l)
  BY <1>2 DEF CacheMiss, AcquireAlbum, Deciding, Searches
<1>3. CASE CacheHit(h)
  BY <1>3, <1>r, PlainDecides DEF CacheHit, Conclude
<1>4. CASE NotMember(h)
  BY <1>4, <1>r, PlainDecides DEF NotMember, Conclude
<1>5. CASE AskFails(h)
  BY <1>5, <1>r, DecidedFacts DEF AskFails, Conclude, Decides
<1>6. CASE Member(h)
  <2>1. Decided(h, Allow("member")) /\ pc[h] = "ask"
    BY <1>6 DEF Member, Conclude
  <2>2. approved' = approved \union {Asked(h)}
    BY <1>6 DEF Member
  <2>. QED BY <2>1, <2>2, <1>r, DecidedFacts DEF Decides, PlainReason
<1>. QED BY <1>1, <1>2, <1>3, <1>4, <1>5, <1>6 DEF CheckMembership

\* Judging leaves all but the outcome, the album and the approvals alone.
LEMMA GatingFrame ==
  ASSUME NEW h \in Handler, Classify(h) \/ CheckMembership(h)
  PROVE  /\ UNCHANGED <<binding, allowlist, everAllowed>>
         /\ UNCHANGED <<msg, seen, visible>>
         /\ InPipeline(h)
BY DEF Classify, ServiceMessage, GuestReply, SenderChat, MissingSender, AllowedBot,
       BareAnonymousAdmin, NeedsMembership, CheckMembership, ReuseAlbum, AcquireAlbum,
       CacheHit, CacheMiss, Member, NotMember, AskFails, Conclude, Deciding, tables,
       OtherSender, Personal, Ordinary, InPipeline

LEMMA JudgeStep ==
  ASSUME Inv, GateInv', MessageInv, NEW h \in Handler,
         Classify(h) \/ CheckMembership(h), Decides(h)
  PROVE  Moderated!Judge(h)
<1>. DEFINE o == outcome'[h]
<1>u. /\ UNCHANGED <<binding, allowlist, everAllowed>> /\ UNCHANGED <<msg, seen, visible>>
      /\ InPipeline(h)
  BY GatingFrame
<1>c. seen[h] \in Channel /\ channel[h] = seen[h] /\ channel' = channel
  BY <1>u, Unchanged DEF Inv, TypeOK, channel, JudgedFor
<1>m. /\ msg[h] \in Message /\ msg'[h] = msg[h]
      /\ Bots[msg[h]] = BotOf(msg[h]) /\ Members[msg[h]] = MemberOf(msg[h])
  BY <1>u DEF MessageInv, Bots, Members
<1>p. pc'[h] = "apply" /\ stage[h] = "judging" /\ stage' = [stage EXCEPT ![h] = "judged"]
  BY <1>u, StageAfter DEF Decides, Goto, Inv, TypeOK, InPipeline, stage, Stage
<1>v. Moderated!Judged(h, Verdict(o))
  <2>1. PICK out : outcome' = [outcome EXCEPT ![h] = out]
    BY DEF Decides
  <2>2. out = o
    BY <2>1 DEF Inv, TypeOK
  <2>. QED BY <2>1, <2>2, VerdictAfter DEF Inv, Moderated!Judged
<1>s. Sound(h, outcome[h])'
  BY <1>u, <1>c, <1>p DEF GateInv, Judged, Gated
<1>n. o # Undecided /\ o.reason # "no_binding"
  BY <1>s DEF Decides, Undecided, Ignore, Sound
<1>a. HasAccess(msg[h], seen[h])' => Moderated!Access(msg[h], channel[h])'
  <2>1. CASE Inherent(msg[h], seen[h])'
    BY <2>1, <1>c, <1>m, <1>u DEF Moderated!Access, Trusted, Inherent, IsAnonymousAdmin
  <2>2. CASE (BotOf(msg[h]) \cap everAllowed # {})'
    BY <2>2, <1>m, <1>u DEF Moderated!Access, BotOf, Bots
  <2>3. CASE (\E u \in MemberOf(msg[h]) : <<seen[h], u>> \in approved)'
    BY <2>3, <1>c, <1>m, <1>u DEF Moderated!Access, MemberOf, Members
  <2>. QED BY <2>1, <2>2, <2>3 DEF HasAccess
<1>q. o.decision # "delete" /\ o.reason \notin {"error_default_allow", "media_group_dedup"}
        => Moderated!Ask(h)
  <2>1. CASE UNCHANGED approved
    <3>1. approved' = approved \union {<<channel[h], u>> : u \in {}}
      BY <2>1
    <3>. QED BY <3>1 DEF Moderated!Ask
  <2>2. CASE pc[h] = "ask" /\ approved' = approved \union {Asked(h)}
    <3>1. Members[msg[h]] = {msg[h].from}
      BY <2>2, <1>m DEF Inv, GateInv, Asking, MemberOf
    <3>2. approved' = approved \union {<<channel[h], u>> : u \in {msg[h].from}}
      BY <2>2, <1>c DEF Asked
    <3>. QED BY <3>1, <3>2 DEF Moderated!Ask
  <2>. QED BY <2>1, <2>2 DEF Decides
<1>z. o \notin {Allow("member"), Ignore("command")} => UNCHANGED approved
  BY DEF Decides
<1>1. CASE o.decision = "delete"
  <2>1. Verdict(o) = "remove" /\ UNCHANGED approved
    BY <1>1, <1>n, <1>z DEF Verdict, Allow, Ignore
  <2>2. Deletable(h)
    BY <1>1, <1>s, <1>u DEF Sound, Deletable, Inherent, IsAnonymousAdmin
  <2>3. msg[h] \notin Exempt /\ <<msg[h], channel[h]>> \notin Trusted
    BY <2>2, <1>c DEF Deletable, Exempt, Trusted
  <2>4. Moderated!Remove(h)
    BY <2>1, <2>3, <1>v DEF Moderated!Remove
  <2>. QED BY <2>4, <1>u, <1>c, <1>p DEF Moderated!Judge, Moderated!Reach, Moderated!authority
<1>2. CASE o.decision # "delete" /\ o.reason \in {"error_default_allow", "media_group_dedup"}
  <2>1. Verdict(o) = "doubt" /\ UNCHANGED approved
    BY <1>2, <1>n, <1>z DEF Verdict, Allow, Ignore
  <2>2. Members[msg[h]] # {}
    BY <1>2, <1>m DEF Decides, Inv, GateInv, Asking, MemberOf
  <2>3. Moderated!KeepInDoubt(h)
    BY <2>1, <2>2, <1>v DEF Moderated!KeepInDoubt
  <2>. QED BY <2>3, <1>u, <1>c, <1>p DEF Moderated!Judge, Moderated!Reach, Moderated!authority
<1>3. CASE o.decision # "delete" /\ o.reason = "command"
  <2>1. Verdict(o) = "serve"
    BY <1>3, <1>n DEF Verdict
  <2>2. Moderated!Access(msg[h], channel[h])'
    BY <1>3, <1>s, <1>a DEF Sound
  <2>3. Moderated!Serve(h)
    BY <2>1, <2>2, <1>3, <1>q, <1>v DEF Moderated!Serve
  <2>. QED BY <2>3, <1>u, <1>c, <1>p DEF Moderated!Judge, Moderated!Reach, Moderated!authority
<1>4. CASE /\ o.decision # "delete"
           /\ o.reason \notin {"error_default_allow", "media_group_dedup", "command"}
  <2>1. Verdict(o) = "keep"
    BY <1>4, <1>n DEF Verdict
  <2>2. msg[h] \in Exempt \/ Moderated!Access(msg[h], channel[h])'
    <3>1. CASE o.reason \in {"service_message", "missing_sender"}
      BY <3>1, <1>m DEF Decides, Personal, Ordinary, IsGuestReply, Exempt
    <3>2. CASE o.reason \notin {"service_message", "missing_sender"}
      BY <3>2, <1>4, <1>s, <1>a DEF Sound, Excused
    <3>. QED BY <3>1, <3>2
  <2>3. Moderated!Keep(h)
    BY <2>1, <2>2, <1>4, <1>q, <1>v DEF Moderated!Keep
  <2>. QED BY <2>3, <1>u, <1>c, <1>p DEF Moderated!Judge, Moderated!Reach, Moderated!authority
<1>. QED BY <1>1, <1>2, <1>3, <1>4

\* The outcomes that reach a command's handler are those the abstract verdicts
\* "serve" and "unmoderated" stand for.
LEMMA ReachesMeans ==
  ASSUME TypeOK, MessageInv, NEW h \in Handler
  PROVE  Reaches(h) <=> /\ verdict[h] \in {"serve", "unmoderated"}
                        /\ Order[msg[h]] # NoOne
<1>1. Order[msg[h]] = OrderOf(msg[h])
  BY DEF MessageInv, Order
<1>2. Order[msg[h]] # NoOne <=> /\ ~msg[h].edit
                                /\ msg[h].senderChat \in {NoOne, "group"}
                                /\ Dispatched(msg[h].text)
  BY <1>1 DEF OrderOf, Dispatched, Registered, NoOne
<1>3. verdict[h] \in {"serve", "unmoderated"} <=>
        outcome[h] \in {Ignore("command"), Ignore("no_binding")}
  <2>1. outcome[h] \in OutcomeType
    BY DEF TypeOK, OutcomeType
  <2>2. outcome[h].reason \in {"command", "no_binding"} <=>
          outcome[h] \in {Ignore("command"), Ignore("no_binding")}
    BY <2>1 DEF MessageInv, OutcomeType, Ignore
  <2>3. outcome[h].reason \in {"command", "no_binding"} =>
          outcome[h] # Undecided /\ outcome[h].decision # "delete"
    BY DEF MessageInv, Undecided, Ignore
  <2>. QED BY <2>2, <2>3 DEF verdict, Verdict
<1>. QED BY <1>2, <1>3 DEF Reaches

LEMMA EnactStep ==
  ASSUME TypeOK, MessageInv, NEW h \in Handler, Apply(h)
  PROVE  Moderated!Enact(h)
<1>1. /\ pc[h] = "apply" /\ UNCHANGED <<binding, allowlist, everAllowed, approved>>
      /\ UNCHANGED <<msg, seen, outcome>>
  BY DEF Apply, tables, gateVars
<1>2. stage[h] = "judged" /\ UNCHANGED <<channel, verdict>>
  BY <1>1, Unchanged DEF stage, Stage
<1>3. stage' = [stage EXCEPT ![h] = IF /\ verdict[h] \in {"serve", "unmoderated"}
                                       /\ Order[msg[h]] # NoOne
                                    THEN "serving" ELSE "done"]
  BY ReachesMeans, StageAfter DEF Apply, Stage
<1>4. IF verdict[h] = "remove" THEN Moderated!MayDisappear(h) ELSE UNCHANGED visible
  <2>1. outcome[h].decision = "delete" => verdict[h] = "remove"
    BY DEF verdict, Verdict, Undecided, Ignore
  <2>2. \/ outcome[h].decision = "delete" /\ visible' = [visible EXCEPT ![h] = FALSE]
        \/ UNCHANGED visible
    BY DEF Apply
  <2>3. UNCHANGED visible => visible' = [visible EXCEPT ![h] = visible[h]]
    BY DEF TypeOK
  <2>. QED BY <2>1, <2>2, <2>3 DEF Moderated!MayDisappear
<1>. QED BY <1>1, <1>2, <1>3, <1>4 DEF Moderated!Enact, Moderated!Reach, Moderated!authority

LEMMA LeaveStep ==
  ASSUME TypeOK, NEW h \in Handler, Return(h)
  PROVE  Moderated!Leave(h)
<1>1. stage[h] = "done" /\ stage' = [stage EXCEPT ![h] = "free"]
  BY StageAfter DEF Return, stage, Stage
<1>2. channel' = [channel EXCEPT ![h] = NoOne]
  <2>1. channel' = [channel EXCEPT ![h] = JudgedFor(NoOne)]
    BY ChannelAfter DEF Return
  <2>. QED BY <2>1 DEF JudgedFor
<1>3. verdict' = [verdict EXCEPT ![h] = "none"]
  <2>1. verdict' = [verdict EXCEPT ![h] = Verdict(Undecided)]
    BY VerdictAfter DEF Return
  <2>. QED BY <2>1 DEF Verdict
<1>4. /\ msg' = [msg EXCEPT ![h] = NoMessage] /\ visible' = [visible EXCEPT ![h] = TRUE]
      /\ UNCHANGED <<binding, allowlist, everAllowed, approved>>
  BY DEF Return, tables
<1>. QED BY <1>1, <1>2, <1>3, <1>4 DEF Moderated!Leave, Moderated!Reach, Moderated!authority

\* A command's handler ends by declining or by one change of the tables; its checks
\* before that are not visible.
LEMMA ServeStep ==
  ASSUME Inv, MessageInv, NEW h \in Handler, Command(h)
  PROVE  Moderated!Command(h) \/ UNCHANGED Moderated!vars
<1>t. TypeOK
  BY DEF Inv
<1>u. UNCHANGED <<msg, seen, outcome, approved>>
  BY DEF Command, WrongChat, NoSender, CheckFails, NotCreator, CreatorChecked, ActFails,
         Status, BindChecks, AllowlistChecks, UpsertBinding, DeleteBinding, AllowBot,
         DisallowBot, Quit, Answered, gateVars
<1>p. pc[h] \in {"command", "act", "write"}
  BY DEF Command, WrongChat, InGroup, NoSender, CheckFails, NotCreator, CreatorChecked,
         ActFails, Status, BindChecks, AllowlistChecks, UpsertBinding, DeleteBinding,
         AllowBot, DisallowBot, Acts, Writes
<1>a. stage[h] = "serving" /\ UNCHANGED <<channel, verdict>>
  BY <1>p, <1>u, Unchanged DEF stage, Stage
<1>o. /\ Order[msg[h]] = msg[h].text.cmd /\ msg[h] \in Message
      /\ msg[h] \in Owned <=> msg[h].from = Creator /\ ~msg[h].private
      /\ pc[h] \in {"act", "write"} => msg[h] \in Owned
  <2>1. Reaches(h) /\ msg[h] \in Message
    BY <1>p DEF Inv, CommandInv, MessageInv
  <2>2. Order[msg[h]] = msg[h].text.cmd
    BY <2>1 DEF Reaches, Order, OrderOf
  <2>. QED BY <2>1, <2>2 DEF Owned, Inv, CommandInv
<1>d. ASSUME Goto(h, "done") PROVE stage' = [stage EXCEPT ![h] = "done"]
  BY <1>d, <1>t, StageAfter DEF Stage
<1>v. UNCHANGED visible => Moderated!MayDisappear(h)
  <2>1. UNCHANGED visible => visible' = [visible EXCEPT ![h] = visible[h]]
    BY <1>t DEF TypeOK
  <2>. QED BY <2>1 DEF Moderated!MayDisappear
\* The handler ends, and the tables are as they were.
<1>1. ASSUME NEW c, NEW r, Quit(h, c, r),
             \/ UNCHANGED visible
             \/ msg[h] \notin Owned /\ SilentDelete(h)
      PROVE  Moderated!Command(h)
  <2>1. stage' = [stage EXCEPT ![h] = "done"]
        /\ UNCHANGED <<binding, allowlist, everAllowed>>
    BY <1>1, <1>d DEF Quit, tables
  <2>2. Moderated!Decline(h)
    BY <1>1, <1>v, <2>1 DEF Moderated!Decline, Moderated!MayDisappear, SilentDelete,
                            Moderated!authority
  <2>. QED BY <2>1, <2>2, <1>a, <1>u DEF Moderated!Command, Moderated!Reach
\* The handler goes on.
<1>2. ASSUME NEW l \in {"act", "write"}, Goto(h, l),
             UNCHANGED <<binding, allowlist, everAllowed>>, UNCHANGED visible
      PROVE  UNCHANGED Moderated!vars
  <2>1. UNCHANGED stage
    <3>1. stage' = [stage EXCEPT ![h] = "serving"]
      BY <1>2, <1>t, StageAfter DEF Stage
    <3>. QED BY <3>1, <1>a DEF stage
  <2>. QED BY <2>1, <1>2, <1>a, <1>u DEF Moderated!vars
<1>3. CASE WrongChat(h) \/ CheckFails(h) \/ ActFails(h) \/ Status(h)
  BY <1>3, <1>1 DEF WrongChat, CheckFails, ActFails, Status
<1>4. CASE NoSender(h)
  <2>1. msg[h] \notin Owned
    BY <1>4, <1>o, HandleUpdateAssumption DEF NoSender
  <2>. QED BY <1>4, <1>1, <2>1 DEF NoSender
<1>5. CASE NotCreator(h)
  BY <1>5, <1>1, <1>o DEF NotCreator
<1>6. CASE CreatorChecked(h)
  BY <1>6, <1>2 DEF CreatorChecked, tables
<1>7. CASE \E c \in Channel \union {NoOne} : BindChecks(h, c)
  BY <1>7, <1>2 DEF BindChecks, tables
<1>8. CASE AllowlistChecks(h)
  BY <1>8, <1>2 DEF AllowlistChecks, tables
\* The handler ends with a write.
<1>9. ASSUME Answered(h),
             Moderated!Bind(h) \/ Moderated!Unbind(h) \/ Moderated!Permit(h) \/ Moderated!Forbid(h)
      PROVE  Moderated!Command(h)
  BY <1>9, <1>d, <1>a, <1>u DEF Answered, Moderated!Command, Moderated!Reach
<1>10. CASE UpsertBinding(h)
  <2>1. linked[h] \in Channel
    BY <1>10, <1>t DEF UpsertBinding, TypeOK
  <2>2. Moderated!Bind(h)
    BY <1>10, <2>1, <1>o DEF UpsertBinding, Writes, Answered, Moderated!Bind, Moderated!Obey
  <2>. QED BY <1>10, <2>2, <1>9 DEF UpsertBinding
<1>11. CASE DeleteBinding(h)
  <2>1. Moderated!Unbind(h)
    BY <1>11, <1>o DEF DeleteBinding, Acts, Answered, Moderated!Unbind, Moderated!Obey
  <2>. QED BY <1>11, <2>1, <1>9 DEF DeleteBinding
<1>12. ASSUME NEW b \in Target, AllowBot(h, b) PROVE Moderated!Command(h)
  <2>1. Moderated!Permit(h)
    BY <1>12, <1>o DEF AllowBot, Writes, Answered, Moderated!Permit, Moderated!Obey
  <2>. QED BY <1>12, <2>1, <1>9 DEF AllowBot
<1>13. ASSUME NEW b \in Target, DisallowBot(h, b) PROVE Moderated!Command(h)
  <2>1. Moderated!Forbid(h)
    BY <1>13, <1>o DEF DisallowBot, Writes, Answered, Moderated!Forbid, Moderated!Obey
  <2>. QED BY <1>13, <2>1, <1>9 DEF DisallowBot
<1>. QED BY <1>3, <1>4, <1>5, <1>6, <1>7, <1>8, <1>10, <1>11, <1>12, <1>13 DEF Command

\* Whatever branch, cache, album or API call decides, and whatever the commands of
\* other handlers change meanwhile: a message is judged once, for the channel it
\* arrived under, on access that was really shown, and only the creator's commands
\* change the tables, each once and after its message was judged.
THEOREM ModerationTheorem == Spec => ImplementsModeration
<1>1. Init => Moderated!Init
  <2>1. NoOne \notin Channel
    BY HandleUpdateAssumption
  <2>. QED BY <2>1 DEF Init, Moderated!Init, stage, Stage, channel, JudgedFor, verdict,
                       Verdict
<1>2. Inv /\ Inv' /\ MessageInv /\ [Next]_vars => [Moderated!Next]_(Moderated!vars)
  <2>. SUFFICES ASSUME Inv, Inv', MessageInv, [Next]_vars
                PROVE  Moderated!Next \/ UNCHANGED Moderated!vars
    OBVIOUS
  <2>1. ASSUME NEW h \in Handler, Step(h)
        PROVE  Moderated!Next \/ UNCHANGED Moderated!vars
    <3>1. CASE Lookup(h)
      BY <3>1, TakeStep DEF Inv, Moderated!Next
    <3>2. CASE (Classify(h) \/ CheckMembership(h)) /\ Decides(h)
      BY <3>2, JudgeStep DEF Inv, Moderated!Next
    <3>3. CASE (Classify(h) \/ CheckMembership(h)) /\ Searches(h)
      <4>1. /\ UNCHANGED <<binding, allowlist, everAllowed>> /\ UNCHANGED <<msg, seen, visible>>
            /\ InPipeline(h)
        BY <3>3, GatingFrame
      <4>2. UNCHANGED stage
        <5>1. stage' = [stage EXCEPT ![h] = "judging"]
          BY <3>3, StageAfter DEF Searches, Stage, Inv
        <5>2. stage[h] = "judging"
          BY <4>1 DEF InPipeline, stage, Stage
        <5>. QED BY <5>1, <5>2 DEF stage
      <4>. QED BY <3>3, <4>1, <4>2, Unchanged DEF Searches, Moderated!vars
    <3>4. CASE Apply(h)
      BY <3>4, EnactStep DEF Inv, Moderated!Next
    <3>5. CASE Command(h)
      BY <3>5, ServeStep DEF Moderated!Next
    <3>6. CASE Return(h)
      BY <3>6, LeaveStep DEF Inv, Moderated!Next
    <3>. QED BY <2>1, <3>1, <3>2, <3>3, <3>4, <3>5, <3>6, ClassifyDecides,
                MembershipDecides DEF Step, Inv
  <2>2. CASE UNCHANGED vars
    BY <2>2, Unchanged DEF vars, Moderated!vars
  <2>. QED BY <2>1, <2>2 DEF Next
<1>. QED BY <1>1, <1>2, Invariance, MessageInvariant, PTL
         DEF Spec, ImplementsModeration, Moderated!Spec
=============================================================================
