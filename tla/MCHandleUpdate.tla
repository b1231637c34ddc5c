---------------------------- MODULE MCHandleUpdate ----------------------------
(* An instance of HandleUpdate for TLC: one handler receives every kind of     *)
(* message, the other one the creator's commands.                              *)
EXTENDS HandleUpdate

CONSTANTS owner, user, bot, helper, me, anon, tg, c1, h1, h2

Cmd(cmd, this, args) == [cmd |-> cmd, toThisBot |-> this, args |-> args]
Plain == Cmd("none", FALSE, FALSE)
Commands == {Cmd(c, TRUE, FALSE) : c \in {"bind", "unbind", "allowbot"}}
Disallow == Cmd("disallowbot", TRUE, FALSE)
AskStatus == Cmd("status", TRUE, FALSE)
OtherTexts == {Cmd("status", TRUE, TRUE), Cmd("status", FALSE, FALSE),
               Cmd("allowbot", TRUE, TRUE)}

\* <<from, sender_chat>> as Telegram fills them in.
Person == {<<user, "none">>}
Origins == Person \union {<<bot, "none">>, <<helper, "none">>, <<me, "none">>,
                          <<anon, "none">>, <<anon, "group">>, <<tg, c1>>,
                          <<tg, "other">>, <<"none", "none">>}
Guests == {<<bot, "none">>, <<helper, "none">>, <<me, "none">>, <<bot, c1>>}

Of(origins, form, texts, edits, private) ==
  {[from |-> o[1], senderChat |-> o[2], form |-> form, text |-> t, edit |-> e,
    private |-> private] : o \in origins, t \in texts, e \in edits}

OwnersCommands == Of({<<owner, "none">>}, "text", Commands, {FALSE}, FALSE)

AllMessages ==
  UNION {Of(Origins, "text", {AskStatus}, {FALSE}, FALSE),
         Of(Person, "text", {AskStatus}, {TRUE}, FALSE),
         Of(Person, "text", OtherTexts, {FALSE}, FALSE),
         Of(Person, "album", {Plain}, BOOLEAN, FALSE),
         Of(Person, "service", {Plain}, {FALSE}, FALSE),
         Of(Guests, "guest", {AskStatus}, {FALSE}, FALSE),
         Of(Person, "text", {AskStatus}, {FALSE}, TRUE),
         Of({<<owner, "none">>}, "text", {AskStatus, Disallow}, {FALSE}, FALSE),
         Of({<<owner, "none">>}, "text", {Cmd("bind", TRUE, FALSE)}, {TRUE}, FALSE),
         OwnersCommands}

Inputs == [h \in Handler |-> IF h = h1 THEN AllMessages \ OwnersCommands
                                       ELSE OwnersCommands]
===============================================================================
