---------------------------- MODULE GroupAllowlist ----------------------------
(***************************************************************************)
(* The per-group bot allowlist: the table group_bot_allowlist, its lazily  *)
(* loaded copy in gating.GroupAllowlist, the handlers that ask Allowed for *)
(* a bot's message and the commands that change the table: /allowbot,      *)
(* /disallowbot and /unbind.  Every SQL statement and every critical       *)
(* section of GroupAllowlist.mu is an action of its own.                   *)
(*                                                                         *)
(* removedBy and the field overlapped are history: no guard reads them.    *)
(***************************************************************************)
EXTENDS Naturals

CONSTANTS
  Group, Bot,
  Handler,   \* goroutines that gate a bot's message
  Admin,     \* goroutines that run a command of the group's creator
  NoGroup

ASSUME AllowlistAssumption == NoGroup \notin Group

VARIABLES
  bound,      \* groups with a row in bindings
  allowlist,  \* rows <<group, bot>> of group_bot_allowlist
  cache,      \* GroupAllowlist.cache: a record for each loaded group
  reader,     \* what each handler is doing
  command,    \* what each command is doing
  removedBy   \* history: the command that last removed a row, or "none"

vars == <<bound, allowlist, cache, reader, command, removedBy>>

Listed(g) == {b \in Bot : <<g, b>> \in allowlist}

\* A loaded set; overlapped says that an Invalidate fell into its loading.
Load == [bots : SUBSET Bot, overlapped : BOOLEAN]
Reader == [pc : {"idle", "check", "list", "fill"}, group : Group \union {NoGroup},
           load : Load]
Command == [pc : {"idle", "allow", "disallow", "invalidate"},
            group : Group \union {NoGroup}, bots : SUBSET Bot]

NoLoad == [bots |-> {}, overlapped |-> FALSE]
IdleReader == [pc |-> "idle", group |-> NoGroup, load |-> NoLoad]
IdleCommand == [pc |-> "idle", group |-> NoGroup, bots |-> {}]

-----------------------------------------------------------------------------
(* Allowed and groupSet.                                                   *)

tables == <<bound, allowlist, removedBy>>

\* Mutant of AskAllowed: the group is not passed on.
AskAllowedNowhere(h, g) ==
  /\ reader[h].pc = "idle"
  /\ g \in bound
  /\ reader' = [reader EXCEPT ![h].pc = "check"]
  /\ UNCHANGED <<tables, cache, command>>

\* A bot writes in a bound group: decideBase or decideGuest asks Allowed.
AskAllowed(h, g) ==
  /\ reader[h].pc = "idle"
  /\ g \in bound
  /\ reader' = [reader EXCEPT ![h] =
                  [pc |-> "check", group |-> g, load |-> NoLoad]]
  /\ UNCHANGED <<tables, cache, command>>

\* The first critical section; a cached set answers at once.
CheckCache(h) ==
  /\ reader[h].pc = "check"
  /\ reader' = IF reader[h].group \in DOMAIN cache
               THEN [reader EXCEPT ![h] = IdleReader]
               ELSE [reader EXCEPT ![h].pc = "list"]
  /\ UNCHANGED <<tables, cache, command>>

ListAllowedBots(h) ==
  /\ reader[h].pc = "list"
  /\ reader' = [reader EXCEPT ![h] =
       [pc |-> "fill", group |-> reader[h].group,
        load |-> [bots |-> Listed(reader[h].group), overlapped |-> FALSE]]]
  /\ UNCHANGED <<tables, cache, command>>

\* A failed read answers "not allowed" and caches nothing.
ListFails(h) ==
  /\ reader[h].pc = "list"
  /\ reader' = [reader EXCEPT ![h] = IdleReader]
  /\ UNCHANGED <<tables, cache, command>>

\* The second critical section: cache[group] = set, whatever came in between.
FillCache(h) ==
  /\ reader[h].pc = "fill"
  /\ cache' = [g \in DOMAIN cache \union {reader[h].group} |->
                 IF g = reader[h].group THEN reader[h].load ELSE cache[g]]
  /\ reader' = [reader EXCEPT ![h] = IdleReader]
  /\ UNCHANGED <<tables, command>>

-----------------------------------------------------------------------------
(* The commands.                                                           *)

\* requireBoundGroupCreator passes; resolving the bot's name comes after it.
StartCommand(a, g, b, pc) ==
  /\ command[a].pc = "idle"
  /\ g \in bound
  /\ command' = [command EXCEPT ![a] = [pc |-> pc, group |-> g, bots |-> {b}]]
  /\ UNCHANGED <<tables, cache, reader>>

\* The name does not resolve, or the statement fails: an error reply.
AbandonCommand(a) ==
  /\ command[a].pc \in {"allow", "disallow"}
  /\ command' = [command EXCEPT ![a] = IdleCommand]
  /\ UNCHANGED <<tables, cache, reader>>

Targets(a) == {command[a].group} \X command[a].bots

\* Mutant of NextAfterStore: the command forgets to invalidate.
ForgetInvalidate(a) == IdleCommand

NextAfterStore(a) == [command[a] EXCEPT !.pc = "invalidate"]

\* INSERT ... ON CONFLICT DO NOTHING; the binding is not looked at again.
AllowBot(a) ==
  /\ command[a].pc = "allow"
  /\ allowlist' = allowlist \union Targets(a)
  /\ removedBy' = [r \in DOMAIN removedBy |->
                     IF r \in Targets(a) THEN "none" ELSE removedBy[r]]
  /\ command' = [command EXCEPT ![a] = NextAfterStore(a)]
  /\ UNCHANGED <<bound, cache, reader>>

DisallowBot(a) ==
  /\ command[a].pc = "disallow"
  /\ allowlist' = allowlist \ Targets(a)
  /\ removedBy' = [r \in DOMAIN removedBy |->
                     IF r \in Targets(a) \intersect allowlist
                     THEN "disallowbot" ELSE removedBy[r]]
  /\ command' = [command EXCEPT ![a] = NextAfterStore(a)]
  /\ UNCHANGED <<bound, cache, reader>>

\* History: a load that was under way saw the table as it was before.
Overlap(g) == [h \in DOMAIN reader |->
  IF reader[h].pc = "fill" /\ reader[h].group = g
  THEN [pc |-> "fill", group |-> g,
        load |-> [bots |-> reader[h].load.bots, overlapped |-> TRUE]]
  ELSE reader[h]]

Invalidate(a) ==
  /\ command[a].pc = "invalidate"
  /\ cache' = [g \in DOMAIN cache \ {command[a].group} |-> cache[g]]
  /\ reader' = Overlap(command[a].group)
  /\ command' = [command EXCEPT ![a] = IdleCommand]
  /\ UNCHANGED tables

Bind(g) ==
  /\ bound' = bound \union {g}
  /\ UNCHANGED <<allowlist, removedBy, cache, reader, command>>

\* DeleteBinding cascades to the allowlist; handleUnbind drops the membership
\* cache of the group, but not its allowlist.
Unbind(g) ==
  /\ g \in bound
  /\ bound' = bound \ {g}
  /\ allowlist' = {r \in allowlist : r[1] # g}
  /\ removedBy' = [r \in DOMAIN removedBy |->
                     IF r \in allowlist /\ r[1] = g THEN "unbind"
                                                    ELSE removedBy[r]]
  /\ UNCHANGED <<cache, reader, command>>

Restart ==
  /\ cache' = [g \in {} |-> NoLoad]
  /\ reader' = [h \in Handler |-> IdleReader]
  /\ command' = [a \in Admin |-> IdleCommand]
  /\ UNCHANGED tables

-----------------------------------------------------------------------------
Init ==
  /\ bound = {}
  /\ allowlist = {}
  /\ cache = [g \in {} |-> NoLoad]
  /\ reader = [h \in Handler |-> IdleReader]
  /\ command = [a \in Admin |-> IdleCommand]
  /\ removedBy = [r \in Group \X Bot |-> "none"]

Next ==
  \/ \E h \in Handler :
       \/ \E g \in Group : AskAllowed(h, g)
       \/ CheckCache(h) \/ ListAllowedBots(h) \/ ListFails(h) \/ FillCache(h)
  \/ \E a \in Admin :
       \/ \E g \in Group, b \in Bot, pc \in {"allow", "disallow"} :
            StartCommand(a, g, b, pc)
       \/ AbandonCommand(a) \/ AllowBot(a) \/ DisallowBot(a) \/ Invalidate(a)
  \/ \E g \in Group : Bind(g) \/ Unbind(g)
  \/ Restart

Spec == Init /\ [][Next]_vars

-----------------------------------------------------------------------------
(* Properties.                                                             *)

\* Every variable keeps its type; only bound groups' work is in progress, so
\* a busy reader or command has a group.
TypeOK ==
  /\ bound \subseteq Group
  /\ allowlist \subseteq Group \X Bot
  /\ DOMAIN cache \subseteq Group /\ cache \in [DOMAIN cache -> Load]
  /\ reader \in [Handler -> Reader]
  /\ command \in [Admin -> Command]
  /\ removedBy \in [Group \X Bot -> {"none", "disallowbot", "unbind"}]
  /\ \A h \in Handler : reader[h].pc # "idle" => reader[h].group \in Group
  /\ \A a \in Admin : command[a].pc # "idle" => command[a].group \in Group

InvalidatePending(g) ==
  \E a \in Admin : command[a].pc = "invalidate" /\ command[a].group = g

\* A load is current if it holds every row of the group, and no bot besides
\* them whose row anything but /unbind has deleted.
Current(load, g) ==
  /\ Listed(g) \subseteq load.bots
  /\ \A b \in load.bots \ Listed(g) : removedBy[<<g, b>>] = "unbind"

\* Bots whose row the group has, or had until a command deleted it.
HeldOnce(g) == {b \in Bot : <<g, b>> \in allowlist \/ removedBy[<<g, b>>] # "none"}

\* Coherence of the copy.  Whatever overlapped, a cached set holds only bots
\* that the creator has allowed in that very group.  Outside the moment between
\* a statement and its Invalidate it differs from the group's rows only if its
\* load overlapped an Invalidate, or if it still holds bots whose rows /unbind
\* deleted.
CacheCoherent ==
  \A g \in DOMAIN cache :
    /\ cache[g].bots \subseteq HeldOnce(g)
    /\ ~cache[g].overlapped /\ ~InvalidatePending(g) => Current(cache[g], g)

\* /unbind empties the allowlist: bots allowed before it are not let through
\* when the group is bound again.
UnbindClearsAllowlist ==
  \A g \in DOMAIN cache \intersect bound :
    \A b \in cache[g].bots : removedBy[<<g, b>>] # "unbind"
==============================================================================
