------------------------------ MODULE Migrations ------------------------------
(***************************************************************************)
(* store.Open: the migrations that bring a database to schema 5, statement *)
(* by statement.  A script of several statements is not a transaction, so  *)
(* the process may end between any two of them; the next start begins with *)
(* the first script above user_version.  Indexes go with their tables.     *)
(***************************************************************************)
EXTENDS Integers, Sequences

CONSTANTS
  Group,
  MaxEpoch      \* bound on the epochs of a group

ASSUME MigrationsAssumption == MaxEpoch \in Nat \ {0}

VARIABLES
  version,      \* PRAGMA user_version
  tables,       \* tables that exist, apart from verified_members
  verified,     \* verified_members: absent, as in schema 1, or as in schema 2
  epochColumn,  \* bindings has the column epoch
  epoch,        \* bindings: the epoch of each bound group, 0 if not bound
  lastEpoch,    \* binding_epochs: last_epoch, 0 if the group has no row
  statement     \* Closed, the statement migrate runs next, or Open

\* History, read by no action of the program.
VARIABLES
  held,         \* the largest epoch that a handler of the running process,
                \* or of the last one, can have read for each group
  maxEpoch,     \* the largest epoch each group has had
  forgotten     \* groups of which schema 3 has deleted the largest epoch

schemaVars == <<version, tables, verified, epochColumn>>
epochHistory == <<held, maxEpoch, forgotten>>
databaseVars == <<schemaVars, epoch, lastEpoch, statement, epochHistory>>

Statement(kind, schema) == [kind |-> kind, schema |-> schema]

\* Mutant of Script: user_version is set before the tables of schema 5 exist.
ScriptVersionFirst ==
  << Statement("bindings", 1), Statement("verified_v1", 1), Statement("set", 1),
     Statement("drop_verified", 2), Statement("verified_v2", 2),
     Statement("set", 2),
     Statement("add_epoch", 3), Statement("set", 3),
     Statement("binding_epochs", 4), Statement("seed_epochs", 4),
     Statement("set", 4),
     Statement("set", 5), Statement("group_bot_allowlist", 5),
     Statement("guest_violations", 5) >>

\* Mutant of Script: schema 2 relies on the old table being gone.
ScriptWithoutDrop ==
  << Statement("bindings", 1), Statement("set", 1),
     Statement("verified_v2", 2), Statement("set", 2),
     Statement("add_epoch", 3), Statement("set", 3),
     Statement("binding_epochs", 4), Statement("seed_epochs", 4),
     Statement("set", 4),
     Statement("group_bot_allowlist", 5), Statement("guest_violations", 5),
     Statement("set", 5) >>

Script ==
  << Statement("bindings", 1), Statement("verified_v1", 1), Statement("set", 1),
     Statement("drop_verified", 2), Statement("verified_v2", 2),
     Statement("set", 2),
     Statement("add_epoch", 3), Statement("set", 3),
     Statement("binding_epochs", 4), Statement("seed_epochs", 4),
     Statement("set", 4),
     Statement("group_bot_allowlist", 5), Statement("guest_violations", 5),
     Statement("set", 5) >>

Closed == 0
Open == Len(Script) + 1

\* The first statement of the first schema above user_version.
FirstStatement ==
  LET pending == {i \in DOMAIN Script : Script[i].schema > version}
  IN IF pending = {} THEN Open ELSE CHOOSE i \in pending : \A j \in pending : i <= j

OpenDatabase ==
  /\ statement = Closed
  /\ statement' = FirstStatement
  /\ held' = epoch
  /\ UNCHANGED <<schemaVars, epoch, lastEpoch, maxEpoch, forgotten>>

Running(kind) ==
  /\ statement \in DOMAIN Script
  /\ Script[statement].kind = kind

Advance == statement' = statement + 1

\* CREATE TABLE IF NOT EXISTS.
CreateTable(t) ==
  /\ Running(t)
  /\ tables' = tables \union {t}
  /\ Advance
  /\ UNCHANGED <<version, verified, epochColumn, epoch, lastEpoch, epochHistory>>

CreateVerifiedV1 ==
  /\ Running("verified_v1")
  /\ verified' = IF verified = "absent" THEN "v1" ELSE verified
  /\ Advance
  /\ UNCHANGED <<version, tables, epochColumn, epoch, lastEpoch, epochHistory>>

\* DROP TABLE IF EXISTS verified_members.
DropVerified ==
  /\ Running("drop_verified")
  /\ verified' = "absent"
  /\ Advance
  /\ UNCHANGED <<version, tables, epochColumn, epoch, lastEpoch, epochHistory>>

\* CREATE TABLE without IF NOT EXISTS.
CreateVerifiedV2 ==
  /\ Running("verified_v2")
  /\ verified = "absent"
  /\ verified' = "v2"
  /\ Advance
  /\ UNCHANGED <<version, tables, epochColumn, epoch, lastEpoch, epochHistory>>

\* ALTER TABLE bindings ADD COLUMN epoch ... DEFAULT 1.
AddEpoch ==
  /\ Running("add_epoch")
  /\ ~epochColumn
  /\ epochColumn' = TRUE
  /\ Advance
  /\ UNCHANGED <<version, tables, verified, epoch, lastEpoch, epochHistory>>

\* Mutant of SeedEpochs: the rows are inserted with their default.
SeedZeroes ==
  /\ Running("seed_epochs")
  /\ Advance
  /\ UNCHANGED <<schemaVars, epoch, lastEpoch, epochHistory>>

\* INSERT OR IGNORE INTO binding_epochs SELECT group_chat_id, epoch FROM bindings.
SeedEpochs ==
  /\ Running("seed_epochs")
  /\ lastEpoch' = [g \in Group |-> IF lastEpoch[g] = 0 THEN epoch[g]
                                                       ELSE lastEpoch[g]]
  /\ Advance
  /\ UNCHANGED <<schemaVars, epoch, epochHistory>>

SetVersion ==
  /\ Running("set")
  /\ version' = Script[statement].schema
  /\ Advance
  /\ UNCHANGED <<tables, verified, epochColumn, epoch, lastEpoch, epochHistory>>

\* The statement cannot be run: its table or column exists already.
Impossible ==
  \/ Running("verified_v2") /\ verified # "absent"
  \/ Running("add_epoch") /\ epochColumn

CloseDatabase ==
  /\ statement' = Closed
  /\ UNCHANGED <<schemaVars, epoch, lastEpoch, epochHistory>>

\* migrate returns the error, Open closes the database, the process exits.
StatementFails == Impossible /\ CloseDatabase

\* The process ends, between any two statements or later.
EndProcess == statement # Closed /\ CloseDatabase

-----------------------------------------------------------------------------
(* Commands, once the bot is up.                                           *)

UpsertBinding(g) ==
  /\ statement = Open
  /\ lastEpoch[g] < MaxEpoch
  /\ lastEpoch' = [lastEpoch EXCEPT ![g] = @ + 1]
  /\ epoch' = [epoch EXCEPT ![g] = lastEpoch[g] + 1]
  /\ held' = [held EXCEPT ![g] = lastEpoch[g] + 1]
  /\ maxEpoch' = [maxEpoch EXCEPT ![g] =
                    IF lastEpoch[g] + 1 > @ THEN lastEpoch[g] + 1 ELSE @]
  /\ UNCHANGED <<schemaVars, statement, forgotten>>

DeleteBinding(g) ==
  /\ statement = Open
  /\ epoch' = [epoch EXCEPT ![g] = 0]
  /\ UNCHANGED <<schemaVars, lastEpoch, statement, epochHistory>>

\* A database that a release with schema v has left behind.  Before schema 3 the
\* epoch of a bound group stands for the default the column will have.  Schema 3
\* kept epochs in bindings alone and lost them with the row: there, and in what
\* was migrated from there, a group may have had larger epochs than the tables
\* tell.
Left(v) ==
  /\ version = v
  /\ tables = {Script[i].kind : i \in {j \in DOMAIN Script : Script[j].schema <= v}}
                \cap {"bindings", "binding_epochs", "group_bot_allowlist",
                      "guest_violations"}
  /\ verified = IF v = 0 THEN "absent" ELSE IF v = 1 THEN "v1" ELSE "v2"
  /\ epochColumn = (v >= 3)
  /\ epoch \in [Group -> IF v = 0 THEN {0} ELSE IF v < 3 THEN {0, 1}
                         ELSE 0 .. MaxEpoch]
  /\ IF v >= 4
     THEN /\ lastEpoch \in [Group -> 0 .. MaxEpoch]
          /\ \A g \in Group : epoch[g] <= lastEpoch[g]
     ELSE lastEpoch = [g \in Group |-> 0]
  /\ held = epoch
  /\ LET known == IF v >= 4 THEN lastEpoch ELSE epoch
     IN /\ IF v >= 3
           THEN /\ maxEpoch \in [Group -> 0 .. MaxEpoch]
                /\ \A g \in Group : known[g] <= maxEpoch[g]
           ELSE maxEpoch = known
        /\ forgotten = {g \in Group : known[g] < maxEpoch[g]}

DatabaseInit == statement = Closed /\ \E v \in 0 .. 5 : Left(v)

MigrateStep ==
  \/ \E t \in {"bindings", "binding_epochs", "group_bot_allowlist",
               "guest_violations"} : CreateTable(t)
  \/ CreateVerifiedV1 \/ DropVerified \/ CreateVerifiedV2
  \/ AddEpoch \/ SeedEpochs \/ SetVersion \/ StatementFails

DatabaseTypeOK ==
  /\ version \in 0 .. 5
  /\ tables \subseteq {"bindings", "binding_epochs", "group_bot_allowlist",
                       "guest_violations"}
  /\ verified \in {"absent", "v1", "v2"}
  /\ epochColumn \in BOOLEAN
  /\ epoch \in [Group -> 0 .. MaxEpoch] /\ lastEpoch \in [Group -> 0 .. MaxEpoch]
  /\ held \in [Group -> 0 .. MaxEpoch] /\ maxEpoch \in [Group -> 0 .. MaxEpoch]
  /\ forgotten \subseteq Group
  /\ statement \in Closed .. Open

-----------------------------------------------------------------------------
(* Properties.                                                             *)

\* Whatever crashes the migrations went through, a bot that is up works on the
\* complete schema: every table, in the layout the code expects.
OpenIsComplete ==
  statement = Open =>
    /\ version = 5
    /\ tables = {"bindings", "binding_epochs", "group_bot_allowlist",
                 "guest_violations"}
    /\ verified = "v2" /\ epochColumn

\* The database is between ALTER TABLE and PRAGMA user_version = 3.
HalfAltered == epochColumn /\ version = 2

\* Scripts can be run again from their beginning, wherever the process ended: of
\* all the statements only the ALTER TABLE of schema 3 can ever meet what an
\* earlier start has already done and fail.
StatementsRepeatable == Impossible => HalfAltered

\* A new binding never gets an epoch that a handler of the running process may
\* still hold, whatever was unbound and bound before: an approval asked for
\* under an older binding is not stored for it.  Nor is an epoch ever used a
\* second time, across restarts and migrations, unless schema 3 has deleted the
\* group's row (a group unbound before the migration starts from 1 again).
EpochsFresh ==
  [][ \A g \in Group :
        UpsertBinding(g) => /\ epoch'[g] > held[g]
                            /\ g \in forgotten \/ epoch'[g] > maxEpoch[g]
    ]_databaseVars
==============================================================================
