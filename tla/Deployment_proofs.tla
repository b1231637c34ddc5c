--------------------------- MODULE Deployment_proofs ---------------------------
(* Proofs about Deployment: the files of `update` and the migrated database,   *)
(* for any number of runs, groups, versions, epochs and crashes.               *)
EXTENDS Deployment, TLAPS

-----------------------------------------------------------------------------
(* The migrations.                                                           *)

LEMMA ScriptLength == Len(Script) = 14 /\ DOMAIN Script = 1 .. 14
BY DEF Script

\* The scripts of the five schemas, one after the other.
LEMMA ScriptFacts ==
  /\ Script[1] = Statement("bindings", 1) /\ Script[2] = Statement("verified_v1", 1)
  /\ Script[3] = Statement("set", 1)
  /\ Script[4] = Statement("drop_verified", 2)
  /\ Script[5] = Statement("verified_v2", 2) /\ Script[6] = Statement("set", 2)
  /\ Script[7] = Statement("add_epoch", 3) /\ Script[8] = Statement("set", 3)
  /\ Script[9] = Statement("binding_epochs", 4)
  /\ Script[10] = Statement("seed_epochs", 4) /\ Script[11] = Statement("set", 4)
  /\ Script[12] = Statement("group_bot_allowlist", 5)
  /\ Script[13] = Statement("guest_violations", 5) /\ Script[14] = Statement("set", 5)
BY DEF Script

\* The kinds and schemas, as functions of the position.
LEMMA Kinds ==
  ASSUME NEW i \in 1 .. 14
  PROVE  /\ Script[i].schema = IF i <= 3 THEN 1 ELSE IF i <= 6 THEN 2
                               ELSE IF i <= 8 THEN 3 ELSE IF i <= 11 THEN 4 ELSE 5
         /\ Script[i].kind = "bindings" <=> i = 1
         /\ Script[i].kind = "verified_v1" <=> i = 2
         /\ Script[i].kind = "set" <=> i \in {3, 6, 8, 11, 14}
         /\ Script[i].kind = "drop_verified" <=> i = 4
         /\ Script[i].kind = "verified_v2" <=> i = 5
         /\ Script[i].kind = "add_epoch" <=> i = 7
         /\ Script[i].kind = "binding_epochs" <=> i = 9
         /\ Script[i].kind = "seed_epochs" <=> i = 10
         /\ Script[i].kind = "group_bot_allowlist" <=> i = 12
         /\ Script[i].kind = "guest_violations" <=> i = 13
<1>1. i \in {1, 2, 3, 4, 5, 6, 7, 8, 9, 10, 11, 12, 13, 14}
  OBVIOUS
<1>. QED BY <1>1, ScriptFacts DEF Statement

\* A start begins with the first statement of the schema above user_version.
LEMMA FirstStatementIs ==
  ASSUME version \in 0 .. 5
  PROVE  FirstStatement = IF version = 0 THEN 1 ELSE IF version = 1 THEN 4
                          ELSE IF version = 2 THEN 7 ELSE IF version = 3 THEN 9
                          ELSE IF version = 4 THEN 12 ELSE 15
<1>. DEFINE pending == {i \in DOMAIN Script : Script[i].schema > version}
            first == IF version = 0 THEN 1 ELSE IF version = 1 THEN 4
                     ELSE IF version = 2 THEN 7 ELSE IF version = 3 THEN 9
                     ELSE IF version = 4 THEN 12 ELSE 15
<1>1. \A i : i \in pending <=> i \in 1 .. 14 /\ i >= first
  BY ScriptLength, Kinds
<1>2. CASE version = 5
  BY <1>1, <1>2, ScriptLength DEF FirstStatement, Open
<1>3. CASE version # 5
  <2>1. first \in pending /\ first # 15
    BY <1>1, <1>3
  <2>2. \A i \in pending : (\A j \in pending : i <= j) <=> i = first
    BY <1>1, <2>1
  <2>3. FirstStatement = CHOOSE i \in pending : \A j \in pending : i <= j
    BY <2>1 DEF FirstStatement
  <2>. HIDE DEF pending, first
  <2>4. (CHOOSE i \in pending : \A j \in pending : i <= j) = first
    BY <2>1, <2>2
  <2>5. FirstStatement = first
    BY <2>3, <2>4
  <2>. QED BY <2>5 DEF first
<1>. QED BY <1>2, <1>3

\* What the position in the script says of the schema.
SchemaInv ==
  /\ statement \in 0 .. 15 /\ version \in 0 .. 5
  /\ tables \subseteq {"bindings", "binding_epochs", "group_bot_allowlist",
                       "guest_violations"}
  /\ statement # Closed =>
       version = IF statement <= 3 THEN 0 ELSE IF statement <= 6 THEN 1
                 ELSE IF statement <= 8 THEN 2 ELSE IF statement <= 11 THEN 3
                 ELSE IF statement <= 14 THEN 4 ELSE 5
  /\ version >= 1 \/ statement \in {2, 3} => "bindings" \in tables
  /\ version >= 2 \/ statement = 6 => verified = "v2"
  /\ version >= 3 \/ statement = 8 => epochColumn = TRUE
  /\ version >= 4 \/ statement \in {10, 11} => "binding_epochs" \in tables
  /\ version >= 5 \/ statement \in {13, 14} => "group_bot_allowlist" \in tables
  /\ version >= 5 \/ statement = 14 => "guest_violations" \in tables

\* Before the counters are filled they are empty or agree with bindings;
\* afterwards no bound group is ahead of its counter, and neither is a handler
\* of the running process.  Only schema 3 has forgotten larger epochs.
EpochInv ==
  /\ epoch \in [Group -> 0 .. MaxEpoch] /\ lastEpoch \in [Group -> 0 .. MaxEpoch]
  /\ maxEpoch \in [Group -> 0 .. MaxEpoch] /\ held \in [Group -> 0 .. MaxEpoch]
  /\ forgotten \subseteq Group
  /\ version < 4 => \A g \in Group :
       /\ lastEpoch[g] = 0 \/ lastEpoch[g] = epoch[g]
       /\ statement # 0 => held[g] = epoch[g]
       /\ g \in forgotten \/ maxEpoch[g] = epoch[g]
  /\ version >= 4 \/ statement = 11 => \A g \in Group :
       /\ epoch[g] <= lastEpoch[g]
       /\ statement # 0 => held[g] <= lastEpoch[g]
       /\ g \in forgotten \/ lastEpoch[g] = maxEpoch[g]

LEMMA InitSchema == DatabaseInit => SchemaInv /\ EpochInv
<1>. SUFFICES ASSUME NEW v \in 0 .. 5, Left(v), statement = Closed
              PROVE  SchemaInv /\ EpochInv
  BY DEF DatabaseInit
<1>. USE DEF Left, Closed
<1>1. \A t : t \in tables <=>
        /\ t \in {"bindings", "binding_epochs", "group_bot_allowlist", "guest_violations"}
        /\ \E i \in 1 .. 14 : Script[i].schema <= v /\ Script[i].kind = t
  BY ScriptLength
<1>2. /\ v >= 1 => "bindings" \in tables
      /\ v >= 4 => "binding_epochs" \in tables
      /\ v >= 5 => "group_bot_allowlist" \in tables /\ "guest_violations" \in tables
  <2>1. /\ v >= 1 => Script[1].schema <= v /\ Script[1].kind = "bindings"
        /\ v >= 4 => Script[9].schema <= v /\ Script[9].kind = "binding_epochs"
        /\ v >= 5 => Script[12].schema <= v /\ Script[12].kind = "group_bot_allowlist"
        /\ v >= 5 => Script[13].schema <= v /\ Script[13].kind = "guest_violations"
    BY ScriptFacts DEF Statement
  <2>. QED BY <1>1, <2>1
<1>3. SchemaInv
  <2>1. tables \subseteq {"bindings", "binding_epochs", "group_bot_allowlist",
                         "guest_violations"}
    BY <1>1
  <2>2. v >= 2 => verified = "v2"
    OBVIOUS
  <2>3. v >= 3 => epochColumn = TRUE
    OBVIOUS
  <2>. QED BY <1>2, <2>1, <2>2, <2>3 DEF SchemaInv
<1>4. EpochInv
  <2>1. /\ epoch \in [Group -> 0 .. MaxEpoch] /\ held = epoch /\ version = v
        /\ maxEpoch \in [Group -> 0 .. MaxEpoch]
        /\ lastEpoch \in [Group -> 0 .. MaxEpoch]
    <3>1. CASE v < 3
      BY <3>1, MigrationsAssumption
    <3>2. CASE v = 3
      BY <3>2, MigrationsAssumption
    <3>3. CASE v >= 4
      BY <3>3
    <3>. QED BY <3>1, <3>2, <3>3
  <2>2. \A g \in Group :
          /\ v < 4 => lastEpoch[g] = 0 /\ (g \in forgotten \/ maxEpoch[g] = epoch[g])
          /\ v >= 4 => /\ epoch[g] <= lastEpoch[g]
                       /\ g \in forgotten \/ maxEpoch[g] = lastEpoch[g]
    <3>1. CASE v < 3
      BY <3>1
    <3>2. CASE v >= 3
      <4>. DEFINE known == IF v >= 4 THEN lastEpoch ELSE epoch
      <4>1. /\ \A g \in Group : known[g] <= maxEpoch[g]
            /\ forgotten = {g \in Group : known[g] < maxEpoch[g]}
        BY <3>2
      <4>2. \A g \in Group : known[g] \in Nat /\ maxEpoch[g] \in Nat
        BY <2>1
      <4>3. \A g \in Group : g \in forgotten \/ maxEpoch[g] = known[g]
        BY <4>1, <4>2
      <4>. QED BY <4>3, <3>2
    <3>. QED BY <3>1, <3>2
  <2>3. forgotten \subseteq Group
    OBVIOUS
  <2>. HIDE DEF Left
  <2>. QED BY <2>1, <2>2, <2>3 DEF EpochInv
<1>. QED BY <1>3, <1>4

\* A step of the migrations, or their end.
DatabaseStep ==
  \/ OpenDatabase \/ MigrateStep \/ EndProcess
  \/ \E g \in Group : UpsertBinding(g) \/ DeleteBinding(g)

LEMMA SchemaStep ==
  ASSUME SchemaInv, DatabaseStep
  PROVE  SchemaInv'
<1>. USE DEF SchemaInv, Advance, schemaVars, Closed
<1>o. Open = 15
  BY ScriptLength DEF Open
<1>r. \A k : Running(k) <=> statement \in 1 .. 14 /\ Script[statement].kind = k
  BY ScriptLength DEF Running
<1>k. statement \in 1 .. 14 =>
        /\ Script[statement].schema =
             IF statement <= 3 THEN 1 ELSE IF statement <= 6 THEN 2
             ELSE IF statement <= 8 THEN 3 ELSE IF statement <= 11 THEN 4 ELSE 5
        /\ Script[statement].kind = "bindings" <=> statement = 1
        /\ Script[statement].kind = "verified_v1" <=> statement = 2
        /\ Script[statement].kind = "set" <=> statement \in {3, 6, 8, 11, 14}
        /\ Script[statement].kind = "drop_verified" <=> statement = 4
        /\ Script[statement].kind = "verified_v2" <=> statement = 5
        /\ Script[statement].kind = "add_epoch" <=> statement = 7
        /\ Script[statement].kind = "binding_epochs" <=> statement = 9
        /\ Script[statement].kind = "seed_epochs" <=> statement = 10
        /\ Script[statement].kind = "group_bot_allowlist" <=> statement = 12
        /\ Script[statement].kind = "guest_violations" <=> statement = 13
  <2>. SUFFICES ASSUME NEW i \in 1 .. 14, i = statement
                PROVE  /\ Script[i].schema = IF i <= 3 THEN 1 ELSE IF i <= 6 THEN 2
                               ELSE IF i <= 8 THEN 3 ELSE IF i <= 11 THEN 4 ELSE 5
                       /\ Script[i].kind = "bindings" <=> i = 1
                       /\ Script[i].kind = "verified_v1" <=> i = 2
                       /\ Script[i].kind = "set" <=> i \in {3, 6, 8, 11, 14}
                       /\ Script[i].kind = "drop_verified" <=> i = 4
                       /\ Script[i].kind = "verified_v2" <=> i = 5
                       /\ Script[i].kind = "add_epoch" <=> i = 7
                       /\ Script[i].kind = "binding_epochs" <=> i = 9
                       /\ Script[i].kind = "seed_epochs" <=> i = 10
                       /\ Script[i].kind = "group_bot_allowlist" <=> i = 12
                       /\ Script[i].kind = "guest_violations" <=> i = 13
    OBVIOUS
  <2>. QED BY Kinds
<1>1. CASE OpenDatabase
  BY <1>1, FirstStatementIs DEF OpenDatabase
<1>2. ASSUME NEW t \in {"bindings", "binding_epochs", "group_bot_allowlist",
                       "guest_violations"}, CreateTable(t)
      PROVE  SchemaInv'
  <2>1. /\ statement \in 1 .. 14 /\ Script[statement].kind = t
        /\ tables' = tables \union {t} /\ statement' = statement + 1
        /\ UNCHANGED <<version, verified, epochColumn>>
    BY <1>2, <1>r DEF CreateTable
  <2>2. CASE t = "bindings"
    <3>1. statement = 1
      BY <2>1, <2>2, <1>k
    <3>. QED BY <2>1, <2>2, <3>1
  <2>3. CASE t = "binding_epochs"
    <3>1. statement = 9
      BY <2>1, <2>3, <1>k
    <3>. QED BY <2>1, <2>3, <3>1
  <2>4. CASE t = "group_bot_allowlist"
    <3>1. statement = 12
      BY <2>1, <2>4, <1>k
    <3>. QED BY <2>1, <2>4, <3>1
  <2>5. CASE t = "guest_violations"
    <3>1. statement = 13
      BY <2>1, <2>5, <1>k
    <3>. QED BY <2>1, <2>5, <3>1
  <2>. QED BY <2>2, <2>3, <2>4, <2>5
<1>3. CASE CreateVerifiedV1 \/ DropVerified \/ CreateVerifiedV2
  <2>1. /\ statement \in {2, 4, 5} /\ statement' = statement + 1
        /\ statement = 5 => verified' = "v2"
        /\ UNCHANGED <<version, tables, epochColumn>>
    <3>1. CASE CreateVerifiedV1
      BY <3>1, <1>r, <1>k DEF CreateVerifiedV1
    <3>2. CASE DropVerified
      BY <3>2, <1>r, <1>k DEF DropVerified
    <3>3. CASE CreateVerifiedV2
      BY <3>3, <1>r, <1>k DEF CreateVerifiedV2
    <3>. QED BY <1>3, <3>1, <3>2, <3>3
  <2>2. CASE statement = 2
    BY <2>1, <2>2
  <2>3. CASE statement = 4
    BY <2>1, <2>3
  <2>4. CASE statement = 5
    BY <2>1, <2>4
  <2>. QED BY <2>1, <2>2, <2>3, <2>4
<1>4. CASE AddEpoch \/ SeedEpochs
  <2>1. CASE AddEpoch
    <3>1. /\ statement = 7 /\ statement' = 8 /\ epochColumn' = TRUE
          /\ UNCHANGED <<version, tables, verified>>
      BY <2>1, <1>r, <1>k DEF AddEpoch
    <3>. QED BY <3>1
  <2>2. CASE SeedEpochs
    <3>1. /\ statement = 10 /\ statement' = 11
          /\ UNCHANGED <<version, tables, verified, epochColumn>>
      BY <2>2, <1>r, <1>k DEF SeedEpochs
    <3>. QED BY <3>1
  <2>. QED BY <1>4, <2>1, <2>2
<1>5. CASE SetVersion
  <2>1. /\ statement \in {3, 6, 8, 11, 14} /\ statement' = statement + 1
        /\ version' = IF statement <= 3 THEN 1 ELSE IF statement <= 6 THEN 2
                      ELSE IF statement <= 8 THEN 3 ELSE IF statement <= 11 THEN 4
                      ELSE 5
        /\ UNCHANGED <<tables, verified, epochColumn>>
    BY <1>5, <1>r, <1>k DEF SetVersion
  <2>2. CASE statement = 3
    BY <2>1, <2>2
  <2>3. CASE statement = 6
    BY <2>1, <2>3
  <2>4. CASE statement = 8
    BY <2>1, <2>4
  <2>5. CASE statement = 11
    BY <2>1, <2>5
  <2>6. CASE statement = 14
    BY <2>1, <2>6
  <2>. QED BY <2>1, <2>2, <2>3, <2>4, <2>5, <2>6
<1>6. CASE StatementFails \/ EndProcess
  <2>1. /\ statement' = 0
        /\ UNCHANGED <<version, tables, verified, epochColumn>>
    BY <1>6 DEF StatementFails, EndProcess, CloseDatabase
  <2>. QED BY <2>1
<1>7. ASSUME NEW g \in Group, UpsertBinding(g) \/ DeleteBinding(g) PROVE SchemaInv'
  BY <1>7 DEF UpsertBinding, DeleteBinding
<1>. QED BY <1>1, <1>2, <1>3, <1>4, <1>5, <1>6, <1>7 DEF DatabaseStep, MigrateStep

LayoutInv == verified \in {"absent", "v1", "v2"} /\ epochColumn \in BOOLEAN

LEMMA InitLayout == DatabaseInit => LayoutInv
BY DEF DatabaseInit, Left, LayoutInv

LEMMA LayoutStep ==
  ASSUME LayoutInv, DatabaseStep
  PROVE  LayoutInv'
<1>1. \/ verified' = verified \/ verified' \in {"absent", "v1", "v2"}
  BY DEF DatabaseStep, OpenDatabase, MigrateStep, CreateTable, CreateVerifiedV1,
         DropVerified, CreateVerifiedV2, AddEpoch, SeedEpochs, SetVersion,
         StatementFails, EndProcess, CloseDatabase, UpsertBinding, DeleteBinding,
         schemaVars
<1>2. \/ epochColumn' = epochColumn \/ epochColumn' = TRUE
  BY DEF DatabaseStep, OpenDatabase, MigrateStep, CreateTable, CreateVerifiedV1,
         DropVerified, CreateVerifiedV2, AddEpoch, SeedEpochs, SetVersion,
         StatementFails, EndProcess, CloseDatabase, UpsertBinding, DeleteBinding,
         schemaVars
<1>. QED BY <1>1, <1>2 DEF LayoutInv

LEMMA EpochStep ==
  ASSUME SchemaInv, EpochInv, DatabaseStep
  PROVE  EpochInv'
<1>. USE DEF EpochInv, Advance, schemaVars, epochHistory
<1>o. Open = 15 /\ Closed = 0 /\ statement \in 0 .. 15 /\ version \in 0 .. 5
  BY ScriptLength DEF Open, Closed, SchemaInv
<1>v. statement # 0 =>
       version = IF statement <= 3 THEN 0 ELSE IF statement <= 6 THEN 1
                 ELSE IF statement <= 8 THEN 2 ELSE IF statement <= 11 THEN 3
                 ELSE IF statement <= 14 THEN 4 ELSE 5
  BY DEF SchemaInv, Closed
<1>r. \A k : Running(k) <=> statement \in 1 .. 14 /\ Script[statement].kind = k
  BY ScriptLength DEF Running
<1>k. ASSUME statement \in 1 .. 14
      PROVE  /\ Script[statement].schema =
                  IF statement <= 3 THEN 1 ELSE IF statement <= 6 THEN 2
                  ELSE IF statement <= 8 THEN 3 ELSE IF statement <= 11 THEN 4 ELSE 5
             /\ Script[statement].kind = "set" <=> statement \in {3, 6, 8, 11, 14}
             /\ Script[statement].kind = "seed_epochs" <=> statement = 10
  <2>1. PICK i \in 1 .. 14 : i = statement
    BY <1>k
  <2>2. /\ Script[i].schema = IF i <= 3 THEN 1 ELSE IF i <= 6 THEN 2
                              ELSE IF i <= 8 THEN 3 ELSE IF i <= 11 THEN 4 ELSE 5
        /\ Script[i].kind = "set" <=> i \in {3, 6, 8, 11, 14}
        /\ Script[i].kind = "seed_epochs" <=> i = 10
    BY Kinds
  <2>. QED BY <2>1, <2>2
<1>0. ASSUME UNCHANGED <<version, epoch, lastEpoch, epochHistory>>,
             statement' = 0 \/ statement # 0,
             statement' = 11 => statement = 11 \/ version >= 4
      PROVE  EpochInv'
  BY <1>0
<1>1. CASE OpenDatabase
  <2>1. /\ UNCHANGED <<version, epoch, lastEpoch, maxEpoch, forgotten>>
        /\ held' = epoch
        /\ statement' # 11
    BY <1>1, <1>o, FirstStatementIs DEF OpenDatabase
  <2>2. version < 4 => \A g \in Group :
          /\ lastEpoch'[g] = 0 \/ lastEpoch'[g] = epoch'[g]
          /\ held'[g] = epoch'[g]
          /\ g \in forgotten' \/ maxEpoch'[g] = epoch'[g]
    BY <2>1
  <2>3. version >= 4 => \A g \in Group :
          /\ epoch'[g] <= lastEpoch'[g] /\ held'[g] <= lastEpoch'[g]
          /\ g \in forgotten' \/ lastEpoch'[g] = maxEpoch'[g]
    BY <2>1
  <2>4. /\ epoch' \in [Group -> 0 .. MaxEpoch] /\ lastEpoch' \in [Group -> 0 .. MaxEpoch]
        /\ maxEpoch' \in [Group -> 0 .. MaxEpoch] /\ held' \in [Group -> 0 .. MaxEpoch]
        /\ forgotten' \subseteq Group /\ version' = version
    BY <2>1
  <2>. HIDE DEF EpochInv
  <2>. QED BY <2>1, <2>2, <2>3, <2>4 DEF EpochInv
<1>2. CASE SeedEpochs
  <2>1. /\ statement = 10 /\ statement' = 11
        /\ lastEpoch' = [g \in Group |-> IF lastEpoch[g] = 0 THEN epoch[g]
                                                             ELSE lastEpoch[g]]
        /\ UNCHANGED <<version, epoch, epochHistory>>
    BY <1>2, <1>r, <1>k DEF SeedEpochs
  <2>2. version = 3
    BY <2>1, <1>v
  <2>3. \A g \in Group : lastEpoch'[g] = epoch[g]
    BY <2>1, <2>2
  <2>. QED BY <2>1, <2>2, <2>3
<1>3. CASE SetVersion
  <2>1. /\ statement \in {3, 6, 8, 11, 14} /\ statement' = statement + 1
        /\ version' = IF statement <= 3 THEN 1 ELSE IF statement <= 6 THEN 2
                      ELSE IF statement <= 8 THEN 3 ELSE IF statement <= 11 THEN 4 ELSE 5
        /\ UNCHANGED <<epoch, lastEpoch, epochHistory>>
    BY <1>3, <1>r, <1>k DEF SetVersion
  <2>2. CASE statement \in {3, 6, 8}
    <3>1. version < 4 /\ version' < 4 /\ statement' # 11
      BY <2>1, <2>2, <1>v
    <3>. QED BY <2>1, <3>1
  <2>3. CASE statement \in {11, 14}
    <3>1. version' >= 4 /\ (statement = 11 \/ version >= 4)
      BY <2>1, <2>3, <1>v
    <3>. QED BY <2>1, <3>1
  <2>. QED BY <2>1, <2>2, <2>3
<1>4. ASSUME NEW g \in Group, UpsertBinding(g) PROVE EpochInv'
  <2>1. /\ version = 5 /\ version' = 5 /\ lastEpoch[g] < MaxEpoch
        /\ g \in forgotten \/ lastEpoch[g] = maxEpoch[g]
    BY <1>4, <1>o, <1>v DEF UpsertBinding
  <2>2. /\ lastEpoch[g] + 1 \in 0 .. MaxEpoch /\ maxEpoch[g] \in 0 .. MaxEpoch
        /\ lastEpoch[g] = maxEpoch[g] => lastEpoch[g] + 1 > maxEpoch[g]
    BY <2>1, MigrationsAssumption
  <2>3. /\ lastEpoch' = [lastEpoch EXCEPT ![g] = lastEpoch[g] + 1]
        /\ epoch' = [epoch EXCEPT ![g] = lastEpoch[g] + 1]
        /\ held' = [held EXCEPT ![g] = lastEpoch[g] + 1]
        /\ statement' = statement /\ statement = 15 /\ forgotten' = forgotten
    BY <1>4, <1>o DEF UpsertBinding
  <2>4. /\ maxEpoch' \in [Group -> 0 .. MaxEpoch]
        /\ \A x \in Group : x # g => maxEpoch'[x] = maxEpoch[x]
        /\ lastEpoch[g] = maxEpoch[g] => maxEpoch'[g] = lastEpoch[g] + 1
    BY <1>4, <2>2 DEF UpsertBinding
  <2>5. \A x \in Group : /\ epoch'[x] <= lastEpoch'[x] /\ held'[x] <= lastEpoch'[x]
                         /\ x \in forgotten \/ lastEpoch'[x] = maxEpoch'[x]
    <3>1. \A x \in Group : epoch[x] <= lastEpoch[x] /\ held[x] <= lastEpoch[x]
      BY <2>1, <2>3
    <3>. QED BY <2>1, <2>2, <2>3, <2>4, <3>1
  <2>6. /\ epoch' \in [Group -> 0 .. MaxEpoch] /\ lastEpoch' \in [Group -> 0 .. MaxEpoch]
        /\ held' \in [Group -> 0 .. MaxEpoch]
    BY <2>2, <2>3
  <2>. QED BY <2>1, <2>3, <2>4, <2>5, <2>6
<1>5. ASSUME NEW g \in Group, DeleteBinding(g) PROVE EpochInv'
  <2>1. version = 5 /\ version' = 5
    BY <1>5, <1>o, <1>v DEF DeleteBinding
  <2>2. 0 \in 0 .. MaxEpoch
    BY MigrationsAssumption
  <2>. QED BY <1>5, <2>1, <2>2 DEF DeleteBinding
<1>6. CASE StatementFails \/ EndProcess
  <2>1. UNCHANGED <<version, epoch, lastEpoch, epochHistory>> /\ statement' = 0
    BY <1>6, <1>o DEF StatementFails, EndProcess, CloseDatabase
  <2>. QED BY <2>1, <1>0
<1>7. CASE \/ \E t \in {"bindings", "binding_epochs", "group_bot_allowlist",
                      "guest_violations"} : CreateTable(t)
           \/ CreateVerifiedV1 \/ DropVerified \/ CreateVerifiedV2 \/ AddEpoch
  <2>1. /\ UNCHANGED <<version, epoch, lastEpoch, epochHistory>>
        /\ statement \in 1 .. 14 /\ statement' = statement + 1
        /\ Script[statement].kind # "seed_epochs"
    BY <1>7, <1>r DEF CreateTable, CreateVerifiedV1, DropVerified, CreateVerifiedV2,
                      AddEpoch
  <2>2. statement' # 11
    BY <2>1, <1>k
  <2>. QED BY <2>1, <2>2, <1>0
<1>. QED BY <1>1, <1>2, <1>3, <1>4, <1>5, <1>6, <1>7 DEF DatabaseStep, MigrateStep

-----------------------------------------------------------------------------
(* The files of `update`.                                                    *)

Underway(u) == at[u] # "ended"

\* As long as runs do not overlap, the files say where the one run is, and each
\* run has found a newer release than the one it was started from.
FilesInv ==
  /\ UpdateTypeOK
  /\ \A u \in Run : at[u] \notin {"ended", "compare"} => current[u] # SourceBuild
  /\ ~overlapped =>
       /\ \A u, v \in Run : Underway(u) /\ Underway(v) => u = v
       /\ exe = lastExe \/ (exe = Absent /\ bak = lastExe)
       /\ \A u \in Run : Underway(u) =>
            /\ current[u] = lastExe
            /\ IF at[u] = "install" THEN exe = Absent /\ bak = lastExe
                                    ELSE exe = lastExe
            /\ at[u] \in {"unbackup", "backup", "install"} => tmp = target[u]

At == {"ended", "compare", "write", "writing", "unbackup", "backup", "install"}

LEMMA InitFiles == UpdateInit => FilesInv
<1>. SUFFICES ASSUME UpdateInit PROVE FilesInv
  OBVIOUS
<1>1. UpdateTypeOK
  <2>1. SourceBuild \in Binary /\ latest \in Binary
    BY UpdaterAssumption DEF UpdateInit, Binary, Release
  <2>2. /\ exe \in Binary /\ lastExe = exe /\ bak = Absent /\ tmp = Absent
        /\ overlapped = FALSE
    BY DEF UpdateInit
  <2>3. /\ at = [u \in Run |-> "ended"]
        /\ current = [u \in Run |-> SourceBuild] /\ target = [u \in Run |-> SourceBuild]
    BY DEF UpdateInit
  <2>4. /\ current \in [Run -> Binary] /\ target \in [Run -> Binary]
        /\ at \in [Run -> At] /\ \A u \in Run : at[u] = "ended"
    BY <2>1, <2>3 DEF At
  <2>. QED BY <2>1, <2>2, <2>4 DEF UpdateTypeOK, At
<1>. QED BY <1>1 DEF UpdateInit, FilesInv, Underway

\* A step of a run keeps the types when it writes files that may be.
LEMMA FileTypes ==
  ASSUME UpdateTypeOK, NEW u \in Run, NEW l \in At, at' = [at EXCEPT ![u] = l],
         {exe', bak', tmp'} \subseteq {Absent, Partial} \union Binary,
         lastExe' \in Binary, latest' \in Binary,
         current' \in [Run -> Binary], target' \in [Run -> Binary],
         \A v \in Run \ {u} : current'[v] = current[v] /\ target'[v] = target[v],
         l \notin {"ended", "compare"} => target'[u] > current'[u],
         overlapped' \in BOOLEAN
  PROVE  UpdateTypeOK'
<1>1. at' \in [Run -> At]
  BY DEF UpdateTypeOK, At
<1>2. \A v \in Run : at'[v] \notin {"ended", "compare"} => target'[v] > current'[v]
  BY DEF UpdateTypeOK
<1>. QED BY <1>1, <1>2 DEF UpdateTypeOK, At

\* What the steps of a run that do not install have in common.
LEMMA RunKeeps ==
  ASSUME FilesInv, NEW u \in Run, NEW l \in At, Underway(u),
         at' = [at EXCEPT ![u] = l],
         {bak', tmp'} \subseteq {Absent, Partial} \union Binary,
         UNCHANGED <<lastExe, latest, current, overlapped>>,
         target' \in [Run -> Binary],
         \A v \in Run \ {u} : target'[v] = target[v],
         l \notin {"ended", "compare"} =>
           target'[u] > current[u] /\ current[u] # SourceBuild,
         ~overlapped /\ l \in {"unbackup", "backup", "install"} => tmp' = target'[u],
         exe' \in {exe, bak, Absent},
         ~overlapped => \/ l # "install" /\ at[u] # "install" /\ exe' = exe
                        \/ l = "install" /\ exe' = Absent /\ bak' = lastExe
                        \/ /\ l = "ended"
                           /\ exe' = lastExe \/ (exe' = Absent /\ bak' = lastExe)
  PROVE  FilesInv'
<1>1. UpdateTypeOK'
  <2>1. {exe', bak', tmp'} \subseteq {Absent, Partial} \union Binary
    BY DEF FilesInv, UpdateTypeOK
  <2>2. overlapped' \in BOOLEAN /\ lastExe' \in Binary /\ latest' \in Binary
    BY DEF FilesInv, UpdateTypeOK
  <2>3. current' \in [Run -> Binary]
    BY DEF FilesInv, UpdateTypeOK
  <2>. QED BY <2>1, <2>2, <2>3, FileTypes DEF FilesInv
<1>2. \A v \in Run : at'[v] = IF v = u THEN l ELSE at[v]
  BY DEF FilesInv, UpdateTypeOK
<1>3. \A v \in Run : at'[v] \notin {"ended", "compare"} => current'[v] # SourceBuild
  BY <1>2 DEF FilesInv
<1>4. ASSUME ~overlapped
      PROVE  /\ \A v, w \in Run : Underway(v)' /\ Underway(w)' => v = w
             /\ exe' = lastExe' \/ (exe' = Absent /\ bak' = lastExe')
             /\ \A v \in Run : Underway(v)' =>
                  /\ current'[v] = lastExe'
                  /\ IF at'[v] = "install" THEN exe' = Absent /\ bak' = lastExe'
                                           ELSE exe' = lastExe'
                  /\ at'[v] \in {"unbackup", "backup", "install"} => tmp' = target'[v]
  <2>1. \A v \in Run : Underway(v) => v = u
    BY <1>4 DEF FilesInv
  <2>2. \A v \in Run : Underway(v)' => v = u
    BY <1>2, <2>1 DEF Underway
  <2>3. /\ current[u] = lastExe
        /\ IF at[u] = "install" THEN exe = Absent /\ bak = lastExe ELSE exe = lastExe
    BY <1>4 DEF FilesInv
  <2>. QED BY <1>2, <1>4, <2>2, <2>3 DEF Underway
<1>. QED BY <1>1, <1>3, <1>4 DEF FilesInv

LEMMA RunFiles ==
  ASSUME FilesInv, NEW u \in Run, UpdateStep(u)
  PROVE  FilesInv'
<1>. USE DEF GoOn, Ends, UpdateRest, files, At, Underway
<1>t. /\ {exe, bak, tmp} \subseteq {Absent, Partial} \union Binary
      /\ latest \in Binary /\ lastExe \in Binary
      /\ current \in [Run -> Binary] /\ target \in [Run -> Binary]
      /\ at[u] \notin {"ended", "compare"} =>
           target[u] > current[u] /\ current[u] # SourceBuild
      /\ Absent \notin Binary /\ Partial \notin Binary
  BY DEF FilesInv, UpdateTypeOK, Binary, Release, Absent, Partial, SourceBuild
<1>a. ~overlapped =>
        /\ Underway(u) /\ at[u] # "install" => exe = lastExe
        /\ at[u] = "install" => exe = Absent /\ bak = lastExe
        /\ at[u] \in {"unbackup", "backup", "install"} => tmp = target[u]
  BY DEF FilesInv
<1>1. CASE FindsNewer(u)
  <2>1. target'[u] = latest /\ latest > current[u] /\ current[u] # SourceBuild
    BY <1>1, <1>t DEF FindsNewer, Newer
  <2>2. target' \in [Run -> Binary] /\ \A v \in Run \ {u} : target'[v] = target[v]
    BY <1>1, <1>t DEF FindsNewer
  <2>. QED BY <1>1, <2>1, <2>2, <1>t, RunKeeps DEF FindsNewer
<1>2. CASE NothingToDo(u)
  BY <1>2, <1>t, RunKeeps DEF NothingToDo
<1>3. CASE Truncate(u)
  BY <1>3, <1>t, RunKeeps DEF Truncate
<1>4. CASE Written(u)
  BY <1>4, <1>t, RunKeeps DEF Written
<1>5. CASE WriteFails(u)
  BY <1>5, <1>t, RunKeeps DEF WriteFails
<1>6. CASE RemoveBackup(u)
  BY <1>6, <1>t, <1>a, RunKeeps DEF RemoveBackup
<1>7. CASE BackupExe(u)
  BY <1>7, <1>t, <1>a, RunKeeps DEF BackupExe
<1>8. CASE BackupFails(u)
  BY <1>8, <1>t, <1>a, RunKeeps DEF BackupFails
<1>9. CASE InstallFails(u)
  BY <1>9, <1>t, <1>a, RunKeeps DEF InstallFails
<1>10. CASE Install(u)
  <2>1. /\ at[u] = "install" /\ at' = [at EXCEPT ![u] = "ended"]
        /\ exe' = tmp /\ tmp' = Absent /\ lastExe' = IF tmp \in Binary THEN tmp ELSE lastExe
        /\ UNCHANGED <<bak, latest, current, target, overlapped>>
    BY <1>10 DEF Install
  <2>2. UpdateTypeOK'
    BY <2>1, <1>t, FileTypes DEF FilesInv, UpdateTypeOK
  <2>3. \A v \in Run : at'[v] = IF v = u THEN "ended" ELSE at[v]
    BY <2>1 DEF FilesInv, UpdateTypeOK
  <2>4. ASSUME ~overlapped
        PROVE  exe' = lastExe' /\ \A v \in Run : at'[v] = "ended"
    BY <2>1, <2>3, <2>4, <1>a, <1>t DEF FilesInv
  <2>. QED BY <2>1, <2>2, <2>3, <2>4 DEF FilesInv
<1>. QED BY <1>1, <1>2, <1>3, <1>4, <1>5, <1>6, <1>7, <1>8, <1>9, <1>10 DEF UpdateStep

\* The surroundings: runs begin and are killed, releases appear, the operator
\* moves the backup.
LEMMA SurroundingsFiles ==
  ASSUME FilesInv,
         \/ \E u \in Run : Begin(u) \/ KillUpdate(u)
         \/ Publish \/ MoveBackup
  PROVE  FilesInv'
<1>. USE DEF GoOn, Ends, files, At, Underway
<1>t. /\ {exe, bak, tmp} \subseteq {Absent, Partial} \union Binary
      /\ latest \in Binary /\ lastExe \in Binary /\ overlapped \in BOOLEAN
      /\ current \in [Run -> Binary] /\ target \in [Run -> Binary]
      /\ at \in [Run -> At]
      /\ Absent \notin Binary /\ Partial \notin Binary
  BY DEF FilesInv, UpdateTypeOK, Binary, Release, Absent, Partial, SourceBuild
<1>1. ASSUME NEW u \in Run, Begin(u) PROVE FilesInv'
  <2>1. /\ exe \in Binary /\ at[u] = "ended" /\ at' = [at EXCEPT ![u] = "compare"]
        /\ current' = [current EXCEPT ![u] = exe]
        /\ UNCHANGED <<exe, bak, tmp, latest, target, lastExe>>
    BY <1>1 DEF Begin
  <2>2. overlapped' \in BOOLEAN
    BY <1>1 DEF Begin
  <2>3. UpdateTypeOK'
    BY <2>1, <2>2, <1>t, FileTypes DEF FilesInv
  <2>4. ~overlapped' => ~overlapped /\ \A v \in Run : at[v] = "ended"
    BY <1>1 DEF Begin
  <2>5. \A v \in Run : /\ at'[v] = IF v = u THEN "compare" ELSE at[v]
                       /\ current'[v] = IF v = u THEN exe ELSE current[v]
    BY <2>1, <1>t
  <2>6. \A v \in Run : at'[v] \notin {"ended", "compare"} => current'[v] # SourceBuild
    BY <2>5 DEF FilesInv
  <2>7. ~overlapped' => exe = lastExe
    BY <2>1, <2>4, <1>t DEF FilesInv
  <2>. QED BY <2>1, <2>3, <2>4, <2>5, <2>6, <2>7 DEF FilesInv
<1>2. ASSUME NEW u \in Run, KillUpdate(u) PROVE FilesInv'
  BY <1>2, <1>t, RunKeeps DEF KillUpdate, FilesInv, UpdateTypeOK
<1>3. CASE Publish
  <2>1. latest' \in Binary
    BY <1>3, <1>t, UpdaterAssumption DEF Publish, Binary, Release, SourceBuild
  <2>. QED BY <1>3, <2>1 DEF Publish, FilesInv, UpdateTypeOK
<1>4. CASE MoveBackup
  BY <1>4, <1>t DEF MoveBackup, Idle, FilesInv, UpdateTypeOK
<1>. QED BY <1>1, <1>2, <1>3, <1>4

\* The table of schema 2 is created where it has just been dropped.
DroppedInv == statement = 5 => verified = "absent"

LEMMA DroppedStep ==
  ASSUME SchemaInv, DroppedInv, DatabaseStep
  PROVE  DroppedInv'
<1>. SUFFICES ASSUME statement' = 5 PROVE verified' = "absent"
  BY DEF DroppedInv
<1>o. Open = 15 /\ statement \in 0 .. 15 /\ version \in 0 .. 5
  BY ScriptLength DEF Open, SchemaInv
<1>1. ~OpenDatabase
  BY <1>o, FirstStatementIs DEF OpenDatabase
<1>2. ~(StatementFails \/ EndProcess)
  BY DEF StatementFails, EndProcess, CloseDatabase, Closed
<1>3. ASSUME NEW g \in Group, UpsertBinding(g) \/ DeleteBinding(g)
      PROVE  FALSE
  BY <1>3, <1>o DEF UpsertBinding, DeleteBinding
<1>4. PICK i \in 1 .. 14 : i = statement /\ statement' = i + 1
  BY <1>1, <1>2, <1>3, ScriptLength
  DEF DatabaseStep, MigrateStep, CreateTable, CreateVerifiedV1, DropVerified,
      CreateVerifiedV2, AddEpoch, SeedEpochs, SetVersion, Advance, Running
<1>5. i = 4 /\ Script[statement].kind = "drop_verified"
  BY <1>4, Kinds
<1>. QED BY <1>1, <1>2, <1>3, <1>5
         DEF DatabaseStep, MigrateStep, CreateTable, CreateVerifiedV1, DropVerified,
             CreateVerifiedV2, AddEpoch, SeedEpochs, SetVersion, Running

\* A database that a start left behind between schema 3's two statements.
Outage == HalfAltered /\ statement \in {Closed, 7}

\* No statement, start or end of a process leads out of an outage.
LEMMA OutageStep ==
  ASSUME SchemaInv, Outage, DatabaseStep
  PROVE  Outage'
<1>o. /\ Open = 15 /\ Closed = 0 /\ statement \in {0, 7} /\ version = 2
      /\ epochColumn = TRUE
  BY ScriptLength DEF Open, Closed, Outage, HalfAltered, SchemaInv
<1>1. CASE OpenDatabase
  <2>1. FirstStatement = 7
    BY <1>o, FirstStatementIs
  <2>. QED BY <1>1, <1>o, <2>1 DEF OpenDatabase, schemaVars, Outage, HalfAltered
<1>2. CASE StatementFails \/ EndProcess
  BY <1>2, <1>o DEF StatementFails, EndProcess, CloseDatabase, schemaVars, Outage,
     HalfAltered
<1>3. ASSUME NEW g \in Group, UpsertBinding(g) \/ DeleteBinding(g)
      PROVE  FALSE
  BY <1>3, <1>o DEF UpsertBinding, DeleteBinding
<1>4. ASSUME NEW k, Running(k) PROVE k = "add_epoch"
  <2>1. statement = 7
    BY <1>4, <1>o, ScriptLength DEF Running
  <2>. QED BY <1>4, <2>1, ScriptFacts DEF Running, Statement
<1>5. ~(MigrateStep /\ ~StatementFails)
  BY <1>4, <1>o DEF MigrateStep, CreateTable, CreateVerifiedV1, DropVerified,
     CreateVerifiedV2, AddEpoch, SeedEpochs, SetVersion
<1>. QED BY <1>1, <1>2, <1>3, <1>5 DEF DatabaseStep

-----------------------------------------------------------------------------
(* The installation.                                                         *)

DatabaseInv == SchemaInv /\ LayoutInv /\ EpochInv /\ DroppedInv
Inv == FilesInv /\ DatabaseInv /\ crashes \in 0 .. MaxCrashes

LEMMA DatabaseKept ==
  ASSUME DatabaseInv, DatabaseStep \/ UNCHANGED databaseVars
  PROVE  DatabaseInv'
<1>1. CASE DatabaseStep
  BY <1>1, SchemaStep, LayoutStep, EpochStep, DroppedStep DEF DatabaseInv
<1>2. CASE UNCHANGED databaseVars
  BY <1>2 DEF databaseVars, schemaVars, epochHistory, DatabaseInv, SchemaInv,
     LayoutInv, EpochInv, DroppedInv
<1>. QED BY <1>1, <1>2

LEMMA FilesKept ==
  ASSUME FilesInv,
         \/ \E u \in Run : UpdateStep(u) \/ Begin(u) \/ KillUpdate(u)
         \/ Publish \/ MoveBackup \/ UNCHANGED updateVars
  PROVE  FilesInv'
<1>1. CASE UNCHANGED updateVars
  BY <1>1 DEF updateVars, files, FilesInv, UpdateTypeOK, Underway
<1>. QED BY <1>1, RunFiles, SurroundingsFiles

\* Every step of the installation is one of the files or of the database.
LEMMA Parts ==
  ASSUME [Next]_vars
  PROVE  /\ DatabaseStep \/ UNCHANGED databaseVars
         /\ \/ \E u \in Run : UpdateStep(u) \/ Begin(u) \/ KillUpdate(u)
            \/ Publish \/ MoveBackup \/ UNCHANGED updateVars
         /\ crashes' = crashes \/ (crashes < MaxCrashes /\ crashes' = crashes + 1)
<1>. USE DEF DatabaseStep
<1>1. CASE Start \/ Migrate \/ Stop
  BY <1>1 DEF Start, Migrate, Stop
<1>2. CASE Crash
  BY <1>2 DEF Crash
<1>3. CASE UpdateRuns \/ Repair \/ Surroundings
  BY <1>3 DEF UpdateRuns, Repair, Surroundings
<1>4. CASE Commands
  BY <1>4 DEF Commands
<1>5. CASE UNCHANGED vars
  BY <1>5 DEF vars
<1>. QED BY <1>1, <1>2, <1>3, <1>4, <1>5 DEF Next

LEMMA Invariance == Spec => []Inv
<1>1. Init => Inv
  <2>1. DatabaseInit => DroppedInv
    BY DEF DatabaseInit, DroppedInv, Closed
  <2>. QED BY <2>1, InitFiles, InitSchema, InitLayout, DeploymentAssumption
           DEF Init, Inv, DatabaseInv
<1>2. ASSUME Inv, [Next]_vars PROVE Inv'
  <2>1. FilesInv' /\ DatabaseInv'
    BY <1>2, Parts, FilesKept, DatabaseKept DEF Inv
  <2>2. crashes' \in 0 .. MaxCrashes
    BY <1>2, Parts, DeploymentAssumption DEF Inv
  <2>. QED BY <2>1, <2>2 DEF Inv
<1>. QED BY <1>1, <1>2, PTL DEF Spec

\* Every variable keeps its type, and a run that has passed its comparison works
\* for a newer release.
THEOREM TypeCorrect == Spec => []TypeOK
<1>1. Inv => TypeOK
  <2>1. Open = 15 /\ Closed = 0
    BY ScriptLength DEF Open, Closed
  <2>. QED BY <2>1 DEF Inv, FilesInv, DatabaseInv, SchemaInv, LayoutInv, EpochInv,
              TypeOK, DatabaseTypeOK
<1>. QED BY <1>1, Invariance, PTL

\* However runs of update end, the executable is complete, or it is absent and the
\* backup is the binary that was there, unless two runs have overlapped.
THEOREM BinaryTheorem == Spec => []BinarySurvives
<1>1. Inv => BinarySurvives
  BY DEF Inv, FilesInv, BinarySurvives
<1>. QED BY <1>1, Invariance, PTL

\* Whatever crashes the migrations went through, a bot that is up works on the
\* complete schema.
THEOREM SchemaTheorem == Spec => []OpenIsComplete
<1>1. Inv => OpenIsComplete
  <2>1. Open = 15 /\ Closed = 0
    BY ScriptLength DEF Open, Closed
  <2>. SUFFICES ASSUME Inv, statement = 15 PROVE OpenIsComplete
    BY <2>1 DEF OpenIsComplete
  <2>2. version = 5
    BY <2>1 DEF Inv, DatabaseInv, SchemaInv
  <2>3. /\ "bindings" \in tables /\ "binding_epochs" \in tables
        /\ "group_bot_allowlist" \in tables /\ "guest_violations" \in tables
        /\ verified = "v2" /\ epochColumn = TRUE
        /\ \A t \in tables : t \in {"bindings", "binding_epochs", "group_bot_allowlist",
                                    "guest_violations"}
    BY <2>2 DEF Inv, DatabaseInv, SchemaInv
  <2>4. tables = {"bindings", "binding_epochs", "group_bot_allowlist",
                  "guest_violations"}
    BY <2>3
  <2>. QED BY <2>2, <2>3, <2>4 DEF OpenIsComplete
<1>. QED BY <1>1, Invariance, PTL

\* Only the ALTER TABLE of schema 3 can ever fail on what an earlier start has done.
THEOREM RepeatTheorem == Spec => []StatementsRepeatable
<1>1. Inv => StatementsRepeatable
  <2>. SUFFICES ASSUME Inv, Impossible PROVE HalfAltered
    BY DEF StatementsRepeatable
  <2>1. PICK i \in 1 .. 14 : i = statement /\ Script[i].kind \in {"verified_v2", "add_epoch"}
    BY ScriptLength DEF Impossible, Running
  <2>2. CASE i = 5
    BY <2>1, <2>2, ScriptFacts DEF Impossible, Running, Statement, Inv, DatabaseInv,
       DroppedInv
  <2>3. CASE i = 7
    <3>1. version = 2
      BY <2>1, <2>3 DEF Inv, DatabaseInv, SchemaInv, Closed
    <3>. QED BY <2>1, <2>3, <3>1, ScriptFacts DEF Impossible, Running, Statement, HalfAltered
  <2>. QED BY <2>1, <2>2, <2>3, Kinds
<1>. QED BY <1>1, Invariance, PTL

\* And when it does, it does so for good: no start, command, update or repair makes
\* that database usable again (the operator has to edit it by hand).
THEOREM OutageTheorem == Spec => [][Outage => Outage']_vars
<1>1. Inv /\ [Next]_vars => [Outage => Outage']_vars
  <2>. SUFFICES ASSUME Inv, [Next]_vars, Outage PROVE Outage'
    OBVIOUS
  <2>1. CASE DatabaseStep
    BY <2>1, OutageStep DEF Inv, DatabaseInv
  <2>2. CASE UNCHANGED databaseVars
    BY <2>2 DEF databaseVars, schemaVars, Outage, HalfAltered
  <2>. QED BY <2>1, <2>2, Parts
<1>. QED BY <1>1, Invariance, PTL DEF Spec

\* A new binding never gets an epoch that a handler of the running process may
\* still hold, nor, across restarts and migrations, one that the group has had,
\* unless schema 3 has deleted its row.
THEOREM EpochTheorem == Spec => EpochsFresh
<1>. DEFINE Fresh == \A g \in Group :
              UpsertBinding(g) => /\ epoch'[g] > held[g]
                                  /\ g \in forgotten \/ epoch'[g] > maxEpoch[g]
<1>1. Inv => [Fresh]_databaseVars
  <2>. SUFFICES ASSUME Inv, NEW g \in Group, UpsertBinding(g)
                PROVE  /\ epoch'[g] > held[g]
                       /\ g \in forgotten \/ epoch'[g] > maxEpoch[g]
    OBVIOUS
  <2>1. statement = 15
    BY ScriptLength DEF UpsertBinding, Open
  <2>2. version = 5
    BY <2>1 DEF Inv, DatabaseInv, SchemaInv, Closed
  <2>3. /\ lastEpoch[g] \in Nat /\ held[g] \in Nat /\ maxEpoch[g] \in Nat
        /\ held[g] <= lastEpoch[g]
        /\ g \in forgotten \/ lastEpoch[g] = maxEpoch[g]
        /\ epoch \in [Group -> 0 .. MaxEpoch]
    BY <2>1, <2>2 DEF Inv, DatabaseInv, EpochInv
  <2>4. epoch'[g] = lastEpoch[g] + 1
    BY <2>3 DEF UpsertBinding
  <2>. QED BY <2>3, <2>4
<1>. QED BY <1>1, Invariance, PTL DEF EpochsFresh

\* A run that gets to the end replaces the executable by a newer release only, and
\* leaves the binary that was there before as the backup.
THEOREM UpgradeTheorem == Spec => UpgradesOnly
<1>. DEFINE Upgrade ==
       ~overlapped' /\ tmp # Absent /\ tmp' = Absent /\ exe' = tmp =>
         lastExe # SourceBuild /\ exe' > lastExe /\ bak' = lastExe
<1>1. Inv /\ [Next]_vars => [Upgrade]_<<exe, tmp>>
  <2>. SUFFICES ASSUME Inv, [Next]_vars, ~overlapped', tmp # Absent, tmp' = Absent,
                       exe' = tmp
                PROVE  lastExe # SourceBuild /\ exe' > lastExe /\ bak' = lastExe
    OBVIOUS
  <2>1. ~overlapped
    BY Parts DEF UpdateStep, FindsNewer, NothingToDo, Truncate, Written, WriteFails,
       RemoveBackup, BackupExe, BackupFails, Install, InstallFails, UpdateRest, Begin,
       KillUpdate, Publish, MoveBackup, updateVars, files
  <2>2. PICK u \in Run : BackupFails(u) \/ Install(u)
    BY Parts DEF UpdateStep, FindsNewer, NothingToDo, Truncate, Written, WriteFails,
       RemoveBackup, BackupExe, InstallFails, UpdateRest, Begin, KillUpdate, Publish,
       MoveBackup, updateVars, files, Absent, Partial, FilesInv, UpdateTypeOK, Inv,
       Binary, Release, SourceBuild
  <2>3. /\ at[u] \in {"unbackup", "backup", "install"}
        /\ tmp = target[u] /\ current[u] = lastExe
        /\ target[u] > current[u] /\ current[u] # SourceBuild
    BY <2>1, <2>2 DEF BackupFails, Install, Inv, FilesInv, UpdateTypeOK, Underway
  <2>4. lastExe \in Int
    BY DEF Inv, FilesInv, UpdateTypeOK, Binary, Release, SourceBuild
  <2>5. CASE BackupFails(u)
    <3>1. exe = lastExe /\ exe' = exe
      BY <2>1, <2>5 DEF BackupFails, files, Inv, FilesInv, Underway
    <3>2. tmp = lastExe
      BY <3>1
    <3>3. lastExe > lastExe
      BY <3>2, <2>3
    <3>. QED BY <3>3, <2>4
  <2>6. CASE Install(u)
    <3>1. bak = lastExe /\ bak' = bak
      BY <2>1, <2>6 DEF Install, Inv, FilesInv, Underway
    <3>. QED BY <3>1, <2>3
  <2>. QED BY <2>2, <2>5, <2>6
<1>. QED BY <1>1, Invariance, PTL DEF Spec, UpgradesOnly
=============================================================================
