------------------------------ MODULE Deployment ------------------------------
(***************************************************************************)
(* An installation of the bot: the files that `update` replaces, the       *)
(* database that a start migrates, the service that runs the executable,   *)
(* and the operator who restarts it and repairs a missing executable.      *)
(* Updates and the service go on at the same time and may be killed at     *)
(* any step.                                                               *)
(***************************************************************************)
EXTENDS Updater, Migrations

CONSTANT MaxCrashes     \* bound on the number of crashes

ASSUME DeploymentAssumption == MaxCrashes \in Nat

VARIABLE crashes

vars == <<updateVars, databaseVars, crashes>>

\* systemd or the operator starts the executable, which opens the database.
Start ==
  /\ exe \in Binary
  /\ OpenDatabase
  /\ UNCHANGED <<updateVars, crashes>>

Migrate == MigrateStep /\ UNCHANGED <<updateVars, crashes>>

\* The service is stopped or restarted by the operator, once it is up.
Stop ==
  /\ statement = Open
  /\ EndProcess
  /\ UNCHANGED <<updateVars, crashes>>

Crash ==
  /\ crashes < MaxCrashes
  /\ crashes' = crashes + 1
  /\ \/ EndProcess /\ UNCHANGED updateVars
     \/ (\E u \in Run : KillUpdate(u)) /\ UNCHANGED databaseVars

UpdateRuns ==
  /\ \E u \in Run : UpdateStep(u)
  /\ UNCHANGED <<databaseVars, crashes>>

Repair ==
  /\ exe = Absent
  /\ MoveBackup
  /\ UNCHANGED <<databaseVars, crashes>>

Surroundings ==
  /\ \/ \E u \in Run : Begin(u)
     \/ Publish
     \/ exe # Absent /\ MoveBackup
  /\ UNCHANGED <<databaseVars, crashes>>

Commands ==
  /\ \E g \in Group : UpsertBinding(g) \/ DeleteBinding(g)
  /\ UNCHANGED <<updateVars, crashes>>

Init == UpdateInit /\ DatabaseInit /\ crashes = 0

Next ==
  \/ Start \/ Migrate \/ Stop \/ Crash
  \/ UpdateRuns \/ Repair \/ Surroundings \/ Commands

\* A service that is down is started again and again, as systemd's Restart does, a
\* start goes on, a run of update ends, and an executable that is missing is
\* repaired from its backup.
Spec == /\ Init /\ [][Next]_vars
        /\ SF_vars(Start) /\ WF_vars(Migrate) /\ WF_vars(UpdateRuns)
        /\ SF_vars(Repair)

-----------------------------------------------------------------------------
(* Properties.                                                             *)

\* Every variable keeps its type.
TypeOK == UpdateTypeOK /\ DatabaseTypeOK /\ crashes \in 0 .. MaxCrashes

\* The service comes up again and again, whatever is killed wherever: the only
\* outages without an end are a start that was killed between two statements of
\* schema 3, and runs of update that overlapped.
ServiceComesBack ==
  []<>(statement = Open) \/ <>[](HalfAltered \/ overlapped)
==============================================================================
