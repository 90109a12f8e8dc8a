-------------------------- MODULE MCLockAndJournal --------------------------
(* Two small parts, side by side: the lock of a project, with four calls, any *)
(* of them timed (enough for a holder, two calls chained behind it and a     *)
(* newcomer that finds the Map entry gone), and the intake of its journal.   *)
(* A behaviour picks one part and leaves the other as it begins, where none  *)
(* of its fair actions is enabled.                                           *)
EXTENDS ConfigLock, JournalIntake

VARIABLE part

vars == <<part, lockVars, intakeVars>>

PartsNext ==
  /\ UNCHANGED part
  /\ \/ part = "lock" /\ Next /\ UNCHANGED intakeVars
     \/ part = "journal" /\ IntakeNext /\ UNCHANGED lockVars

PartsInit == part \in {"lock", "journal"} /\ Init /\ IntakeInit

PartsSpec == PartsInit /\ [][PartsNext]_vars /\ Fairness /\ IntakeFairness

\* Both parts keep their types: the calls and their promises, and the file,
\* rows, hooks and scans of the intake.
PartsTypeOK == TypeOK /\ IntakeTypeOK
=============================================================================
