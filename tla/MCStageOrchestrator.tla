------------------------- MODULE MCStageOrchestrator -------------------------
(* Small instances of StageOrchestrator for TLC. *)
EXTENDS StageOrchestrator

Case(enabled, waitsFor) == [enabled |-> enabled, gates |-> waitsFor]

\* A profile of several stages for each thing a sample may wait for: few of its
\* stages can go either way, and every stage is in one of them.
Opening == {"boot", "idle", "user_interaction", "internet_simulation"}
Restart == {"boot", "user_interaction", "persistence_check", "reboot", "memory_dump"}
Unattended == {"boot", "internet_simulation", "persistence_check", "reboot"}
Stalling == {"boot", "long_execution", "memory_dump"}
MCCases == {Case(Opening, {}), Case(Opening, {"interaction"}), Case(Restart, {"reboot"}),
            Case(Unattended, {"network"}), Case(Stalling, {"delay"})}

OneCase == {Case(Stages, {"reboot"})}
=============================================================================
