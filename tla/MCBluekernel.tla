--------------------------- MODULE MCBluekernel ------------------------------
(***************************************************************************)
(* Small bluekernel systems.  Each scenario runs some parts of the kernel  *)
(* together: three processes that only exchange messages, or two that are  *)
(* also removed, interrupted, prioritised or paused, or whose faults the   *)
(* coordinator repairs.                                                    *)
(***************************************************************************)
EXTENDS Bluekernel

Scenario(p, n, m) == [parts |-> p, started |-> n, limit |-> m]

MCScenarios ==
    {Scenario({"timeouts"}, 4, 4),
     Scenario({"faults"}, 4, 4),
     Scenario({"processes", "threads"}, 3, 4),
     Scenario({"processes"}, 4, 4),
     Scenario({"timeouts", "processes", "interrupts"}, 3, 3),
     Scenario({"timeouts", "processes", "faults"}, 3, 3),
     Scenario({"timeouts", "priority", "interrupts"}, 3, 3),
     Scenario({"timeouts", "priority", "processes"}, 3, 3),
     Scenario({"timeouts", "pauses", "processes"}, 3, 3),
     Scenario({"timeouts", "pauses", "faults"}, 3, 3)}

\* Three processes that are followed whatever becomes of the queues.
Astray == {Scenario({"timeouts", "processes", "astray"}, 4, 4)}

\* Processes are created, and creating one may fail.
Creation == {Scenario({"processes"}, 2, 4)}
=============================================================================
