-------------------------------- MODULE Clock --------------------------------
(***************************************************************************)
(* The time that the parts of the server process share, in slots.  Each    *)
(* behaviour follows one part of the process, its scene: the parts do not  *)
(* share state beyond what a scene moves.                                  *)
(***************************************************************************)
EXTENDS Integers, Sequences, FiniteSets

CONSTANTS MaxTime,   \* bound on the clock
          DayLen     \* slots of a day

ASSUME ClockAssumption == {MaxTime, DayLen} \subseteq Nat \ {0}

VARIABLES now,
          scene      \* which part moves and its bounds: the time, whose logins, edits and starts of the process

Unset == -1
Day(t) == t \div DayLen

Tick == now < scene.time /\ now' = now + 1 /\ UNCHANGED scene
=============================================================================
