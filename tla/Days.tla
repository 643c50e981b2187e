-------------------------------- MODULE Days ---------------------------------
(* Dates and times of day, counted from a midnight in any unit. *)
EXTENDS Integers

CONSTANT Day  \* 24 hours

ASSUME DayAssumption == Day \in Nat \ {0}

TimeOfDay(t) == t % Day
Midnight(t) == t - TimeOfDay(t)

==============================================================================
