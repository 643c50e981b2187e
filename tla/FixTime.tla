------------------------------- MODULE FixTime -------------------------------
(***************************************************************************)
(* The time that TrackingServer.fixReceived gives to a fix.  The datagram   *)
(* holds only a time of day; the server puts it on today's or yesterday's  *)
(* date, or takes its own clock instead when the time of day is too far    *)
(* from it.                                                                *)
(***************************************************************************)
EXTENDS Days

CONSTANTS
  Late,    \* how late a fix may come, 30 minutes in the code
  Early,   \* how far a device may be ahead, 3 minutes in the code
  Evening  \* the last part of a day begins after it, 23 o'clock in the code

ASSUME TimesAssumption ==
  /\ Late \in Nat /\ Early \in Nat /\ Evening \in Nat
  /\ Late > 0 /\ Early > 0
  /\ Late + 2 * Early <= Day
  /\ Evening + Late <= Day

(* Mutant: no midnight rollover. *)
FixTimeToday(now, tod) ==
  LET s == TimeOfDay(now) IN
  IF s - Late < tod /\ tod < s + Early THEN Midnight(now) + tod ELSE now

(* What is stored at time now for time of day tod. *)
FixTime(now, tod) ==
  LET s == TimeOfDay(now) IN
  IF s - Late < tod /\ tod < s + Early THEN Midnight(now) + tod
  ELSE IF s < Late /\ tod > Evening THEN Midnight(now) + tod - Day
  ELSE now

==============================================================================
