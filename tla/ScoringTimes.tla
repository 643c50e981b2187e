----------------------------- MODULE ScoringTimes ----------------------------
(***************************************************************************)
(* get_analysis_times: which part of an IGC file is scored.  A file may    *)
(* hold several flights; an engine may run for parts of each.  Locations   *)
(* are left out.                                                           *)
(***************************************************************************)
EXTENDS Integers, Sequences

CONSTANTS
  FlightTimes,  \* sequences of flights that xcsoar may find in a file
  NoTime        \* a time or a period that is not there

Periods ==
  [takeoff : Nat, landing : Nat, start : Nat \union {NoTime}, end : Nat \union {NoTime}]

(* The states of the power of a flight are the changes of its engine, in     *)
(* the order of their times.                                                 *)
IsFlight(flight) ==
  /\ flight.takeoff \in Nat /\ flight.landing \in Nat
  /\ flight.release \in Nat \union {NoTime}
  /\ flight.power \in Seq([time : Nat, powered : BOOLEAN])
  /\ \A k \in DOMAIN flight.power :
       /\ \A l \in 1 .. k - 1 : flight.power[l].time < flight.power[k].time
       /\ k > 1 => flight.power[k].powered = ~flight.power[k - 1].powered

ASSUME NoTimeAssumption == NoTime \notin Nat /\ NoTime \notin Periods
ASSUME FlightTimesAssumption ==
  \A file \in FlightTimes : /\ Len(file) \in Nat /\ DOMAIN file = 1 .. Len(file)
                            /\ \A k \in DOMAIN file : IsFlight(file[k])

VARIABLES
  times,    \* the flights of a file
  scoring,  \* the loops: the flight, the state of its power, and its periods
  chosen    \* chosen_period_seconds and chosen_period

scoringVars == <<times, scoring, chosen>>

ScoringInit ==
  /\ times \in FlightTimes
  /\ scoring = [step |-> "flight", flight |-> 1, state |-> 1, start |-> NoTime,
                periods |-> <<>>, period |-> 1]
  /\ chosen = [seconds |-> 0, period |-> NoTime]

Released(flight) == flight.release # NoTime
HasRelease == {k \in DOMAIN times : Released(times[k])}
Smaller(s, t) == IF s <= t THEN s ELSE t

(* The engine is found off for the first time, or the release, if earlier.  *)
ScoringStart(flight) ==
  LET off == {k \in DOMAIN flight.power : ~flight.power[k].powered}
      first == CHOOSE k \in off : \A l \in off : k <= l
  IN IF off = {} THEN flight.release ELSE Smaller(flight.power[first].time, flight.release)

Period(flight, start, end) ==
  [takeoff |-> flight.takeoff, landing |-> flight.landing, start |-> start, end |-> end]

(* The first of the periods with the greatest length above zero is kept. *)
Choose(seconds, period) ==
  chosen' = IF seconds > chosen.seconds THEN [seconds |-> seconds, period |-> period] ELSE chosen

CurrentFlight == times[scoring.flight]

(* The next of the flights with a release. *)
NextFlight ==
  /\ scoring.step = "flight"
  /\ \E k \in HasRelease :
       /\ k >= scoring.flight /\ \A l \in HasRelease : l >= scoring.flight => k <= l
       /\ scoring' = [step |-> "gather", flight |-> k, state |-> 1,
                      start |-> ScoringStart(times[k]), periods |-> <<>>, period |-> 1]
  /\ UNCHANGED <<times, chosen>>

(* Mutant: a period also begins at the end of the one before. *)
GatherKeepingStart ==
  /\ scoring.step = "gather" /\ scoring.state \in DOMAIN CurrentFlight.power
  /\ LET state == CurrentFlight.power[scoring.state]
         later == state.time > scoring.start
     IN scoring' = [scoring EXCEPT !.state = @ + 1,
          !.periods = IF state.powered /\ later
                      THEN Append(@, Period(CurrentFlight, scoring.start,
                                            Smaller(state.time, CurrentFlight.landing)))
                      ELSE @]
  /\ UNCHANGED <<times, chosen>>

(* "gather all possible scoring periods of this flight": up to each start   *)
(* of the engine, and from the last stop to the landing.                    *)
Gather ==
  /\ scoring.step = "gather" /\ scoring.state \in DOMAIN CurrentFlight.power
  /\ LET state == CurrentFlight.power[scoring.state]
         later == state.time > scoring.start
     IN scoring' = [scoring EXCEPT !.state = @ + 1,
          !.start = IF ~state.powered /\ later THEN state.time ELSE @,
          !.periods = IF state.powered /\ later
                      THEN Append(@, Period(CurrentFlight, scoring.start,
                                            Smaller(state.time, CurrentFlight.landing)))
                      ELSE @]
  /\ UNCHANGED <<times, chosen>>

LastPeriod ==
  /\ scoring.step = "gather" /\ scoring.state \notin DOMAIN CurrentFlight.power
  /\ scoring' = [scoring EXCEPT !.step = "compare",
       !.periods = IF scoring.start < CurrentFlight.landing
                   THEN Append(@, Period(CurrentFlight, scoring.start, CurrentFlight.landing))
                   ELSE @]
  /\ UNCHANGED <<times, chosen>>

Compare ==
  /\ scoring.step = "compare" /\ scoring.period \in DOMAIN scoring.periods
  /\ LET period == scoring.periods[scoring.period] IN Choose(period.end - period.start, period)
  /\ scoring' = [scoring EXCEPT !.period = @ + 1]
  /\ UNCHANGED times

Compared ==
  /\ scoring.step = "compare" /\ scoring.period \notin DOMAIN scoring.periods
  /\ scoring' = [scoring EXCEPT !.step = "flight", !.flight = @ + 1]
  /\ UNCHANGED <<times, chosen>>

(* Without a release in the file, the longest flight is taken, unscored. *)
CompareFlight ==
  /\ scoring.step = "flight" /\ HasRelease = {} /\ scoring.flight \in DOMAIN times
  /\ Choose(CurrentFlight.landing - CurrentFlight.takeoff, Period(CurrentFlight, NoTime, NoTime))
  /\ scoring' = [scoring EXCEPT !.flight = @ + 1]
  /\ UNCHANGED times

Return ==
  /\ scoring.step = "flight"
  /\ \A k \in DOMAIN times : k >= scoring.flight => HasRelease # {} /\ k \notin HasRelease
  /\ scoring' = [scoring EXCEPT !.step = "returned"]
  /\ UNCHANGED <<times, chosen>>

ScoringNext ==
  NextFlight \/ Gather \/ LastPeriod \/ Compare \/ Compared \/ CompareFlight \/ Return
ScoringSpec == ScoringInit /\ [][ScoringNext]_scoringVars

------------------------------------------------------------------------------
(* The engine runs in the second after t.  The states are its changes. *)
Powered(flight, t) ==
  LET power == flight.power IN
  \/ power # <<>> /\ t < power[1].time /\ ~power[1].powered
  \/ \E k \in DOMAIN power :
       power[k].powered /\ power[k].time <= t /\ (k < Len(power) => t < power[k + 1].time)

(* A part of a flight, after a release or a stop, without the engine. *)
Glides(flight, start, end) ==
  /\ ScoringStart(flight) <= start /\ start < end /\ end <= flight.landing
  /\ \A t \in start .. end - 1 : ~Powered(flight, t)

(* No flight with a release ends with the engine running. *)
EnginesStopped == \A k \in HasRelease : ~Powered(times[k], times[k].landing - 1)

Scored(flight, period) ==
  /\ Glides(flight, period.start, period.end)
  /\ period = Period(flight, period.start, period.end)

(* The longest glide of the flights with a release, if there is one. *)
LongestGlide ==
  LET period == chosen.period
      length == IF period = NoTime THEN 0 ELSE period.end - period.start
  IN /\ period = NoTime \/ \E k \in HasRelease : Scored(times[k], period)
     /\ \A k \in HasRelease : \A start, end \in 0 .. times[k].landing :
          Glides(times[k], start, end) => end - start <= length

(* The longest flight, without a start of its scoring. *)
LongestFlight ==
  LET length(k) == times[k].landing - times[k].takeoff
  IN \/ chosen.period = NoTime /\ \A k \in DOMAIN times : length(k) <= 0
     \/ \E k \in DOMAIN times : /\ chosen.period = Period(times[k], NoTime, NoTime)
                                /\ \A l \in DOMAIN times : length(l) <= length(k)

(* What is scored of a file is the longest glide in it after a release, or  *)
(* after the first stop of the engine: no second with the engine running is *)
(* part of it, and none of the flights has a longer one.  Holds for files   *)
(* in which no flight ends with the engine running.  A file without a       *)
(* release gets its longest flight, which is not scored.                    *)
ScoringGliding ==
  scoring.step = "returned"
  => IF HasRelease = {} THEN LongestFlight ELSE EnginesStopped => LongestGlide
==============================================================================
