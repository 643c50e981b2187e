----------------------------- MODULE LiveTrack -------------------------------
(***************************************************************************)
(* The page that shows the live track of a pilot.  The pilot's device      *)
(* sends fixes, the server stores them, and the page, once loaded, asks    *)
(* every 15 seconds for the fixes since the last one it has and appends    *)
(* the answer.  Server and page speak of seconds since the midnight before *)
(* the first fix of the track, which the server derives again for every    *)
(* request from the fixes of the last 12 hours.                            *)
(*                                                                         *)
(* A fix is identified with its time stamp; time is counted in ticks.  The *)
(* server compares time stamps to the tick and tells the page seconds, of  *)
(* which the ticks beyond the last whole second are cut off; what the page *)
(* counts in seconds is given in ticks here, too.                          *)
(***************************************************************************)
EXTENDS Integers, Sequences, FiniteSets

CONSTANTS
  Second,   \* ticks of a second; 1 if devices send whole seconds
  Day,      \* ticks of a day
  MaxAge,   \* age of the oldest fix that is shown, 12 hours in the code
  Apart,    \* the least time between two fixes of a device
  Delay,    \* the pilot's tracking delay, for readers other than himself
  Start,    \* when the flight begins
  End,      \* bound on the clock
  Polls,    \* requests of the page, each used again when it has ended
  Pending,  \* bound on the requests under way at the same time
  Ordered,  \* the network keeps the order of the fixes
  Steady    \* the last fix of the page is never older than MaxAge

ASSUME ClockAssumption ==
  /\ Second \in Nat \ {0} /\ Day \in Nat \ {0} /\ Day % Second = 0
  /\ MaxAge \in Nat /\ Delay \in Nat
  /\ End \in Nat /\ Start \in 0 .. End
(* Two fixes are two seconds apart, but for a tick. *)
ASSUME DeviceAssumption == Apart \in Nat /\ Apart >= 2 * Second - 1
ASSUME PagesAssumption == Pending \in Nat /\ Ordered \in BOOLEAN /\ Steady \in BOOLEAN

VARIABLES
  now,     \* the clock of device and server
  air,     \* fixes on their way to the server
  stored,  \* tracking_fixes of the pilot
  track,   \* what the page shows: fixes with the seconds it shows them at
  thinned, \* fixes that reduce left out of what the page was told (history)
  poll     \* the requests of the page

vars == <<now, air, stored, track, thinned, poll>>

Time == Start .. End
Shown == [fix: Time, t: Nat]
Idle == [state |-> "idle", last |-> 0, reply |-> <<>>, left |-> {}]

Init ==
  /\ now = Start
  /\ air = {} /\ stored = {}
  /\ track = <<>> /\ thinned = {}
  /\ poll = [p \in Polls |-> Idle]

Latest == track[Len(track)]

------------------------------------------------------------------------------
(* Device and network *)

Tick ==
  /\ now < End
  /\ Steady /\ track # <<>> => Latest.fix >= now + 1 - MaxAge
  /\ now' = now + 1
  /\ UNCHANGED <<air, stored, track, thinned, poll>>

(* The device records a fix; it may also be without a position. *)
Record ==
  /\ \A f \in air \union stored : f + Apart <= now
  /\ air' = air \union {now}
  /\ UNCHANGED <<now, stored, track, thinned, poll>>

(* The tracking server receives a fix and commits it. *)
Store ==
  /\ \E f \in air :
       /\ Ordered => \A g \in air : f <= g
       /\ air' = air \ {f}
       /\ stored' = stored \union {f}
  /\ UNCHANGED <<now, track, thinned, poll>>

(* A datagram is lost, or the commit of its fix fails. *)
Lose ==
  /\ \E f \in air : air' = air \ {f}
  /\ UNCHANGED <<now, stored, track, thinned, poll>>

------------------------------------------------------------------------------
(* The server: _get_flight_path2 *)

(* max_age_filter and delay_filter *)
Visible == {f \in stored : now - MaxAge <= f /\ f <= now - Delay}

First(fixes) == CHOOSE f \in fixes : \A g \in fixes : f <= g
Newest(fixes) == CHOOSE f \in fixes : \A g \in fixes : g <= f

(* Whole seconds, as of time_delta.seconds and of hour, minute and second. *)
Truncated(t) == t - (t % Second)
SecondsOfDay(f) == Truncated(f % Day)

(* Mutant: the seconds are counted from the first fix, not from midnight. *)
SinceStart(last) == {f \in Visible : last # 0 => f >= First(Visible) + last}

(* The fixes since second last, all of them for 0. *)
Since(last) ==
  {f \in Visible : last # 0 => f >= First(Visible) + (last - SecondsOfDay(First(Visible)))}

(* _get_flight_path: reduce leaves out fixes, never the first or the last.  *)
Reduced(fixes) ==
  {kept \in SUBSET fixes : fixes # {} => {First(fixes), Newest(fixes)} \subseteq kept}

Sorted(fixes) ==
  CHOOSE s \in [1 .. Cardinality(fixes) -> fixes] : \A i, j \in DOMAIN s : i < j => s[i] < s[j]

(* The fixes that are kept, with their seconds. *)
Path(kept) ==
  LET start == First(Visible)
      fixes == Sorted(kept)
  IN [i \in DOMAIN fixes |->
        [fix |-> fixes[i], t |-> SecondsOfDay(start) + Truncated(fixes[i] - start)]]

------------------------------------------------------------------------------
(* The page *)

(* The page is opened; without any fix it does not ask for more. *)
Load ==
  /\ track = <<>> /\ Visible # {}
  /\ \E kept \in Reduced(Visible) : track' = Path(kept) /\ thinned' = Visible \ kept
  /\ UNCHANGED <<now, air, stored, poll>>

(* The timer of the page, whether or not the previous answer has arrived. *)
Ask(p) ==
  /\ track # <<>> /\ poll[p].state = "idle"
  /\ Cardinality({q \in Polls : poll[q].state # "idle"}) < Pending
  /\ poll' = [poll EXCEPT ![p] = [state |-> "asked", last |-> Latest.t,
                                    reply |-> <<>>, left |-> {}]]
  /\ UNCHANGED <<now, air, stored, track, thinned>>

Answer(p) ==
  /\ poll[p].state = "asked"
  /\ LET since == Since(poll[p].last) IN
     \E kept \in Reduced(since) :
       poll' = [poll EXCEPT ![p] = [state |-> "answered", last |-> @.last,
                                    reply |-> Path(kept), left |-> since \ kept]]
  /\ UNCHANGED <<now, air, stored, track, thinned>>

(* Request or answer is lost. *)
Drop(p) ==
  /\ poll[p].state # "idle"
  /\ poll' = [poll EXCEPT ![p] = Idle]
  /\ UNCHANGED <<now, air, stored, track, thinned>>

(* Mutant: the linking fix is not skipped. *)
UpdateWithLink(p) ==
  /\ poll[p].state = "answered"
  /\ IF Len(poll[p].reply) < 2 THEN UNCHANGED <<track, thinned>>
     ELSE track' = track \o poll[p].reply /\ thinned' = thinned \union poll[p].left
  /\ poll' = [poll EXCEPT ![p] = Idle]
  /\ UNCHANGED <<now, air, stored>>

(* updateFlight: the first fix of the answer is skipped, the others are      *)
(* appended.  A 404 (empty answer) or a single fix changes nothing.          *)
Update(p) ==
  /\ poll[p].state = "answered"
  /\ IF Len(poll[p].reply) < 2 THEN UNCHANGED <<track, thinned>>
     ELSE track' = track \o Tail(poll[p].reply) /\ thinned' = thinned \union poll[p].left
  /\ poll' = [poll EXCEPT ![p] = Idle]
  /\ UNCHANGED <<now, air, stored>>

Next ==
  \/ Tick \/ Record \/ Store \/ Lose \/ Load
  \/ \E p \in Polls : Ask(p) \/ Answer(p) \/ Drop(p) \/ Update(p)

Spec == Init /\ [][Next]_vars

------------------------------------------------------------------------------
(* The times that the page shows rise from each fix to the next, which the  *)
(* look-up by time and the barogram rely on: what updateFlight appends is   *)
(* never behind what the page has.                                          *)
TrackIncreasing ==
  \A i, j \in DOMAIN track : i < j => track[i].t < track[j].t

(* The page shows every fix less than two seconds from its own distance to  *)
(* the first, and exactly there if all fixes have whole seconds, however    *)
(* often the start of the track has moved on the server.                    *)
TimesAgree ==
  \A i \in DOMAIN track :
    LET drift == (track[i].t - track[1].t) - (track[i].fix - track[1].fix) IN
    -2 * (Second - 1) <= drift /\ drift <= 2 * (Second - 1)

ShownFixes == {track[i].fix : i \in DOMAIN track}

(* Stored fixes that the page passes over, although nobody left them out. *)
Missing ==
  {f \in stored \ (ShownFixes \union thinned) : track[1].fix < f /\ f < Latest.fix}

(* The page shows no fix twice.  Of the fixes that were stored between its  *)
(* first and its last it misses none, but for those that reduce leaves out, *)
(* if all have whole seconds; and never two in a row if they do not.        *)
TrackComplete ==
  /\ \A i, j \in DOMAIN track : i < j => track[i].fix < track[j].fix
  /\ track # <<>> =>
       /\ Second = 1 => Missing = {}
       /\ \A f, g \in Missing : f < g => \E h \in ShownFixes : f < h /\ h < g

(* The page shows what happened since its first fix, each at its time.  *)
TrackFaithful == TrackComplete /\ TimesAgree

(* "We skip the first point in the list because we assume it's the          *)
(* 'linking' fix between the data we already have and the data to add":     *)
(* what updateFlight skips is the last fix of the page.                     *)
LinkIsLatest ==
  [][\A p \in Polls : poll[p].state = "answered" /\ track' # track =>
       poll[p].reply[1].fix = Latest.fix]_vars

(* "Retrieves all new traces": the answer to a request holds every visible  *)
(* fix that is newer than the last one on the page, but for those that      *)
(* reduce leaves out.                                                       *)
AnswersComplete ==
  [][\A p \in Polls : poll[p].state = "asked" /\ poll'[p].state = "answered" =>
       \A f \in Visible \ poll'[p].left : f > Latest.fix =>
         \E i \in DOMAIN poll'[p].reply : poll'[p].reply[i].fix = f]_vars

==============================================================================
