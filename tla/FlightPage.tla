------------------------------ MODULE FlightPage -----------------------------
(***************************************************************************)
(* The page with the map and the barogram of one or more flights: flights  *)
(* are added by answers of the server and removed by clicks, the time that *)
(* it shows follows the mouse, a click or the animation, and the planes on *)
(* the map, the rows of the fix table and the traces of the barogram are   *)
(* kept up to date by whoever changes something, each on his own.          *)
(*                                                                         *)
(* Every handler runs to its end before the next one; requests, their      *)
(* answers and timeouts are what comes between.                            *)
(***************************************************************************)
EXTENDS Integers, Sequences, FiniteSets, FiniteSetsExt, SequencesExt

CONSTANTS
  PageFlights,  \* sfid of the flights (of the pilots on the tracking page)
  FirstFlight,  \* the flight whose page it is
  NoFlight,     \* null
  TrackTimes,   \* the times of the fixes of each flight
  NearLimit,    \* flights in an answer about near flights, 5 in the code
  MaxTimeouts   \* bound on the frames of the animation that are scheduled

Increasing(s) == \A i, j \in DOMAIN s : i < j => s[i] < s[j]

ASSUME FlightsAssumption ==
  IsFiniteSet(PageFlights) /\ FirstFlight \in PageFlights /\ NoFlight \notin PageFlights
ASSUME TracksAssumption ==
  /\ TrackTimes \in [PageFlights -> Seq(Nat)]
  /\ \A f \in PageFlights : TrackTimes[f] # <<>> /\ Increasing(TrackTimes[f])

VARIABLES
  live,        \* whether it is the tracking page (default_time is -1)
  page,        \* the collection flights, in its order
  fixes,       \* number of fixes that the page has of each flight
  globalTime,  \* global_time
  playing,     \* playing, the opposite of hover_enabled
  frames,      \* number of calls of tick that are scheduled
  planes,      \* per flight on the map: the fix its plane is drawn at, or NoFix
  rows,        \* per row of the fix table: the fix it shows, or NoFix
  selectable,  \* whether rows can be selected
  selection,   \* the selected row
  traces,      \* what the barogram draws
  pinned,      \* the cookie with the pinned flights
  loading,     \* number of requests for each flight that have no answer yet
  missing,     \* flights whose request has failed
  near,        \* requests for near flights: a flight and a time
  clicks       \* the parity of the clicks on the barogram so far (history)

viewVars == <<globalTime, planes, rows>>
tableVars == <<selectable, selection, traces>>
requestVars == <<pinned, loading, missing, near>>
pageVars == <<live, page, fixes, viewVars, tableVars, playing, frames, requestVars, clicks>>

NoTime == -2    \* null
LatestTime == -1
DefaultTime == IF live THEN LatestTime ELSE NoTime
NoFix == 0

On(list) == ToSet(list)
LastFix(f, fx) == TrackTimes[f][fx[f]]
StartTime == Min({TrackTimes[f][1] : f \in On(page)})
StopTime == Max({LastFix(f, fixes) : f \in On(page)})

------------------------------------------------------------------------------
(* What is shown at a time *)

(* getFixData with getNextSmallerIndex: the fix before t, of a flight in    *)
(* the air at t, and the last but one for "latest".                         *)
FixAt(f, t, fx) ==
  LET n == fx[f]
      flying == t = LatestTime \/ (TrackTimes[f][1] <= t /\ t <= TrackTimes[f][n])
  IN IF n < 2 \/ ~flying THEN NoFix
     ELSE Max({1} \union {i \in 1 .. n - 1 : t = LatestTime \/ TrackTimes[f][i] <= t})

(* setTime: zero is taken for null. *)
ShownAt(f, t, fx) == IF t \in {NoTime, 0} THEN NoFix ELSE FixAt(f, t, fx)

(* The planes of the flights of the collection are drawn or hidden ... *)
PlanesAt(t, list, fx) == [f \in On(list) |-> ShownAt(f, t, fx)]

(* ... and their rows updated; setTime of null clears every row there is. *)
RowsAt(t, list, fx) ==
  [f \in (DOMAIN rows) \union On(list) |->
     IF f \in On(list) THEN ShownAt(f, t, fx)
     ELSE IF t \in {NoTime, 0} THEN NoFix ELSE rows[f]]

SetTime(t, list, fx) ==
  /\ globalTime' = t
  /\ planes' = PlanesAt(t, list, fx)
  /\ rows' = RowsAt(t, list, fx)

(* updateBaroData *)
Traces(list, selected, fx) ==
  LET drawn(flights) == {<<f, fx[f]>> : f \in flights} IN
  [active |-> drawn({f \in On(list) : selected \in {NoFlight, f}}),
   passive |-> drawn({f \in On(list) : selected \notin {NoFlight, f}}),
   detailed |-> {f \in On(list) : f = selected \/ Len(list) = 1}]

------------------------------------------------------------------------------
(* The flights of the URL, or the pilots, are added as the page is loaded, *)
(* and those of the cookie asked for.                                      *)
PageInit ==
  /\ live \in BOOLEAN
  /\ \E others \in SUBSET (PageFlights \ {FirstFlight}) :
       \E list \in SetToSeqs(others) : page = <<FirstFlight>> \o list
  /\ fixes = [f \in PageFlights |-> IF live THEN 1 ELSE Len(TrackTimes[f])]
  /\ globalTime = DefaultTime
  /\ playing = FALSE /\ frames = 0
  /\ planes = [f \in On(page) |-> ShownAt(f, DefaultTime, fixes)]
  /\ rows = planes
  /\ selectable = (Len(page) > 1) /\ selection = NoFlight
  /\ traces = Traces(page, NoFlight, fixes)
  /\ IF live THEN pinned = {} ELSE pinned \in SUBSET PageFlights
  /\ loading = [f \in PageFlights |-> IF f \in pinned \ {FirstFlight} THEN 1 ELSE 0]
  /\ missing = {} /\ near = {}
  /\ clicks = FALSE

(* addFlight *)
Added(new) ==
  LET list == page \o new IN
  /\ page' = list
  /\ traces' = Traces(list, selection, fixes)
  /\ selectable' = (selectable \/ Len(list) > 1)
  /\ SetTime(globalTime, list, fixes)
  /\ UNCHANGED <<clicks, live, fixes, selection, playing, frames, pinned, missing>>

(* Mutant: the answer adds the flight without looking for it. *)
AddAnswered(f) ==
  /\ loading[f] > 0
  /\ loading' = [loading EXCEPT ![f] = @ - 1]
  /\ Added(<<f>>)
  /\ UNCHANGED near

(* addFlightFromJSON, when the answer arrives. *)
FlightAnswered(f) ==
  /\ loading[f] > 0
  /\ loading' = [loading EXCEPT ![f] = @ - 1]
  /\ Added(IF f \in On(page) THEN <<>> ELSE <<f>>)
  /\ UNCHANGED near

FlightFailed(f) ==
  /\ loading[f] > 0
  /\ loading' = [loading EXCEPT ![f] = @ - 1]
  /\ missing' = missing \union {f}
  /\ UNCHANGED <<clicks, live, page, fixes, viewVars, tableVars, playing, frames, pinned, near>>

(* removeFlight: never the first one; the time is not set again. *)
Removed(f) ==
  IF f = page[1] \/ f \notin On(page) THEN UNCHANGED <<page, planes, rows, selection, traces>>
  ELSE LET list == RemoveFirst(page, f)
           selected == IF selection = f THEN NoFlight ELSE selection
       IN /\ page' = list
          /\ planes' = [g \in (DOMAIN planes) \ {f} |-> planes[g]]
          /\ rows' = [g \in (DOMAIN rows) \ {f} |-> rows[g]]
          /\ selection' = selected
          /\ traces' = Traces(list, selected, fixes)

(* Mutant: the flight that is removed stays pinned. *)
ClickRemoveOnly(f) ==
  /\ f \in (DOMAIN rows) \ {page[1]}
  /\ Removed(f)
  /\ UNCHANGED <<clicks, live, fixes, globalTime, selectable, playing, frames, requestVars>>

(* The icon in the row of a flight; the first row has none. *)
ClickRemove(f) ==
  /\ f \in (DOMAIN rows) \ {page[1]}
  /\ Removed(f)
  /\ pinned' = pinned \ {f}
  /\ UNCHANGED <<clicks, live, fixes, globalTime, selectable, playing, frames, loading, missing, near>>

(* A row of the table of wingmen: shown and pinned, or removed and unpinned. *)
ClickWingman(f) ==
  /\ ~live /\ f # FirstFlight
  /\ IF f \in On(page)
     THEN Removed(f) /\ pinned' = pinned \ {f} /\ UNCHANGED <<loading, missing>>
     ELSE /\ pinned' = pinned \union {f}
          /\ loading' = [loading EXCEPT ![f] = @ + 1] /\ missing' = missing \ {f}
          /\ UNCHANGED <<page, planes, rows, selection, traces>>
  /\ UNCHANGED <<clicks, live, fixes, globalTime, selectable, playing, frames, near>>

ClickPin ==
  /\ ~live
  /\ pinned' = IF FirstFlight \in pinned THEN pinned \ {FirstFlight} ELSE pinned \union {FirstFlight}
  /\ UNCHANGED <<clicks, live, page, fixes, viewVars, tableVars, playing, frames, loading, missing, near>>

------------------------------------------------------------------------------
(* Near flights: of those in the air at that time, the server's query and   *)
(* the distance let some pass.                                              *)

ClickNear(f, t) ==
  /\ ~live /\ f \in On(page) /\ near' = near \union {<<f, t>>}
  /\ TrackTimes[f][1] <= t /\ t <= LastFix(f, fixes)
  /\ UNCHANGED <<clicks, live, page, fixes, viewVars, tableVars, playing, frames, pinned, loading, missing>>

(* The time of an answer: takeoff_time <= time <= landing_time. *)
InTheAir(f, t) ==
  {g \in PageFlights \ {f} : TrackTimes[g][1] <= t /\ t <= TrackTimes[g][Len(TrackTimes[g])]}

NearAnswered ==
  /\ \E query \in near :
       /\ near' = near \ {query}
       /\ \E found \in SUBSET InTheAir(query[1], query[2]) :
            /\ Cardinality(found) <= NearLimit
            /\ \E new \in SetToSeqs(found \ On(page)) : Added(new)
  /\ UNCHANGED loading

NearFailed ==
  /\ \E query \in near : near' = near \ {query}
  /\ UNCHANGED <<clicks, live, page, fixes, viewVars, tableVars, playing, frames, pinned, loading, missing>>

------------------------------------------------------------------------------
(* Time *)

Look(t) ==
  /\ SetTime(t, page, fixes)
  /\ UNCHANGED <<live, page, fixes, tableVars, playing, frames, requestVars>>

(* The mouse over the barogram or a flight path, or leaving them. *)
Hover(t) == ~playing /\ (t \in Nat \/ t = DefaultTime) /\ Look(t) /\ UNCHANGED clicks

(* A click on the barogram counts while the animation runs, too. *)
ClickBarogram(t) == t \in Nat /\ Look(t) /\ clicks' = ~clicks

(* Mutant: at the end the animation begins again at the start. *)
AdvanceWrapping(t, scheduled) ==
  /\ playing' = TRUE /\ frames' = scheduled + 1
  /\ SetTime(IF t + 1 > StopTime THEN StartTime ELSE t + 1, page, fixes)

(* tick at time t: stop, or the next frame and a timeout. *)
Advance(t, scheduled) ==
  IF t + 1 > StopTime
  THEN playing' = FALSE /\ frames' = scheduled /\ SetTime(t, page, fixes)
  ELSE playing' = TRUE /\ frames' = scheduled + 1 /\ SetTime(t + 1, page, fixes)

(* play, with its first call of tick. *)
Play ==
  /\ ~playing /\ frames < MaxTimeouts
  /\ Advance(IF globalTime < 0 THEN StartTime ELSE globalTime, frames)
  /\ UNCHANGED <<clicks, live, page, fixes, tableVars, requestVars>>

(* stop; a frame that is scheduled stays so. *)
Stop ==
  /\ playing /\ playing' = FALSE
  /\ UNCHANGED <<clicks, live, page, fixes, viewVars, tableVars, frames, requestVars>>

Frame ==
  /\ frames > 0
  /\ IF playing THEN Advance(globalTime, frames - 1)
     ELSE frames' = frames - 1 /\ UNCHANGED <<viewVars, playing>>
  /\ UNCHANGED <<clicks, live, page, fixes, tableVars, requestVars>>

------------------------------------------------------------------------------
(* A click on a row of the fix table *)
ClickRow(f) ==
  /\ selectable /\ f \in DOMAIN rows
  /\ selection' = IF selection = f THEN NoFlight ELSE f
  /\ traces' = Traces(page, selection', fixes)
  /\ UNCHANGED <<clicks, live, page, fixes, viewVars, selectable, playing, frames, requestVars>>

(* updateFlight on the tracking page, of which LiveTrack says more. *)
Extend(f) ==
  /\ live /\ f \in On(page) /\ fixes[f] < Len(TrackTimes[f])
  /\ fixes' = [fixes EXCEPT ![f] = @ + 1]
  /\ SetTime(globalTime, page, fixes')
  /\ traces' = Traces(page, selection, fixes')
  /\ UNCHANGED <<clicks, live, page, selectable, selection, playing, frames, requestVars>>

Times == 0 .. Max(UNION {On(TrackTimes[f]) : f \in PageFlights})

PageNext ==
  \/ \E f \in PageFlights :
       \/ FlightAnswered(f) \/ FlightFailed(f)
       \/ ClickRemove(f) \/ ClickWingman(f) \/ ClickRow(f) \/ Extend(f)
       \/ \E t \in Times : ClickNear(f, t)
  \/ \E t \in Times \union {NoTime, LatestTime} : Hover(t) \/ ClickBarogram(t)
  \/ ClickPin \/ NearAnswered \/ NearFailed \/ Play \/ Stop \/ Frame

(* The browser calls every timeout that is due. *)
PageSpec == PageInit /\ [][PageNext]_pageVars /\ WF_pageVars(Frame)

------------------------------------------------------------------------------
(* Map, table and barogram agree with the flights on the page, each there   *)
(* once, and with the time, in whatever order flights were asked for, came, *)
(* grew and went.                                                           *)
PageConsistent ==
  /\ page[1] = FirstFlight /\ IsInjective(page)
  /\ planes = [f \in On(page) |-> ShownAt(f, globalTime, fixes)]
  /\ rows = planes
  /\ selection \in On(page) \union {NoFlight}
  /\ traces = Traces(page, selection, fixes)
  /\ \A f \in On(page) : planes[f] # NoFix /\ globalTime # LatestTime =>
       /\ TrackTimes[f][planes[f]] <= globalTime
       /\ globalTime <= TrackTimes[f][planes[f] + 1]

(* A pinned flight is on the page, or it is being asked for, or the request *)
(* has failed, whatever is clicked while requests are under way.            *)
PinnedLoaded ==
  ~live => \A f \in pinned : f \in On(page) \/ loading[f] > 0 \/ f \in missing

(* The animation comes to an end, also when flights come and go and Play is *)
(* pressed twice while a frame is scheduled, unless there are clicks on the *)
(* barogram again and again.                                                *)
PlaybackEnds == <>[][clicks' = clicks]_pageVars => [](playing => <>~playing)
==============================================================================
