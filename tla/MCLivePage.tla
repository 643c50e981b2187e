------------------------------ MODULE MCLivePage -----------------------------
(* The page of live tracks for TLC: its track and how it grows (LiveTrack), *)
(* and what map, table and barogram show of it and of uploaded flights      *)
(* (FlightPage), which share no state but the times that Extend adds.       *)
EXTENDS LiveTrack, FlightPage

CONSTANTS a, b, c

(* What a behaviour is about: the track of one pilot, flights that are      *)
(* loaded and removed, or the time and the animation.                       *)
VARIABLE topic

MCTimes == a :> <<1, 2>> @@ b :> <<2, 4>> @@ c :> <<0, 3>>

Loading ==
  /\ ~playing' /\ frames' = 0
  /\ globalTime' \in {DefaultTime', 2, 3}
  /\ loading'[b] <= 2 /\ loading'[c] <= 1
  /\ Cardinality(near') <= 1

Watching ==
  /\ loading'[b] <= 1 /\ loading'[c] = 0 /\ near' = {}
  /\ selection' \in {NoFlight, b}

MCInit ==
  /\ Init /\ PageInit
  /\ topic \in {"track", "loading", "watching"}
  /\ topic = "track" => live /\ Len(page) = 1
  /\ topic = "watching" => loading[c] = 0

MCNext ==
  /\ UNCHANGED topic
  /\ \/ topic = "track" /\ Next /\ UNCHANGED pageVars
     \/ /\ topic # "track" /\ PageNext /\ UNCHANGED vars
        /\ CASE topic = "loading" -> Loading
             [] topic = "watching" -> Watching

MCSpec == MCInit /\ [][MCNext]_<<vars, pageVars, topic>> /\ WF_pageVars(Frame)
==============================================================================
