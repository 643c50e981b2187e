------------------------------ MODULE MCCommands -----------------------------
(* Small instances of the commands over flights, of the cutting of a path,  *)
(* of the choice of what is scored, and of the imports, for TLC: each       *)
(* behaviour is about one of them, and the others stay as they begin.       *)
EXTENDS Analysis, PathChunks, AirportImport, AirspaceImport, Elevations, ScoringTimes, TLC

CONSTANTS de, at, x, y

VARIABLE topic

analysisVars == vars
allVars == <<analysisVars, cutVars, airportVars, airspaceVars, tileVars, scoringVars, topic>>

(* A flight without a result between others with and without traces, and one *)
(* whose analysis raises an exception behind them.                           *)
MCVerdict == <<"good", "untraced", "none", "good", "raises">>

(* Lengths around several multiples of the chunk size; a new flight, and one *)
(* whose path is cut again.                                                  *)
MCLengths == 0 .. 25
MCPrevious == {{}, {[from |-> 0, to |-> 4]}}

(* Lists of two airports at any of four places, two of them near each        *)
(* other, which may have one name, of three, or of one and a waypoint of     *)
(* another type.                                                             *)
Airport(type, key, place) == [type |-> type, key |-> key, place |-> place]
MCAirportLists ==
  {<<>>, <<Airport("turnpoint", "c", 3), Airport("airport", "b", 12)>>}
  \union {<<Airport("airport", "a", p), Airport("airport", key, q)>> :
            p, q \in {0, 3, 12, 21}, key \in {"a", "b"}}
  \union {<<Airport("ulm", "a", p[1]), Airport("airport", "b", p[2]), Airport("glider_site", "c", p[3])>> :
            p \in {<<0, 12, 21>>, <<12, 3, 21>>, <<21, 12, 3>>, <<0, 11, 12>>}}

(* Airspaces that are taken, or left out for their height, class, geometry   *)
(* or name.                                                                  *)
Airspace(name, class, type, unit, number, polygon) ==
  [name |-> name, class |-> class, type |-> type, polygon |-> polygon,
   base |-> [unit |-> unit, number |-> number]]
Taken == Airspace(x, "D", NoClass, "fl", 195, TRUE)
Typed == Airspace(y, NoClass, "CTA", "msl", 1000, TRUE)
MCFeatures == <<Taken, Airspace(x, "C", NoClass, "fl", 200, TRUE),
                Airspace(x, "C", NoClass, "unl", 0, TRUE), Typed,
                Airspace(x, "E", NoClass, "agl", 0, FALSE)>>
MCFiles ==
  {[country |-> de, format |-> "sua", features |-> MCFeatures],
   [country |-> de, format |-> "openair", features |-> <<Taken, Typed>>],
   [country |-> at, format |-> "sua", features |-> <<Typed, Taken>>],
   [country |-> at, format |-> "openair", features |-> Unreadable]}
MCBlacklist == {<<at, x>>}
MCTypes == [t \in {"CTA", "CTR"} |-> "CTR"]

(* One flight with up to three changes of its engine, some of them after     *)
(* the landing, or two with fewer.                                          *)
Changes(end, n) ==
  {<<>>} \union
  {[k \in DOMAIN ts |-> [time |-> ts[k], powered |-> (k % 2 = 0) = on]] :
     ts \in {ts \in UNION {[1 .. l -> 0 .. end] : l \in 1 .. n} :
             \A k \in 2 .. Len(ts) : ts[k - 1] < ts[k]}, on \in BOOLEAN}
Flying(landings, end, n) ==
  {[takeoff |-> 0, landing |-> landing, release |-> release, power |-> power] :
     landing \in landings, release \in {NoTime} \union 1 .. 3, power \in Changes(end, n)}
MCFlightTimes ==
  {<<>>} \union {<<f>> : f \in Flying({4, 6}, 7, 3)}
  \union {<<f, g>> : f \in Flying({3}, 2, 1), g \in Flying({2, 3, 4}, 2, 1)}

------------------------------------------------------------------------------
MCInit ==
  /\ topic \in {"analysis", "path", "airports", "airspace", "elevations", "scoring"}
  /\ Init /\ (mode # "scheduled" => needs = {}) /\ (topic # "analysis" => mode = "all")
          /\ phases = [f \in Flights |-> IF f = 4 THEN {} ELSE {"upload"}]
  /\ CutInit /\ (topic # "path" => fixes = 0 /\ chunks = {})
  /\ ScoringInit /\ (topic # "scoring" => times = <<>>)
  /\ AirportsInit /\ AirspaceInit /\ ElevationsInit

OfAnalysis(Step) ==
  /\ topic = "analysis" /\ Step
  /\ UNCHANGED <<cutVars, airportVars, airspaceVars, tileVars, scoringVars, topic>>
AnalysisTopic == OfAnalysis(Next)
PathTopic ==
  /\ topic = "path" /\ CutNext
  /\ UNCHANGED <<analysisVars, airportVars, airspaceVars, tileVars, scoringVars, topic>>
AirportsTopic ==
  /\ topic = "airports" /\ AirportsNext
  /\ UNCHANGED <<analysisVars, cutVars, airspaceVars, tileVars, scoringVars, topic>>
AirspaceTopic ==
  /\ topic = "airspace" /\ AirspaceNext /\ Apart'
  /\ UNCHANGED <<analysisVars, cutVars, airportVars, tileVars, scoringVars, topic>>
ElevationsTopic ==
  /\ topic = "elevations" /\ ElevationsNext
  /\ UNCHANGED <<analysisVars, cutVars, airportVars, airspaceVars, scoringVars, topic>>
ScoringTopic ==
  /\ topic = "scoring" /\ ScoringNext
  /\ UNCHANGED <<analysisVars, cutVars, airportVars, airspaceVars, tileVars, topic>>

MCNext ==
  \/ AnalysisTopic \/ PathTopic \/ ScoringTopic
  \/ AirportsTopic \/ AirspaceTopic \/ ElevationsTopic

(* The fairness of Analysis, where it is the topic. *)
MCFairness ==
  /\ WF_allVars(OfAnalysis(CommandStep))
  /\ \A r \in Runs : /\ WF_allVars(OfAnalysis(CommitRun(r)))
                      /\ WF_allVars(OfAnalysis(ForceDeadlock(r)))

MCSpec == MCInit /\ [][MCNext]_allVars /\ MCFairness

(* The command of Analysis ends: see CommandEnds. *)
AnalysisEnds == topic = "analysis" => CommandEnds
==============================================================================
