----------------------------- MODULE AirportImport -----------------------------
(***************************************************************************)
(* The import of a list of airports: an airport of the list is looked for  *)
(* by its name and by its place, and updated or added; those that were not *)
(* found in the list are invalidated at the end.  Flights refer to rows,   *)
(* so that a row has to stay with its airport.                             *)
(*                                                                         *)
(* The whole command is one transaction.  A query sees only what has been  *)
(* flushed, every `Batch` airports and at the end, while the records that  *)
(* it returns are those of the session, with their latest changes.         *)
(*                                                                         *)
(* Places are points of a line and a key is a short name with its country. *)
(* Near stands for the 250 m of the match by name and Reach for the 0.0025 *)
(* degrees of the match by place, of which either may be the longer: they  *)
(* are 278 m on a meridian, and 179 m on the parallel of 50 degrees.       *)
(***************************************************************************)
EXTENDS Integers, Sequences, FiniteSets

CONSTANTS
  MaxAirports,   \* bound on the rows
  MaxImports,    \* bound on the imports
  AirportLists,  \* sequences of waypoints [type, key, place]
  Near, Reach,   \* 250 m and 0.0025 degrees in the code
  Batch,         \* 100 in the code
  NoAirport

ASSUME NearAssumption == Near \in Nat /\ Reach \in Nat
ASSUME BatchAssumption == Batch \in Nat \ {0}
ASSUME ListsAssumption ==
  \A list \in AirportLists : /\ Len(list) \in Nat /\ DOMAIN list = 1 .. Len(list)
                             /\ \A k \in DOMAIN list : list[k].place \in Int
ASSUME NoAirportAssumption == NoAirport \notin Nat

VARIABLES
  airports,  \* the rows: key, place, time_modified and whether they are valid
  import     \* the command

airportVars == <<airports, import>>

Types == {"airport", "glider_site", "ulm"}

AirportsInit ==
  /\ airports = <<>>
  /\ import = [step |-> "none", date |-> 0]

Distance(p, q) == IF p < q THEN q - p ELSE p - q

StartImport ==
  /\ import.step # "read" /\ import.date < MaxImports
  /\ \E list \in AirportLists, commit \in BOOLEAN :
       import' = [step |-> "read", date |-> import.date + 1, list |-> list, at |-> 1, count |-> 0,
                  commit |-> commit, session |-> airports, flushed |-> airports]
  /\ UNCHANGED airports

------------------------------------------------------------------------------
(* The records that stand for a waypoint *)

Valid(rows) == {a \in DOMAIN rows : rows[a].valid}

(* by_location: the nearest, if it is in reach, at the places that are       *)
(* flushed.                                                                 *)
ByLocation(rows, place) ==
  {a \in Valid(rows) :
     /\ Distance(rows[a].place, place) < Reach
     /\ \A b \in Valid(rows) : Distance(rows[a].place, place) <= Distance(rows[b].place, place)}

(* Mutant: a name is enough. *)
CloseEnough(here, waypoint) == TRUE

(* "only reuse this airport if it's within 250 meters of the old one" *)
SamePlace(here, waypoint) == Distance(here, waypoint.place) <= Near

OrNone(found) == IF found = {} THEN {NoAirport} ELSE found

(* First by name, and then by place. *)
Matches(flushed, session, waypoint) ==
  UNION {IF a # NoAirport /\ SamePlace(session[a].place, waypoint) THEN {a}
         ELSE OrNone(ByLocation(flushed, waypoint.place))
           : a \in OrNone({a \in Valid(flushed) : flushed[a].key = waypoint.key})}

(* update_airport *)
Current(waypoint, valid, date) ==
  [key |-> waypoint.key, place |-> waypoint.place, modified |-> date, valid |-> valid]

------------------------------------------------------------------------------
Waypoint == import.list[import.at]
Reading == import.step = "read" /\ import.at <= Len(import.list)

(* Waypoints of other types are passed over. *)
PassOver ==
  /\ Reading /\ Waypoint.type \notin Types
  /\ import' = [import EXCEPT !.at = @ + 1]
  /\ UNCHANGED airports

ImportAirport ==
  /\ Reading /\ Waypoint.type \in Types
  /\ LET count == import.count + 1
         flushed == IF count % Batch = 0 THEN import.session ELSE import.flushed
     IN \E a \in Matches(flushed, import.session, Waypoint) :
          LET session ==
                IF a = NoAirport THEN Append(import.session, Current(Waypoint, TRUE, import.date))
                ELSE [import.session EXCEPT ![a] = Current(Waypoint, @.valid, import.date)]
          IN /\ Len(session) <= MaxAirports
             /\ import' = [import EXCEPT !.at = @ + 1, !.count = count,
                                         !.session = session, !.flushed = flushed]
  /\ UNCHANGED airports

(* Mutant: the changes are not flushed before the query. *)
OutdatedUnflushed(flushed, session) == {a \in Valid(flushed) : flushed[a].modified < import.date}

(* After a last flush: all that this import has not come to. *)
Outdated(flushed, session) == {a \in Valid(session) : session[a].modified < import.date}

FinishImport ==
  /\ import.step = "read" /\ import.at > Len(import.list)
  /\ airports' =
       IF import.commit
       THEN [a \in DOMAIN import.session |->
               [import.session[a] EXCEPT
                  !.valid = @ /\ a \notin Outdated(import.flushed, import.session)]]
       ELSE airports
  /\ import' = [step |-> "done", date |-> import.date, list |-> import.list, commit |-> import.commit]

(* The command fails, and its transaction is rolled back. *)
FailImport ==
  /\ import.step = "read"
  /\ import' = [step |-> "none", date |-> import.date]
  /\ UNCHANGED airports

AirportsNext == StartImport \/ PassOver \/ ImportAirport \/ FinishImport \/ FailImport

AirportsSpec == AirportsInit /\ [][AirportsNext]_airportVars

------------------------------------------------------------------------------
Listed(list) == {list[k] : k \in {k \in DOMAIN list : list[k].type \in Types}}

(* The longer of the two distances. *)
Widest == IF Near < Reach THEN Reach ELSE Near

(* Its airports have different names and are far enough from each other.    *)
Separate(list) ==
  \A k, l \in DOMAIN list : k # l /\ {list[k].type, list[l].type} \subseteq Types =>
    list[k].key # list[l].key /\ Distance(list[k].place, list[l].place) > 2 * Widest

(* "Import all airports": after an import has been committed, the valid     *)
(* rows are the airports of its list, each once, whatever the list before   *)
(* it was, and whether an airport was renamed, was moved, swapped its name  *)
(* with another or is back again.                                           *)
AirportsImported ==
  import.step = "done" /\ import.commit /\ Separate(import.list) =>
    /\ {<<airports[a].key, airports[a].place>> : a \in Valid(airports)}
         = {<<w.key, w.place>> : w \in Listed(import.list)}
    /\ Cardinality(Valid(airports)) = Cardinality(Listed(import.list))

(* No import moves a row by more than the longer of the two distances,      *)
(* however its matches by name and by place follow each other, so that the  *)
(* airport of a flight stays where the flight took off or landed, and none  *)
(* takes a row back that was invalidated.                                   *)
AirportsStay ==
  [][import.step = "read" /\ Separate(import.list) =>
       \A a \in DOMAIN airports :
         /\ Distance(airports[a].place, airports'[a].place) <= Widest
         /\ airports'[a].valid => airports[a].valid]_airportVars
==============================================================================
