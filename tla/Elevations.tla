------------------------------ MODULE Elevations ------------------------------
(***************************************************************************)
(* The terrain below a flight: the import of elevation tiles, and the      *)
(* cache of the elevations that a flight page shows.                       *)
(*                                                                         *)
(* The import goes by the names of files.  A tile that is downloaded       *)
(* (srtm_xx_yy_tiled.tif) and also imported from a local file, whose name  *)
(* may be any, is two files, with rows of its own for each.                *)
(***************************************************************************)
EXTENDS Naturals, Sequences

CONSTANTS
  FileNames,     \* names of GeoTIFF files of elevation tiles
  BelowFlight,   \* files of the tiles that the fixes of the flight are in
  Importers,     \* commands that import elevation tiles
  Viewers,       \* requests for the flight page
  MaxTileRuns,   \* bound on the files that are imported
  MaxModified,   \* bound on the changes of the flight
  Timeout        \* ticks of the clock that the cache keeps an entry, 24 hours

ASSUME ElevationsAssumption ==
  /\ BelowFlight \subseteq FileNames
  /\ Timeout \in Nat \ {0} /\ MaxModified \in Nat

VARIABLES
  tileFiles,  \* files that exist in SKYLINES_ELEVATION_PATH
  elevations, \* ages of the rows of each file, one for each time it was appended
  importing,  \* the file that each command is about, and what it does next
  raced,      \* (history) files that two commands found missing, each before the
              \* other had created them
  tileRuns,   \* number of imported files so far
  modified,   \* time_modified of the flight
  cache,      \* ages and elevations of the entries of the cache
  view        \* the requests

importVars == <<tileFiles, elevations, importing, raced, tileRuns>>
tileVars == <<tileFiles, elevations, importing, raced, tileRuns, modified, cache, view>>

Idle == [step |-> "idle"]
Closed == [step |-> "closed"]

ElevationsInit ==
  /\ tileFiles = {} /\ elevations = [n \in FileNames |-> <<>>]
  /\ importing = [i \in Importers |-> Idle] /\ raced = {}
  /\ tileRuns = 0 /\ modified = 0
  /\ cache = [key \in 0 .. MaxModified |-> <<>>]
  /\ view = [v \in Viewers |-> Closed]

------------------------------------------------------------------------------
(* The import *)

(* Commands that are about to create the file n. *)
Creating(n) == {i \in Importers : importing[i] = [step |-> "copy", file |-> n]}

(* A file that exists already is passed over, and is not looked at here. *)
CheckFile(i, n) ==
  /\ importing[i] = Idle /\ tileRuns < MaxTileRuns /\ tileRuns' = tileRuns + 1
  /\ n \notin tileFiles
  /\ importing' = [importing EXCEPT ![i] = [step |-> "copy", file |-> n]]
  /\ raced' = IF Creating(n) = {} THEN raced ELSE raced \union {n}
  /\ UNCHANGED <<tileFiles, elevations, modified, cache, view>>

(* The download or the copy, which opens the file whether it exists or not. *)
CopyFile(i) ==
  /\ importing[i].step = "copy"
  /\ tileFiles' = tileFiles \union {importing[i].file}
  /\ importing' = [importing EXCEPT ![i].step = "insert"]
  /\ UNCHANGED <<elevations, raced, tileRuns, modified, cache, view>>

(* The rows are appended, by statements that end with their own COMMIT. *)
InsertTile(i) ==
  /\ importing[i].step = "insert"
  /\ elevations' = [elevations EXCEPT ![importing[i].file] = Append(@, 0)]
  /\ importing' = [importing EXCEPT ![i] = Idle]
  /\ UNCHANGED <<tileFiles, raced, tileRuns, modified, cache, view>>

(* The download fails, which leaves the file that wget has opened, or the   *)
(* command dies: the file may be there without its rows.                    *)
FailTile(i) ==
  /\ importing[i] # Idle /\ importing' = [importing EXCEPT ![i] = Idle]
  /\ UNCHANGED <<tileFiles, elevations, raced, tileRuns, modified, cache, view>>

------------------------------------------------------------------------------
(* The flight page *)

Modify ==
  /\ modified < MaxModified /\ modified' = modified + 1
  /\ UNCHANGED <<importVars, cache, view>>

(* The key of the cache is made of the id and time_modified of the flight. *)
LoadFlight(v) ==
  /\ view[v].step = "closed"
  /\ view' = [view EXCEPT ![v] = [step |-> "look up", key |-> modified]]
  /\ UNCHANGED <<importVars, modified, cache>>

Show(v, found) == view' = [view EXCEPT ![v] = [step |-> "shown", found |-> found]]

Nothing(found) == \A n \in BelowFlight : found[n] = 0

(* How often the fixes are found with a file: once with each of its rows. *)
Found == [n \in BelowFlight |-> Len(elevations[n])]

(* Mutant: a flight without elevations is cached, and shown from the cache. *)
LookUpNothing(v) ==
  \/ /\ view[v].step = "look up" /\ cache[view[v].key] # <<>>
     /\ Show(v, cache[view[v].key][1].found)
     /\ UNCHANGED <<importVars, modified, cache>>
  \/ /\ view[v].step = "look up" /\ cache[view[v].key] = <<>>
     /\ Show(v, Found)
     /\ cache' = [cache EXCEPT ![view[v].key] = <<[age |-> 0, found |-> Found]>>]
     /\ UNCHANGED <<importVars, modified>>

(* An empty list in the cache is no better than no entry. *)
LookUp(v) ==
  /\ view[v].step = "look up"
  /\ LET entry == cache[view[v].key] IN
     IF entry # <<>> /\ ~Nothing(entry[1].found) THEN Show(v, entry[1].found)
     ELSE view' = [view EXCEPT ![v].step = "query"]
  /\ UNCHANGED <<importVars, modified, cache>>

QueryElevations(v) ==
  /\ view[v].step = "query"
  /\ IF Nothing(Found) THEN Show(v, Found)
     ELSE view' = [view EXCEPT ![v] = [step |-> "store", key |-> @.key, found |-> Found]]
  /\ UNCHANGED <<importVars, modified, cache>>

Store(v) ==
  /\ view[v].step = "store"
  /\ cache' = [cache EXCEPT ![view[v].key] = <<[age |-> 0, found |-> view[v].found]>>]
  /\ Show(v, view[v].found)
  /\ UNCHANGED <<importVars, modified>>

Close(v) ==
  /\ view[v].step = "shown"
  /\ view' = [view EXCEPT ![v] = Closed]
  /\ UNCHANGED <<importVars, modified, cache>>

------------------------------------------------------------------------------
Older(age) == IF age < Timeout THEN age + 1 ELSE age

(* The clock.  A request lasts less than a tick. *)
Tick ==
  /\ \A v \in Viewers : view[v].step = "closed"
  /\ elevations' = [n \in FileNames |-> [k \in DOMAIN elevations[n] |-> Older(elevations[n][k])]]
  /\ cache' = [key \in DOMAIN cache |->
       IF cache[key] = <<>> \/ cache[key][1].age + 1 >= Timeout THEN <<>>
       ELSE <<[cache[key][1] EXCEPT !.age = @ + 1]>>]
  /\ UNCHANGED <<tileFiles, importing, raced, tileRuns, modified, view>>

ElevationsNext ==
  \/ \E i \in Importers : \/ \E n \in FileNames : CheckFile(i, n)
                          \/ CopyFile(i) \/ InsertTile(i) \/ FailTile(i)
  \/ Modify \/ Tick
  \/ \E v \in Viewers : LoadFlight(v) \/ LookUp(v) \/ QueryElevations(v) \/ Store(v) \/ Close(v)

ElevationsSpec == ElevationsInit /\ [][ElevationsNext]_tileVars

------------------------------------------------------------------------------
HasRowOfAge(n, age) == \E k \in DOMAIN elevations[n] : elevations[n][k] >= age

(* What the page of a flight shows of the terrain, from the cache or not:   *)
(* no fix twice with one file, unless two commands raced to import it; all  *)
(* of a file that was imported before the lifetime of the cache; and        *)
(* something once any file below the flight has been imported - a flight    *)
(* that nothing was found for is not held back by the cache.                *)
ElevationsShown ==
  [][\A v \in Viewers : view[v].step # "shown" /\ view'[v].step = "shown" =>
       LET found == view'[v].found IN
       /\ \A n \in BelowFlight : found[n] > 1 => n \in raced
       /\ \A n \in BelowFlight : HasRowOfAge(n, Timeout) => found[n] > 0
       /\ Nothing(found) => \A n \in BelowFlight : ~HasRowOfAge(n, 1)]_tileVars
==============================================================================
