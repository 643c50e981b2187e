------------------------------ MODULE Meetings -------------------------------
(***************************************************************************)
(* The find_meetings task: after an upload a celery worker looks for the   *)
(* flights that came near the new one and replaces the rows of             *)
(* flight_meetings for each such pair.  Workers run several tasks at once, *)
(* each in a transaction at PostgreSQL's default isolation (READ           *)
(* COMMITTED): a statement sees what was committed when it began, a DELETE *)
(* waits for rows that another transaction has deleted, and nothing tells  *)
(* a transaction of rows that others are about to insert.                  *)
(***************************************************************************)
EXTENDS Naturals, FiniteSets

CONSTANTS
  Flights,  \* flights that may be uploaded
  Near,     \* for each flight, those whose path came near it in time
  Runs,     \* executions of the task
  Workers,  \* tasks executed at the same time
  Deletable \* flights that may be deleted again

ASSUME NearAssumption ==
  Near \in [Flights -> SUBSET Flights] /\ \A f \in Flights : f \notin Near[f]
ASSUME DeletableAssumption == Deletable \subseteq Flights

VARIABLES
  stored,    \* committed flights
  deleted,   \* flights that are no more
  tasks,     \* flights whose task is queued
  meetings,  \* committed rows of flight_meetings
  pc,        \* the state of each run
  flight,    \* the flight of a run
  others,    \* keys of other_flights of a run
  todo,      \* those whose previous rows the run has not deleted yet
  victims,   \* the rows that the run's current DELETE has matched
  removed    \* rows that the run's transaction has deleted

vars == <<stored, deleted, tasks, meetings, pc, flight, others, todo, victims, removed>>

(* All meetings that one run finds for one pair of flights. *)
Meeting == [source: Flights, destination: Flights, run: Runs]
Pair(row) == {row.source, row.destination}

Active == {"search", "clear", "deleting", "insert"}
Locked(r) == UNION {removed[q] : q \in {q \in Runs \ {r} : pc[q] \in Active}}

Init ==
  /\ stored = {} /\ deleted = {} /\ tasks = {} /\ meetings = {}
  /\ pc = [r \in Runs |-> "idle"]
  /\ flight = [r \in Runs |-> CHOOSE f \in Flights : TRUE]
  /\ others = [r \in Runs |-> {}]
  /\ todo = [r \in Runs |-> {}]
  /\ victims = [r \in Runs |-> {}]
  /\ removed = [r \in Runs |-> {}]

Goto(r, state) == pc' = [pc EXCEPT ![r] = state]
runVars == <<flight, others, todo, victims, removed>>

------------------------------------------------------------------------------
(* The task is queued once the upload is committed ... *)
Upload(f) ==
  /\ f \in Flights \ (stored \union deleted)
  /\ stored' = stored \union {f}
  /\ tasks' = tasks \union {f}
  /\ UNCHANGED <<deleted, meetings, pc, runVars>>

(* ... and may be scheduled again at any time by the find-meetings command. *)
Reschedule(f) ==
  /\ f \in stored \ tasks
  /\ tasks' = tasks \union {f}
  /\ UNCHANGED <<stored, deleted, meetings, pc, runVars>>

(* Rows of flight_meetings follow the flight (ON DELETE CASCADE), once no    *)
(* transaction holds them.                                                   *)
DeleteFlight(f) ==
  /\ f \in stored \intersect Deletable
  /\ \A r \in Runs : pc[r] \in Active => \A row \in removed[r] : f \notin Pair(row)
  /\ stored' = stored \ {f}
  /\ deleted' = deleted \union {f}
  /\ meetings' = {row \in meetings : f \notin Pair(row)}
  /\ UNCHANGED <<tasks, pc, runVars>>

------------------------------------------------------------------------------
(* find_meetings *)

Take(r) ==
  /\ pc[r] = "idle" /\ Cardinality({q \in Runs : pc[q] \in Active}) < Workers
  /\ \E f \in tasks :
       /\ flight' = [flight EXCEPT ![r] = f]
       /\ tasks' = tasks \ {f}
  /\ Goto(r, "search")
  /\ UNCHANGED <<stored, deleted, meetings, others, todo, victims, removed>>

(* Mutant: only flights of higher id are searched. *)
SearchNewer(r) ==
  /\ pc[r] = "search"
  /\ IF flight[r] \in stored
     THEN /\ others' = [others EXCEPT ![r] =
               {f \in Near[flight[r]] \intersect stored : f > flight[r]}]
          /\ todo' = [todo EXCEPT ![r] = others'[r]]
          /\ Goto(r, "clear")
     ELSE Goto(r, "failed") /\ UNCHANGED <<others, todo>>
  /\ UNCHANGED <<stored, deleted, tasks, meetings, flight, victims, removed>>

(* get_near_flights; the task fails with AttributeError when the flight has  *)
(* been deleted meanwhile.                                                   *)
Search(r) ==
  /\ pc[r] = "search"
  /\ IF flight[r] \in stored
     THEN /\ others' = [others EXCEPT ![r] = Near[flight[r]] \intersect stored]
          /\ todo' = [todo EXCEPT ![r] = others'[r]]
          /\ Goto(r, "clear")
     ELSE Goto(r, "failed") /\ UNCHANGED <<others, todo>>
  /\ UNCHANGED <<stored, deleted, tasks, meetings, flight, victims, removed>>

(* Mutant: only the rows that this flight is the source of are deleted. *)
PreviousAsSource(r, f) ==
  {row \in meetings \ removed[r] : row.source = flight[r] /\ row.destination = f}

(* The rows for the run's flight and flight f, whichever is the source. *)
Previous(r, f) == {row \in meetings \ removed[r] : Pair(row) = {flight[r], f}}

(* DELETE for the next flight of the dictionary, whose order depends on its  *)
(* size and history, begins ...                                              *)
DeletePrevious(r) ==
  /\ pc[r] = "clear"
  /\ \E f \in todo[r] :
       /\ victims' = [victims EXCEPT ![r] = Previous(r, f)]
       /\ todo' = [todo EXCEPT ![r] = @ \ {f}]
  /\ Goto(r, "deleting")
  /\ UNCHANGED <<stored, deleted, tasks, meetings, flight, others, removed>>

(* ... and ends when nobody else holds the rows; those that another          *)
(* transaction has deleted for good are skipped.                             *)
Deleted(r) ==
  /\ pc[r] = "deleting"
  /\ victims[r] \intersect Locked(r) = {}
  /\ removed' = [removed EXCEPT ![r] = @ \union (victims[r] \intersect meetings)]
  /\ victims' = [victims EXCEPT ![r] = {}]
  /\ Goto(r, IF todo[r] = {} THEN "insert" ELSE "clear")
  /\ UNCHANGED <<stored, deleted, tasks, meetings, flight, others, todo>>

NothingToDelete(r) ==
  /\ pc[r] = "clear" /\ todo[r] = {}
  /\ Goto(r, "insert")
  /\ UNCHANGED <<stored, deleted, tasks, meetings, runVars>>

Found(r) == {[source |-> flight[r], destination |-> f, run |-> r] : f \in others[r]}

(* The new rows are inserted and committed with the deletions.  A flight    *)
(* that was deleted since makes the insert fail (NOT NULL or foreign key).  *)
Commit(r) ==
  /\ pc[r] = "insert"
  /\ IF {flight[r]} \union others[r] \subseteq stored \/ others[r] = {}
     THEN meetings' = (meetings \ removed[r]) \union Found(r) /\ Goto(r, "done")
     ELSE Goto(r, "failed") /\ UNCHANGED meetings
  /\ UNCHANGED <<stored, deleted, tasks, runVars>>

(* Mutant: nobody detects deadlocks. *)
NeverDeadlocked(r) == FALSE

(* Runs that hold rows which the DELETE of r has matched. *)
WaitsFor(r) ==
  {q \in Runs \ {r} : /\ pc[r] = "deleting" /\ pc[q] \in Active
                      /\ victims[r] \intersect removed[q] # {}}

Deadlocked(r) ==
  \E C \in SUBSET Runs :
    /\ r \in C
    /\ \A q \in C : WaitsFor(q) \intersect C # {}
    /\ \A q \in C : \E p \in C : q \in WaitsFor(p)

(* The transaction of a failed task is rolled back; nothing runs it again.  *)
RollBack(r) ==
  /\ pc[r] = "deleting" /\ Deadlocked(r)
  /\ Goto(r, "failed")
  /\ UNCHANGED <<stored, deleted, tasks, meetings, runVars>>

RunStep(r) ==
  \/ Search(r) \/ DeletePrevious(r) \/ Deleted(r) \/ NothingToDelete(r)
  \/ Commit(r) \/ RollBack(r)

Next ==
  \/ \E f \in Flights : Upload(f) \/ Reschedule(f) \/ DeleteFlight(f)
  \/ \E r \in Runs : Take(r) \/ RunStep(r)

Spec == Init /\ [][Next]_vars /\ \A r \in Runs : WF_vars(RunStep(r))

------------------------------------------------------------------------------
(* Every variable stays within its type, and no flight is its own neighbour *)
(* (the filter of get_near_flights).                                        *)
TypeOK ==
  /\ stored \subseteq Flights /\ deleted \subseteq Flights /\ tasks \subseteq Flights
  /\ meetings \subseteq Meeting
  /\ pc \in [Runs -> {"idle", "done", "failed"} \union Active]
  /\ flight \in [Runs -> Flights]
  /\ others \in [Runs -> SUBSET Flights] /\ \A r \in Runs : flight[r] \notin others[r]
  /\ todo \in [Runs -> SUBSET Flights]
  /\ victims \in [Runs -> SUBSET Meeting] /\ removed \in [Runs -> SUBSET Meeting]

(* "delete all previous detected points between src and dst": the meetings  *)
(* of two flights are those of the latest run for either, never of two runs *)
(* side by side, which the flight page would list twice.                    *)
OneRunPerPair == \A a, b \in meetings : Pair(a) = Pair(b) => a = b

(* When all tasks have ended well, two flights that are near each other have *)
(* a meeting: whichever was committed last finds the other.                  *)
MeetingsFound ==
  (tasks = {} /\ \A r \in Runs : pc[r] \in {"idle", "done"}) =>
    \A f \in stored : \A g \in Near[f] \intersect stored :
      f \in Near[g] => \E row \in meetings : Pair(row) = {f, g}

(* Every task that a worker has taken comes to an end. *)
EveryRunEnds == \A r \in Runs : pc[r] \in Active ~> pc[r] \in {"done", "failed"}

==============================================================================
