------------------------------ MODULE Analysis -------------------------------
(***************************************************************************)
(* The analysis of stored flights: tasks and page views that analyse one   *)
(* flight each, and the commands that walk through all flights in windows  *)
(* of `Chunk` rows and commit after each window.  All of them replace the  *)
(* traces and phases of a flight in a transaction of their own and may     *)
(* meet at the same flight.                                                *)
(*                                                                         *)
(* The session flushes nothing before the commit, but the DELETEs of the  *)
(* old traces and phases are sent at once.  A second analysis waits at its *)
(* own DELETE while the first holds the old rows, and then does not see    *)
(* the new ones: only the unique index of the traces keeps the results of  *)
(* the two apart.                                                          *)
(***************************************************************************)
EXTENDS Naturals, FiniteSets

CONSTANTS
  Flights,    \* ids of the flights
  Verdict,    \* what the analysis of a flight comes to: see Verdicts
  Runs,       \* tasks and page views that analyse a flight
  Chunk,      \* rows of a window, 10 in the code
  Deletable   \* flights that somebody may delete meanwhile

ASSUME FlightsAssumption == IsFiniteSet(Flights) /\ Flights \subseteq Nat
(* A good analysis finds traces and phases, an untraced one phases only.    *)
Verdicts == {"good", "untraced", "none", "raises"}
ASSUME VerdictAssumption == Verdict \in [Flights -> Verdicts]
ASSUME ChunkAssumption == Chunk \in Nat \ {0}
ASSUME RunsAssumption == {"command", "upload", "nobody"} \intersect Runs = {}

VARIABLES
  flights,   \* rows of the table flights
  needs,     \* flights with needs_analysis
  phases,    \* whose traces and phases a flight has
  saved,     \* results that are not yet committed, each with what it deletes
             \* and with the analyses whose end its DELETE waits for
  run,       \* the tasks and page views
  mode,      \* which flights the command selects
  command,   \* the state of the command
  seen,      \* flights that the command has come to
  met        \* history: which analyses of a flight were under way together

vars == <<flights, needs, phases, saved, run, mode, command, seen, met>>

Actors == Runs \union {"command"}
Origins == Actors \union {"upload"}
Result == [by: Actors, flight: Flights, deletes: SUBSET Origins, after: SUBSET Actors]
Command == [state: {"start", "query", "chunk", "done", "dead"}, forced: BOOLEAN,
            offset: Nat, todo: SUBSET Flights, failed: Nat, succeeded: Nat]
Modes == {"scheduled", "force", "all"}

Init ==
  /\ flights = Flights
  /\ needs \in SUBSET Flights
  /\ phases \in [Flights -> {{}, {"upload"}}]
  /\ saved = {}
  /\ run = [r \in Runs |-> [state |-> "new", flight |-> 0, marked |-> FALSE]]
  /\ mode \in Modes
  /\ command = [state |-> "start", forced |-> FALSE, offset |-> 0,
                todo |-> {}, failed |-> 0, succeeded |-> 0]
  /\ seen = {}
  /\ met = {}

------------------------------------------------------------------------------
(* Transactions *)

Analysable(f) == Verdict[f] \in {"good", "untraced"}

(* The other analyses that have deleted rows of f which are still committed. *)
Ahead(a, f) ==
  {s.by : s \in {t \in saved : t.flight = f /\ t.by # a /\ t.deletes \intersect phases[f] # {}}}

(* analyse_flight as far as the database is concerned. *)
Save(a, f) ==
  /\ f \in flights /\ Analysable(f)
  /\ saved' = saved \union
                 {[by |-> a, flight |-> f, deletes |-> phases[f], after |-> Ahead(a, f)]}
  /\ met' = met \union {<<f, {a, s.by}>> : s \in {t \in saved : t.flight = f}}

Results(a) == {s \in saved : s.by = a}
ResultsFor(a, f) == {s \in Results(a) : s.flight = f}

(* Who has to end before the DELETEs of a return. *)
Blockers(a) == {t.by : t \in {t \in saved : \E s \in ResultsFor(a, t.flight) : t.by \in s.after}}

(* Mutant: the traces of a flight have no unique index. *)
Unindexed(a, f) == FALSE

(* The unique index of the traces: rows that a has not seen are in the way. *)
Clashes(a, f) ==
  Verdict[f] = "good" /\ \E s \in ResultsFor(a, f) : phases[f] \ s.deletes # {}

(* The UPDATE of a flight that is gone matches no row, which is an error. *)
Refused(a) == \E s \in Results(a) : s.flight \notin flights \/ Clashes(a, s.flight)

(* The rows of f once a has committed. *)
PhasesAfter(a, f) ==
  IF ResultsFor(a, f) = {} THEN phases[f]
  ELSE (phases[f] \ UNION {s.deletes : s \in ResultsFor(a, f)}) \union {a}

RollBack(a) == saved' = saved \ Results(a)

Commit(a) ==
  /\ phases' = [f \in Flights |-> PhasesAfter(a, f)]
  /\ saved' = saved \ Results(a)

------------------------------------------------------------------------------
(* A task, or a page view without Redis *)

Start(r) ==
  /\ run[r].state = "new"
  /\ \E f \in Flights : run' = [run EXCEPT ![r] =
                            [state |-> "loaded", flight |-> f, marked |-> f \in needs]]
  /\ UNCHANGED <<flights, needs, phases, saved, mode, command, seen, met>>

Analyse(r) ==
  /\ run[r].state = "loaded"
  /\ Save(r, run[r].flight)
  /\ run' = [run EXCEPT ![r].state = "saved"]
  /\ UNCHANGED <<flights, needs, phases, mode, command, seen>>

(* The analysis finds no flight, fails, or the row is gone. *)
Fail(r) ==
  /\ run[r].state = "loaded"
  /\ run[r].flight \notin flights \/ ~Analysable(run[r].flight)
  /\ run' = [run EXCEPT ![r].state = "ended"]
  /\ UNCHANGED <<flights, needs, phases, saved, mode, command, seen, met>>

(* The commit flushes: the UPDATE of the flight waits for `analyze --force`, *)
(* and writes needs_analysis only if the flight was loaded with it set.      *)
CommitRun(r) ==
  /\ run[r].state = "saved"
  /\ Blockers(r) = {} /\ ~command.forced
  /\ IF Refused(r)
     THEN RollBack(r) /\ UNCHANGED <<phases, needs>>
     ELSE /\ Commit(r)
          /\ needs' = IF run[r].marked THEN needs \ {run[r].flight} ELSE needs
  /\ run' = [run EXCEPT ![r].state = "ended"]
  /\ UNCHANGED <<flights, mode, command, seen, met>>

(* The process is killed; the database rolls its transaction back. *)
Die(r) ==
  /\ run[r].state = "saved"
  /\ RollBack(r)
  /\ run' = [run EXCEPT ![r].state = "ended"]
  /\ UNCHANGED <<flights, needs, phases, mode, command, seen, met>>

------------------------------------------------------------------------------
(* The commands *)

Begin ==
  /\ command.state = "start" /\ mode # "force"
  /\ command' = [command EXCEPT !.state = "query"]
  /\ UNCHANGED <<flights, needs, phases, saved, run, mode, seen, met>>

(* --force of the analysis marks every flight, without a commit. *)
InvalidateAll ==
  /\ command.state = "start" /\ mode = "force"
  /\ command' = [command EXCEPT !.state = "query", !.forced = TRUE]
  /\ UNCHANGED <<flights, needs, phases, saved, run, mode, seen, met>>

(* What the query of the command selects, inside its own transaction. *)
Selected == IF mode = "all" \/ command.forced THEN flights ELSE needs

Rank(f) == Cardinality({g \in Selected : g < f})

Window == {f \in Selected : command.offset <= Rank(f) /\ Rank(f) < command.offset + Chunk}

(* The session of the command ends; what it did not commit is rolled back. *)
Query ==
  /\ command.state = "query"
  /\ command' = IF Window = {}
                THEN [command EXCEPT !.state = "done", !.forced = FALSE]
                ELSE [command EXCEPT !.state = "chunk", !.todo = Window]
  /\ UNCHANGED <<flights, needs, phases, saved, run, mode, seen, met>>

First(fs) == CHOOSE f \in fs : \A g \in fs : f <= g

Visit(f) ==
  /\ command.todo # {} /\ Blockers("command") = {}
  /\ f = First(command.todo)
  /\ seen' = seen \union {f}
  /\ UNCHANGED <<flights, needs, phases, run, mode>>

Succeed(f) ==
  /\ Visit(f)
  /\ IF mode = "all" THEN /\ f \in flights /\ Analysable(f)
                          /\ UNCHANGED <<saved, met>>
                     ELSE Save("command", f)
  /\ command' = [command EXCEPT !.todo = @ \ {f}, !.succeeded = @ + 1]

FindNothing(f) ==
  /\ Visit(f)
  /\ f \in flights /\ Verdict[f] = "none"
  /\ command' = [command EXCEPT !.todo = @ \ {f}, !.failed = @ + 1]
  /\ UNCHANGED <<saved, met>>

(* An exception ends the command and rolls its transaction back. *)
EndCommand ==
  /\ command' = [command EXCEPT !.state = "dead", !.todo = {}, !.forced = FALSE]
  /\ RollBack("command")

Raise(f) ==
  /\ Visit(f)
  /\ f \notin flights \/ Verdict[f] = "raises"
  /\ EndCommand
  /\ UNCHANGED met

(* Mutant: the offset of update-flight-paths for the selection of analyze. *)
SkipAll == command.failed + command.succeeded

(* Mutant: failed flights are not skipped. *)
SkipNothing == IF mode = "all" THEN command.failed + command.succeeded ELSE 0

(* Flights that the query will still select are skipped by the offset: all   *)
(* of the window, or those whose analysis has failed and need it still.      *)
Skip == IF mode = "all" THEN command.failed + command.succeeded ELSE command.failed

(* apply_and_commit ends and incremental moves on. *)
EndChunk ==
  /\ command.state = "chunk" /\ command.todo = {} /\ Blockers("command") = {}
  /\ \/ /\ command.succeeded = 0
        /\ UNCHANGED <<phases, saved, needs>>
     \/ /\ command.succeeded > 0 /\ ~Refused("command")
        /\ Commit("command")
        /\ needs' = (IF command.forced THEN flights ELSE needs)
                      \ {s.flight : s \in Results("command")}
  /\ command' = [command EXCEPT !.state = "query", !.offset = @ + Skip,
                                !.failed = 0, !.succeeded = 0,
                                !.forced = command.succeeded = 0 /\ @]
  /\ UNCHANGED <<flights, run, mode, seen, met>>

CommitFails ==
  /\ command.state = "chunk" /\ command.todo = {} /\ Blockers("command") = {}
  /\ command.succeeded > 0 /\ Refused("command")
  /\ EndCommand
  /\ UNCHANGED <<flights, needs, phases, run, mode, seen, met>>

------------------------------------------------------------------------------
(* The rows of a flight are locked by whoever has deleted some of them. *)
LockedBy(f) == {s.by : s \in {t \in saved : t.flight = f /\ t.deletes \intersect phases[f] # {}}}

(* Somebody deletes a flight.  The deletion takes its row first and waits   *)
(* for the rows that go with it ...                                         *)
Delete(f) ==
  /\ f \in flights \intersect Deletable
  /\ LockedBy(f) = {} /\ ~command.forced
  /\ flights' = flights \ {f}
  /\ needs' = needs \ {f}
  /\ phases' = [phases EXCEPT ![f] = {}]
  /\ UNCHANGED <<saved, run, mode, command, seen, met>>

(* ... while the analysis that holds these may wait for the flight's row at  *)
(* its commit: a deadlock, in which the database may roll the command back.  *)
(* (That it may roll back a run is Die, and the deletion no step at all.)    *)
DeleteDeadlock ==
  /\ command.state = "chunk" /\ command.todo = {} /\ ~command.forced
  /\ \E f \in flights \intersect Deletable : "command" \in LockedBy(f)
  /\ EndCommand
  /\ UNCHANGED <<flights, needs, phases, run, mode, seen, met>>

(* `analyze --force` holds all flights, a run waits for one of them at its   *)
(* commit, and the command for the rows that the run has deleted: one of     *)
(* the two is rolled back.                                                   *)
ForceDeadlock(r) ==
  /\ command.forced /\ r \in Blockers("command")
  /\ \/ Die(r)
     \/ EndCommand /\ UNCHANGED <<flights, needs, phases, run, mode, seen, met>>

RunStep(r) == Start(r) \/ Analyse(r) \/ Fail(r) \/ CommitRun(r)
CommandStep ==
  \/ Begin \/ InvalidateAll \/ Query \/ EndChunk \/ CommitFails
  \/ \E f \in Flights : Succeed(f) \/ FindNothing(f) \/ Raise(f)

Next ==
  \/ CommandStep
  \/ \E r \in Runs : RunStep(r) \/ Die(r) \/ ForceDeadlock(r)
  \/ DeleteDeadlock \/ \E f \in Flights : Delete(f)

Spec == Init /\ [][Next]_vars

(* Whoever holds a lock commits some time, and the database breaks a         *)
(* deadlock; nobody has to start a run.                                      *)
Fairness ==
  /\ WF_vars(CommandStep)
  /\ \A r \in Runs : WF_vars(CommitRun(r)) /\ WF_vars(ForceDeadlock(r))
FairSpec == Spec /\ Fairness

------------------------------------------------------------------------------
(* Every variable stays within its type; only existing flights need analysis *)
(* or have traces and phases.                                                *)
TypeOK ==
  /\ flights \subseteq Flights /\ needs \subseteq flights
  /\ phases \in [Flights -> SUBSET Origins]
  /\ \A f \in Flights \ flights : phases[f] = {}
  /\ saved \subseteq Result
  /\ run \in [Runs -> [state: {"new", "loaded", "saved", "ended"},
                       flight: Flights \union {0}, marked: BOOLEAN]]
  /\ mode \in Modes
  /\ command \in Command
  /\ seen \subseteq Flights
  /\ met \subseteq Flights \X SUBSET Actors

(* A flight shows the traces and phases of one analysis, however many run in *)
(* parallel: of two the unique index of the traces fails the later one, with *)
(* its phases.  Only where an analysis finds no traces may phases of several *)
(* stay, and then of such as were under way together: none is left of what   *)
(* was there before (delete_trace, delete_phases, traces_contest_idx).       *)
OneResult ==
  \A f \in flights : \A a, b \in phases[f] :
    a = b \/ (Verdict[f] = "untraced" /\ <<f, {a, b}>> \in met)

(* When the command ends by itself it has come to every flight that is still *)
(* to be analysed, except for one flight at most per flight that was deleted *)
(* under its windows.                                                        *)
Missed == Selected \ seen
MissedBounded ==
  command.state = "done" => Cardinality(Missed) <= Cardinality(Flights \ flights)

(* The command analyses no flight twice: its offset and the rows that leave  *)
(* the selection move in step.                                               *)
VisitedOnce ==
  [][\A f \in seen : f \in command.todo => f \in command'.todo]_vars

(* The command ends, whoever else analyses the flights. *)
CommandEnds == <>(command.state \in {"done", "dead"})
==============================================================================
