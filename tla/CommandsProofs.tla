--------------------------- MODULE CommandsProofs ----------------------------
(***************************************************************************)
(* What the commands over flights, the imports of airports, airspace and   *)
(* elevations and the cutting of a path guarantee, for any number of       *)
(* flights, runs, files, countries and rows of a window, for any lists of  *)
(* airports, and for paths and chunks of every size.                       *)
(*                                                                         *)
(* OneResult rests on the unique index of the traces and on who was under  *)
(* way with whom: what is committed beside the rows that a result deletes  *)
(* comes from analyses that it has met (SavedRight).  MissedBounded is a   *)
(* matter of counting: the offset is the number of flights that the        *)
(* command has come to and that are still selected (Counted), all of them  *)
(* lie before the next window, and a window is empty only when no more     *)
(* flights are selected than the offset skips.  The loop that cuts a path  *)
(* keeps that its rows so far partition the fixes before the current       *)
(* chunk.  Between the two commits for a file its country is empty, and no *)
(* other command touches it (AirspaceInv).  An entry of the cache of       *)
(* elevations has found every file with a row that is older than the entry *)
(* (CacheInv).  An import of airports takes a row of its own for each:     *)
(* rows are near where they were, and airports are too far from each other *)
(* to find the same row (RowsTaken).  A file is scored where its longest   *)
(* glide is: a glide is in one of the periods of its flight, or ahead of   *)
(* where these are gathered (Gathering).                                   *)
(***************************************************************************)
EXTENDS Analysis, PathChunks, AirportImport, AirspaceImport, Elevations, ScoringTimes,
        FiniteSetTheorems, SequenceTheorems, WellFoundedInduction, TLAPS

------------------------------------------------------------------------------
(* Finite sets of numbers *)

Below(S, f) == {g \in S : g < f}
Above(S, f) == {g \in S : f < g}

LEMMA Maximum ==
  ASSUME NEW S \in SUBSET Nat, IsFiniteSet(S), S # {}
  PROVE  \E m \in S : \A g \in S : g <= m
  <1> DEFINE T == {Above(S, f) : f \in S}
  <1>1. IsWellFoundedOn(StrictSubsetOrdering(S), FiniteSubsetsOf(S))
    BY FS_StrictSubsetOrderingWellFounded
  <1>2. T \subseteq FiniteSubsetsOf(S) /\ T # {}
    <2>1. \A f \in S : Above(S, f) \in SUBSET S
      BY DEF Above
    <2>2. FiniteSubsetsOf(S) = SUBSET S
      BY FS_FiniteSubsetsOfFinite
    <2>3. PICK f \in S : TRUE
      OBVIOUS
    <2>4. Above(S, f) \in T
      OBVIOUS
    <2>5. QED
      BY <2>1, <2>2, <2>4
  <1>3. PICK x \in T : \A y \in T : <<y, x>> \notin StrictSubsetOrdering(S)
    <2> HIDE DEF T
    <2>1. QED
      BY <1>1, <1>2, WFMin
  <1>4. PICK m \in S : x = Above(S, m)
    BY <1>3
  <1>5. ASSUME NEW g \in S, ~(g <= m) PROVE FALSE
    <2>a. g \in Nat /\ m \in Nat /\ \A h \in S : h \in Nat
      OBVIOUS
    <2>b. m < g
      BY <1>5, <2>a
    <2>c. ~(g < g) /\ \A h \in S : g < h => m < h
      BY <2>a, <2>b
    <2>1. g \in Above(S, m) /\ g \notin Above(S, g) /\ Above(S, g) \subseteq Above(S, m)
      BY <2>b, <2>c, Zenon DEF Above
    <2>2. <<Above(S, g), Above(S, m)>> \in StrictSubsetOrdering(S)
      BY <2>1 DEF StrictSubsetOrdering, Above
    <2>3. QED
      BY <2>2, <1>3, <1>4
  <1>6. QED
    BY <1>5

LEMMA Minimum ==
  ASSUME NEW S \in SUBSET Nat, IsFiniteSet(S), S # {}
  PROVE  \E m \in S : \A g \in S : m <= g
  <1> DEFINE T == {Below(S, f) : f \in S}
  <1>1. IsWellFoundedOn(StrictSubsetOrdering(S), FiniteSubsetsOf(S))
    BY FS_StrictSubsetOrderingWellFounded
  <1>2. T \subseteq FiniteSubsetsOf(S) /\ T # {}
    <2>1. \A f \in S : Below(S, f) \in SUBSET S
      BY DEF Below
    <2>2. FiniteSubsetsOf(S) = SUBSET S
      BY FS_FiniteSubsetsOfFinite
    <2>3. PICK f \in S : TRUE
      OBVIOUS
    <2>4. Below(S, f) \in T
      OBVIOUS
    <2>5. QED
      BY <2>1, <2>2, <2>4
  <1>3. PICK x \in T : \A y \in T : <<y, x>> \notin StrictSubsetOrdering(S)
    <2> HIDE DEF T
    <2>1. QED
      BY <1>1, <1>2, WFMin
  <1>4. PICK m \in S : x = Below(S, m)
    BY <1>3
  <1>5. ASSUME NEW g \in S, ~(m <= g) PROVE FALSE
    <2>a. g \in Nat /\ m \in Nat /\ \A h \in S : h \in Nat
      OBVIOUS
    <2>b. g < m
      BY <1>5, <2>a
    <2>c. ~(g < g) /\ \A h \in S : h < g => h < m
      BY <2>a, <2>b
    <2>1. g \in Below(S, m) /\ g \notin Below(S, g) /\ Below(S, g) \subseteq Below(S, m)
      BY <2>b, <2>c, Zenon DEF Below
    <2>2. <<Below(S, g), Below(S, m)>> \in StrictSubsetOrdering(S)
      BY <2>1 DEF StrictSubsetOrdering, Below
    <2>3. QED
      BY <2>2, <1>3, <1>4
  <1>6. QED
    BY <1>5

(* Ranks are natural numbers and grow with the set. *)
LEMMA RankMonotone ==
  ASSUME NEW S, IsFiniteSet(S), NEW T \in SUBSET S, NEW f
  PROVE  /\ Cardinality(Below(T, f)) \in Nat /\ Cardinality(Below(S, f)) \in Nat
         /\ Cardinality(Below(T, f)) <= Cardinality(Below(S, f))
  <1>1. IsFiniteSet(Below(S, f)) /\ Below(T, f) \in SUBSET Below(S, f)
    BY FS_Subset DEF Below
  <1>2. QED
    BY <1>1, FS_Subset, FS_CardinalityType

(* A set whose elements all have a rank below k has no more than k elements. *)
LEMMA RanksBoundCardinality ==
  ASSUME NEW S \in SUBSET Nat, IsFiniteSet(S), NEW k \in Nat,
         \A f \in S : Cardinality(Below(S, f)) < k
  PROVE  Cardinality(S) <= k
  <1>1. CASE S = {}
    BY <1>1, FS_EmptySet
  <1>2. CASE S # {}
    <2>1. PICK m \in S : \A g \in S : g <= m
      BY <1>2, Maximum
    <2>a. \A g \in S : g \in Nat /\ (g < m \/ g = m)
      BY <2>1
    <2>b. ~(m < m)
      BY <2>a
    <2>2. S = Below(S, m) \union {m} /\ m \notin Below(S, m)
      BY <2>a, <2>b, Zenon DEF Below
    <2>3. IsFiniteSet(Below(S, m))
      BY FS_Subset DEF Below
    <2>4. Cardinality(S) = Cardinality(Below(S, m)) + 1
      BY <2>2, <2>3, FS_AddElement
    <2>5. QED
      BY <2>3, <2>4, FS_CardinalityType
  <1>3. QED
    BY <1>1, <1>2

(* When no element below f has a rank of k or more, f has rank k at most. *)
LEMMA RankOfFirst ==
  ASSUME NEW S \in SUBSET Nat, IsFiniteSet(S), NEW k \in Nat, NEW f \in Nat,
         \A g \in Below(S, f) : Cardinality(Below(S, g)) < k
  PROVE  Cardinality(Below(S, f)) <= k
  <1>1. Below(S, f) \in SUBSET Nat /\ IsFiniteSet(Below(S, f))
    BY FS_Subset DEF Below
  <1>2. ASSUME NEW g \in Below(S, f) PROVE Below(Below(S, f), g) = Below(S, g)
    <2>1. g \in Nat /\ g < f /\ \A h \in S : h \in Nat
      BY DEF Below
    <2>2. \A h \in S : h < g => h < f
      BY <2>1
    <2>3. QED
      BY <2>2 DEF Below
  <1>3. QED
    BY <1>1, <1>2, RanksBoundCardinality

------------------------------------------------------------------------------
(* Transactions *)

TodoInChunk == command.todo # {} => command.state = "chunk"

SavedByRuns ==
  \A s \in saved : s.by \in Runs => run[s.by].state = "saved" /\ run[s.by].flight = s.flight

SavedByCommand ==
  \A s \in saved : s.by = "command" =>
    /\ command.state = "chunk" /\ command.succeeded > 0 /\ mode # "all"
    /\ s.flight \notin command.todo

RunsRight == \A r \in Runs : run[r].state = "saved" => Analysable(run[r].flight)

OneEach == \A s, t \in saved : s.flight = t.flight /\ s.by = t.by => s = t

(* Who holds results of one flight at the same time was under way together, *)
(* and so was whoever has committed since a result was saved.               *)
AllMet == \A s, t \in saved : s.flight = t.flight => s = t \/ <<s.flight, {s.by, t.by}>> \in met

SavedRight ==
  \A s \in saved :
    /\ Analysable(s.flight)
    /\ \A b \in phases[s.flight] \ s.deletes : <<s.flight, {s.by, b}>> \in met

SavedInv == OneEach /\ AllMet /\ SavedRight

SaveInv ==
  /\ TypeOK /\ TodoInChunk
  /\ SavedByRuns /\ SavedByCommand /\ RunsRight /\ SavedInv
  /\ OneResult

LEMMA InitSaveInv == Init => SaveInv
  <1> SUFFICES ASSUME Init PROVE SaveInv
    OBVIOUS
  <1>1. TypeOK
    BY DEF Init, TypeOK, Command, Origins, Actors
  <1>2. OneResult
    BY DEF Init, OneResult
  <1>3. QED
    BY <1>1, <1>2 DEF Init, SaveInv, TodoInChunk, RunsRight, SavedByRuns, SavedByCommand, SavedInv,
                OneEach, AllMet, SavedRight

(* An actor without a result for the flight adds one, and has met all who    *)
(* have one.                                                                 *)
LEMMA SaveKeeps ==
  ASSUME SaveInv, NEW a \in Actors, NEW f \in Flights, Save(a, f),
         \A s \in saved : s.by = a => s.flight # f,
         UNCHANGED phases
  PROVE  /\ saved' \subseteq Result /\ met' \subseteq Flights \X SUBSET Actors /\ met \subseteq met'
         /\ SavedInv' /\ Analysable(f)
         /\ \A s \in saved' : s \in saved \/ (s.by = a /\ s.flight = f)
  <1> DEFINE new == [by |-> a, flight |-> f, deletes |-> phases[f], after |-> Ahead(a, f)]
  <1>1. /\ saved' = saved \union {new} /\ Analysable(f)
        /\ met' = met \union {<<f, {a, s.by}>> : s \in {t \in saved : t.flight = f}}
    BY DEF Save
  <1>2. saved \subseteq Result /\ phases[f] \in SUBSET Origins /\ met \subseteq Flights \X SUBSET Actors
    BY DEF SaveInv, TypeOK
  <1>3. Ahead(a, f) \in SUBSET Actors
    BY <1>2 DEF Ahead, Result
  <1>4. new \in Result
    BY <1>2, <1>3 DEF Result
  <1>5. new.by = a /\ new.flight = f /\ new.deletes = phases[f]
    OBVIOUS
  <1> HIDE DEF new
  <1>6. met' \subseteq Flights \X SUBSET Actors /\ met \subseteq met'
    BY <1>1, <1>2 DEF Result
  <1>7. ASSUME NEW s \in saved, s.flight = f
        PROVE  <<f, {a, s.by}>> \in met' /\ <<f, {s.by, a}>> \in met'
    <2>1. <<f, {a, s.by}>> \in met'
      BY <1>1, <1>7
    <2>2. {a, s.by} = {s.by, a}
      OBVIOUS
    <2> QED BY <2>1, <2>2
  <1>8. OneEach' /\ AllMet'
    BY <1>1, <1>5, <1>6, <1>7 DEF SaveInv, SavedInv, OneEach, AllMet
  <1>9. SavedRight'
    BY <1>1, <1>5, <1>6 DEF SaveInv, SavedInv, SavedRight
  <1>10. QED
    BY <1>1, <1>2, <1>4, <1>5, <1>6, <1>8, <1>9 DEF SavedInv

(* Results that go, with the rows of their flight or without, leave the      *)
(* others as they are.                                                       *)
LEMMA FewerSaved ==
  ASSUME SavedInv, saved' \subseteq saved, met' = met,
         \A s \in saved' : phases'[s.flight] \subseteq phases[s.flight]
  PROVE  SavedInv'
  BY DEF SavedInv, OneEach, AllMet, SavedRight

(* A commit leaves its result, and for a flight without traces the results   *)
(* of such as were under way with it.                                        *)
LEMMA CommitKeeps ==
  ASSUME SaveInv, NEW a \in Actors, Commit(a), ~Refused(a), UNCHANGED <<flights, met>>
  PROVE  /\ phases' \in [Flights -> SUBSET Origins]
         /\ \A f \in Flights \ flights : phases'[f] = {}
         /\ saved' \subseteq saved /\ \A s \in saved' : s.by # a
         /\ SavedInv' /\ OneResult'
  <1>1. saved' = saved \ Results(a) /\ saved \subseteq Result
    BY DEF Commit, SaveInv, TypeOK
  <1>2. saved' \subseteq saved /\ \A s \in saved' : s.by # a
    BY <1>1 DEF Results
  <1>3. \A f \in Flights : phases'[f] = PhasesAfter(a, f)
    BY DEF Commit
  <1>4. ASSUME NEW f \in Flights, ResultsFor(a, f) # {}
        PROVE  \E s \in saved : /\ s.by = a /\ s.flight = f /\ f \in flights
                                /\ phases'[f] = (phases[f] \ s.deletes) \union {a}
    <2>1. PICK s \in saved : s.by = a /\ s.flight = f
      BY <1>4 DEF ResultsFor, Results
    <2>2. ResultsFor(a, f) = {s}
      BY <2>1 DEF ResultsFor, Results, SaveInv, SavedInv, OneEach
    <2>3. UNION {t.deletes : t \in ResultsFor(a, f)} = s.deletes
      BY <2>2
    <2>4. phases'[f] = (phases[f] \ s.deletes) \union {a}
      BY <1>3, <1>4, <2>3 DEF PhasesAfter
    <2>5. f \in flights
      BY <2>1 DEF Refused, Results
    <2>6. QED
      BY <2>1, <2>4, <2>5
  <1>5. ASSUME NEW f \in Flights, ResultsFor(a, f) = {}
        PROVE  phases'[f] = phases[f]
    BY <1>3, <1>5 DEF PhasesAfter
  <1>6. phases' \in [Flights -> SUBSET Origins]
    <2>1. \A f \in Flights : phases[f] \subseteq Origins
      BY DEF SaveInv, TypeOK
    <2>2. a \in Origins
      BY DEF Origins
    <2>3. \A f \in Flights : phases'[f] \subseteq Origins
      BY <1>4, <1>5, <2>1, <2>2
    <2>4. QED
      BY <1>3, <2>3 DEF Commit
  <1>7. \A f \in Flights \ flights : phases'[f] = {}
    BY <1>4, <1>5 DEF SaveInv, TypeOK
  <1>8. OneResult'
    <2> SUFFICES ASSUME NEW f \in flights, NEW b \in phases'[f], NEW c \in phases'[f], b # c
                 PROVE  Verdict[f] = "untraced" /\ <<f, {b, c}>> \in met
      BY DEF OneResult
    <2>1. f \in Flights
      BY DEF SaveInv, TypeOK
    <2>2. CASE ResultsFor(a, f) = {}
      BY <1>5, <2>1, <2>2 DEF SaveInv, OneResult
    <2>3. CASE ResultsFor(a, f) # {}
      <3>1. PICK s \in saved : /\ s.by = a /\ s.flight = f
                               /\ phases'[f] = (phases[f] \ s.deletes) \union {a}
        BY <1>4, <2>1, <2>3
      <3>2. s \in Results(a) /\ s \in ResultsFor(a, f)
        BY <3>1 DEF Results, ResultsFor
      <3>3. phases[f] \ s.deletes # {} => Verdict[f] = "untraced"
        <4>1. ~Clashes(a, f)
          BY <3>1, <3>2 DEF Refused
        <4>2. Verdict[f] \in {"good", "untraced"}
          BY <3>1 DEF SaveInv, SavedInv, SavedRight, Analysable
        <4>3. QED
          BY <3>2, <4>1, <4>2 DEF Clashes
      <3>4. \A d \in phases[f] \ s.deletes : <<f, {a, d}>> \in met
        BY <3>1 DEF SaveInv, SavedInv, SavedRight
      <3>5. CASE b = a \/ c = a
        <4>1. PICK d \in phases[f] \ s.deletes : {b, c} = {a, d}
          BY <3>1, <3>5
        <4>2. QED
          BY <3>3, <3>4, <4>1
      <3>6. CASE b # a /\ c # a
        BY <3>1, <3>6 DEF SaveInv, OneResult
      <3>7. QED
        BY <3>5, <3>6
    <2>4. QED
      BY <2>2, <2>3
  <1>9. SavedInv'
    <2>1. OneEach' /\ AllMet'
      BY <1>2 DEF SaveInv, SavedInv, OneEach, AllMet
    <2>2. ASSUME NEW s \in saved', NEW b \in phases'[s.flight] \ s.deletes
          PROVE  <<s.flight, {s.by, b}>> \in met
      <3>1. s \in saved /\ s.by # a /\ s.flight \in Flights
        BY <1>1, <1>2 DEF Result
      <3>2. CASE b \in phases[s.flight]
        BY <2>2, <3>1, <3>2 DEF SaveInv, SavedInv, SavedRight
      <3>3. CASE b \notin phases[s.flight]
        <4>1. ResultsFor(a, s.flight) # {}
          BY <1>5, <2>2, <3>1, <3>3
        <4>2. PICK t \in saved : t.by = a /\ t.flight = s.flight /\ b = a
          BY <1>4, <2>2, <3>1, <3>3, <4>1
        <4>3. QED
          BY <3>1, <4>2 DEF SaveInv, SavedInv, AllMet
      <3>4. QED
        BY <3>2, <3>3
    <2>3. SavedRight'
      BY <1>2, <2>2 DEF SaveInv, SavedInv, SavedRight
    <2>4. QED
      BY <2>1, <2>3 DEF SavedInv
  <1>10. QED
    BY <1>2, <1>6, <1>7, <1>8, <1>9

LEMMA RollBackKeeps ==
  ASSUME SaveInv, NEW a, RollBack(a), UNCHANGED <<phases, met>>
  PROVE  saved' \subseteq saved /\ SavedInv' /\ \A s \in saved' : s.by # a
  <1>1. saved' \subseteq saved /\ \A s \in saved' : s.by # a
    BY DEF RollBack, Results
  <1> QED BY <1>1, FewerSaved DEF SaveInv

LEMMA RunSaveInv ==
  ASSUME SaveInv, NEW r \in Runs, RunStep(r) \/ Die(r)
  PROVE  SaveInv'
  <1> USE DEF SaveInv
  <1>0. r # "command" /\ r \in Actors
    BY RunsAssumption DEF Actors
  <1>1. CASE Start(r) \/ Fail(r)
    <2>1. UNCHANGED <<flights, needs, phases, saved, mode, command, seen, met>> /\ run[r].state # "saved"
      BY <1>1 DEF Start, Fail
    <2>2. /\ run' \in [Runs -> [state: {"new", "loaded", "saved", "ended"},
                                flight: Flights \union {0}, marked: BOOLEAN]]
          /\ \A q \in Runs : q # r => run'[q] = run[q]
          /\ run'[r].state # "saved"
      <3>1. CASE Start(r)
        <4>1. PICK f \in Flights : run' = [run EXCEPT ![r] =
                                    [state |-> "loaded", flight |-> f, marked |-> f \in needs]]
          BY <3>1 DEF Start
        <4>2. QED
          BY <4>1 DEF TypeOK
      <3>2. CASE Fail(r)
        BY <3>2 DEF Fail, TypeOK
      <3>3. QED
        BY <1>1, <3>1, <3>2
    <2>3. TypeOK'
      BY <2>1, <2>2 DEF TypeOK
    <2>4. SavedByRuns' /\ RunsRight'
      BY <2>1, <2>2 DEF SavedByRuns, RunsRight
    <2>5. SavedInv'
      BY <2>1, FewerSaved
    <2>6. QED
      BY <2>1, <2>3, <2>4, <2>5 DEF TodoInChunk, SavedByCommand, OneResult
  <1>2. CASE Analyse(r)
    <2>1. run[r].flight \in Flights /\ run[r].state = "loaded" /\ Save(r, run[r].flight)
      BY <1>2 DEF Analyse, Save, TypeOK
    <2>2. \A s \in saved : s.by # r
      BY <2>1 DEF SavedByRuns
    <2>3. UNCHANGED <<flights, needs, phases, mode, command, seen>>
      BY <1>2 DEF Analyse
    <2>4. /\ saved' \subseteq Result /\ met' \subseteq Flights \X SUBSET Actors /\ met \subseteq met'
          /\ SavedInv' /\ Analysable(run[r].flight)
          /\ \A s \in saved' : s \in saved \/ (s.by = r /\ s.flight = run[r].flight)
      BY <1>0, <2>1, <2>2, <2>3, SaveKeeps
    <2>5. run' = [run EXCEPT ![r].state = "saved"]
      BY <1>2 DEF Analyse
    <2>6. SavedByRuns'
      BY <2>1, <2>4, <2>5 DEF SavedByRuns, TypeOK
    <2>7. SavedByCommand'
      BY <1>0, <2>3, <2>4 DEF SavedByCommand
    <2>8. TypeOK'
      BY <2>3, <2>4, <2>5 DEF TypeOK
    <2>9. RunsRight'
      BY <2>4, <2>5 DEF RunsRight, TypeOK
    <2>10. OneResult'
      BY <2>3, <2>4 DEF OneResult
    <2>11. QED
      BY <2>3, <2>4, <2>6, <2>7, <2>8, <2>9, <2>10 DEF TodoInChunk
  <1>3. CASE CommitRun(r) \/ Die(r)
    <2>1. /\ run' = [run EXCEPT ![r].state = "ended"]
          /\ UNCHANGED <<flights, mode, command, seen, met>>
      BY <1>3 DEF CommitRun, Die
    <2>2. /\ phases' \in [Flights -> SUBSET Origins]
          /\ \A f \in Flights \ flights : phases'[f] = {}
          /\ saved' \subseteq saved /\ \A s \in saved' : s.by # r
          /\ SavedInv' /\ OneResult'
      <3>1. CASE RollBack(r) /\ phases' = phases
        BY <2>1, <3>1, RollBackKeeps DEF TypeOK, OneResult
      <3>2. CASE ~Refused(r) /\ Commit(r)
        BY <1>0, <2>1, <3>2, CommitKeeps
      <3>3. QED
        BY <1>3, <3>1, <3>2 DEF CommitRun, Die
    <2>3. needs' \subseteq flights
      BY <1>3 DEF CommitRun, Die, TypeOK
    <2>4. TypeOK'
      BY <2>1, <2>2, <2>3 DEF TypeOK
    <2>5. SavedByRuns' /\ RunsRight'
      BY <2>1, <2>2 DEF TypeOK, SavedByRuns, RunsRight
    <2>6. QED
      BY <2>1, <2>2, <2>4, <2>5 DEF TodoInChunk, SavedByCommand
  <1>4. QED
    BY <1>1, <1>2, <1>3 DEF RunStep

(* Numbers of the command stay numbers. *)
LEMMA SkipType == TypeOK => Skip \in Nat
  BY DEF TypeOK, Command, Skip

(* The command ends with an exception. *)
LEMMA EndSaveInv ==
  ASSUME SaveInv, EndCommand, seen' \subseteq Flights,
         UNCHANGED <<flights, needs, phases, run, mode, met>>
  PROVE  SaveInv' /\ command'.state = "dead" /\ command'.todo = {} /\ command'.forced = FALSE
  <1>1. saved' \subseteq saved /\ SavedInv' /\ \A s \in saved' : s.by # "command"
    BY RollBackKeeps DEF EndCommand
  <1>2. /\ command' \in Command /\ command'.state = "dead" /\ command'.todo = {}
        /\ command'.forced = FALSE
    BY DEF EndCommand, SaveInv, TypeOK, Command
  <1>3. TypeOK'
    BY <1>1, <1>2 DEF SaveInv, TypeOK
  <1> QED BY <1>1, <1>2, <1>3 DEF SaveInv, TodoInChunk, RunsRight, SavedByRuns, SavedByCommand, OneResult

LEMMA VisitSaveInv ==
  ASSUME SaveInv, NEW f \in Flights, Succeed(f) \/ FindNothing(f) \/ Raise(f)
  PROVE  SaveInv'
  <1> USE DEF SaveInv
  <1>0. "command" \in Actors /\ "command" \notin Runs
    BY RunsAssumption DEF Actors
  <1>1. /\ command.state = "chunk" /\ seen' = seen \union {f}
        /\ UNCHANGED <<flights, needs, phases, run, mode>>
    BY DEF Succeed, FindNothing, Raise, Visit, TodoInChunk
  <1>2. seen' \subseteq Flights
    BY <1>1 DEF TypeOK
  <1>3. f \in command.todo
    <2>1. IsFiniteSet(command.todo) /\ command.todo \in SUBSET Nat
      BY FlightsAssumption, FS_Subset DEF TypeOK, Command
    <2>2. command.todo # {} /\ f = First(command.todo)
      BY DEF Succeed, FindNothing, Raise, Visit
    <2>3. QED
      BY <2>1, <2>2, Minimum DEF First
  <1>4. CASE Raise(f)
    BY <1>1, <1>2, <1>4, EndSaveInv DEF Raise
  <1>5. CASE Succeed(f) \/ FindNothing(f)
    <2>1. /\ command' \in Command /\ command'.state = "chunk"
          /\ command'.todo = command.todo \ {f}
          /\ Succeed(f) => command'.succeeded = command.succeeded + 1
          /\ FindNothing(f) => command'.succeeded = command.succeeded
          /\ command.succeeded \in Nat
      <3>1. /\ command \in Command /\ command.todo \ {f} \in SUBSET Flights
            /\ command.succeeded \in Nat
            /\ command.succeeded + 1 \in Nat /\ command.failed + 1 \in Nat
        BY DEF TypeOK, Command
      <3>2. CASE Succeed(f)
        <4>1. command' = [command EXCEPT !.todo = @ \ {f}, !.succeeded = @ + 1]
          BY <3>2 DEF Succeed
        <4>2. ~FindNothing(f)
          BY <3>2 DEF Succeed, FindNothing, Save, Analysable
        <4>3. QED
          BY <1>1, <3>1, <4>1, <4>2 DEF Command
      <3>3. CASE FindNothing(f)
        <4>1. command' = [command EXCEPT !.todo = @ \ {f}, !.failed = @ + 1]
          BY <3>3 DEF FindNothing
        <4>2. ~Succeed(f)
          BY <3>3 DEF Succeed, FindNothing, Save, Analysable
        <4>3. QED
          BY <1>1, <3>1, <4>1, <4>2 DEF Command
      <3>4. QED
        BY <1>5, <3>2, <3>3
    <2>2. CASE UNCHANGED <<saved, met>>
      <3>1. TypeOK'
        BY <1>1, <1>2, <2>1, <2>2 DEF TypeOK
      <3>2. SavedInv'
        BY <1>1, <2>2, FewerSaved
      <3>3. SavedByCommand'
        BY <1>1, <1>5, <2>1, <2>2 DEF SavedByCommand
      <3>4. QED
        BY <1>1, <2>1, <2>2, <3>1, <3>2, <3>3 DEF TodoInChunk, RunsRight, SavedByRuns, OneResult
    <2>3. CASE Succeed(f) /\ mode # "all"
      <3>1. Save("command", f)
        BY <2>3 DEF Succeed
      <3>2. \A s \in saved : s.by = "command" => s.flight # f
        BY <1>3 DEF SavedByCommand
      <3>3. /\ saved' \subseteq Result /\ met' \subseteq Flights \X SUBSET Actors /\ met \subseteq met'
            /\ SavedInv'
            /\ \A s \in saved' : s \in saved \/ (s.by = "command" /\ s.flight = f)
        BY <1>0, <1>1, <3>1, <3>2, SaveKeeps
      <3>4. TypeOK'
        BY <1>1, <1>2, <2>1, <3>3 DEF TypeOK
      <3>5. SavedByRuns'
        BY <1>0, <1>1, <3>3 DEF SavedByRuns
      <3>6. SavedByCommand'
        BY <1>1, <2>1, <2>3, <3>3 DEF SavedByCommand
      <3>7. QED
        BY <1>1, <2>1, <3>3, <3>4, <3>5, <3>6 DEF TodoInChunk, RunsRight, OneResult
    <2>4. QED
      BY <1>5, <2>2, <2>3 DEF Succeed, FindNothing
  <1>6. QED
    BY <1>4, <1>5

LEMMA CommandSaveInv ==
  ASSUME SaveInv, Begin \/ InvalidateAll \/ Query \/ EndChunk
  PROVE  SaveInv'
  <1> USE DEF SaveInv
  <1>1. CASE Begin \/ InvalidateAll \/ Query
    <2>1. /\ command.state \in {"start", "query"}
          /\ UNCHANGED <<flights, needs, phases, saved, run, mode, seen, met>>
      BY <1>1 DEF Begin, InvalidateAll, Query
    <2>2. command' \in Command /\ (command'.todo # {} => command'.state = "chunk")
      <3>1. Window \subseteq Flights
        BY DEF Window, Selected, TypeOK
      <3>2. command.todo = {}
        BY <2>1 DEF TodoInChunk
      <3>3. command \in Command
        BY DEF TypeOK
      <3>4. CASE Begin \/ InvalidateAll
        BY <3>2, <3>3, <3>4 DEF Begin, InvalidateAll, Command
      <3>5. CASE Query
        BY <3>1, <3>2, <3>3, <3>5 DEF Query, Command
      <3>6. QED
        BY <1>1, <3>4, <3>5
    <2>3. TypeOK'
      BY <2>1, <2>2 DEF TypeOK
    <2>4. \A s \in saved : s.by # "command"
      BY <2>1 DEF SavedByCommand
    <2>5. SavedInv'
      BY <2>1, FewerSaved
    <2>6. QED
      BY <2>1, <2>2, <2>3, <2>4, <2>5 DEF TodoInChunk, RunsRight, SavedByRuns, SavedByCommand, OneResult
  <1>2. CASE EndChunk
    <2>1. /\ command' = [command EXCEPT !.state = "query", !.offset = @ + Skip,
                                        !.failed = 0, !.succeeded = 0,
                                        !.forced = command.succeeded = 0 /\ @]
          /\ UNCHANGED <<flights, run, mode, seen, met>> /\ command.todo = {}
      BY <1>2 DEF EndChunk
    <2>2. /\ saved' \subseteq saved /\ \A s \in saved' : s.by # "command"
          /\ phases' \in [Flights -> SUBSET Origins]
          /\ \A f \in Flights \ flights : phases'[f] = {}
          /\ needs' \subseteq flights
          /\ SavedInv' /\ OneResult'
      <3>1. CASE command.succeeded > 0
        <4>1. /\ Commit("command") /\ ~Refused("command")
              /\ needs' = (IF command.forced THEN flights ELSE needs)
                            \ {s.flight : s \in Results("command")}
          BY <1>2, <3>1 DEF EndChunk
        <4>2. needs' \subseteq flights
          BY <4>1 DEF TypeOK
        <4>3. QED
          BY <2>1, <4>1, <4>2, CommitKeeps DEF Actors
      <3>2. CASE ~(command.succeeded > 0)
        <4>1. UNCHANGED <<phases, saved, needs>>
          BY <1>2, <3>2 DEF EndChunk
        <4>2. \A s \in saved : s.by # "command"
          BY <3>2 DEF SavedByCommand
        <4>3. SavedInv'
          BY <2>1, <4>1, FewerSaved
        <4>4. QED
          BY <2>1, <4>1, <4>2, <4>3 DEF TypeOK, OneResult
      <3>3. QED
        BY <3>1, <3>2
    <2>3. command.offset + Skip \in Nat
      BY SkipType DEF TypeOK, Command
    <2>4. command' \in Command /\ command'.todo = {}
      BY <2>1, <2>3 DEF TypeOK, Command
    <2>5. TypeOK'
      BY <2>1, <2>2, <2>4 DEF TypeOK
    <2>6. QED
      BY <2>1, <2>2, <2>4, <2>5 DEF TodoInChunk, RunsRight, SavedByRuns, SavedByCommand
  <1>3. QED
    BY <1>1, <1>2

LEMMA DeleteSaveInv ==
  ASSUME SaveInv, NEW f \in Flights, Delete(f)
  PROVE  SaveInv'
  <1> USE DEF SaveInv
  <1>1. /\ flights' = flights \ {f} /\ needs' = needs \ {f}
        /\ phases' = [phases EXCEPT ![f] = {}]
        /\ UNCHANGED <<saved, run, mode, command, seen, met>>
    BY DEF Delete
  <1>2. TypeOK'
    BY <1>1 DEF TypeOK
  <1>3. \A s \in saved : phases'[s.flight] \subseteq phases[s.flight]
    BY <1>1 DEF TypeOK, Result
  <1>4. SavedInv'
    BY <1>1, <1>3, FewerSaved
  <1>5. OneResult'
    BY <1>1 DEF TypeOK, OneResult
  <1>6. QED
    BY <1>1, <1>2, <1>4, <1>5 DEF TodoInChunk, RunsRight, SavedByRuns, SavedByCommand

(* Where the command ends before its window does, or dies of it. *)
CommandFails ==
  \/ CommitFails \/ DeleteDeadlock
  \/ \E r \in Runs : /\ ForceDeadlock(r) /\ EndCommand
                     /\ UNCHANGED <<flights, needs, phases, run, mode, seen, met>>

LEMMA FailsSaveInv ==
  ASSUME SaveInv, CommandFails
  PROVE  SaveInv' /\ command'.state = "dead" /\ command'.todo = {} /\ command'.forced = FALSE
  <1>1. EndCommand /\ UNCHANGED <<flights, needs, phases, run, mode, seen, met>>
    BY DEF CommandFails, CommitFails, DeleteDeadlock
  <1> QED BY <1>1, EndSaveInv DEF SaveInv, TypeOK

(* The kinds of steps. *)
LEMMA Steps ==
  ASSUME Next
  PROVE  \/ \E f \in Flights : Succeed(f) \/ FindNothing(f) \/ Raise(f)
         \/ Begin \/ InvalidateAll \/ Query \/ EndChunk
         \/ \E r \in Runs : RunStep(r) \/ Die(r)
         \/ \E f \in Flights : Delete(f)
         \/ CommandFails
  BY DEF Next, CommandStep, CommandFails, ForceDeadlock

LEMMA SaveInvStep == SaveInv /\ [Next]_vars => SaveInv'
  <1> SUFFICES ASSUME SaveInv, [Next]_vars PROVE SaveInv'
    OBVIOUS
  <1>1. CASE Next
    BY <1>1, Steps, VisitSaveInv, CommandSaveInv, RunSaveInv, DeleteSaveInv, FailsSaveInv
  <1>2. CASE UNCHANGED vars
    <2>1. SavedInv'
      BY <1>2, FewerSaved DEF vars, SaveInv
    <2>2. QED
      BY <1>2, <2>1 DEF vars, SaveInv, TypeOK, TodoInChunk, RunsRight, SavedByRuns, SavedByCommand, OneResult
  <1>3. QED
    BY <1>1, <1>2

LEMMA SaveInvHolds == Spec => []SaveInv
  BY InitSaveInv, SaveInvStep, PTL DEF Spec

(* Only existing flights need an analysis or have traces and phases, and     *)
(* what is not yet committed is what analyses have saved, in every reachable *)
(* state.                                                                    *)
THEOREM TypesHold == Spec => []TypeOK
  <1>1. SaveInv => TypeOK
    BY DEF SaveInv
  <1>2. QED
    BY <1>1, SaveInvHolds, PTL

(* However many analyses of a flight run in parallel, it shows the traces    *)
(* and phases of one of them (traces_contest_idx in model/trace.py), or, if  *)
(* they find no traces, phases of none but such as were under way together.  *)
THEOREM PhasesOfOneAnalysis == Spec => []OneResult
  <1>1. SaveInv => OneResult
    BY DEF SaveInv
  <1>2. QED
    BY <1>1, SaveInvHolds, PTL

------------------------------------------------------------------------------
(* Windows *)

(* Flights of the selection that the command has not analysed itself. *)
Own == {s.flight : s \in Results("command")}
Left == Selected \ Own
LeftRank(f) == Cardinality(Below(Left, f))

(* What offsets are counted in, and the offset that follows this window. *)
Counted == IF mode = "all" THEN seen ELSE {f \in seen : Verdict[f] = "none"}
NextOffset == command.offset + Skip

Going == command.state \in {"start", "query", "chunk"}

(* The first flight of the window that is left has no more others before it  *)
(* than the next offset, and none that are left lie between flights of the   *)
(* window.                                                                   *)
WindowNext ==
  /\ \A f \in command.todo : (\A g \in command.todo : f <= g) => LeftRank(f) <= NextOffset
  /\ \A f, h \in command.todo, g \in Left : f < g /\ g < h => g \in command.todo

(* Flights of the window leave the selection only when another process has   *)
(* deleted or analysed them.                                                 *)
WindowSelected ==
  \A f \in command.todo :
    f \in Selected \/ f \notin flights \/ (mode # "all" /\ Analysable(f))

Fresh ==
  /\ command.state \in {"start", "query"} => command.failed = 0 /\ command.succeeded = 0
  /\ command.state = "start" => command.offset = 0 /\ seen = {}
  /\ command.forced => Going

CountInv ==
  /\ Fresh
  /\ Going => /\ Cardinality(Counted) = NextOffset
              /\ \A f \in Left \intersect seen : LeftRank(f) < NextOffset
              /\ \A f \in Counted : f \in Selected \/ f \notin flights
  /\ command.todo \intersect seen = {}
  /\ WindowNext /\ WindowSelected
  /\ MissedBounded

LEMMA SelectedType ==
  ASSUME TypeOK
  PROVE  /\ Selected \in SUBSET Flights /\ Left \in SUBSET Selected
         /\ Selected \in SUBSET Nat /\ Left \in SUBSET Nat
         /\ IsFiniteSet(Selected) /\ IsFiniteSet(Left)
         /\ IsFiniteSet(seen) /\ NextOffset \in Nat
  <1>1. Selected \in SUBSET Flights
    BY DEF TypeOK, Selected
  <1>2. Left \in SUBSET Selected
    BY DEF Left
  <1>3. IsFiniteSet(Selected) /\ IsFiniteSet(seen)
    BY <1>1, FlightsAssumption, FS_Subset DEF TypeOK
  <1>4. IsFiniteSet(Left)
    BY <1>2, <1>3, FS_Subset
  <1>5. command.offset \in Nat /\ Skip \in Nat
    BY SkipType DEF TypeOK, Command
  <1>6. QED
    BY <1>1, <1>2, <1>3, <1>4, <1>5, FlightsAssumption DEF NextOffset

LEMMA InitCountInv == Init => CountInv
  <1> SUFFICES ASSUME Init PROVE CountInv
    OBVIOUS
  <1>1. Counted = {} /\ Left \intersect seen = {} /\ NextOffset = 0
    BY DEF Init, Counted, NextOffset, Skip
  <1>2. QED
    BY <1>1, FS_EmptySet DEF Init, CountInv, Fresh, WindowNext, WindowSelected, MissedBounded, Going

(* Flights that leave the selection under the command, because they were     *)
(* deleted or because another process has analysed them, do no harm.         *)
LEMMA ShrinkingKeepsCount ==
  ASSUME SaveInv, CountInv, TypeOK', UNCHANGED <<mode, command, seen>>,
         Results("command")' = Results("command"),
         Selected' \subseteq Selected, flights' \subseteq flights,
         \A f \in Selected : \/ f \in Selected' \/ f \notin flights'
                             \/ mode # "all" /\ Analysable(f)
  PROVE  CountInv'
  <1>1. TypeOK
    BY DEF SaveInv
  <1>2. Own' = Own /\ NextOffset' = NextOffset /\ Counted' = Counted
    BY DEF Own, NextOffset, Skip, Counted
  <1>3. Left' \in SUBSET Left
    BY <1>2 DEF Left
  <1>4. \A f : LeftRank(f)' <= LeftRank(f) /\ LeftRank(f)' \in Nat /\ LeftRank(f) \in Nat
    BY <1>1, <1>3, SelectedType, RankMonotone DEF LeftRank
  <1>5. NextOffset \in Nat
    BY <1>1, SelectedType
  <1>6. Fresh' /\ (Going' <=> Going)
    BY DEF CountInv, Fresh, Going
  <1>7. Going => \A f \in Left' \intersect seen' : LeftRank(f)' < NextOffset'
    BY <1>2, <1>3, <1>4, <1>5 DEF CountInv
  <1>8. Going => \A f \in Counted' : f \in Selected' \/ f \notin flights'
    <2> SUFFICES ASSUME Going, NEW f \in Counted, f \notin Selected', f \in flights'
                 PROVE  FALSE
      BY <1>2
    <2>1. f \in Selected
      BY DEF CountInv
    <2>2. QED
      BY <2>1 DEF Counted, Analysable
  <1>9. WindowNext'
    BY <1>2, <1>3, <1>4, <1>5 DEF CountInv, WindowNext
  <1>10. MissedBounded'
    <2>1. Missed' \in SUBSET Missed /\ Flights \ flights \in SUBSET (Flights \ flights')
      BY DEF Missed
    <2>2. IsFiniteSet(Missed) /\ IsFiniteSet(Flights \ flights')
      BY <1>1, SelectedType, FlightsAssumption, FS_Difference DEF Missed
    <2>3. /\ Cardinality(Missed') <= Cardinality(Missed)
          /\ Cardinality(Flights \ flights) <= Cardinality(Flights \ flights')
          /\ Cardinality(Missed') \in Nat /\ Cardinality(Missed) \in Nat
          /\ Cardinality(Flights \ flights) \in Nat /\ Cardinality(Flights \ flights') \in Nat
      BY <2>1, <2>2, FS_Subset, FS_CardinalityType
    <2>4. QED
      BY <2>3 DEF CountInv, MissedBounded
  <1>11. WindowSelected'
    BY DEF CountInv, WindowSelected
  <1>12. QED
    BY <1>2, <1>6, <1>7, <1>8, <1>9, <1>10, <1>11 DEF CountInv

LEMMA RunCountInv ==
  ASSUME SaveInv, CountInv, SaveInv', NEW r \in Runs, RunStep(r) \/ Die(r)
  PROVE  CountInv'
  <1>0. r # "command" /\ TypeOK' /\ UNCHANGED <<mode, command, seen, flights>>
    BY RunsAssumption DEF RunStep, Start, Analyse, Fail, CommitRun, Die, SaveInv
  <1>1. Results("command")' = Results("command")
    <2>1. CASE RunStep(r) /\ ~CommitRun(r)
      BY <1>0, <2>1 DEF RunStep, Start, Analyse, Fail, Save, Results
    <2>2. CASE CommitRun(r) \/ Die(r)
      BY <1>0, <2>2 DEF CommitRun, Die, Commit, RollBack, Results
    <2>3. QED
      BY <2>1, <2>2
  <1>2. \/ needs' = needs
        \/ needs' = needs \ {run[r].flight} /\ CommitRun(r)
    BY DEF RunStep, Start, Analyse, Fail, CommitRun, Die
  <1>3. Selected' \subseteq Selected
    BY <1>0, <1>2 DEF Selected
  <1>4. ASSUME NEW f \in Selected, f \notin Selected'
        PROVE  mode # "all" /\ Analysable(f)
    <2>1. mode # "all" /\ f = run[r].flight /\ CommitRun(r)
      BY <1>0, <1>2, <1>4 DEF Selected
    <2>2. QED
      BY <2>1 DEF CommitRun, SaveInv, RunsRight
  <1>5. QED
    BY <1>0, <1>1, <1>3, <1>4, ShrinkingKeepsCount

LEMMA DeleteCountInv ==
  ASSUME SaveInv, CountInv, SaveInv', NEW f \in Flights, Delete(f)
  PROVE  CountInv'
  <1>1. /\ flights' = flights \ {f} /\ needs' = needs \ {f}
        /\ UNCHANGED <<saved, run, mode, command, seen>>
    BY DEF Delete
  <1>2. Results("command")' = Results("command")
    BY <1>1 DEF Results
  <1>3. Selected' = Selected \ {f}
    BY <1>1 DEF Selected
  <1>4. QED
    BY <1>1, <1>2, <1>3, ShrinkingKeepsCount DEF SaveInv

LEMMA BeginCountInv ==
  ASSUME SaveInv, CountInv, SaveInv', Begin \/ InvalidateAll
  PROVE  CountInv'
  <1>1. /\ command.state = "start" /\ command'.state = "query"
        /\ UNCHANGED <<flights, needs, phases, saved, run, mode, seen>>
        /\ command'.todo = command.todo /\ command'.offset = command.offset
        /\ command'.failed = command.failed /\ command'.succeeded = command.succeeded
    BY DEF Begin, InvalidateAll, SaveInv, TypeOK, Command
  <1>2. command.todo = {} /\ seen = {}
    BY <1>1 DEF SaveInv, TodoInChunk, CountInv, Fresh
  <1>3. NextOffset' = NextOffset /\ Counted' = Counted
    BY <1>1 DEF NextOffset, Skip, Counted
  <1>4. Going /\ Going'
    BY <1>1 DEF Going
  <1>5. QED
    BY <1>1, <1>2, <1>3, <1>4 DEF CountInv, Fresh, WindowNext, WindowSelected, MissedBounded, Counted

(* The next window begins where the offset says, and no flight of it has     *)
(* been seen; without one no more flights are selected than have been        *)
(* counted.                                                                  *)
LEMMA QueryCountInv ==
  ASSUME SaveInv, CountInv, SaveInv', Query
  PROVE  CountInv'
  <1>1. /\ command.state = "query"
        /\ UNCHANGED <<flights, needs, phases, saved, run, mode, seen>>
    BY DEF Query
  <1>2. Results("command") = {} /\ Results("command")' = {}
    BY <1>1 DEF SaveInv, SavedByCommand, Results
  <1>3. Left = Selected
    BY <1>2 DEF Left, Own
  <1>4. /\ Selected \in SUBSET Nat /\ IsFiniteSet(Selected) /\ IsFiniteSet(seen)
        /\ NextOffset \in Nat /\ Selected \in SUBSET Flights
    BY SelectedType DEF SaveInv
  <1>5. NextOffset = command.offset /\ command.failed = 0 /\ command.succeeded = 0
    BY <1>1 DEF NextOffset, Skip, CountInv, Fresh, SaveInv, TypeOK, Command
  <1>6. \A f : Rank(f) = LeftRank(f) /\ Rank(f) \in Nat
    BY <1>3, <1>4, RankMonotone DEF Rank, LeftRank, Below
  <1>7. ASSUME NEW f, NEW g \in Nat, f \in Nat, f < g PROVE Rank(f) <= Rank(g)
    <2>1. \A h \in Nat : h < f => h < g
      BY <1>7
    <2>2. Below(Selected, f) \in SUBSET Below(Selected, g) /\ IsFiniteSet(Below(Selected, g))
      BY <2>1, <1>4, FS_Subset DEF Below
    <2>3. QED
      BY <2>2, FS_Subset DEF Rank, Below
  (* The smallest selected flight of rank offset or more has that rank. *)
  <1>8. ASSUME NEW f \in Selected,
               \A g \in Selected : g < f => Rank(g) < command.offset
        PROVE  Rank(f) <= command.offset
    <2>1. \A g \in Below(Selected, f) : Cardinality(Below(Selected, g)) < NextOffset
      BY <1>3, <1>5, <1>6, <1>8 DEF Below, LeftRank
    <2>2. f \in Nat
      BY <1>4
    <2>3. Cardinality(Below(Selected, f)) <= NextOffset
      BY <1>4, <2>1, <2>2, RankOfFirst
    <2>4. QED
      BY <1>3, <1>5, <1>6, <2>3 DEF LeftRank
  <1>9. CASE Window # {}
    <2>1. command' = [command EXCEPT !.state = "chunk", !.todo = Window]
      BY <1>9 DEF Query
    <2>2. /\ command'.state = "chunk" /\ command'.todo = Window
          /\ command'.offset = command.offset /\ command'.forced = command.forced
          /\ command'.failed = 0 /\ command'.succeeded = 0
      BY <1>5, <2>1 DEF SaveInv, TypeOK, Command
    <2>3. NextOffset' = NextOffset /\ Counted' = Counted /\ Selected' = Selected /\ Left' = Left
      BY <1>1, <1>2, <1>3, <1>5, <2>2 DEF NextOffset, Skip, Counted, Selected, Left, Own
    <2>4. \A f : LeftRank(f)' = LeftRank(f)
      BY <2>3 DEF LeftRank
    <2>5. Going /\ Going' /\ Fresh' /\ MissedBounded'
      BY <1>1, <2>2 DEF Going, Fresh, MissedBounded
    <2>6. Window \intersect seen = {}
      BY <1>1, <1>3, <1>5, <1>6, <2>5 DEF CountInv, Window, SaveInv, TypeOK, Command
    <2>7. ASSUME NEW f \in Window, \A g \in Window : f <= g
          PROVE  Rank(f) <= command.offset
      <3>1. f \in Selected /\ f \in Nat /\ Rank(f) < command.offset + Chunk
        BY <1>4 DEF Window
      <3>2. ASSUME NEW g \in Selected, g < f PROVE Rank(g) < command.offset
        <4>1. g \notin Window /\ g \in Nat
          BY <1>4, <2>7, <3>1, <3>2
        <4>2. Rank(g) <= Rank(f)
          BY <1>7, <3>1, <3>2, <4>1
        <4>3. Rank(g) < command.offset + Chunk
          BY <1>6, <3>1, <4>2, <1>5, <1>4, ChunkAssumption
        <4>4. QED
          BY <4>1, <4>3, <1>4, <1>5, <1>6 DEF Window
      <3>3. QED
        BY <1>8, <3>1, <3>2
    <2>8. ASSUME NEW f \in Window, NEW h \in Window, NEW g \in Selected, f < g, g < h
          PROVE  g \in Window
      <3>1. f \in Nat /\ g \in Nat /\ h \in Nat
        BY <1>4 DEF Window
      <3>2. Rank(f) <= Rank(g) /\ Rank(g) <= Rank(h)
        BY <1>7, <2>8, <3>1
      <3>3. QED
        BY <1>4, <1>5, <1>6, <3>2, ChunkAssumption DEF Window
    <2>9. WindowNext'
      BY <1>3, <1>5, <1>6, <2>2, <2>3, <2>4, <2>7, <2>8 DEF WindowNext
    <2>a. WindowSelected'
      BY <2>2, <2>3 DEF WindowSelected, Window
    <2>10. QED
      BY <1>1, <2>2, <2>3, <2>4, <2>5, <2>6, <2>9, <2>a DEF CountInv
  <1>10. CASE Window = {}
    <2>1. command' = [command EXCEPT !.state = "done", !.forced = FALSE]
      BY <1>10 DEF Query
    <2>2. /\ command'.state = "done" /\ command'.todo = command.todo
          /\ command'.forced = FALSE /\ command.todo = {}
      BY <1>1, <2>1 DEF SaveInv, TypeOK, TodoInChunk, Command
    <2>3. ASSUME NEW f \in Selected PROVE Rank(f) < command.offset
      <3> SUFFICES ASSUME ~(Rank(f) < command.offset) PROVE FALSE
        OBVIOUS
      <3> DEFINE H == {g \in Selected : ~(Rank(g) < command.offset)}
      <3>1. H \in SUBSET Nat /\ IsFiniteSet(H) /\ H # {}
        BY <1>4, FS_Subset
      <3>2. PICK m \in H : \A g \in H : m <= g
        BY <3>1, Minimum
      <3>3. \A g \in Selected : g < m => Rank(g) < command.offset
        BY <3>1, <3>2, <1>4
      <3>4. Rank(m) <= command.offset
        BY <1>8, <3>2, <3>3
      <3>5. m \in Window
        BY <3>2, <3>4, <1>4, <1>5, <1>6, ChunkAssumption DEF Window
      <3>6. QED
        BY <3>5, <1>10
    <2>4. Cardinality(Selected) <= NextOffset
      <3>1. \A f \in Selected : Cardinality(Below(Selected, f)) < NextOffset
        BY <1>3, <1>5, <1>6, <2>3 DEF LeftRank
      <3>2. QED
        BY <1>4, <3>1, RanksBoundCardinality
    <2>5. Cardinality(Counted) = NextOffset /\ \A f \in Counted : f \in Selected \/ f \notin flights
      BY <1>1 DEF CountInv, Going
    <2> DEFINE Removed == Flights \ flights
               Met == Selected \intersect seen
    <2>6. Counted \in SUBSET (Met \union Removed)
      BY <2>5 DEF Counted, SaveInv, TypeOK
    <2>7. IsFiniteSet(Met) /\ IsFiniteSet(Removed) /\ IsFiniteSet(Missed)
      BY <1>4, FlightsAssumption, FS_Difference, FS_Intersection DEF Missed
    <2>8. /\ Cardinality(Met) \in Nat /\ Cardinality(Removed) \in Nat
          /\ Cardinality(Missed) \in Nat /\ Cardinality(Met \intersect Removed) \in Nat
      BY <2>7, FS_CardinalityType, FS_Intersection
    <2>9. NextOffset <= Cardinality(Met) + Cardinality(Removed)
      <3>1. /\ IsFiniteSet(Met \union Removed)
            /\ Cardinality(Met \union Removed)
                 = Cardinality(Met) + Cardinality(Removed) - Cardinality(Met \intersect Removed)
        BY <2>7, FS_Union
      <3>2. Cardinality(Counted) <= Cardinality(Met \union Removed)
        BY <2>6, <3>1, FS_Subset
      <3>3. QED
        BY <1>4, <2>5, <2>8, <3>1, <3>2
    <2>10. Cardinality(Selected) = Cardinality(Met) + Cardinality(Missed)
      <3>1. Cardinality(Missed) = Cardinality(Selected) - Cardinality(Met)
        BY <1>4, FS_Difference DEF Missed
      <3>2. QED
        BY <1>4, <2>8, <3>1, FS_CardinalityType
    <2>11. Cardinality(Missed) <= Cardinality(Removed)
      BY <1>4, <2>4, <2>8, <2>9, <2>10
    <2>12. Missed' \in SUBSET Missed
      BY <1>1, <2>2 DEF Missed, Selected, SaveInv, TypeOK
    <2>13. MissedBounded'
      <3>1. Cardinality(Missed') <= Cardinality(Missed) /\ Cardinality(Missed') \in Nat
        BY <2>7, <2>12, FS_Subset, FS_CardinalityType
      <3>2. QED
        BY <1>1, <2>8, <2>11, <3>1 DEF MissedBounded
    <2>14. QED
      BY <1>1, <2>2, <2>13 DEF CountInv, Fresh, Going, WindowNext, WindowSelected
  <1>11. QED
    BY <1>9, <1>10

(* A flight that the command comes to is the first of its window; it leaves  *)
(* the selection or counts, so the windows stay in step with the offset.     *)
LEMMA VisitCountInv ==
  ASSUME SaveInv, CountInv, SaveInv', NEW f \in Flights,
         Succeed(f) \/ FindNothing(f) \/ Raise(f)
  PROVE  CountInv'
  <1>1. /\ command.state = "chunk" /\ seen' = seen \union {f} /\ seen \subseteq Flights
        /\ UNCHANGED <<flights, needs, phases, run, mode>>
    BY DEF Succeed, FindNothing, Raise, Visit, SaveInv, TodoInChunk, TypeOK
  <1>2. f \in command.todo /\ \A g \in command.todo : f <= g
    <2>1. IsFiniteSet(command.todo) /\ command.todo \in SUBSET Nat
      BY FlightsAssumption, FS_Subset DEF SaveInv, TypeOK, Command
    <2>2. command.todo # {} /\ f = First(command.todo)
      BY DEF Succeed, FindNothing, Raise, Visit
    <2>3. QED
      BY <2>1, <2>2, Minimum DEF First
  <1>3. f \notin seen /\ f \in Nat /\ command.todo \subseteq Nat
    BY <1>2, FlightsAssumption DEF CountInv, SaveInv, TypeOK, Command
  <1>4. CASE Raise(f)
    <2>1. command'.state = "dead" /\ command'.todo = {} /\ command'.forced = FALSE
      BY <1>4 DEF Raise, EndCommand, SaveInv, TypeOK, Command
    <2>2. QED
      BY <2>1 DEF CountInv, Fresh, Going, WindowNext, WindowSelected, MissedBounded
  <1>5. CASE Succeed(f) \/ FindNothing(f)
    <2>1. /\ command'.state = "chunk" /\ command'.todo = command.todo \ {f}
          /\ command'.offset = command.offset /\ command'.forced = command.forced
          /\ \/ Succeed(f) /\ command'.succeeded = command.succeeded + 1
                           /\ command'.failed = command.failed
             \/ FindNothing(f) /\ command'.failed = command.failed + 1
                               /\ command'.succeeded = command.succeeded
      BY <1>1, <1>5 DEF Succeed, FindNothing, SaveInv, TypeOK, Command
    <2>2. /\ Selected' = Selected /\ NextOffset \in Nat /\ IsFiniteSet(seen)
          /\ Left \in SUBSET Nat /\ IsFiniteSet(Left)
      BY <1>1, <2>1, SelectedType DEF Selected, SaveInv
    <2>3. Going /\ Going' /\ Fresh' /\ MissedBounded'
      BY <1>1, <2>1 DEF Going, Fresh, MissedBounded
    <2>4. Left' \in SUBSET Left
      <3>1. saved \subseteq saved'
        BY <1>5 DEF Succeed, FindNothing, Save
      <3>2. QED
        BY <2>2, <3>1 DEF Left, Own, Results
    <2>5. \A g : LeftRank(g)' <= LeftRank(g) /\ LeftRank(g)' \in Nat /\ LeftRank(g) \in Nat
      BY <2>2, <2>4, RankMonotone DEF LeftRank
    <2>6. LeftRank(f) <= NextOffset
      BY <1>2 DEF CountInv, WindowNext
    <2>7. /\ \A g \in Left \intersect seen : LeftRank(g) < NextOffset
          /\ Cardinality(Counted) = NextOffset
          /\ \A g \in Counted : g \in Selected \/ g \notin flights
      BY <2>3 DEF CountInv
    (* No flight is left between f and the next one of the window. *)
    <2>8. ASSUME NEW g \in command'.todo, \A h \in command'.todo : g <= h
          PROVE  Below(Left', g) \subseteq Below(Left', f) \union ({f} \intersect Left')
      <3>1. g \in command.todo /\ f < g /\ g \in Nat
        BY <1>2, <1>3, <2>1
      <3>2. ASSUME NEW h \in Left', h < g, h # f PROVE h < f
        <4>1. h \in Left /\ h \in Nat
          BY <2>2, <2>4
        <4>2. ~(f < h)
          <5>1. f < h => h \in command.todo
            BY <1>2, <3>1, <3>2, <4>1 DEF CountInv, WindowNext
          <5>2. h \in command.todo => g <= h
            BY <2>1, <2>8, <3>2
          <5>3. QED
            BY <3>1, <3>2, <4>1, <5>1, <5>2
        <4>3. QED
          BY <1>3, <3>2, <4>1, <4>2
      <3>3. QED
        BY <3>2, Zenon DEF Below
    <2>b. \A g, h \in command'.todo, k \in Left' : g < k /\ k < h => k \in command'.todo
      <3> SUFFICES ASSUME NEW g \in command'.todo, NEW h \in command'.todo,
                          NEW k \in Left', g < k, k < h
                   PROVE  k \in command'.todo
        OBVIOUS
      <3>1. g \in command.todo /\ h \in command.todo /\ k \in Left
        BY <2>1, <2>4
      <3>2. k \in command.todo
        BY <3>1 DEF CountInv, WindowNext
      <3>3. k # f
        <4>1. f <= g /\ g \in Nat
          BY <1>2, <1>3, <3>1
        <4>2. QED
          BY <1>3, <4>1
      <3>4. QED
        BY <2>1, <3>2, <3>3
    <2>9. IsFiniteSet(Left') /\ IsFiniteSet(Below(Left', f))
      BY <2>2, <2>4, FS_Subset DEF Below
    <2>a. WindowSelected'
      BY <1>1, <2>1, <2>2 DEF CountInv, WindowSelected
    <2>10. CASE NextOffset' = NextOffset + 1 /\ Counted' = Counted \union {f}
                /\ f \notin Counted /\ (f \in Selected \/ f \notin flights)
      <3>1. Cardinality(Counted') = NextOffset'
        <4>1. IsFiniteSet(Counted)
          BY <2>2, FS_Subset DEF Counted
        <4>2. QED
          BY <2>7, <2>10, <4>1, FS_AddElement
      <3>2. \A g \in Left' \intersect seen' : LeftRank(g)' < NextOffset'
        BY <1>1, <2>2, <2>4, <2>5, <2>6, <2>7, <2>10
      <3>3. \A g \in Counted' : g \in Selected' \/ g \notin flights'
        BY <1>1, <2>2, <2>7, <2>10
      <3>4. ASSUME NEW g \in command'.todo, \A h \in command'.todo : g <= h
            PROVE  LeftRank(g)' <= NextOffset'
        <4>1. Below(Left', g) \in SUBSET (Below(Left', f) \union {f})
          BY <2>8, <3>4
        <4>2. /\ IsFiniteSet(Below(Left', f) \union {f})
              /\ Cardinality(Below(Left', f) \union {f}) <= LeftRank(f)' + 1
          <5>1. LeftRank(f)' = Cardinality(Below(Left', f))
            BY DEF LeftRank
          <5> DEFINE B == Below(Left', f)
          <5> HIDE DEF B
          <5>2. IsFiniteSet(B) /\ Cardinality(B) \in Nat
            BY <2>9, FS_CardinalityType DEF B
          <5>3. /\ IsFiniteSet(B \union {f})
                /\ Cardinality(B \union {f}) = IF f \in B THEN Cardinality(B) ELSE Cardinality(B) + 1
            BY <5>2, FS_AddElement
          <5>4. IsFiniteSet(B \union {f}) /\ Cardinality(B \union {f}) <= Cardinality(B) + 1
            BY <5>2, <5>3
          <5> QED BY <5>1, <5>4 DEF B
        <4>3. LeftRank(g)' <= Cardinality(Below(Left', f) \union {f})
          BY <4>1, <4>2, FS_Subset DEF LeftRank
        <4>4. Cardinality(Below(Left', f) \union {f}) \in Nat
          BY <4>2, FS_CardinalityType
        <4>5. QED
          BY <2>2, <2>5, <2>6, <2>10, <4>2, <4>3, <4>4
      <3>5. WindowNext'
        BY <2>b, <3>4 DEF WindowNext
      <3>6. command'.todo \intersect seen' = {}
        BY <1>1, <2>1 DEF CountInv
      <3>7. QED
        BY <2>3, <2>a, <3>1, <3>2, <3>3, <3>5, <3>6 DEF CountInv
    <2>11. CASE NextOffset' = NextOffset /\ Counted' = Counted /\ f \notin Left'
      <3>1. \A g \in Left' \intersect seen' : LeftRank(g)' < NextOffset'
        BY <1>1, <2>2, <2>4, <2>5, <2>7, <2>11
      <3>2. ASSUME NEW g \in command'.todo, \A h \in command'.todo : g <= h
            PROVE  LeftRank(g)' <= NextOffset'
        <4>1. Below(Left', g) \in SUBSET Below(Left', f)
          BY <2>8, <2>11, <3>2
        <4>2. LeftRank(g)' <= LeftRank(f)'
          BY <2>9, <4>1, FS_Subset DEF LeftRank
        <4>3. QED
          BY <2>2, <2>5, <2>6, <2>11, <4>2
      <3>3. WindowNext'
        BY <2>b, <3>2 DEF WindowNext
      <3>4. command'.todo \intersect seen' = {}
        BY <1>1, <2>1 DEF CountInv
      <3>5. QED
        BY <1>1, <2>2, <2>3, <2>7, <2>a, <2>11, <3>1, <3>3, <3>4 DEF CountInv
    <2>12. CASE mode = "all" \/ FindNothing(f)
      <3>1. NextOffset' = NextOffset + 1
        <4>1. /\ command.offset \in Nat /\ command.failed \in Nat /\ command.succeeded \in Nat
              /\ mode' = mode
          BY <1>1 DEF SaveInv, TypeOK, Command
        <4>2. mode # "all" => command'.failed = command.failed + 1
          <5>1. FindNothing(f) => command'.failed = command.failed + 1
            BY DEF FindNothing, SaveInv, TypeOK, Command
          <5>2. QED
            BY <2>12, <5>1
        <4>3. command'.failed + command'.succeeded = command.failed + command.succeeded + 1
          BY <2>1, <4>1
        <4>4. QED
          BY <2>1, <4>1, <4>2, <4>3 DEF NextOffset, Skip
      <3>2. Counted' = Counted \union {f} /\ f \notin Counted
        <4>1. mode = "all" \/ Verdict[f] = "none"
          BY <2>12 DEF FindNothing
        <4>2. QED
          BY <1>1, <1>3, <4>1 DEF Counted
      <3>3. f \in Selected \/ f \notin flights
        BY <1>1, <1>2, <2>12 DEF CountInv, WindowSelected, FindNothing, Selected, Analysable
      <3>4. QED
        BY <2>10, <3>1, <3>2, <3>3
    <2>13. CASE mode # "all" /\ Succeed(f)
      <3>1. Save("command", f)
        BY <2>13 DEF Succeed
      <3>2. NextOffset' = NextOffset
        BY <1>1, <2>1, <2>13 DEF NextOffset, Skip, Succeed, SaveInv, TypeOK, Command
      <3>3. Counted' = Counted
        BY <1>1, <2>13, <3>1 DEF Counted, Save, Analysable
      <3>4. f \in Own'
        <4> DEFINE new == [by |-> "command", flight |-> f, deletes |-> phases[f], after |-> Ahead("command", f)]
        <4>1. new \in saved' /\ new.by = "command" /\ new.flight = f
          BY <3>1 DEF Save
        <4>2. new \in Results("command")'
          BY <4>1 DEF Results
        <4>3. QED
          BY <4>1, <4>2 DEF Own
      <3>5. QED
        BY <2>11, <3>2, <3>3, <3>4 DEF Left
    <2>14. QED
      BY <1>5, <2>12, <2>13
  <1>6. QED
    BY <1>4, <1>5

(* The offset moves by what the window leaves in the selection. *)
LEMMA EndChunkCountInv ==
  ASSUME SaveInv, CountInv, SaveInv', EndChunk
  PROVE  CountInv'
  <1>1. /\ command.state = "chunk" /\ command.todo = {}
        /\ UNCHANGED <<flights, run, mode, seen>>
    BY DEF EndChunk
  <1>2. /\ command'.state = "query" /\ command'.todo = {}
        /\ command'.offset = command.offset + Skip
        /\ command'.failed = 0 /\ command'.succeeded = 0
    BY <1>1 DEF EndChunk, SaveInv, TypeOK, Command
  <1>3. NextOffset' = NextOffset /\ Counted' = Counted /\ NextOffset \in Nat
    BY <1>1, <1>2, SelectedType, SkipType
    DEF NextOffset, Skip, Counted, SaveInv, TypeOK, Command
  <1>4. Results("command")' = {}
    BY <1>2 DEF SaveInv, SavedByCommand, Results
  <1>5. Left' = Left /\ Selected' = Left
    <2>1. Left' = Selected'
      BY <1>4 DEF Left, Own
    <2>2. CASE command.succeeded > 0 /\ mode # "all"
      <3>1. command'.forced = FALSE
        <4>1. command.succeeded # 0 /\ command \in Command
          BY <2>2 DEF SaveInv, TypeOK, Command
        <4>2. command'.forced = (command.succeeded = 0 /\ command.forced)
          BY <4>1 DEF EndChunk, Command
        <4>3. QED
          BY <4>1, <4>2
      <3>2. needs' = (IF command.forced THEN flights ELSE needs) \ Own
        BY <2>2 DEF EndChunk, Own
      <3>3. QED
        BY <1>1, <2>1, <2>2, <3>1, <3>2 DEF Selected, Left
    <2>3. CASE mode = "all"
      <3>1. Own = {}
        BY <2>3 DEF Own, Results, SaveInv, SavedByCommand
      <3>2. QED
        BY <1>1, <2>1, <2>3, <3>1 DEF Selected, Left
    <2>4. CASE ~(command.succeeded > 0) /\ mode # "all"
      <3>1. Own = {} /\ needs' = needs
        BY <2>4 DEF EndChunk, Own, Results, SaveInv, SavedByCommand
      <3>2. command.succeeded = 0
        BY <2>4 DEF SaveInv, TypeOK, Command
      <3>3. command'.forced = command.forced
        BY <3>2 DEF EndChunk, SaveInv, TypeOK, Command
      <3>4. QED
        BY <1>1, <2>1, <2>4, <3>1, <3>3 DEF Selected, Left
    <2>5. QED
      BY <2>2, <2>3, <2>4
  <1>6. Going /\ Going' /\ MissedBounded'
    BY <1>1, <1>2 DEF Going, MissedBounded
  <1>7. \A f \in Left' \intersect seen' : LeftRank(f)' < NextOffset'
    BY <1>1, <1>3, <1>5, <1>6 DEF CountInv, LeftRank
  <1>8. ASSUME NEW f \in Counted, f \in flights PROVE f \in Selected'
    <2>1. f \in Selected
      BY <1>6, <1>8 DEF CountInv
    <2>2. f \notin Own
      <3>1. mode = "all" \/ Verdict[f] = "none"
        BY DEF Counted
      <3>2. QED
        BY <3>1 DEF Own, Results, SaveInv, SavedByCommand, SavedInv, SavedRight, Analysable
    <2>3. QED
      BY <1>5, <2>1, <2>2 DEF Left
  <1>9. QED
    BY <1>1, <1>2, <1>3, <1>6, <1>7, <1>8 DEF CountInv, Fresh, WindowNext, WindowSelected

LEMMA FailsCountInv ==
  ASSUME SaveInv, CountInv, CommandFails
  PROVE  CountInv'
  BY FailsSaveInv DEF CountInv, Fresh, Going, WindowNext, WindowSelected, MissedBounded

LEMMA CountInvHolds == Spec => [](SaveInv /\ CountInv)
  <1>1. SaveInv /\ CountInv /\ SaveInv' /\ [Next]_vars => CountInv'
    <2> SUFFICES ASSUME SaveInv, CountInv, SaveInv', [Next]_vars PROVE CountInv'
      OBVIOUS
    <2>1. CASE Next
      BY <2>1, Steps, VisitCountInv, BeginCountInv, QueryCountInv, EndChunkCountInv, RunCountInv,
         DeleteCountInv, FailsCountInv
    <2>2. CASE UNCHANGED vars
      <3>1. /\ UNCHANGED <<mode, command, seen, flights>>
            /\ Selected' = Selected /\ Results("command")' = Results("command")
        BY <2>2 DEF vars, Selected, Results
      <3>2. QED
        BY <3>1, ShrinkingKeepsCount DEF SaveInv
    <2>3. QED
      BY <2>1, <2>2
  <1>2. QED
    BY <1>1, InitCountInv, SaveInvHolds, PTL DEF Spec

(* A command that ends by itself has come to every flight it selects, except *)
(* for one at most per flight that somebody deleted meanwhile.               *)
THEOREM CommandMissesFew == Spec => []MissedBounded
  <1>1. CountInv => MissedBounded
    BY DEF CountInv
  <1>2. QED
    BY <1>1, CountInvHolds, PTL

(* The command comes to no flight twice. *)
THEOREM CommandRepeatsNone == Spec => VisitedOnce
  <1>1. CountInv /\ [Next]_vars => [\A f \in seen : f \in command.todo => f \in command'.todo]_vars
    BY DEF CountInv
  <1>2. QED
    BY <1>1, CountInvHolds, PTL DEF Spec, VisitedOnce

------------------------------------------------------------------------------
(* The chunks of a path *)

(* The rows written so far hold the fixes before n, each of them once. *)
CoversUpTo(n) ==
  /\ \A k \in 0 .. n - 1 : \E c \in chunks : Holds(c, k)
  /\ \A c, d \in chunks : \A k \in Nat : Holds(c, k) /\ Holds(d, k) => c = d
  /\ \A c \in chunks : c.to < n

Sized(from, to) == from < to /\ to - from <= NumPoints

(* The current chunk ends at the last fix or leaves at least two. *)
CurrentChunk ==
  /\ Sized(i, j)
  /\ j = fixes - 1 \/ j < fixes - 2

ChunkInv ==
  /\ CutTypeOK
  /\ result = "call" => i = 0
  /\ result = "cutting" => CurrentChunk /\ CoversUpTo(i) /\ fixes >= 2
  /\ result = "True" => CoversUpTo(fixes) /\ fixes >= 2
  /\ result \in {"cutting", "True"} => \A c \in chunks : Sized(c.from, c.to)

LEMMA InitIInv == CutInit => ChunkInv
  BY LengthsAssumption, PreviousAssumption DEF CutInit, ChunkInv, CutTypeOK

LEMMA BeginIInv == ChunkInv /\ BeginCut => ChunkInv'
  <1> SUFFICES ASSUME ChunkInv, BeginCut PROVE ChunkInv'
    OBVIOUS
  <1> USE NumPointsAssumption DEF ChunkInv, CutTypeOK
  <1>1. i' = 0 /\ j' = ChunkEnd(NumPoints - 1) /\ chunks' = {} /\ fixes' = fixes
        /\ fixes >= 2 /\ result' = "cutting"
    BY DEF BeginCut
  <1>2. j' \in Nat /\ j' < fixes'
    BY <1>1 DEF ChunkEnd
  <1>3. CurrentChunk'
    BY <1>1 DEF CurrentChunk, Sized, ChunkEnd
  <1>4. CoversUpTo(0)'
    BY <1>1 DEF CoversUpTo
  <1>5. QED
    BY <1>1, <1>2, <1>3, <1>4

(* Adding the current chunk extends what the rows cover by that chunk. *)
LEMMA CutCovers ==
  ASSUME CutTypeOK, CoversUpTo(i), i < j, NEW n \in Nat, n = j + 1,
         chunks' = chunks \union {[from |-> i, to |-> j]}
  PROVE  CoversUpTo(n)'
  <1> DEFINE new == [from |-> i, to |-> j]
  <1>1. i \in Nat /\ j \in Nat /\ chunks \subseteq PathChunk /\ new.from = i /\ new.to = j
    BY DEF CutTypeOK
  <1>2. \A k \in 0 .. n - 1 : \E c \in chunks' : Holds(c, k)
    <2> SUFFICES ASSUME NEW k \in 0 .. n - 1 PROVE \E c \in chunks' : Holds(c, k)
      OBVIOUS
    <2>1. CASE k < i
      <3>1. k \in 0 .. i - 1
        BY <1>1, <2>1
      <3>2. QED
        BY <3>1 DEF CoversUpTo
    <2>2. CASE i <= k
      <3>1. Holds(new, k)
        BY <1>1, <2>2 DEF Holds
      <3>2. QED
        BY <3>1
    <2>3. QED
      BY <1>1, <2>1, <2>2
  <1>3. \A c \in chunks : \A k \in Nat : ~(Holds(c, k) /\ Holds(new, k))
    BY <1>1 DEF CoversUpTo, Holds, PathChunk
  <1>4. \A c, d \in chunks' : \A k \in Nat : Holds(c, k) /\ Holds(d, k) => c = d
    BY <1>3 DEF CoversUpTo
  <1>5. \A c \in chunks' : c.to < n
    BY <1>1 DEF CoversUpTo, PathChunk
  <1> HIDE DEF new
  <1>6. QED
    BY <1>2, <1>4, <1>5 DEF CoversUpTo, Holds

LEMMA CutIInv == ChunkInv /\ Cut => ChunkInv'
  <1> SUFFICES ASSUME ChunkInv, Cut PROVE ChunkInv'
    OBVIOUS
  <1> USE NumPointsAssumption DEF ChunkInv
  <1>1. /\ CutTypeOK /\ CurrentChunk /\ CoversUpTo(i) /\ fixes >= 2
        /\ chunks' = chunks \union {[from |-> i, to |-> j]} /\ fixes' = fixes
    BY DEF Cut
  <1>n. PICK n \in Nat : n = j + 1
    BY <1>1 DEF CutTypeOK
  <1>covers. CoversUpTo(n)'
    BY <1>1, <1>n, CutCovers DEF CurrentChunk, Sized
  <1>2. \A c \in chunks' : Sized(c.from, c.to)
    BY <1>1 DEF CurrentChunk, Cut
  <1>3. chunks' \in SUBSET PathChunk
    BY <1>1 DEF CutTypeOK, PathChunk
  <1>4. CASE j = fixes - 1
    <2>1. result' = "True" /\ UNCHANGED <<i, j>>
      BY <1>4 DEF Cut
    <2>2. fixes' = n
      BY <1>1, <1>n, <1>4 DEF CutTypeOK
    <2>3. CoversUpTo(fixes)'
      BY <1>covers, <2>2 DEF CoversUpTo
    <2>4. QED
      BY <1>1, <1>2, <1>3, <2>1, <2>3 DEF CutTypeOK
  <1>5. CASE j # fixes - 1
    <2>1. i' = j + 1 /\ j' = ChunkEnd(j + NumPoints) /\ result' = result
      BY <1>5 DEF Cut
    <2>2. j < fixes - 2 /\ fixes \in Nat /\ j \in Nat
      BY <1>1, <1>5 DEF CurrentChunk, CutTypeOK
    <2>3. i' \in Nat /\ j' \in Nat /\ j' < fixes'
      BY <1>1, <2>1, <2>2 DEF ChunkEnd
    <2>4. CurrentChunk'
      BY <1>1, <2>1, <2>2 DEF CurrentChunk, Sized, ChunkEnd
    <2>5. CoversUpTo(i)'
      BY <1>n, <1>covers, <2>1 DEF CoversUpTo
    <2>6. QED
      BY <1>1, <1>2, <1>3, <2>1, <2>3, <2>4, <2>5 DEF CutTypeOK, Cut
  <1>6. QED
    BY <1>4, <1>5

LEMMA InvariantHolds == CutSpec => []ChunkInv
  <1>1. ChunkInv /\ [CutNext]_cutVars => ChunkInv'
    <2> SUFFICES ASSUME ChunkInv, [CutNext]_cutVars PROVE ChunkInv'
      OBVIOUS
    <2>1. CASE Refuse
      BY <2>1 DEF Refuse, ChunkInv, CutTypeOK
    <2>2. CASE BeginCut \/ Cut
      BY <2>2, BeginIInv, CutIInv
    <2>3. CASE UNCHANGED cutVars
      BY <2>3 DEF cutVars, ChunkInv, CutTypeOK, CurrentChunk, CoversUpTo
    <2>4. QED
      BY <2>1, <2>2, <2>3 DEF CutNext
  <1>2. QED
    BY <1>1, InitIInv, PTL DEF CutSpec

(* The rows of a flight hold every fix of its path exactly once. *)
THEOREM ChunksPartition == CutSpec => []Partition
  <1>1. ChunkInv => Partition
    BY DEF ChunkInv, Partition, CoversUpTo, CutTypeOK, PathChunk
  <1>2. QED
    BY <1>1, InvariantHolds, PTL

(* Every row is a line of at least two fixes, of at most NumPoints + 1. *)
THEOREM ChunksSized == CutSpec => []ChunkSizes
  <1>1. ChunkInv => ChunkSizes
    BY DEF ChunkInv, ChunkSizes, Sized
  <1>2. QED
    BY <1>1, InvariantHolds, PTL

(* The rows are fit for the search, for every length and chunk size. *)
THEOREM ChunksFit == CutSpec => []ChunksOfPath
  BY ChunksPartition, ChunksSized, PTL DEF ChunksOfPath

------------------------------------------------------------------------------
(* The import of airspace *)

Lists == UNION {[1 .. n -> AirspaceFiles] : n \in Nat}
Working ==
  {q \in [step: {"remove", "import", "done"}, lines: Lists, at: Nat] : q.at \in DOMAIN q.lines}

(* A country is empty between the two commits for a file of it. *)
AirspaceInv ==
  /\ DOMAIN airspace = Countries
  /\ importer \in [Commands -> Working \union {Exited}]
  /\ Apart
  /\ \A k \in Commands :
       importer[k].step = "import" => airspace[Line(k).country] = <<>>
  /\ AirspaceOfLastFile

(* The state of one command, which its countries determine. *)
LEMMA LinesOfWorking ==
  ASSUME NEW q \in Working
  PROVE  /\ q.at \in Nat \ {0} /\ \E n \in Nat : DOMAIN q.lines = 1 .. n /\ q.at <= n
         /\ \A n \in DOMAIN q.lines : q.lines[n] \in AirspaceFiles
         /\ q.step # "exited"
  <1>1. PICK n \in Nat : q.lines \in [1 .. n -> AirspaceFiles]
    BY DEF Working, Lists
  <1> QED BY <1>1 DEF Working

LEMMA AirspaceInvInit == AirspaceInit => AirspaceInv
  BY DEF AirspaceInit, AirspaceInv, Exited, Apart, CountriesOf, AirspaceOfLastFile, Imported

(* What a command does leaves the countries of the others alone. *)
LEMMA OthersKept ==
  ASSUME AirspaceInv, NEW k \in Commands, importer[k] \in Working,
         NEW l \in Commands, l # k, importer'[l] = importer[l],
         \A c \in Countries \ {Line(k).country} : airspace'[c] = airspace[c]
  PROVE  /\ (importer[l].step = "import" => airspace[Line(l).country] = <<>>)'
         /\ \A n \in Imported(l)' :
              LET line == importer'[l].lines[n] IN
              airspace'[line.country] =
                IF line.features = Unreadable THEN <<>> ELSE <<Features(line)>>
  <1>1. ASSUME NEW n \in DOMAIN importer[l].lines, importer[l] \in Working
        PROVE  airspace'[importer[l].lines[n].country] = airspace[importer[l].lines[n].country]
    <2>1. /\ importer[l].lines[n] \in AirspaceFiles /\ importer[l].step # "exited"
          /\ importer[k].step # "exited"
      BY <1>1, LinesOfWorking
    <2>2. Line(k).country \in CountriesOf(k) /\ importer[l].lines[n].country \in CountriesOf(l)
      BY <2>1 DEF CountriesOf, Line, Working
    <2>3. importer[l].lines[n].country # Line(k).country
      BY <2>2 DEF AirspaceInv, Apart
    <2> QED BY <2>1, <2>3, FilesAssumption
  <1>2. importer[l] \in Working \/ importer[l].step = "exited"
    BY DEF AirspaceInv, Exited
  <1>3. Imported(l)' = Imported(l)
    BY DEF Imported
  <1>4. \A n \in Imported(l) : importer[l] \in Working /\ n \in DOMAIN importer[l].lines
    <2>1. ASSUME NEW n \in Imported(l)
          PROVE  importer[l] \in Working /\ n \in 1 .. importer[l].at
      BY <1>2, <2>1 DEF Imported, Working
    <2> QED BY <2>1, LinesOfWorking
  <1>5. (importer[l].step = "import" => airspace[Line(l).country] = <<>>)'
    <2>1. ASSUME importer[l].step = "import" PROVE airspace'[Line(l)'.country] = <<>>
      <3>1. importer[l] \in Working /\ importer[l].at \in DOMAIN importer[l].lines
        BY <1>2, <2>1 DEF Working
      <3>2. airspace'[importer[l].lines[importer[l].at].country]
              = airspace[importer[l].lines[importer[l].at].country]
        BY <3>1, <1>1
      <3> QED BY <2>1, <3>2 DEF Line, AirspaceInv
    <2> QED BY <2>1
  <1> QED BY <1>1, <1>3, <1>4, <1>5 DEF AirspaceInv, AirspaceOfLastFile

LEMMA AirspaceInvStep ==
  ASSUME AirspaceInv, AirspaceNext, Apart'
  PROVE  AirspaceInv'
  <1> DEFINE Shows(line) ==
        airspace'[line.country] = IF line.features = Unreadable THEN <<>> ELSE <<Features(line)>>
  <1>1. PICK k \in Commands :
          StartAirspaces(k) \/ RemoveCountry(k) \/ ImportAirspace(k) \/ ExitAirspaces(k)
    BY DEF AirspaceNext
  <1>2. importer[k] \in Working \/ importer[k] = Exited
    BY DEF AirspaceInv
  <1>3. ASSUME \A l \in Commands \ {k} : importer'[l] = importer[l],
               DOMAIN airspace' = Countries,
               importer' \in [Commands -> Working \union {Exited}],
               \/ airspace' = airspace
               \/ /\ importer[k] \in Working
                  /\ \A c \in Countries \ {Line(k).country} : airspace'[c] = airspace[c],
               importer'[k].step = "import" => airspace'[Line(k)'.country] = <<>>,
               \A n \in Imported(k)' : Shows(importer'[k].lines[n])
        PROVE  AirspaceInv'
    <2>1. ASSUME NEW l \in Commands, l # k
          PROVE  /\ (importer[l].step = "import" => airspace[Line(l).country] = <<>>)'
                 /\ \A n \in Imported(l)' : Shows(importer'[l].lines[n])
      <3>1. CASE airspace' = airspace
        BY <1>3, <2>1, <3>1 DEF AirspaceInv, AirspaceOfLastFile, Imported, Line
      <3>2. CASE /\ importer[k] \in Working
                 /\ \A c \in Countries \ {Line(k).country} : airspace'[c] = airspace[c]
        BY <1>3, <2>1, <3>2, OthersKept
      <3> QED BY <1>3, <3>1, <3>2
    <2>2. AirspaceOfLastFile'
      BY <1>3, <2>1 DEF AirspaceOfLastFile
    <2>3. \A l \in Commands : (importer[l].step = "import" => airspace[Line(l).country] = <<>>)'
      BY <1>3, <2>1
    <2> QED BY <1>3, <2>2, <2>3 DEF AirspaceInv
  <1>4. CASE StartAirspaces(k)
    <2>1. PICK n \in 1 .. MaxLines : \E lines \in [1 .. n -> AirspaceFiles] :
            importer' = [importer EXCEPT ![k] = [step |-> "remove", lines |-> lines, at |-> 1]]
      BY <1>4 DEF StartAirspaces
    <2>2. PICK lines \in [1 .. n -> AirspaceFiles] :
            importer' = [importer EXCEPT ![k] = [step |-> "remove", lines |-> lines, at |-> 1]]
      BY <2>1
    <2>3. n \in Nat /\ 1 \in 1 .. n
      OBVIOUS
    <2>4. [step |-> "remove", lines |-> lines, at |-> 1] \in Working
      BY <2>3 DEF Working, Lists
    <2>5. importer'[k] = [step |-> "remove", lines |-> lines, at |-> 1]
          /\ importer' \in [Commands -> Working \union {Exited}]
          /\ \A l \in Commands \ {k} : importer'[l] = importer[l]
      BY <2>2, <2>4 DEF AirspaceInv
    <2>6. Imported(k)' = {}
      BY <2>5 DEF Imported
    <2> QED BY <1>3, <1>4, <2>5, <2>6 DEF StartAirspaces, AirspaceInv
  <1>5. CASE RemoveCountry(k)
    <2>1. importer[k] \in Working
      BY <1>2, <1>5 DEF RemoveCountry, Exited
    <2> DEFINE q == importer[k]
    <2>2. /\ importer'[k] = [q EXCEPT !.step = "import"]
          /\ importer' \in [Commands -> Working \union {Exited}]
          /\ \A l \in Commands \ {k} : importer'[l] = importer[l]
      <3>1. [q EXCEPT !.step = "import"] \in Working
        BY <2>1 DEF Working
      <3> QED BY <1>5, <3>1 DEF RemoveCountry, AirspaceInv
    <2>3. /\ importer'[k].step = "import" /\ importer'[k].lines = q.lines
          /\ importer'[k].at = q.at /\ q.step = "remove"
      BY <1>5, <2>1, <2>2 DEF Working, RemoveCountry
    <2>4. Line(k)' = Line(k) /\ Line(k) \in AirspaceFiles /\ Line(k).country \in Countries
      BY <2>1, <2>3, LinesOfWorking, FilesAssumption DEF Line, Working
    <2>5. /\ DOMAIN airspace' = Countries /\ airspace'[Line(k).country] = <<>>
          /\ \A c \in Countries \ {Line(k).country} : airspace'[c] = airspace[c]
      BY <1>5, <2>4 DEF RemoveCountry, Without, AirspaceInv
    <2>6. ASSUME NEW n \in Imported(k)' PROVE Shows(importer'[k].lines[n])
      <3>1. /\ n \in 1 .. q.at - 1
            /\ \A l \in n + 1 .. q.at : q.lines[l].country # q.lines[n].country
        BY <2>3, <2>6 DEF Imported
      <3>2. q.at \in Nat \ {0} /\ q.at \in n + 1 .. q.at
        BY <3>1, <2>1, LinesOfWorking
      <3>3. n \in Imported(k) /\ q.lines[n].country # Line(k).country
        BY <3>1, <3>2, <2>3 DEF Imported, Line
      <3>4. q.lines[n] \in AirspaceFiles
        <4>1. n \in DOMAIN q.lines
          BY <3>1, <3>2, <2>1, LinesOfWorking
        <4> QED BY <4>1, <2>1, LinesOfWorking
      <3> QED BY <2>3, <2>5, <3>3, <3>4, FilesAssumption DEF AirspaceInv, AirspaceOfLastFile
    <2> HIDE DEF q, Shows
    <2> QED BY <1>3, <2>1, <2>2, <2>4, <2>5, <2>6
  <1>6. CASE ImportAirspace(k)
    <2>1. importer[k] \in Working
      BY <1>2, <1>6 DEF ImportAirspace, Exited
    <2> DEFINE q == importer[k]
               next == IF q.at < Len(q.lines) THEN [q EXCEPT !.step = "remove", !.at = q.at + 1]
                       ELSE [q EXCEPT !.step = "done"]
    <2>2. PICK m \in Nat : DOMAIN q.lines = 1 .. m /\ q.at <= m /\ q.at \in Nat \ {0}
      BY <2>1, LinesOfWorking
    <2>3. Len(q.lines) = m
      <3>1. q.lines \in Seq(AirspaceFiles)
        BY <2>1 DEF Working, Lists
      <3> QED BY <2>2, <3>1
    <2>4. /\ next \in Working /\ next.lines = q.lines
          /\ \/ next.step = "remove" /\ next.at = q.at + 1
             \/ next.step = "done" /\ next.at = q.at
      <3>1. CASE q.at < Len(q.lines)
        <4>1. next = [step |-> "remove", lines |-> q.lines, at |-> q.at + 1]
          BY <3>1, <2>1 DEF Working
        <4>2. q.lines \in Lists /\ q.at + 1 \in DOMAIN q.lines /\ q.at + 1 \in Nat
          BY <3>1, <2>1, <2>2, <2>3 DEF Working
        <4> QED BY <4>1, <4>2 DEF Working
      <3>2. CASE ~(q.at < Len(q.lines))
        <4>1. next = [step |-> "done", lines |-> q.lines, at |-> q.at]
          BY <3>2, <2>1 DEF Working
        <4>2. q.lines \in Lists /\ q.at \in DOMAIN q.lines /\ q.at \in Nat
          BY <2>1 DEF Working
        <4> QED BY <4>1, <4>2 DEF Working
      <3> QED BY <3>1, <3>2
    <2>5. /\ importer'[k] = next
          /\ importer' \in [Commands -> Working \union {Exited}]
          /\ \A l \in Commands \ {k} : importer'[l] = importer[l]
      <3> HIDE DEF next
      <3>1. importer' = [importer EXCEPT ![k] = next]
        BY <1>6 DEF ImportAirspace, next
      <3> QED BY <2>4, <3>1 DEF AirspaceInv
    <2>6. Line(k) = q.lines[q.at] /\ Line(k) \in AirspaceFiles /\ Line(k).country \in Countries
      BY <2>1, LinesOfWorking, FilesAssumption DEF Line, Working
    <2>7. q.step = "import" /\ airspace[Line(k).country] = <<>>
      BY <1>6 DEF ImportAirspace, AirspaceInv
    <2>8. /\ DOMAIN airspace' = Countries
          /\ \A c \in Countries \ {Line(k).country} : airspace'[c] = airspace[c]
          /\ Shows(Line(k))
      BY <1>6, <2>6, <2>7 DEF ImportAirspace, AirspaceInv
    <2> HIDE DEF next
    <2>9. ASSUME NEW n \in Imported(k)' PROVE Shows(importer'[k].lines[n])
      <3>1. n \in 1 .. q.at /\ \A l \in n + 1 .. q.at : q.lines[l].country # q.lines[n].country
        <4>1. importer'[k] = next
          BY <2>5
        <4> QED BY <4>1, <2>2, <2>4, <2>9 DEF Imported
      <3>2. CASE n = q.at
        BY <3>2, <2>4, <2>5, <2>6, <2>8
      <3>3. CASE n # q.at
        <4>1. n \in 1 .. q.at - 1 /\ q.at \in n + 1 .. q.at
          BY <3>1, <3>3, <2>2
        <4>2. n \in Imported(k) /\ q.lines[n].country # Line(k).country
          BY <3>1, <4>1, <2>6, <2>7 DEF Imported
        <4>3. q.lines[n] \in AirspaceFiles
          <5>1. n \in DOMAIN q.lines
            BY <3>1, <2>2
          <5> QED BY <5>1, <2>1, LinesOfWorking
        <4> QED BY <2>4, <2>5, <2>8, <4>2, <4>3, FilesAssumption
                DEF AirspaceInv, AirspaceOfLastFile
      <3> QED BY <3>2, <3>3
    <2>10. importer'[k].step # "import"
      BY <2>4, <2>5
    <2> HIDE DEF q, Shows
    <2> QED BY <1>3, <2>1, <2>5, <2>8, <2>9, <2>10
  <1>7. CASE ExitAirspaces(k)
    <2>1. /\ importer'[k] = Exited
          /\ importer' \in [Commands -> Working \union {Exited}]
          /\ \A l \in Commands \ {k} : importer'[l] = importer[l]
      BY <1>7 DEF ExitAirspaces, AirspaceInv
    <2>2. Imported(k)' = {} /\ importer'[k].step # "import"
      BY <2>1 DEF Imported, Exited
    <2> QED BY <1>3, <1>7, <2>1, <2>2 DEF ExitAirspaces, AirspaceInv
  <1> QED BY <1>1, <1>4, <1>5, <1>6, <1>7

LEMMA AirspaceInvStutter == AirspaceInv /\ UNCHANGED airspaceVars => AirspaceInv'
  <1> SUFFICES ASSUME AirspaceInv, UNCHANGED airspaceVars PROVE AirspaceInv'
    OBVIOUS
  <1>1. airspace' = airspace /\ importer' = importer
    BY DEF airspaceVars
  <1>2. /\ \A k : CountriesOf(k)' = CountriesOf(k) /\ Imported(k)' = Imported(k)
        /\ \A k : Line(k)' = Line(k)
    BY <1>1 DEF CountriesOf, Imported, Line
  <1>3. Apart' /\ AirspaceOfLastFile'
    BY <1>1, <1>2 DEF Apart, AirspaceOfLastFile, AirspaceInv
  <1> QED BY <1>1, <1>2, <1>3 DEF AirspaceInv

(* Whatever commands run at the same time for other countries, a country    *)
(* has the airspace of the last of its files that was imported, once, or    *)
(* none if that cannot be read (remove_country, import_airspace).           *)
THEOREM CountriesHaveTheirAirspace ==
  AirspaceInit /\ [][AirspaceNext /\ Apart']_airspaceVars => []AirspaceOfLastFile
  <1>1. AirspaceInv => AirspaceOfLastFile
    BY DEF AirspaceInv
  <1>2. AirspaceInv /\ [AirspaceNext /\ Apart']_airspaceVars => AirspaceInv'
    BY AirspaceInvStep, AirspaceInvStutter
  <1> QED BY <1>1, <1>2, AirspaceInvInit, PTL

------------------------------------------------------------------------------
(* The cache of elevations *)

Findings == [BelowFlight -> Nat]
Keys == 0 .. MaxModified
Entry == [age: 0 .. Timeout - 1, found: Findings]
View ==
  {Closed} \union [step: {"look up", "query"}, key: Keys]
  \union [step: {"store"}, key: Keys, found: Findings]
  \union [step: {"shown"}, found: Findings]

(* Findings hold the files that have a row of that age or older. *)
Covers(rows, found, age) ==
  \A n \in BelowFlight : (\E k \in DOMAIN rows[n] : rows[n][k] >= age) => found[n] > 0

(* Nothing is found twice with a file but for a race between two imports. *)
Once(found) == \A n \in BelowFlight : found[n] > 1 => n \in raced

OnFile(c, n) == importing[c] # Idle /\ importing[c].file = n

(* Without a race a file has at most one command and is imported once, since *)
(* it stays.                                                                *)
Unraced(n) ==
  /\ elevations[n] = <<>> \/ Len(elevations[n]) = 1
  /\ \A c \in Importers : OnFile(c, n) => elevations[n] = <<>>
  /\ \A c, k \in Importers : OnFile(c, n) /\ OnFile(k, n) => c = k

ImportState == {Idle} \union [step: {"copy", "insert"}, file: FileNames]

TilesInv ==
  /\ elevations \in [FileNames -> Seq(0 .. Timeout)]
  /\ importing \in [Importers -> ImportState]
  /\ \A n \in FileNames : elevations[n] # <<>> => n \in tileFiles
  /\ \A c \in Importers : importing[c].step = "insert" => importing[c].file \in tileFiles
  /\ \A n \in FileNames \ raced : Unraced(n)

(* An entry of the cache covers all rows that are older than itself. *)
CacheInv ==
  /\ modified \in Keys
  /\ cache \in [Keys -> {<<>>} \union {<<e>> : e \in Entry}]
  /\ \A key \in Keys : cache[key] # <<>> =>
       /\ Covers(elevations, cache[key][1].found, cache[key][1].age + 1)
       /\ Once(cache[key][1].found)

(* What is about to be stored covers all rows but those of this tick. *)
ViewInv ==
  /\ view \in [Viewers -> View]
  /\ \A v \in Viewers : view[v].step = "store" =>
       Covers(elevations, view[v].found, 1) /\ Once(view[v].found)

ElevationsInv == TilesInv /\ CacheInv /\ ViewInv

LEMMA Views ==
  ASSUME NEW w \in View
  PROVE  /\ w.step = "look up" => w \in [step: {"look up"}, key: Keys]
         /\ w.step = "query" => w \in [step: {"query"}, key: Keys]
         /\ w.step = "store" => w \in [step: {"store"}, key: Keys, found: Findings]
         /\ w.step = "shown" => w \in [step: {"shown"}, found: Findings]
  <1>1. CASE w = Closed
    BY <1>1 DEF Closed
  <1>2. CASE w \in [step: {"look up", "query"}, key: Keys]
    BY <1>2
  <1>3. CASE w \in [step: {"store"}, key: Keys, found: Findings]
    BY <1>3
  <1>4. CASE w \in [step: {"shown"}, found: Findings]
    BY <1>4
  <1> QED BY <1>1, <1>2, <1>3, <1>4 DEF View

LEMMA ElevationsInvInit == ElevationsInit => ElevationsInv
  <1>1. ElevationsInit => TilesInv
    BY ElevationsAssumption DEF ElevationsInit, TilesInv, Unraced, OnFile, ImportState, Idle
  <1>2. ElevationsInit => CacheInv /\ ViewInv
    BY ElevationsAssumption
    DEF ElevationsInit, CacheInv, ViewInv, Findings, Keys, Entry, View, Closed
  <1> QED BY <1>1, <1>2 DEF ElevationsInv

LEMMA ElementOf ==
  ASSUME NEW S, NEW s \in Seq(S), NEW n \in DOMAIN s
  PROVE  s[n] \in S
  OBVIOUS

(* What is found now covers all rows. *)
LEMMA FoundCovers ==
  ASSUME TilesInv, NEW age
  PROVE  Found \in Findings /\ Covers(elevations, Found, age) /\ Once(Found)
  <1>1. \A n \in BelowFlight : n \in FileNames /\ elevations[n] \in Seq(0 .. Timeout)
    BY ElevationsAssumption DEF TilesInv
  <1>2. ASSUME NEW n \in BelowFlight
        PROVE  /\ Len(elevations[n]) \in Nat
               /\ (\E k : k \in DOMAIN elevations[n]) => Len(elevations[n]) > 0
    BY <1>1
  <1>3. ASSUME NEW n \in BelowFlight, n \notin raced PROVE Len(elevations[n]) <= 1
    <2>1. Len(<<>>) = 0
      OBVIOUS
    <2>2. Unraced(n)
      BY <1>1, <1>3 DEF TilesInv
    <2>3. elevations[n] = <<>> \/ Len(elevations[n]) = 1
      BY <2>2 DEF Unraced
    <2>4. CASE elevations[n] = <<>>
      BY <2>1, <2>4
    <2>5. CASE Len(elevations[n]) = 1
      BY <2>5
    <2> QED BY <2>3, <2>4, <2>5
  <1>4. Found \in Findings /\ Covers(elevations, Found, age)
    BY <1>2 DEF Found, Findings, Covers
  <1>5. Once(Found)
    BY <1>2, <1>3 DEF Found, Once
  <1> QED BY <1>4, <1>5

(* Requests that do not begin to store. *)
LEMMA ViewInvKept ==
  ASSUME ViewInv, UNCHANGED <<elevations, raced>>, NEW v \in Viewers, NEW w \in View,
         view' = [view EXCEPT ![v] = w],
         w.step = "store" => Covers(elevations, w.found, 1) /\ Once(w.found)
  PROVE  ViewInv'
  <1>1. view' \in [Viewers -> View] /\ \A u \in Viewers : view'[u] = IF u = v THEN w ELSE view[u]
    BY DEF ViewInv
  <1> QED BY <1>1 DEF ViewInv, Once

LEMMA CacheInvKept ==
  CacheInv /\ UNCHANGED <<elevations, raced, cache, modified>> => CacheInv'
  BY DEF CacheInv, Once

LEMMA TilesInvKept == TilesInv /\ UNCHANGED importVars => TilesInv'
  BY DEF TilesInv, importVars, Unraced, OnFile

(* Commands other than c go on as they are. *)
LEMMA ImportersKept ==
  ASSUME TilesInv, NEW c \in Importers, NEW state \in ImportState,
         importing' = [importing EXCEPT ![c] = state]
  PROVE  /\ importing' \in [Importers -> ImportState]
         /\ importing'[c] = state
         /\ \A k \in Importers \ {c} : importing'[k] = importing[k]
         /\ \A k \in Importers \ {c} : \A n : OnFile(k, n)' <=> OnFile(k, n)
  BY DEF TilesInv, OnFile

LEMMA ElevationsInvStep == ElevationsInv /\ [ElevationsNext]_tileVars => ElevationsInv'
  <1> SUFFICES ASSUME ElevationsInv, [ElevationsNext]_tileVars PROVE ElevationsInv'
    OBVIOUS
  <1> USE DEF ElevationsInv
  <1>1. ASSUME NEW c \in Importers, NEW n \in FileNames, CheckFile(c, n) PROVE ElevationsInv'
    <2> DEFINE state == [step |-> "copy", file |-> n]
    <2>1. /\ state # Idle /\ state.file = n /\ state.step = "copy" /\ state \in ImportState
          /\ importing' = [importing EXCEPT ![c] = state]
      BY <1>1 DEF CheckFile, Idle, ImportState
    <2> HIDE DEF state
    <2>2. /\ elevations' = elevations /\ tileFiles' = tileFiles
          /\ raced \subseteq raced' /\ elevations[n] = <<>> /\ n \notin tileFiles
      BY <1>1 DEF CheckFile, TilesInv
    <2>3. /\ importing' \in [Importers -> ImportState] /\ importing'[c] = state
          /\ \A k \in Importers \ {c} : importing'[k] = importing[k]
          /\ \A k \in Importers \ {c} : \A m : OnFile(k, m)' <=> OnFile(k, m)
      BY <2>1, ImportersKept
    <2>4. \A m : OnFile(c, m)' <=> m = n
      BY <2>1, <2>3 DEF OnFile
    <2>5. ASSUME n \notin raced' PROVE \A k \in Importers : ~OnFile(k, n)
      <3>1. Creating(n) = {}
        BY <1>1, <2>5 DEF CheckFile
      <3>2. ASSUME NEW k \in Importers, OnFile(k, n) PROVE FALSE
        <4>1. importing[k] \in [step: {"copy", "insert"}, file: FileNames] /\ importing[k].file = n
          BY <3>2 DEF OnFile, TilesInv, ImportState
        <4>2. importing[k].step # "insert"
          BY <4>1, <2>2 DEF TilesInv
        <4>3. importing[k] = [step |-> "copy", file |-> n]
          BY <4>1, <4>2
        <4> QED BY <4>3, <3>1 DEF Creating
      <3> QED BY <3>2
    <2>6. ASSUME NEW m \in FileNames \ raced' PROVE Unraced(m)'
      <3>1. Unraced(m)
        BY <2>2, <2>6 DEF TilesInv
      <3>2. CASE m = n
        BY <2>2, <2>3, <2>4, <2>5, <2>6, <3>2 DEF Unraced
      <3>3. CASE m # n
        BY <2>2, <2>3, <2>4, <3>1, <3>3 DEF Unraced
      <3> QED BY <3>2, <3>3
    <2>7. \A k \in Importers : importing'[k].step = "insert" => importing'[k].file \in tileFiles'
      BY <2>1, <2>2, <2>3 DEF TilesInv
    <2>8. TilesInv'
      BY <2>2, <2>3, <2>6, <2>7 DEF TilesInv
    <2>9. CacheInv' /\ ViewInv'
      BY <1>1, <2>2 DEF CheckFile, CacheInv, ViewInv, Once
    <2> QED BY <2>8, <2>9
  <1>2. ASSUME NEW c \in Importers, CopyFile(c) PROVE ElevationsInv'
    <2>10. importing[c] \in [step: {"copy"}, file: FileNames]
      BY <1>2 DEF CopyFile, TilesInv, Idle, ImportState
    <2>1. PICK n \in FileNames : n = importing[c].file
      BY <2>10
    <2> DEFINE state == [importing[c] EXCEPT !.step = "insert"]
    <2>2. state \in ImportState /\ state.file = n /\ state # Idle /\ importing[c] # Idle
      BY <2>1, <2>10 DEF Idle, ImportState
    <2>3. /\ importing' = [importing EXCEPT ![c] = state]
          /\ elevations' = elevations /\ raced' = raced /\ tileFiles' = tileFiles \union {n}
      BY <1>2, <2>1 DEF CopyFile
    <2> HIDE DEF state
    <2>4. /\ importing' \in [Importers -> ImportState] /\ importing'[c] = state
          /\ \A k \in Importers \ {c} : importing'[k] = importing[k]
          /\ \A k \in Importers \ {c} : \A m : OnFile(k, m)' <=> OnFile(k, m)
      BY <2>2, <2>3, ImportersKept
    <2>5. \A m : \A k \in Importers : OnFile(k, m)' <=> OnFile(k, m)
      BY <2>1, <2>2, <2>4 DEF OnFile
    <2>6. \A m \in FileNames \ raced' : Unraced(m)'
      BY <2>3, <2>5 DEF Unraced, TilesInv
    <2>7. \A k \in Importers : importing'[k].step = "insert" => importing'[k].file \in tileFiles'
      BY <2>2, <2>3, <2>4 DEF TilesInv
    <2>8. TilesInv'
      BY <2>3, <2>4, <2>6, <2>7 DEF TilesInv
    <2>9. CacheInv' /\ ViewInv'
      BY <1>2 DEF CopyFile, CacheInv, ViewInv, Once
    <2> QED BY <2>8, <2>9
  <1>3. ASSUME NEW c \in Importers, InsertTile(c) PROVE ElevationsInv'
    <2>14. /\ importing[c] \in [step: {"insert"}, file: FileNames]
           /\ importing[c].file \in tileFiles
      BY <1>3 DEF InsertTile, TilesInv, Idle, ImportState
    <2>1. PICK n \in FileNames : n = importing[c].file /\ n \in tileFiles
      BY <2>14
    <2>2. /\ importing' = [importing EXCEPT ![c] = Idle]
          /\ raced' = raced /\ tileFiles' = tileFiles
          /\ elevations' = [elevations EXCEPT ![n] = Append(elevations[n], 0)]
      BY <1>3, <2>1 DEF InsertTile
    <2>3. importing[c] # Idle /\ OnFile(c, n)
      BY <2>1, <2>14 DEF Idle, OnFile
    <2>4. \A m \in FileNames : elevations'[m] = IF m = n THEN Append(elevations[n], 0) ELSE elevations[m]
      BY <2>2, <2>1 DEF TilesInv
    <2>5. /\ elevations[n] \in Seq(0 .. Timeout) /\ 0 \in 0 .. Timeout
          /\ Append(elevations[n], 0) \in Seq(0 .. Timeout)
      <3>1. elevations[n] \in Seq(0 .. Timeout) /\ 0 \in 0 .. Timeout
        BY <2>1, ElevationsAssumption DEF TilesInv
      <3> QED BY <3>1
    <2>6. /\ importing' \in [Importers -> ImportState] /\ importing'[c] = Idle
          /\ \A k \in Importers \ {c} : importing'[k] = importing[k]
          /\ \A k \in Importers \ {c} : \A m : OnFile(k, m)' <=> OnFile(k, m)
      <3>1. Idle \in ImportState
        BY DEF ImportState
      <3> QED BY <2>2, <3>1, ImportersKept
    <2>7. \A m : ~OnFile(c, m)'
      BY <2>6 DEF OnFile
    <2>8. ASSUME NEW m \in FileNames \ raced' PROVE Unraced(m)'
      <3>1. Unraced(m)
        BY <2>2, <2>8 DEF TilesInv
      <3>2. CASE m = n
        <4>1. elevations[n] = <<>> /\ \A k \in Importers : OnFile(k, n) => k = c
          BY <2>3, <3>1, <3>2 DEF Unraced
        <4>2. elevations'[n] = <<0>> /\ Len(<<0>>) = 1
          BY <2>4, <2>1, <4>1
        <4>3. \A k \in Importers : ~OnFile(k, n)'
          BY <2>6, <2>7, <4>1
        <4> QED BY <3>2, <4>2, <4>3 DEF Unraced
      <3>3. CASE m # n
        BY <2>4, <2>6, <2>7, <3>1, <3>3 DEF Unraced
      <3> QED BY <3>2, <3>3
    <2>9. TilesInv'
      <3>1. elevations' \in [FileNames -> Seq(0 .. Timeout)]
        BY <2>2, <2>5 DEF TilesInv
      <3>2. \A k \in Importers : importing'[k].step = "insert" => importing'[k].file \in tileFiles'
        BY <2>2, <2>6 DEF TilesInv, Idle
      <3>3. \A m \in FileNames : elevations'[m] # <<>> => m \in tileFiles'
        BY <2>1, <2>2, <2>4 DEF TilesInv
      <3> QED BY <2>6, <2>8, <3>1, <3>2, <3>3 DEF TilesInv
    <2>10. ASSUME NEW found, NEW age \in Nat, age > 0, Covers(elevations, found, age)
           PROVE  Covers(elevations', found, age)
      <3>1. SUFFICES ASSUME NEW m \in BelowFlight, NEW k \in DOMAIN elevations'[m],
                            elevations'[m][k] >= age
                     PROVE  k \in DOMAIN elevations[m] /\ elevations[m][k] >= age
        BY <2>10 DEF Covers
      <3>2. CASE m = n
        <4>1. elevations'[m] = Append(elevations[n], 0)
          BY <2>4, <2>1, <3>2
        <4>2. k \in 1 .. Len(elevations[n]) + 1
          BY <2>5, <4>1, <3>1
        <4>3. k # Len(elevations[n]) + 1
          BY <2>5, <2>10, <4>1, <3>1
        <4> QED BY <2>5, <3>1, <3>2, <4>1, <4>2, <4>3
      <3>3. CASE m # n
        BY <2>4, <3>1, <3>3, ElevationsAssumption
      <3> QED BY <3>2, <3>3
    <2>11. \A key \in Keys : cache[key] # <<>> =>
             cache[key][1].age + 1 \in Nat /\ cache[key][1].age + 1 > 0
      <3>1. ASSUME NEW key \in Keys, cache[key] # <<>>
            PROVE  cache[key][1].age + 1 \in Nat /\ cache[key][1].age + 1 > 0
        <4>1. PICK e \in Entry : cache[key] = <<e>>
          BY <3>1 DEF CacheInv
        <4> QED BY <4>1, ElevationsAssumption DEF Entry
      <3> QED BY <3>1
    <2>12. CacheInv'
      BY <1>3, <2>2, <2>10, <2>11 DEF CacheInv, InsertTile, Once
    <2>13. ViewInv'
      <3>1. \A found : Covers(elevations, found, 1) => Covers(elevations', found, 1)
        BY <2>10
      <3> QED BY <1>3, <2>2, <3>1 DEF ViewInv, InsertTile, Once
    <2> QED BY <2>9, <2>12, <2>13
  <1>12. ASSUME NEW c \in Importers, FailTile(c) PROVE ElevationsInv'
    <2>1. /\ importing' \in [Importers -> ImportState] /\ importing'[c] = Idle
          /\ \A k \in Importers \ {c} : importing'[k] = importing[k]
          /\ \A k \in Importers \ {c} : \A m : OnFile(k, m)' <=> OnFile(k, m)
      <3>1. Idle \in ImportState
        BY DEF ImportState
      <3> QED BY <1>12, <3>1, ImportersKept DEF FailTile
    <2>2. \A m : ~OnFile(c, m)'
      BY <2>1 DEF OnFile
    <2>3. \A m \in FileNames \ raced' : Unraced(m)'
      BY <1>12, <2>1, <2>2 DEF FailTile, TilesInv, Unraced
    <2>4. \A k \in Importers : importing'[k].step = "insert" => importing'[k].file \in tileFiles'
      BY <1>12, <2>1 DEF FailTile, TilesInv, Idle
    <2>5. TilesInv'
      BY <1>12, <2>1, <2>3, <2>4 DEF FailTile, TilesInv
    <2>6. CacheInv' /\ ViewInv'
      BY <1>12 DEF FailTile, CacheInv, ViewInv, Once
    <2> QED BY <2>5, <2>6
  <1>4. ASSUME Modify PROVE ElevationsInv'
    <2>1. modified' \in Keys
      BY <1>4, ElevationsAssumption DEF Modify, CacheInv, Keys
    <2>2. CacheInv' /\ ViewInv'
      BY <1>4, <2>1 DEF Modify, CacheInv, ViewInv, Once, importVars
    <2> QED BY <1>4, <2>2, TilesInvKept DEF Modify
  <1>5. ASSUME NEW v \in Viewers, LoadFlight(v) PROVE ElevationsInv'
    <2>1. [step |-> "look up", key |-> modified] \in View
      BY DEF View, CacheInv
    <2>2. ViewInv'
      BY <1>5, <2>1, ViewInvKept DEF LoadFlight, importVars
    <2> QED BY <1>5, <2>2, TilesInvKept, CacheInvKept DEF LoadFlight, importVars
  <1>6. ASSUME NEW v \in Viewers, LookUp(v) PROVE ElevationsInv'
    <2>1. view[v] \in [step: {"look up"}, key: Keys]
      BY <1>6, Views DEF LookUp, ViewInv
    <2>2. \E w \in View : view' = [view EXCEPT ![v] = w] /\ w.step # "store"
      <3>1. CASE cache[view[v].key] # <<>> /\ ~Nothing(cache[view[v].key][1].found)
        <4>1. PICK e \in Entry : cache[view[v].key] = <<e>>
          BY <2>1, <3>1 DEF CacheInv
        <4>2. [step |-> "shown", found |-> cache[view[v].key][1].found] \in View
          BY <4>1 DEF View, Entry
        <4> QED BY <1>6, <3>1, <4>2 DEF LookUp, Show
      <3>2. CASE ~(cache[view[v].key] # <<>> /\ ~Nothing(cache[view[v].key][1].found))
        <4>1. [view[v] EXCEPT !.step = "query"] \in View
              /\ [view[v] EXCEPT !.step = "query"].step = "query"
          BY <2>1 DEF View
        <4>2. view' = [view EXCEPT ![v] = [view[v] EXCEPT !.step = "query"]]
          BY <1>6, <3>2 DEF LookUp
        <4> QED BY <4>1, <4>2
      <3> QED BY <3>1, <3>2
    <2>3. ViewInv'
      BY <1>6, <2>2, ViewInvKept DEF LookUp, importVars
    <2> QED BY <1>6, <2>3, TilesInvKept, CacheInvKept DEF LookUp, importVars
  <1>7. ASSUME NEW v \in Viewers, QueryElevations(v) PROVE ElevationsInv'
    <2>1. view[v] \in [step: {"query"}, key: Keys]
      BY <1>7, Views DEF QueryElevations, ViewInv
    <2>2. Found \in Findings /\ Covers(elevations, Found, 1) /\ Once(Found)
      BY FoundCovers
    <2>3. \E w \in View : view' = [view EXCEPT ![v] = w] /\ (w.step = "store" => w.found = Found)
      <3>1. [step |-> "shown", found |-> Found] \in View
        BY <2>2 DEF View
      <3>2. [step |-> "store", key |-> view[v].key, found |-> Found] \in View
        BY <2>1, <2>2 DEF View
      <3> HIDE DEF Found
      <3> QED BY <1>7, <3>1, <3>2 DEF QueryElevations, Show
    <2>4. ViewInv'
      BY <1>7, <2>2, <2>3, ViewInvKept DEF QueryElevations, importVars
    <2> QED BY <1>7, <2>4, TilesInvKept, CacheInvKept DEF QueryElevations, importVars
  <1>8. ASSUME NEW v \in Viewers, Store(v) PROVE ElevationsInv'
    <2>1. view[v] \in [step: {"store"}, key: Keys, found: Findings]
          /\ Covers(elevations, view[v].found, 1) /\ Once(view[v].found)
      BY <1>8, Views DEF Store, ViewInv
    <2> DEFINE e == [age |-> 0, found |-> view[v].found]
    <2>2. [step |-> "shown", found |-> view[v].found] \in View /\ e \in Entry
      BY <2>1, ElevationsAssumption DEF View, Entry
    <2>3. ViewInv'
      BY <1>8, <2>2, ViewInvKept DEF Store, Show, importVars
    <2>4. cache' \in [Keys -> {<<>>} \union {<<f>> : f \in Entry}]
          /\ \A key \in Keys : cache'[key] = cache[key] \/ cache'[key] = <<e>>
      BY <1>8, <2>1, <2>2 DEF Store, CacheInv
    <2>5. Covers(elevations, <<e>>[1].found, <<e>>[1].age + 1) /\ Once(<<e>>[1].found)
      BY <2>1
    <2>6. CacheInv'
      <3> HIDE DEF e
      <3> QED BY <1>8, <2>4, <2>5 DEF Store, CacheInv, Once, importVars
    <2> QED BY <1>8, <2>3, <2>6, TilesInvKept DEF Store
  <1>9. ASSUME NEW v \in Viewers, Close(v) PROVE ElevationsInv'
    <2>1. Closed \in View /\ Closed.step = "closed"
      BY DEF View, Closed
    <2>2. ViewInv'
      BY <1>9, <2>1, ViewInvKept DEF Close, importVars
    <2> QED BY <1>9, <2>2, TilesInvKept, CacheInvKept DEF Close, importVars
  <1>10. ASSUME Tick PROVE ElevationsInv'
    <2>1. \A age \in 0 .. Timeout : Older(age) \in 0 .. Timeout
      BY ElevationsAssumption DEF Older
    <2>2. ASSUME NEW t \in FileNames
          PROVE  /\ elevations'[t] \in Seq(0 .. Timeout)
                 /\ Len(elevations'[t]) = Len(elevations[t])
                 /\ DOMAIN elevations'[t] = DOMAIN elevations[t]
                 /\ \A n \in DOMAIN elevations[t] :
                      /\ elevations[t][n] \in 0 .. Timeout
                      /\ elevations'[t][n] = Older(elevations[t][n])
      <3>1. elevations[t] \in Seq(0 .. Timeout)
        BY DEF TilesInv
      <3>2. elevations'[t] = [n \in DOMAIN elevations[t] |-> Older(elevations[t][n])]
        BY <1>10 DEF Tick
      <3>3. \A n \in DOMAIN elevations[t] : elevations[t][n] \in 0 .. Timeout
        BY <3>1, ElementOf
      <3>4. DOMAIN elevations[t] = 1 .. Len(elevations[t]) /\ Len(elevations[t]) \in Nat
        BY <3>1
      <3> QED BY <2>1, <3>2, <3>3, <3>4
    <2>3. TilesInv'
      <3>1. \A n \in FileNames : /\ elevations'[n] \in Seq(0 .. Timeout)
                                  /\ elevations'[n] = <<>> <=> elevations[n] = <<>>
                                  /\ Len(elevations'[n]) = Len(elevations[n])
        <4>1. \A q \in Seq(0 .. Timeout) : q = <<>> <=> Len(q) = 0
          OBVIOUS
        <4> QED BY <4>1, <2>2 DEF TilesInv
      <3>2. \A n \in FileNames : Unraced(n) => Unraced(n)'
        BY <1>10, <3>1 DEF Tick, Unraced, OnFile
      <3>3. elevations' = [n \in FileNames |-> elevations'[n]]
        BY <1>10 DEF Tick
      <3>5. \A n \in FileNames : elevations'[n] \in Seq(0 .. Timeout)
        BY <2>2
      <3>4. elevations' \in [FileNames -> Seq(0 .. Timeout)]
        BY <3>3, <3>5, Zenon
      <3> QED BY <1>10, <3>1, <3>2, <3>4 DEF Tick, TilesInv
    <2>4. ASSUME NEW found, NEW age \in 1 .. Timeout - 1, Covers(elevations, found, age)
          PROVE  Covers(elevations', found, age + 1)
      <3>1. ASSUME NEW t \in BelowFlight, NEW n \in DOMAIN elevations'[t],
                   elevations'[t][n] >= age + 1
            PROVE  n \in DOMAIN elevations[t] /\ elevations[t][n] >= age
        <4>1. /\ n \in DOMAIN elevations[t] /\ elevations'[t][n] = Older(elevations[t][n])
              /\ elevations[t][n] \in 0 .. Timeout
          BY <2>2, ElevationsAssumption
        <4> QED BY <3>1, <4>1, <2>4, ElevationsAssumption DEF Older
      <3> QED BY <2>4, <3>1 DEF Covers
    <2>5. ASSUME NEW key \in Keys
          PROVE  /\ cache'[key] \in {<<>>} \union {<<e>> : e \in Entry}
                 /\ cache'[key] # <<>> =>
                      /\ Covers(elevations', cache'[key][1].found, cache'[key][1].age + 1)
                      /\ Once(cache'[key][1].found)
      <3>1. cache'[key] = IF cache[key] = <<>> \/ cache[key][1].age + 1 >= Timeout THEN <<>>
                          ELSE <<[cache[key][1] EXCEPT !.age = cache[key][1].age + 1]>>
        BY <1>10 DEF Tick, CacheInv
      <3>2. CASE cache[key] = <<>> \/ cache[key][1].age + 1 >= Timeout
        BY <3>1, <3>2
      <3>3. CASE ~(cache[key] = <<>> \/ cache[key][1].age + 1 >= Timeout)
        <4>1. PICK e \in Entry : cache[key] = <<e>>
          BY <3>3 DEF CacheInv
        <4> DEFINE f == [e EXCEPT !.age = e.age + 1]
        <4>2. f \in Entry /\ e.age + 1 \in 1 .. Timeout - 1
              /\ f.found = e.found /\ f.age = e.age + 1
          BY <3>3, <4>1, ElevationsAssumption DEF Entry
        <4>3. cache'[key] = <<f>>
          BY <3>1, <3>3, <4>1
        <4>4. Covers(elevations, e.found, e.age + 1) /\ Once(e.found)
          BY <4>1 DEF CacheInv
        <4>5. Covers(elevations', f.found, f.age + 1) /\ Once(f.found)
          BY <4>2, <4>4, <2>4
        <4> HIDE DEF f
        <4> QED BY <4>2, <4>3, <4>5
      <3> QED BY <3>2, <3>3
    <2>6. CacheInv'
      BY <1>10, <2>5 DEF Tick, CacheInv, Once
    <2>7. ViewInv'
      BY <1>10 DEF Tick, ViewInv
    <2> QED BY <2>3, <2>6, <2>7
  <1>11. ASSUME UNCHANGED tileVars PROVE ElevationsInv'
    BY <1>11, TilesInvKept, CacheInvKept DEF tileVars, importVars, ViewInv, Once
  <1> QED
    BY <1>1, <1>2, <1>3, <1>4, <1>5, <1>6, <1>7, <1>8, <1>9, <1>10, <1>11, <1>12
    DEF ElevationsNext

(* What a request shows. *)
LEMMA ShownStep ==
  ASSUME ElevationsInv, [ElevationsNext]_tileVars, NEW v \in Viewers,
         view[v].step # "shown", view'[v].step = "shown"
  PROVE  LET found == view'[v].found IN
         /\ \A n \in BelowFlight : found[n] > 1 => n \in raced
         /\ \A n \in BelowFlight : HasRowOfAge(n, Timeout) => found[n] > 0
         /\ Nothing(found) => \A n \in BelowFlight : ~HasRowOfAge(n, 1)
  <1> USE DEF ElevationsInv
  <1>1. \/ \E w \in Viewers : LookUp(w) \/ QueryElevations(w) \/ Store(w)
        \/ \A w \in Viewers : view'[w] = view[w] \/ view'[w].step # "shown"
    <2>1. ASSUME NEW w \in Viewers, LoadFlight(w)
          PROVE  \A u \in Viewers : view'[u] = view[u] \/ view'[u].step # "shown"
      BY <2>1 DEF LoadFlight, ViewInv
    <2>2. ASSUME NEW w \in Viewers, Close(w)
          PROVE  \A u \in Viewers : view'[u] = view[u] \/ view'[u].step # "shown"
      BY <2>2 DEF Close, Closed, ViewInv
    <2>4. CASE \E w \in Viewers : LookUp(w) \/ QueryElevations(w) \/ Store(w)
      BY <2>4
    <2>5. CASE \E w \in Viewers : LoadFlight(w) \/ Close(w)
      BY <2>1, <2>2, <2>5
    <2>6. CASE \/ \E c \in Importers : \/ \E n \in FileNames : CheckFile(c, n)
                                      \/ CopyFile(c) \/ InsertTile(c) \/ FailTile(c)
               \/ Modify \/ Tick \/ UNCHANGED tileVars
      <3>1. view' = view
        BY <2>6 DEF CheckFile, CopyFile, InsertTile, FailTile, Modify, Tick, tileVars
      <3> QED BY <3>1
    <2> QED BY <2>4, <2>5, <2>6 DEF ElevationsNext
  <1>2. PICK w \in Viewers : LookUp(w) \/ QueryElevations(w) \/ Store(w)
    BY <1>1
  <1>3. w = v
    BY <1>2 DEF LookUp, QueryElevations, Store, Show, ViewInv
  <1> DEFINE found == view'[v].found
  <1>4. \A t \in BelowFlight : \A n \in DOMAIN elevations[t] : elevations[t][n] \in Nat
    <2>1. ASSUME NEW t \in BelowFlight, NEW n \in DOMAIN elevations[t]
          PROVE  elevations[t][n] \in Nat
      <3>1. elevations[t] \in Seq(0 .. Timeout)
        BY ElevationsAssumption DEF TilesInv
      <3>2. elevations[t][n] \in 0 .. Timeout
        BY <3>1, ElementOf
      <3> QED BY <3>2, ElevationsAssumption
    <2> QED BY <2>1
  <1>5. ASSUME NEW f, NEW age \in 1 .. Timeout, Covers(elevations, f, age)
        PROVE  Covers(elevations, f, Timeout)
    <2>1. \A k \in Nat : k >= Timeout => k >= age
      BY ElevationsAssumption
    <2> QED BY <1>4, <1>5, <2>1 DEF Covers
  <1>6. /\ found \in Findings /\ Covers(elevations, found, Timeout)
        /\ ~Nothing(found) \/ Covers(elevations, found, 1)
        /\ Once(found)
    <2>1. CASE LookUp(v)
      <3>1. view[v] \in [step: {"look up"}, key: Keys]
        BY <2>1, Views DEF LookUp, ViewInv
      <3>2. /\ cache[view[v].key] # <<>>
            /\ ~Nothing(cache[view[v].key][1].found)
            /\ view'[v] = [step |-> "shown", found |-> cache[view[v].key][1].found]
        BY <2>1, <3>1 DEF LookUp, Show, ViewInv
      <3>3. PICK e \in Entry : cache[view[v].key] = <<e>>
        <4>1. view[v].key \in Keys
          BY <3>1
        <4>2. cache[view[v].key] \in {<<>>} \union {<<e>> : e \in Entry}
          BY <4>1 DEF CacheInv
        <4> QED BY <4>2, <3>2
      <3>4. cache[view[v].key][1] = e
        BY <3>3
      <3>5. found = e.found /\ e.found \in Findings /\ e.age + 1 \in 1 .. Timeout
        BY <3>2, <3>4, ElevationsAssumption DEF Entry
      <3>6. Covers(elevations, e.found, e.age + 1) /\ Once(e.found)
        BY <3>1, <3>2, <3>4 DEF CacheInv
      <3> QED BY <3>2, <3>4, <3>5, <3>6, <1>5
    <2>2. CASE QueryElevations(v)
      <3>1. found = Found
        BY <2>2 DEF QueryElevations, Show, ViewInv
      <3> QED BY <3>1, FoundCovers
    <2>3. CASE Store(v)
      <3>1. /\ view[v] \in [step: {"store"}, key: Keys, found: Findings]
            /\ Covers(elevations, view[v].found, 1) /\ Once(view[v].found)
        BY <2>3, Views DEF Store, ViewInv
      <3>2. found = view[v].found
        BY <2>3 DEF Store, Show, ViewInv
      <3> QED BY <3>1, <3>2, <1>5, ElevationsAssumption
    <2> QED BY <1>2, <1>3, <2>1, <2>2, <2>3
  <1> HIDE DEF found
  <1>7. \A n \in BelowFlight : found[n] > 1 => n \in raced
    BY <1>6 DEF Once
  <1>8. Nothing(found) => \A n \in BelowFlight : ~HasRowOfAge(n, 1)
    BY <1>6 DEF Nothing, Covers, HasRowOfAge
  <1>9. \A n \in BelowFlight : HasRowOfAge(n, Timeout) => found[n] > 0
    BY <1>6 DEF Covers, HasRowOfAge
  <1> QED BY <1>7, <1>8, <1>9 DEF found

(* The terrain below a flight is shown with each file once, but for files   *)
(* that two commands raced to import; with all that was imported before the *)
(* lifetime of the cache; and not as nothing once a file has been there for *)
(* a tick (get_elevations, the import of SRTM tiles), for any number of     *)
(* requests, commands and files.                                            *)
THEOREM TerrainShown == ElevationsSpec => ElevationsShown
  <1>1. ElevationsInv /\ [ElevationsNext]_tileVars =>
          [\A v \in Viewers : view[v].step # "shown" /\ view'[v].step = "shown" =>
             LET found == view'[v].found IN
             /\ \A n \in BelowFlight : found[n] > 1 => n \in raced
             /\ \A n \in BelowFlight : HasRowOfAge(n, Timeout) => found[n] > 0
             /\ Nothing(found) => \A n \in BelowFlight : ~HasRowOfAge(n, 1)]_tileVars
    BY ShownStep
  <1> QED BY <1>1, ElevationsInvInit, ElevationsInvStep, PTL DEF ElevationsSpec, ElevationsShown

------------------------------------------------------------------------------
(* Airports *)

AirportKeys == UNION {{list[k].key : k \in DOMAIN list} : list \in AirportLists}
Rows == [key: AirportKeys, place: Int, modified: Nat, valid: BOOLEAN]
Readings ==
  [step: {"read"}, date: Nat, list: AirportLists, at: Nat \ {0}, count: Nat, commit: BOOLEAN,
   session: Seq(Rows), flushed: Seq(Rows)]

AirportsTyped ==
  /\ airports \in Seq(Rows) /\ import.date \in Nat
  /\ \A a \in 1 .. Len(airports) : airports[a].modified <= import.date
  /\ import.step = "read" =>
       /\ import \in Readings
       /\ \A a \in 1 .. Len(airports) : airports[a].modified < import.date
       /\ \A a \in 1 .. Len(import.session) : import.session[a].modified <= import.date
       /\ Len(import.flushed) <= Len(import.session)

(* The airports of the list that the import has come to. *)
Done == {k \in 1 .. import.at - 1 : k <= Len(import.list) /\ import.list[k].type \in Types}

Untouched(a) == a \in 1 .. Len(airports) /\ import.session[a] = airports[a]

(* The row of airport k of the list: new, or a valid one that was near. *)
RowOf(a, k) ==
  /\ import.session[a] = Current(import.list[k], TRUE, import.date)
  /\ a \in 1 .. Len(airports) =>
       airports[a].valid /\ Distance(airports[a].place, import.list[k].place) <= Widest

(* Each airport has taken one row, which none has taken before; the query   *)
(* finds a row as it is or as it was before the import.                     *)
RowsTaken ==
  import.step = "read" /\ Separate(import.list) =>
    /\ Len(airports) <= Len(import.session)
    /\ \A a \in 1 .. Len(import.session) : Untouched(a) \/ \E k \in Done : RowOf(a, k)
    /\ \A k \in Done : \E a \in 1 .. Len(import.session) : RowOf(a, k)
    /\ \A k \in Done, a, b \in 1 .. Len(import.session) : RowOf(a, k) /\ RowOf(b, k) => a = b
    /\ \A a \in 1 .. Len(import.flushed) :
         \/ import.flushed[a] = import.session[a]
         \/ a \in 1 .. Len(airports) /\ import.flushed[a] = airports[a]

AirportsInv == AirportsTyped /\ RowsTaken /\ AirportsImported

LEMMA Distances ==
  ASSUME NEW p \in Int, NEW q \in Int, NEW r \in Int
  PROVE  /\ Distance(p, q) \in Nat /\ Distance(p, q) = Distance(q, p) /\ Distance(p, p) = 0
         /\ Distance(p, r) <= Distance(p, q) + Distance(q, r)
  BY DEF Distance

LEMMA Widths ==
  Widest \in Nat /\ Near \in Nat /\ Reach \in Nat /\ Near <= Widest /\ Reach <= Widest
  BY NearAssumption DEF Widest

LEMMA Waypoints ==
  ASSUME AirportsTyped, Reading
  PROVE  /\ import \in Readings /\ import.at \in DOMAIN import.list
         /\ import.at \in 1 .. Len(import.list) /\ Len(import.list) \in Nat
         /\ \A k \in 1 .. Len(import.list) : k \in DOMAIN import.list /\ import.list[k].place \in Int
         /\ Waypoint.place \in Int /\ Waypoint.key \in AirportKeys
  <1>1. import \in Readings /\ import.at <= Len(import.list)
    BY DEF AirportsTyped, Reading
  <1>2. import.list \in AirportLists /\ import.at \in Nat \ {0}
    BY <1>1 DEF Readings
  <1>3. /\ Len(import.list) \in Nat /\ DOMAIN import.list = 1 .. Len(import.list)
        /\ \A k \in DOMAIN import.list : import.list[k].place \in Int
    BY <1>2, ListsAssumption
  <1>4. import.at \in 1 .. Len(import.list)
    BY <1>1, <1>2, <1>3
  <1>5. import.list[import.at].key \in AirportKeys
    BY <1>2, <1>3, <1>4 DEF AirportKeys
  <1> QED BY <1>1, <1>3, <1>4, <1>5 DEF Waypoint

(* What is found for a waypoint is valid, and near it. *)
LEMMA RowFound ==
  ASSUME NEW flushed, NEW session, NEW w, NEW a \in Matches(flushed, session, w), a # NoAirport
  PROVE  /\ a \in DOMAIN flushed /\ flushed[a].valid
         /\ \/ Distance(session[a].place, w.place) <= Near
            \/ Distance(flushed[a].place, w.place) < Reach
  <1>1. PICK n \in OrNone({n \in Valid(flushed) : flushed[n].key = w.key}) :
          a \in IF n # NoAirport /\ SamePlace(session[n].place, w) THEN {n}
                ELSE OrNone(ByLocation(flushed, w.place))
    BY DEF Matches
  <1>2. CASE n # NoAirport /\ SamePlace(session[n].place, w)
    <2>1. a = n /\ Distance(session[a].place, w.place) <= Near
      BY <1>1, <1>2 DEF SamePlace
    <2>2. n \in Valid(flushed)
      BY <1>1, <1>2 DEF OrNone
    <2> QED BY <2>1, <2>2 DEF Valid
  <1>3. CASE ~(n # NoAirport /\ SamePlace(session[n].place, w))
    <2>1. a \in ByLocation(flushed, w.place)
      BY <1>1, <1>3 DEF OrNone
    <2> QED BY <2>1 DEF ByLocation, Valid
  <1> QED BY <1>2, <1>3

LEMMA AirportsInvInit == AirportsInit => AirportsInv
  <1> SUFFICES ASSUME AirportsInit PROVE AirportsInv
    OBVIOUS
  <1>1. airports = <<>> /\ import.step = "none" /\ import.date = 0
    BY DEF AirportsInit
  <1> QED BY <1>1 DEF AirportsInv, AirportsTyped, RowsTaken, AirportsImported

LEMMA ImportStarts ==
  ASSUME AirportsInv, StartImport
  PROVE  AirportsInv'
  <1>1. PICK list \in AirportLists, commit \in BOOLEAN :
          import' = [step |-> "read", date |-> import.date + 1, list |-> list, at |-> 1, count |-> 0,
                     commit |-> commit, session |-> airports, flushed |-> airports]
    BY DEF StartImport
  <1>2. airports' = airports /\ airports \in Seq(Rows) /\ import.date \in Nat
        /\ Len(airports) \in Nat
        /\ \A a \in 1 .. Len(airports) : airports[a].modified \in Nat /\ airports[a].modified <= import.date
    <2>1. airports' = airports /\ airports \in Seq(Rows) /\ import.date \in Nat
          /\ Len(airports) \in Nat
          /\ \A a \in 1 .. Len(airports) : airports[a].modified <= import.date
      BY DEF AirportsInv, AirportsTyped, StartImport
    <2>2. \A a \in 1 .. Len(airports) : airports[a] \in Rows
      BY <2>1, ElementOfSeq
    <2> QED BY <2>1, <2>2 DEF Rows
  <1>3. import' \in Readings
    BY <1>1, <1>2 DEF Readings
  <1>4. /\ import'.session = airports /\ import'.flushed = airports /\ import'.step = "read"
        /\ import'.date = import.date + 1 /\ import'.at = 1
    BY <1>1
  <1>5. \A a \in 1 .. Len(airports) :
          airports[a].modified <= import.date + 1 /\ airports[a].modified < import.date + 1
    BY <1>2
  <1>6. AirportsTyped'
    BY <1>2, <1>3, <1>4, <1>5 DEF AirportsTyped
  <1>7. Done' = {}
    BY <1>4 DEF Done
  <1>8. RowsTaken'
    BY <1>2, <1>4, <1>7 DEF RowsTaken, Untouched
  <1>9. AirportsImported'
    BY <1>4 DEF AirportsImported
  <1> QED BY <1>6, <1>8, <1>9 DEF AirportsInv

LEMMA PassesOver ==
  ASSUME AirportsInv, PassOver
  PROVE  AirportsInv'
  <1>1. /\ Reading /\ Waypoint.type \notin Types /\ airports' = airports
        /\ import' = [import EXCEPT !.at = @ + 1] /\ import.step = "read"
    BY DEF PassOver, Reading
  <1>2. import \in Readings /\ import.at \in 1 .. Len(import.list) /\ Len(import.list) \in Nat
    BY <1>1, Waypoints DEF AirportsInv
  <1>3. /\ import' \in Readings /\ import'.at = import.at + 1
        /\ import'.session = import.session /\ import'.flushed = import.flushed
        /\ import'.date = import.date /\ import'.list = import.list /\ import'.step = "read"
    BY <1>1, <1>2 DEF Readings
  <1>4. Done' = Done
    <2>1. \A k \in 1 .. import.at : k \in 1 .. import.at - 1 \/ k = import.at
      BY <1>2
    <2>2. 1 .. import'.at - 1 = 1 .. import.at /\ 1 .. import.at - 1 \subseteq 1 .. import.at
      BY <1>2, <1>3
    <2>3. import.list[import.at].type \notin Types
      BY <1>1 DEF Waypoint
    <2> QED BY <1>3, <2>1, <2>2, <2>3 DEF Done
  <1>5. AirportsTyped'
    BY <1>1, <1>3 DEF AirportsInv, AirportsTyped
  <1>6. RowsTaken'
    BY <1>1, <1>3, <1>4 DEF AirportsInv, RowsTaken, Untouched, RowOf, Current
  <1>7. AirportsImported'
    BY <1>3 DEF AirportsImported
  <1> QED BY <1>5, <1>6, <1>7 DEF AirportsInv

(* The row that is found for a waypoint has not been taken by another: the  *)
(* airports of the list are too far from each other.                        *)
LEMMA FoundUntouched ==
  ASSUME AirportsInv, Reading, Separate(import.list), Waypoint.type \in Types,
         NEW flushed, flushed \in {import.session, import.flushed},
         NEW a \in Matches(flushed, import.session, Waypoint), a # NoAirport
  PROVE  /\ a \in 1 .. Len(import.session) /\ a \in 1 .. Len(airports)
         /\ import.session[a] = airports[a] /\ airports[a].valid
         /\ Distance(airports[a].place, Waypoint.place) <= Widest
  <1> DEFINE s == import.session
             w == Waypoint
  <1>1. /\ import \in Readings /\ w.place \in Int /\ w = import.list[import.at]
        /\ import.at \in 1 .. Len(import.list) /\ Len(import.list) \in Nat
        /\ \A k \in 1 .. Len(import.list) : k \in DOMAIN import.list /\ import.list[k].place \in Int
    BY Waypoints DEF AirportsInv, Waypoint
  <1>2. /\ s \in Seq(Rows) /\ import.flushed \in Seq(Rows) /\ airports \in Seq(Rows)
        /\ Len(s) \in Nat /\ Len(import.flushed) \in Nat /\ Len(airports) \in Nat
        /\ Len(import.flushed) <= Len(s)
        /\ DOMAIN s = 1 .. Len(s) /\ DOMAIN import.flushed = 1 .. Len(import.flushed)
    BY <1>1 DEF Readings, AirportsInv, AirportsTyped, Reading
  <1>3. /\ a \in DOMAIN flushed /\ flushed[a].valid
        /\ Distance(s[a].place, w.place) <= Near \/ Distance(flushed[a].place, w.place) < Reach
    BY RowFound
  <1>4. a \in 1 .. Len(s) /\ flushed[a] \in Rows /\ s[a] \in Rows
    <2>1. a \in 1 .. Len(flushed) /\ a \in 1 .. Len(s) /\ flushed \in Seq(Rows)
      BY <1>2, <1>3
    <2> QED BY <2>1, <1>2, ElementOfSeq
  <1>5. /\ Untouched(a) \/ \E k \in Done : RowOf(a, k)
        /\ \/ flushed[a] = s[a]
           \/ a \in 1 .. Len(airports) /\ flushed[a] = airports[a]
    <2>1. a \in 1 .. Len(flushed)
      BY <1>2, <1>3
    <2> QED BY <2>1, <1>4 DEF AirportsInv, RowsTaken, Reading
  <1>6. ASSUME NEW k \in Done, RowOf(a, k)
        PROVE  FALSE
    <2>1. /\ k \in 1 .. Len(import.list) /\ k # import.at /\ import.list[k].type \in Types
          /\ import.list[k].place \in Int
      <3>1. k \in 1 .. import.at - 1 /\ k <= Len(import.list) /\ import.list[k].type \in Types
        BY DEF Done
      <3>2. k \in 1 .. Len(import.list) /\ k # import.at
        BY <3>1, <1>1
      <3> QED BY <3>1, <3>2, <1>1
    <2>2. Distance(import.list[k].place, w.place) > 2 * Widest
      BY <2>1, <1>1 DEF Separate
    <2>3. s[a].place = import.list[k].place
      BY <1>6 DEF RowOf, Current
    <2>4. Distance(s[a].place, w.place) \in Nat /\ Widest \in Nat
      BY <2>1, <2>3, <1>1, Widths, Distances
    <2>5. a \in 1 .. Len(airports) /\ flushed[a] = airports[a] /\ Distance(airports[a].place, w.place) < Reach
      BY <2>2, <2>3, <2>4, <1>3, <1>5, Widths
    <2>6. Distance(airports[a].place, import.list[k].place) <= Widest
      BY <2>5, <1>6 DEF RowOf
    <2>7. airports[a].place \in Int
      BY <2>5, <1>4 DEF Rows
    <2> DEFINE x == Distance(airports[a].place, w.place)
               y == Distance(airports[a].place, import.list[k].place)
               z == Distance(import.list[k].place, w.place)
    <2>8. x \in Nat /\ y \in Nat /\ z \in Nat /\ z <= y + x
      <3>1. Distance(import.list[k].place, airports[a].place) = y
        BY <2>1, <2>7, Distances
      <3> QED BY <3>1, <2>1, <2>7, <1>1, Distances
    <2>9. x < Reach /\ y <= Widest /\ z > 2 * Widest
      BY <2>2, <2>5, <2>6
    <2> HIDE DEF x, y, z
    <2> QED BY <2>8, <2>9, Widths
  <1>7. a \in 1 .. Len(airports) /\ s[a] = airports[a] /\ flushed[a] = airports[a]
    BY <1>5, <1>6 DEF Untouched
  <1>8. Distance(airports[a].place, w.place) \in Nat
    BY <1>1, <1>4, <1>7, Distances DEF Rows
  <1> QED BY <1>3, <1>4, <1>7, <1>8, Widths

LEMMA AirportTaken ==
  ASSUME AirportsInv, ImportAirport
  PROVE  AirportsInv'
  <1> DEFINE s == import.session
             w == Waypoint
             new == Current(w, TRUE, import.date)
  <1>1. Reading /\ w.type \in Types /\ import.step = "read" /\ airports' = airports
    BY DEF ImportAirport, Reading
  <1>2. PICK flushed \in {import.session, import.flushed} :
        \E a \in Matches(flushed, s, w) :
          LET session == IF a = NoAirport THEN Append(s, new)
                         ELSE [s EXCEPT ![a] = Current(w, @.valid, import.date)]
          IN import' = [import EXCEPT !.at = @ + 1, !.count = import.count + 1,
                                      !.session = session, !.flushed = flushed]
    BY DEF ImportAirport
  <1>3. PICK a \in Matches(flushed, s, w) :
          LET session == IF a = NoAirport THEN Append(s, new)
                         ELSE [s EXCEPT ![a] = Current(w, @.valid, import.date)]
          IN import' = [import EXCEPT !.at = @ + 1, !.count = import.count + 1,
                                      !.session = session, !.flushed = flushed]
    BY <1>2
  <1> DEFINE t == IF a = NoAirport THEN Append(s, new)
                  ELSE [s EXCEPT ![a] = Current(w, @.valid, import.date)]
  <1>4. /\ import \in Readings /\ w.place \in Int /\ w.key \in AirportKeys /\ w = import.list[import.at]
        /\ import.at \in 1 .. Len(import.list) /\ Len(import.list) \in Nat
        /\ \A k \in 1 .. Len(import.list) : k \in DOMAIN import.list /\ import.list[k].place \in Int
    BY <1>1, Waypoints DEF AirportsInv, Waypoint
  <1>5. /\ s \in Seq(Rows) /\ import.flushed \in Seq(Rows) /\ airports \in Seq(Rows)
        /\ Len(s) \in Nat /\ Len(import.flushed) \in Nat /\ Len(airports) \in Nat
        /\ Len(import.flushed) <= Len(s)
        /\ DOMAIN s = 1 .. Len(s) /\ DOMAIN import.flushed = 1 .. Len(import.flushed)
        /\ import.date \in Nat
        /\ \A b \in 1 .. Len(airports) : airports[b].modified < import.date
        /\ \A b \in 1 .. Len(s) : s[b].modified <= import.date
    <2>1. /\ s \in Seq(Rows) /\ import.flushed \in Seq(Rows) /\ airports \in Seq(Rows)
          /\ import.date \in Nat
      BY <1>4 DEF Readings, AirportsInv, AirportsTyped
    <2>2. /\ Len(import.flushed) <= Len(s)
          /\ \A b \in 1 .. Len(airports) : airports[b].modified < import.date
          /\ \A b \in 1 .. Len(s) : s[b].modified <= import.date
      BY <1>1 DEF AirportsInv, AirportsTyped
    <2>3. /\ Len(s) \in Nat /\ Len(import.flushed) \in Nat /\ Len(airports) \in Nat
          /\ DOMAIN s = 1 .. Len(s) /\ DOMAIN import.flushed = 1 .. Len(import.flushed)
      BY <2>1, LenProperties
    <2> QED BY <2>1, <2>2, <2>3
  <1>6. flushed \in Seq(Rows) /\ Len(flushed) \in Nat /\ DOMAIN flushed = 1 .. Len(flushed)
        /\ Len(flushed) <= Len(s)
    BY <1>5
  <1>7. a # NoAirport => a \in 1 .. Len(s) /\ s[a] \in Rows
    <2>1. a # NoAirport => a \in DOMAIN flushed
      BY RowFound
    <2>2. a # NoAirport => a \in 1 .. Len(s)
      BY <2>1, <1>5, <1>6
    <2> QED BY <2>2, <1>5, ElementOfSeq
  <1> DEFINE e == IF a = NoAirport THEN Len(s) + 1 ELSE a
             v == IF a = NoAirport THEN TRUE ELSE s[a].valid
             n == IF a = NoAirport THEN Len(s) + 1 ELSE Len(s)
  <1>8. /\ v \in BOOLEAN /\ Current(w, v, import.date) \in Rows /\ new \in Rows
        /\ Current(w, v, import.date).modified = import.date
    BY <1>4, <1>5, <1>7 DEF Rows, Current
  <1>9. /\ t \in Seq(Rows) /\ Len(t) = n /\ n \in Nat /\ e \in 1 .. n /\ Len(s) <= n
        /\ 1 .. Len(s) \subseteq 1 .. n /\ \A b \in 1 .. n : b \in 1 .. Len(s) \/ b = e
        /\ t[e] = Current(w, v, import.date)
        /\ \A b \in 1 .. Len(s) : b # e => t[b] = s[b]
    <2>1. CASE a = NoAirport
      <3>1. t = Append(s, new) /\ v = TRUE /\ e = Len(s) + 1 /\ n = Len(s) + 1
        BY <2>1
      <3>2. /\ e \in 1 .. n /\ n \in Nat /\ Len(s) <= n /\ e \notin 1 .. Len(s)
            /\ 1 .. Len(s) \subseteq 1 .. n /\ \A b \in 1 .. n : b \in 1 .. Len(s) \/ b = e
        BY <3>1, <1>5
      <3> HIDE DEF t, v, e, n, new
      <3>3. t \in Seq(Rows) /\ Len(t) = n /\ t[e] = new /\ \A b \in 1 .. Len(s) : t[b] = s[b]
        BY <3>1, <1>5, <1>8, AppendProperties
      <3>4. new = Current(w, v, import.date)
        BY <3>1 DEF new
      <3> QED BY <3>1, <3>2, <3>3, <3>4
    <2>2. CASE a # NoAirport
      <3>1. t = [s EXCEPT ![a] = Current(w, v, import.date)] /\ e = a /\ n = Len(s) /\ a \in 1 .. Len(s)
        BY <2>2, <1>7
      <3>2. /\ e \in 1 .. n /\ n \in Nat /\ Len(s) <= n
            /\ 1 .. Len(s) \subseteq 1 .. n /\ \A b \in 1 .. n : b \in 1 .. Len(s) \/ b = e
        BY <3>1, <1>5
      <3> HIDE DEF t, v, e, n
      <3>3. /\ t \in Seq(Rows) /\ Len(t) = Len(s)
            /\ \A b \in 1 .. Len(s) : t[b] = IF b = a THEN Current(w, v, import.date) ELSE s[b]
        BY <3>1, <1>5, <1>8, ExceptSeq
      <3> QED BY <3>1, <3>2, <3>3, <1>5
    <2> QED BY <2>1, <2>2
  <1>10. import' = [import EXCEPT !.at = @ + 1, !.count = import.count + 1,
                                  !.session = t, !.flushed = flushed]
    BY <1>3
  <1> HIDE DEF t, e, v, n, new
  <1>11. /\ import' \in Readings /\ import'.at = import.at + 1
         /\ import'.session = t /\ import'.flushed = flushed
         /\ import'.date = import.date /\ import'.list = import.list /\ import'.step = "read"
    <2>1. /\ import \in Readings /\ import.count + 1 \in Nat /\ import.at + 1 \in Nat \ {0}
          /\ t \in Seq(Rows) /\ flushed \in Seq(Rows)
      BY <1>4, <1>6, <1>9 DEF Readings
    <2> QED BY <2>1, <1>10 DEF Readings
  <1>12. AirportsTyped'
    <2>1. \A b \in 1 .. Len(t) : t[b].modified <= import.date
      <3> SUFFICES ASSUME NEW b \in 1 .. Len(t) PROVE t[b].modified <= import.date
        OBVIOUS
      <3>1. b \in 1 .. Len(s) \/ b = e
        BY <1>9
      <3>2. CASE b = e
        BY <3>2, <1>5, <1>8, <1>9
      <3>3. CASE b # e
        BY <3>1, <3>3, <1>5, <1>9
      <3> QED BY <3>2, <3>3
    <2>2. Len(flushed) <= Len(t)
      BY <1>5, <1>6, <1>9
    <2> QED BY <2>1, <2>2, <1>1, <1>5, <1>11 DEF AirportsInv, AirportsTyped
  <1>13. ASSUME Separate(import.list)
         PROVE  RowsTaken'
    <2>0. PICK g, m : g = e /\ m = import.at
      OBVIOUS
    <2>1. a # NoAirport =>
            /\ a \in 1 .. Len(airports) /\ s[a] = airports[a] /\ airports[a].valid
            /\ Distance(airports[a].place, w.place) <= Widest
      BY <1>1, <1>13, FoundUntouched
    <2>2. /\ Len(airports) <= Len(s)
          /\ \A b \in 1 .. Len(s) : Untouched(b) \/ \E k \in Done : RowOf(b, k)
          /\ \A k \in Done : \E b \in 1 .. Len(s) : RowOf(b, k)
          /\ \A k \in Done, b, c \in 1 .. Len(s) : RowOf(b, k) /\ RowOf(c, k) => b = c
          /\ \A b \in 1 .. Len(import.flushed) :
               \/ import.flushed[b] = s[b]
               \/ b \in 1 .. Len(airports) /\ import.flushed[b] = airports[b]
      BY <1>1, <1>13 DEF AirportsInv, RowsTaken
    <2>3. v = TRUE /\ (g \in 1 .. Len(s) => g \in 1 .. Len(airports) /\ s[g] = airports[g])
          /\ (g \in 1 .. Len(airports) => a # NoAirport /\ g = a)
      BY <2>1, <2>2, <1>5, <1>8, <2>0 DEF v, e
    <2>4. Done' = Done \union {m} /\ m \notin Done
      <3>1. \A k \in 1 .. import.at : k \in 1 .. import.at - 1 \/ k = import.at
        BY <1>4
      <3>2. 1 .. import'.at - 1 = 1 .. import.at /\ 1 .. import.at - 1 \subseteq 1 .. import.at
            /\ import.at \in 1 .. import.at /\ import.at \notin 1 .. import.at - 1
        BY <1>4, <1>11
      <3>3. import.list[import.at].type \in Types /\ import.at <= Len(import.list)
        BY <1>1, <1>4
      <3> QED BY <1>11, <2>0, <3>1, <3>2, <3>3 DEF Done
    <2>5. RowOf(g, m)'
      BY <2>1, <2>3, <1>1, <1>4, <1>9, <2>0, <1>11 DEF RowOf
    <2>6. ASSUME NEW b \in 1 .. Len(s), b # g
          PROVE  /\ Untouched(b) => Untouched(b)'
                 /\ \A k \in Nat : RowOf(b, k)' <=> RowOf(b, k)
      BY <2>6, <1>1, <1>9, <2>0, <1>11 DEF Untouched, RowOf, Current
    <2>7. ASSUME NEW k \in Done
          PROVE  ~RowOf(g, k)' /\ (g \in 1 .. Len(s) => ~RowOf(g, k)) /\ k \in Nat
      <3>1. /\ k \in 1 .. Len(import.list) /\ k # import.at /\ import.list[k].type \in Types
            /\ import.list[k].place \in Int
        <4>1. k \in 1 .. import.at - 1 /\ k <= Len(import.list) /\ import.list[k].type \in Types
          BY DEF Done
        <4>2. k \in 1 .. Len(import.list) /\ k # import.at
          BY <4>1, <1>4
        <4> QED BY <4>1, <4>2, <1>4
      <3>2. import.list[k].key # w.key
        BY <3>1, <1>1, <1>4, <1>13 DEF Separate
      <3>3. ~RowOf(g, k)'
        BY <3>2, <1>9, <2>0, <1>11 DEF RowOf, Current
      <3>4. g \in 1 .. Len(s) => s[g].modified # import.date
        BY <2>3, <1>5
      <3>5. g \in 1 .. Len(s) => ~RowOf(g, k)
        BY <3>4 DEF RowOf, Current
      <3> QED BY <3>1, <3>3, <3>5
    <2>8. ASSUME NEW b \in 1 .. Len(s), b # g, RowOf(b, m)'
          PROVE  FALSE
      <3>1. s[b].modified = import.date /\ s[b].key = w.key
        BY SMTT(60), <2>8, <1>4, <1>9, <2>0, <1>11 DEF RowOf, Current
      <3>2. ~Untouched(b)
        BY <3>1, <1>5 DEF Untouched
      <3>3. PICK k \in Done : RowOf(b, k)
        BY <3>2, <2>2
      <3>4. import.list[k].key = w.key
        BY <3>1, <3>3 DEF RowOf, Current
      <3>5. k \in 1 .. Len(import.list) /\ k # import.at /\ import.list[k].type \in Types
        <4>1. k \in 1 .. import.at - 1 /\ k <= Len(import.list) /\ import.list[k].type \in Types
          BY DEF Done
        <4> QED BY <4>1, <1>4
      <3> QED BY <3>4, <3>5, <1>1, <1>4, <1>13 DEF Separate
    <2>9. Len(airports) <= n
      BY <2>2, <1>5, <1>9, <2>0
    <2>10. \A b \in 1 .. n : Untouched(b)' \/ \E k \in Done' : RowOf(b, k)'
      BY <2>2, <2>4, <2>5, <2>6, <2>7, <1>9, <2>0
    <2>11. \A k \in Done' : \E b \in 1 .. n : RowOf(b, k)'
      BY <2>2, <2>4, <2>5, <2>6, <2>7, <1>9, <2>0
    <2>12. ASSUME NEW k \in Done', NEW b \in 1 .. n, NEW c \in 1 .. n, RowOf(b, k)', RowOf(c, k)'
           PROVE  b = c
      <3>1. CASE k = m
        BY <3>1, <2>8, <2>12, <1>9, <2>0
      <3>2. CASE k \in Done
        <4>1. b # g /\ c # g
          BY <3>2, <2>7, <2>12
        <4>2. b \in 1 .. Len(s) /\ c \in 1 .. Len(s) /\ RowOf(b, k) /\ RowOf(c, k)
          BY <4>1, <3>2, <2>6, <2>7, <2>12, <1>9, <2>0
        <4> QED BY <4>2, <3>2, <2>2
      <3> QED BY <3>1, <3>2, <2>4
    <2>13. ASSUME NEW b \in 1 .. Len(flushed)
           PROVE  flushed[b] = t[b] \/ (b \in 1 .. Len(airports) /\ flushed[b] = airports[b])
      <3>1. b \in 1 .. Len(s)
        BY <1>5, <1>6
      <3>2. flushed[b] = s[b] \/ (b \in 1 .. Len(airports) /\ flushed[b] = airports[b])
        BY <2>2
      <3>3. CASE b = g
        BY <3>1, <3>2, <3>3, <2>3
      <3>4. CASE b # g
        BY <3>1, <3>2, <3>4, <1>9, <2>0
      <3> QED BY <3>3, <3>4
    <2> QED BY <2>9, <2>10, <2>11, <2>12, <2>13, <1>1, <1>9, <2>0, <1>11 DEF RowsTaken
  <1>14. RowsTaken'
    BY <1>11, <1>13 DEF RowsTaken
  <1>15. AirportsImported'
    BY <1>11 DEF AirportsImported
  <1> QED BY <1>12, <1>14, <1>15 DEF AirportsInv

(* Valid rows at the end of an import are those that its airports took.     *)
LEMMA ImportFinishes ==
  ASSUME AirportsInv, FinishImport
  PROVE  /\ AirportsInv'
         /\ Separate(import.list) =>
              \A a \in DOMAIN airports : /\ Distance(airports[a].place, airports'[a].place) <= Widest
                                         /\ airports'[a].valid => airports[a].valid
  <1> DEFINE s == import.session
             rows == [a \in DOMAIN s |->
                        [s[a] EXCEPT !.valid = @ /\ a \notin Outdated(import.flushed, s)]]
             list == import.list
  <1>1. /\ import.step = "read" /\ import.at > Len(list)
        /\ airports' = IF import.commit THEN rows ELSE airports
        /\ import' = [step |-> "done", date |-> import.date, list |-> list, commit |-> import.commit]
    BY DEF FinishImport
  <1>2. /\ import \in Readings /\ list \in AirportLists /\ s \in Seq(Rows) /\ airports \in Seq(Rows)
        /\ Len(s) \in Nat /\ DOMAIN s = 1 .. Len(s)
        /\ Len(airports) \in Nat /\ DOMAIN airports = 1 .. Len(airports)
        /\ import.date \in Nat /\ import.at \in Nat \ {0} /\ import.commit \in BOOLEAN
        /\ \A a \in 1 .. Len(airports) : airports[a].modified < import.date
        /\ \A a \in 1 .. Len(s) : s[a].modified <= import.date
    BY <1>1 DEF AirportsInv, AirportsTyped, Readings
  <1>3. /\ Len(list) \in Nat /\ DOMAIN list = 1 .. Len(list)
        /\ \A k \in 1 .. Len(list) : list[k].place \in Int
    BY <1>2, ListsAssumption
  <1>4. /\ \A a \in 1 .. Len(s) : s[a] \in Rows
        /\ \A a \in 1 .. Len(airports) : airports[a] \in Rows
    BY <1>2, ElementOfSeq
  <1>5. ASSUME NEW a \in 1 .. Len(s)
        PROVE  /\ rows[a] \in Rows /\ rows[a].key = s[a].key /\ rows[a].place = s[a].place
               /\ rows[a].modified = s[a].modified
               /\ rows[a].valid <=> s[a].valid /\ s[a].modified >= import.date
    <2>1. a \in Outdated(import.flushed, s) <=> s[a].valid /\ s[a].modified < import.date
      BY <1>2 DEF Outdated, Valid
    <2>2. s[a].modified \in Nat /\ s[a].valid \in BOOLEAN
      BY <1>4 DEF Rows
    <2>3. (s[a].valid /\ a \notin Outdated(import.flushed, s))
            <=> (s[a].valid /\ s[a].modified >= import.date)
      BY <2>1, <2>2, <1>2
    <2>4. rows[a] = [s[a] EXCEPT !.valid = @ /\ a \notin Outdated(import.flushed, s)]
      BY <1>2
    <2> HIDE DEF rows
    <2>5. /\ rows[a] \in Rows /\ rows[a].key = s[a].key /\ rows[a].place = s[a].place
          /\ rows[a].modified = s[a].modified
          /\ rows[a].valid = (s[a].valid /\ a \notin Outdated(import.flushed, s))
      BY <2>4, <1>4 DEF Rows
    <2> QED BY <2>3, <2>5
  <1>6. rows \in Seq(Rows) /\ Len(rows) = Len(s) /\ DOMAIN rows = 1 .. Len(s)
    <2>1. DOMAIN rows = 1 .. Len(s) /\ rows \in [1 .. Len(s) -> Rows]
      <3>1. rows = [a \in 1 .. Len(s) |-> rows[a]]
        BY <1>2
      <3> HIDE DEF rows
      <3> QED BY <3>1, <1>5
    <2> HIDE DEF rows
    <2>2. PICK m \in Nat : m = Len(s) /\ DOMAIN rows = 1 .. m /\ rows \in [1 .. m -> Rows]
      BY <2>1, <1>2
    <2>3. rows \in Seq(Rows)
      BY <2>2
    <2>4. Len(rows) = m
      BY <2>2, <2>3, LenProperties
    <2> QED BY <2>2, <2>3, <2>4
  <1> HIDE DEF rows
  <1>7. AirportsTyped'
    <2>1. import'.step = "done" /\ import'.date = import.date
      BY <1>1
    <2>2. CASE import.commit
      BY <2>1, <2>2, <1>1, <1>2, <1>5, <1>6 DEF AirportsTyped
    <2>3. CASE ~import.commit
      BY <2>1, <2>3, <1>1, <1>2 DEF AirportsInv, AirportsTyped
    <2> QED BY <2>2, <2>3
  <1>8. RowsTaken'
    BY <1>1 DEF RowsTaken
  <1>9. ASSUME Separate(list)
        PROVE  /\ Len(airports) <= Len(s)
               /\ \A a \in 1 .. Len(s) : Untouched(a) \/ \E k \in Done : RowOf(a, k)
               /\ \A k \in Done : \E a \in 1 .. Len(s) : RowOf(a, k)
               /\ \A k \in Done, a, b \in 1 .. Len(s) : RowOf(a, k) /\ RowOf(b, k) => a = b
               /\ Done = {k \in 1 .. Len(list) : list[k].type \in Types}
    <2>1. \A k \in Nat : k \in 1 .. import.at - 1 /\ k <= Len(list) <=> k \in 1 .. Len(list)
      BY <1>1, <1>2, <1>3
    <2>2. Done = {k \in 1 .. Len(list) : list[k].type \in Types}
      BY <2>1 DEF Done
    <2> QED BY <2>2, <1>1, <1>9 DEF AirportsInv, RowsTaken
  <1>10. ASSUME Separate(list), NEW a \in 1 .. Len(s), NEW k \in Done, RowOf(a, k)
         PROVE  /\ rows[a].valid /\ rows[a].key = list[k].key /\ rows[a].place = list[k].place
                /\ k \in DOMAIN list /\ list[k] \in Listed(list)
    <2>1. s[a] = Current(list[k], TRUE, import.date)
      BY <1>10 DEF RowOf
    <2>2. /\ s[a].valid /\ s[a].modified >= import.date
          /\ s[a].key = list[k].key /\ s[a].place = list[k].place
      BY <2>1, <1>2 DEF Current
    <2>3. rows[a].valid /\ rows[a].key = list[k].key /\ rows[a].place = list[k].place
      BY <2>2, <1>5
    <2>4. k \in DOMAIN list /\ list[k].type \in Types
      BY <1>3, <1>9, <1>10
    <2> QED BY <2>3, <2>4 DEF Listed
  <1>11. ASSUME Separate(list), NEW a \in 1 .. Len(s), rows[a].valid
         PROVE  \E k \in Done : RowOf(a, k)
    <2>1. ~Untouched(a)
      <3>1. s[a].modified >= import.date
        BY <1>5, <1>11
      <3>2. ASSUME NEW b \in 1 .. Len(airports)
            PROVE  ~(airports[b].modified >= import.date)
        <4>1. airports[b].modified \in Nat /\ airports[b].modified < import.date
          BY <1>2, <1>4 DEF Rows
        <4> QED BY <4>1, <1>2
      <3> QED BY <3>1, <3>2 DEF Untouched
    <2> QED BY <2>1, <1>9, <1>11
  <1>12. ASSUME import.commit, Separate(list)
         PROVE  AirportsImported'
    <2>1. /\ airports' = rows /\ import'.list = list
          /\ Valid(airports') = {a \in 1 .. Len(s) : rows[a].valid}
      BY <1>1, <1>6, <1>12 DEF Valid
    <2> DEFINE V == {a \in 1 .. Len(s) : rows[a].valid}
               L == Listed(list)
    <2>2. \A w \in L : \E k \in Done : w = list[k]
      BY <1>3, <1>9, <1>12 DEF Listed
    <2>3. {<<rows[a].key, rows[a].place>> : a \in V} = {<<w.key, w.place>> : w \in L}
      <3>1. ASSUME NEW a \in V
            PROVE  \E w \in L : <<rows[a].key, rows[a].place>> = <<w.key, w.place>>
        <4>1. PICK k \in Done : RowOf(a, k)
          BY <1>11, <1>12
        <4> QED BY <4>1, <1>10, <1>12
      <3>2. ASSUME NEW w \in L
            PROVE  \E a \in V : <<rows[a].key, rows[a].place>> = <<w.key, w.place>>
        <4>1. PICK k \in Done : w = list[k]
          BY <2>2
        <4>2. PICK a \in 1 .. Len(s) : RowOf(a, k)
          BY <1>9, <1>12
        <4> QED BY <4>1, <4>2, <1>10, <1>12
      <3> HIDE DEF V, L
      <3> QED BY <3>1, <3>2
    <2>4. Cardinality(V) = Cardinality(L)
      <3> DEFINE f == [a \in V |-> CHOOSE w \in L : w.key = rows[a].key]
      <3>1. ASSUME NEW k \in Done, NEW l \in Done, list[k].key = list[l].key
            PROVE  k = l
        BY <3>1, <1>3, <1>9, <1>12 DEF Separate
      <3>2. ASSUME NEW a \in V, NEW k \in Done, RowOf(a, k)
            PROVE  f[a] = list[k] /\ list[k] \in L
        <4>1. list[k] \in L /\ list[k].key = rows[a].key
          BY <3>2, <1>10, <1>12
        <4>2. \A w \in L : w.key = rows[a].key => w = list[k]
          BY <4>1, <2>2, <3>1
        <4> HIDE DEF V, L
        <4> QED BY <4>1, <4>2
      <3>3. \A a \in V : \E k \in Done : RowOf(a, k)
        BY <1>11, <1>12
      <3>4. f \in [V -> L]
        <4>1. \A a \in V : f[a] \in L
          BY <3>2, <3>3
        <4> HIDE DEF V, L
        <4> QED BY <4>1
      <3>5. \A w \in L : \E a \in V : f[a] = w
        <4> SUFFICES ASSUME NEW w \in L PROVE \E a \in V : f[a] = w
          OBVIOUS
        <4>1. PICK k \in Done : w = list[k]
          BY <2>2
        <4>2. PICK a \in 1 .. Len(s) : RowOf(a, k)
          BY <1>9, <1>12
        <4>3. a \in V
          BY <4>2, <1>10, <1>12
        <4> HIDE DEF f
        <4> QED BY <4>1, <4>2, <4>3, <3>2
      <3>6. \A a, b \in V : f[a] = f[b] => a = b
        <4> SUFFICES ASSUME NEW a \in V, NEW b \in V, f[a] = f[b] PROVE a = b
          OBVIOUS
        <4>1. PICK k \in Done : RowOf(a, k)
          BY <3>3
        <4>2. PICK l \in Done : RowOf(b, l)
          BY <3>3
        <4>3. f[a] = list[k] /\ f[b] = list[l]
          <5> HIDE DEF f
          <5> QED BY <4>1, <4>2, <3>2
        <4>4. k = l
          <5> HIDE DEF f
          <5> QED BY <4>3, <3>1
        <4> QED BY <4>1, <4>2, <4>4, <1>9, <1>12
      <3>7. IsFiniteSet(V)
        <4>1. IsFiniteSet(1 .. Len(s))
          BY <1>2, FS_Interval
        <4> QED BY <4>1, FS_Subset
      <3> HIDE DEF V, L, f
      <3>8. f \in Bijection(V, L)
        BY <3>4, <3>5, <3>6 DEF Bijection, Injection, Surjection, IsInjective
      <3>9. ExistsBijection(V, L)
        BY <3>8 DEF ExistsBijection
      <3> QED BY <3>7, <3>9, FS_Bijection
    <2> QED BY <2>1, <2>3, <2>4 DEF AirportsImported
  <1>13. AirportsImported'
    <2>1. import'.commit = import.commit /\ import'.list = list
      BY <1>1
    <2> QED BY <2>1, <1>12 DEF AirportsImported
  <1>14. ASSUME Separate(list), NEW a \in DOMAIN airports
         PROVE  /\ Distance(airports[a].place, airports'[a].place) <= Widest
                /\ airports'[a].valid => airports[a].valid
    <2>1. a \in 1 .. Len(airports) /\ a \in 1 .. Len(s) /\ airports[a] \in Rows
      BY <1>2, <1>4, <1>9, <1>14
    <2>2. Distance(airports[a].place, airports[a].place) = 0 /\ 0 <= Widest
      BY <2>1, Widths, Distances DEF Rows
    <2>3. CASE ~import.commit
      BY <2>2, <2>3, <1>1
    <2>4. CASE import.commit /\ Untouched(a)
      BY <2>1, <2>2, <2>4, <1>1, <1>5 DEF Untouched
    <2>5. ASSUME import.commit, NEW k \in Done, RowOf(a, k)
          PROVE  /\ Distance(airports[a].place, airports'[a].place) <= Widest
                 /\ airports'[a].valid => airports[a].valid
      BY <2>1, <2>5, <1>1, <1>10, <1>14 DEF RowOf
    <2> QED BY <2>1, <2>3, <2>4, <2>5, <1>9, <1>14
  <1> QED BY <1>7, <1>8, <1>13, <1>14 DEF AirportsInv

LEMMA AirportsInvStep == AirportsInv /\ [AirportsNext]_airportVars => AirportsInv'
  <1> SUFFICES ASSUME AirportsInv, [AirportsNext]_airportVars PROVE AirportsInv'
    OBVIOUS
  <1>1. ASSUME FailImport PROVE AirportsInv'
    <2>1. /\ airports' = airports /\ import'.step = "none" /\ import'.date = import.date
      BY <1>1 DEF FailImport
    <2> QED BY <2>1 DEF AirportsInv, AirportsTyped, RowsTaken, AirportsImported
  <1>2. ASSUME UNCHANGED airportVars PROVE AirportsInv'
    <2>1. /\ Done' = Done
          /\ \A a, k : (Untouched(a)' <=> Untouched(a)) /\ (RowOf(a, k)' <=> RowOf(a, k))
      BY <1>2 DEF airportVars, Done, Untouched, RowOf
    <2>2. AirportsTyped' /\ RowsTaken'
      BY <2>1, <1>2 DEF airportVars, AirportsInv, AirportsTyped, RowsTaken
    <2>3. AirportsImported'
      BY <1>2 DEF airportVars, AirportsInv, AirportsImported, Valid
    <2> QED BY <2>2, <2>3 DEF AirportsInv
  <1> QED BY <1>1, <1>2, ImportStarts, PassesOver, AirportTaken, ImportFinishes DEF AirportsNext

LEMMA AirportsStayStep ==
  ASSUME AirportsInv, [AirportsNext]_airportVars
  PROVE  [import.step = "read" /\ Separate(import.list) =>
            \A a \in DOMAIN airports :
              /\ Distance(airports[a].place, airports'[a].place) <= Widest
              /\ airports'[a].valid => airports[a].valid]_airportVars
  <1>1. CASE FinishImport
    BY <1>1, ImportFinishes
  <1>2. CASE airports' = airports
    <2>1. ASSUME NEW a \in DOMAIN airports
          PROVE  Distance(airports[a].place, airports[a].place) <= Widest
      <3>1. airports[a] \in Rows
        BY ElementOfSeq DEF AirportsInv, AirportsTyped
      <3> QED BY <3>1, Widths, Distances DEF Rows
    <2> QED BY <2>1, <1>2
  <1> QED BY <1>1, <1>2
          DEF AirportsNext, StartImport, PassOver, ImportAirport, FailImport, airportVars

(* After each import the valid rows are the airports of its list, each      *)
(* once, for any lists, rows and places, however airports are renamed,      *)
(* moved or come back (Welt2000.run).                                       *)
THEOREM AllAirportsImported == AirportsSpec => []AirportsImported
  <1>1. AirportsInv => AirportsImported
    BY DEF AirportsInv
  <1> QED BY <1>1, AirportsInvInit, AirportsInvStep, PTL DEF AirportsSpec

(* And no import moves the row of an airport by more than the longer of the *)
(* two distances that it matches with, 250 m by name and 0.0025 degrees by  *)
(* place, or takes an invalidated row back (distance, by_location).         *)
THEOREM AirportsStayInPlace == AirportsSpec => AirportsStay
  <1>1. AirportsInv /\ [AirportsNext]_airportVars =>
          [import.step = "read" /\ Separate(import.list) =>
             \A a \in DOMAIN airports :
               /\ Distance(airports[a].place, airports'[a].place) <= Widest
               /\ airports'[a].valid => airports[a].valid]_airportVars
    BY AirportsStayStep
  <1> QED BY <1>1, AirportsInvInit, AirportsInvStep, PTL DEF AirportsSpec, AirportsStay

------------------------------------------------------------------------------
(* The part of a file that is scored: the periods that are gathered are     *)
(* glides, and a glide that is in none of them lies ahead, behind the start *)
(* of the current period or behind the last start of the engine.            *)
(* The start, when the changes before c are done. *)
StartInv(f, c, s) ==
  /\ s \in Nat /\ ScoringStart(f) \in Nat /\ ScoringStart(f) <= s
  /\ s = ScoringStart(f) \/ \E l \in 1 .. c - 1 : ~f.power[l].powered /\ s = f.power[l].time
  /\ \A l \in 1 .. c - 1 : ~f.power[l].powered => f.power[l].time <= s

(* Where the glides are that no period has yet. *)
LiesAhead(f, c, s, t) ==
  IF c > 1 /\ f.power[c - 1].powered THEN f.power[c - 1].time <= t ELSE s <= t

LEMMA PowerStates ==
  ASSUME NEW f, IsFlight(f)
  PROVE  /\ f.landing \in Nat /\ Len(f.power) \in Nat /\ DOMAIN f.power = 1 .. Len(f.power)
         /\ \A k \in 1 .. Len(f.power) :
              /\ f.power[k].time \in Nat /\ f.power[k].powered \in BOOLEAN
              /\ \A l \in 1 .. k - 1 : f.power[l].time < f.power[k].time
              /\ k > 1 => f.power[k].powered = ~f.power[k - 1].powered
         /\ f.power # <<>> <=> Len(f.power) > 0
  <1>1. /\ f.power \in Seq([time : Nat, powered : BOOLEAN]) /\ f.landing \in Nat
    BY DEF IsFlight
  <1>2. Len(f.power) \in Nat /\ DOMAIN f.power = 1 .. Len(f.power)
    BY <1>1
  <1>3. \A k \in 1 .. Len(f.power) : f.power[k] \in [time : Nat, powered : BOOLEAN]
    BY <1>1, ElementOfSeq
  <1>4. f.power # <<>> <=> Len(f.power) > 0
    BY <1>1, EmptySeq, <1>2
  <1>5. QED
    BY <1>1, <1>2, <1>3, <1>4 DEF IsFlight

LEMMA StartOfScoring ==
  ASSUME NEW f, IsFlight(f), Released(f)
  PROVE  /\ ScoringStart(f) \in Nat
         /\ Len(f.power) > 0 /\ ~f.power[1].powered => ScoringStart(f) <= f.power[1].time
  <1> DEFINE off == {k \in DOMAIN f.power : ~f.power[k].powered}
             least == CHOOSE k \in off : \A l \in off : k <= l
  <1>1. f.release \in Nat
    BY DEF IsFlight, Released
  <1>2. ScoringStart(f) = IF off = {} THEN f.release ELSE Smaller(f.power[least].time, f.release)
    BY DEF ScoringStart
  <1>3. CASE off = {}
    BY <1>1, <1>2, <1>3, PowerStates
  <1>4. CASE off # {}
    <2>1. \E k \in off : \A l \in off : k <= l
      <3>1. CASE 1 \in off
        BY <3>1, PowerStates
      <3>2. CASE 1 \notin off
        <4>1. PICK l \in off : TRUE
          BY <1>4
        <4>2. 2 \in 1 .. Len(f.power) /\ 1 \in 1 .. Len(f.power)
          BY <4>1, <3>2, PowerStates
        <4>3. f.power[1].powered
          BY <4>2, <3>2, PowerStates
        <4>4. 2 \in off
          BY <4>2, <4>3, PowerStates
        <4>5. QED
          BY <4>4, <3>2, PowerStates
      <3>3. QED
        BY <3>1, <3>2
    <2>2. least \in off /\ \A l \in off : least <= l
      BY <2>1
    <2>3. 1 \in off => least = 1
      BY <2>2, PowerStates
    <2>4. f.power[least].time \in Nat
      <3>1. least \in 1 .. Len(f.power)
        BY <2>2, PowerStates
      <3> HIDE DEF least
      <3>2. QED
        BY <3>1, PowerStates
    <2>5. Len(f.power) > 0 /\ ~f.power[1].powered => 1 \in off
      BY PowerStates
    <2> HIDE DEF least, off
    <2>6. QED
      BY <1>1, <1>2, <1>4, <2>3, <2>4, <2>5 DEF Smaller
  <1>5. QED
    BY <1>3, <1>4

LEMMA StartBegins ==
  ASSUME NEW f, IsFlight(f), Released(f)
  PROVE  StartInv(f, 1, ScoringStart(f))
  BY StartOfScoring DEF StartInv

LEMMA StartKept ==
  ASSUME NEW f, IsFlight(f), NEW c \in 1 .. Len(f.power), NEW s, StartInv(f, c, s)
  PROVE  StartInv(f, c + 1, IF ~f.power[c].powered /\ f.power[c].time > s
                            THEN f.power[c].time ELSE s)
  <1> DEFINE t == f.power[c].time
  <1>1. t \in Nat /\ c \in Nat /\ s \in Nat /\ Len(f.power) \in Nat
    BY PowerStates DEF StartInv
  <1>2. \A l \in 1 .. (c + 1) - 1 : l \in 1 .. c - 1 \/ l = c
    BY <1>1
  <1>3. 1 .. c - 1 \subseteq 1 .. (c + 1) - 1 /\ c \in 1 .. (c + 1) - 1
    BY <1>1
  <1>4. \A l \in 1 .. c - 1 : f.power[l].time \in Nat
    BY <1>1, PowerStates
  <1>5. ScoringStart(f) <= s
    BY DEF StartInv
  <1>6. CASE ~f.power[c].powered /\ t > s
    <2>1. \A l \in 1 .. c - 1 : f.power[l].time < t
      BY PowerStates
    <2>2. ScoringStart(f) <= t
      BY <1>1, <1>5, <1>6 DEF StartInv
    <2>3. \A l \in 1 .. (c + 1) - 1 : f.power[l].time <= t
      BY <1>1, <1>2, <1>4, <2>1
    <2>4. QED
      BY <1>1, <1>3, <1>6, <2>2, <2>3 DEF StartInv
  <1>7. CASE ~(~f.power[c].powered /\ t > s)
    <2>1. ASSUME NEW l \in 1 .. (c + 1) - 1, ~f.power[l].powered PROVE f.power[l].time <= s
      BY <1>1, <1>2, <1>7, <2>1 DEF StartInv
    <2>2. \/ s = ScoringStart(f)
          \/ \E l \in 1 .. (c + 1) - 1 : ~f.power[l].powered /\ s = f.power[l].time
      BY <1>3 DEF StartInv
    <2>3. (IF ~f.power[c].powered /\ t > s THEN t ELSE s) = s
      BY <1>7
    <2>4. StartInv(f, c + 1, s)
      BY <2>1, <2>2 DEF StartInv
    <2>5. QED
      BY <2>3, <2>4
  <1>8. QED
    BY <1>6, <1>7

(* Between the start and the next time that the engine starts it is off. *)
LEMMA PeriodGlides ==
  ASSUME NEW f, IsFlight(f), NEW c \in 1 .. Len(f.power), NEW s, StartInv(f, c, s),
         f.power[c].powered, NEW end \in Nat, end <= f.power[c].time, end <= f.landing, s < end
  PROVE  Glides(f, s, end)
  <1>1. s \in Nat /\ c \in Nat /\ Len(f.power) \in Nat /\ f.landing \in Nat
    BY PowerStates DEF StartInv
  <1>2. ASSUME NEW t \in s .. end - 1, Powered(f, t) PROVE FALSE
    <2>1. t \in Nat /\ s <= t /\ t < f.power[c].time
      BY <1>1, PowerStates
    <2>2. CASE t < f.power[1].time /\ ~f.power[1].powered
      <3>1. c > 1
        BY <1>1, <2>2
      <3>2. f.power[1].time <= s
        BY <1>1, <2>2, <3>1 DEF StartInv
      <3>3. f.power[1].time \in Nat
        BY <1>1, <3>1, PowerStates, SMTT(20)
      <3>4. QED
        BY <1>1, <2>1, <2>2, <3>2, <3>3
    <2>3. CASE \E k \in DOMAIN f.power : /\ f.power[k].powered /\ f.power[k].time <= t
                                         /\ k < Len(f.power) => t < f.power[k + 1].time
      <3>1. PICK k \in 1 .. Len(f.power) : /\ f.power[k].powered /\ f.power[k].time <= t
                                           /\ k < Len(f.power) => t < f.power[k + 1].time
        BY <2>3, PowerStates
      <3>2. k < c
        <4>1. f.power[k].time \in Nat /\ f.power[c].time \in Nat
          BY PowerStates
        <4>2. k # c
          BY <2>1, <3>1, <4>1
        <4>3. c < k => f.power[c].time < f.power[k].time
          BY <1>1, PowerStates
        <4>4. QED
          BY <1>1, <2>1, <3>1, <4>1, <4>2, <4>3
      <3>3. k + 1 \in 1 .. Len(f.power) /\ k + 1 > 1 /\ (k + 1) - 1 = k
        BY <1>1, <3>2
      <3>4. ~f.power[k + 1].powered /\ f.power[k + 1].time \in Nat
        BY <3>1, <3>3, PowerStates
      <3>5. k + 1 # c
        BY <3>4
      <3>6. k + 1 \in 1 .. c - 1
        BY <1>1, <3>2, <3>5
      <3>7. f.power[k + 1].time <= s /\ t < f.power[k + 1].time
        BY <1>1, <3>1, <3>2, <3>4, <3>6 DEF StartInv
      <3>8. QED
        BY <1>1, <2>1, <3>4, <3>7
    <2>4. QED
      BY <1>2, <2>2, <2>3 DEF Powered
  <1>3. QED
    BY <1>1, <1>2 DEF Glides, StartInv

(* So it is between the last stop and the landing, if it is off there. *)
LEMMA LastGlides ==
  ASSUME NEW f, IsFlight(f), NEW s, StartInv(f, Len(f.power) + 1, s), s < f.landing,
         ~Powered(f, f.landing - 1)
  PROVE  Glides(f, s, f.landing)
  <1>1. s \in Nat /\ Len(f.power) \in Nat /\ f.landing \in Nat
    BY PowerStates DEF StartInv
  <1>2. ASSUME NEW t \in s .. f.landing - 1, Powered(f, t) PROVE FALSE
    <2>1. t \in Nat /\ s <= t /\ t <= f.landing - 1 /\ f.landing - 1 \in Int
      BY <1>1
    <2>2. CASE f.power # <<>> /\ t < f.power[1].time /\ ~f.power[1].powered
      <3>1. 1 \in 1 .. Len(f.power) /\ 1 \in 1 .. (Len(f.power) + 1) - 1
        BY <1>1, <2>2, PowerStates
      <3>2. f.power[1].time <= s
        BY <2>2, <3>1 DEF StartInv
      <3>3. f.power[1].time \in Nat
        BY <3>1, PowerStates
      <3>4. QED
        BY <1>1, <2>1, <2>2, <3>2, <3>3
    <2>3. CASE \E k \in DOMAIN f.power : /\ f.power[k].powered /\ f.power[k].time <= t
                                         /\ k < Len(f.power) => t < f.power[k + 1].time
      <3>1. PICK k \in 1 .. Len(f.power) : /\ f.power[k].powered /\ f.power[k].time <= t
                                           /\ k < Len(f.power) => t < f.power[k + 1].time
        BY <2>3, PowerStates
      <3>2. f.power[k].time \in Nat
        BY PowerStates
      <3>3. CASE k = Len(f.power)
        <4>1. f.power[k].time <= f.landing - 1 /\ ~(k < Len(f.power))
          BY <1>1, <2>1, <3>1, <3>2, <3>3
        <4>2. Powered(f, f.landing - 1)
          BY <3>1, <4>1, PowerStates DEF Powered
        <4>3. QED
          BY <4>2
      <3>4. CASE k < Len(f.power)
        <4>1. k + 1 \in 1 .. Len(f.power) /\ k + 1 > 1 /\ (k + 1) - 1 = k
          BY <1>1, <3>4
        <4>2. ~f.power[k + 1].powered /\ f.power[k + 1].time \in Nat
          BY <3>1, <4>1, PowerStates
        <4>3. k + 1 \in 1 .. (Len(f.power) + 1) - 1
          BY <1>1, <4>1
        <4>4. f.power[k + 1].time <= s /\ t < f.power[k + 1].time
          BY <3>1, <3>4, <4>2, <4>3 DEF StartInv
        <4>5. QED
          BY <1>1, <2>1, <4>2, <4>4
      <3>5. QED
        BY <1>1, <3>3, <3>4
    <2>4. QED
      BY <1>2, <2>2, <2>3 DEF Powered
  <1>3. QED
    BY <1>1, <1>2 DEF Glides, StartInv

(* A glide that lies ahead is in the period that ends where the engine      *)
(* starts, or ahead of that.                                                *)
LEMMA AheadOfStart ==
  ASSUME NEW f, IsFlight(f), NEW c \in 1 .. Len(f.power), NEW s, StartInv(f, c, s),
         f.power[c].powered, NEW start \in Nat, NEW end \in Nat, Glides(f, start, end),
         LiesAhead(f, c, s, start)
  PROVE  \/ s < f.power[c].time /\ s <= start /\ end <= Smaller(f.power[c].time, f.landing)
         \/ LiesAhead(f, c + 1, s, start)
  <1>1. s \in Nat /\ c \in Nat /\ Len(f.power) \in Nat /\ f.landing \in Nat
    BY PowerStates DEF StartInv
  <1>2. f.power[c].time \in Nat
    BY PowerStates
  <1>3. s <= start
    BY PowerStates DEF LiesAhead
  <1>4. LiesAhead(f, c + 1, s, start) <=> f.power[c].time <= start
    BY <1>1 DEF LiesAhead
  <1>5. start < end /\ end <= f.landing
    BY DEF Glides
  <1>6. CASE start < f.power[c].time
    <2>1. s < f.power[c].time
      BY <1>1, <1>2, <1>3, <1>6
    <2>2. ASSUME f.power[c].time < end PROVE FALSE
      <3>1. f.power[c].time \in start .. end - 1
        BY <1>2, <1>6, <2>2
      <3>2. Powered(f, f.power[c].time)
        <4>1. f.power[c].time <= f.power[c].time
          BY <1>2
        <4>2. c < Len(f.power) => f.power[c].time < f.power[c + 1].time
          BY <1>1, PowerStates
        <4>3. QED
          BY <4>1, <4>2, PowerStates DEF Powered
      <3>3. QED
        BY <3>1, <3>2 DEF Glides
    <2>3. end <= f.power[c].time
      BY <1>2, <2>2
    <2>4. QED
      BY <1>3, <1>5, <2>1, <2>3 DEF Smaller
  <1>7. QED
    BY <1>2, <1>4, <1>6

(* A glide that lies ahead begins after the engine has stopped. *)
LEMMA AheadOfStop ==
  ASSUME NEW f, IsFlight(f), Released(f), NEW c \in 1 .. Len(f.power), NEW s, StartInv(f, c, s),
         ~f.power[c].powered, NEW start \in Nat, NEW end \in Nat, Glides(f, start, end),
         LiesAhead(f, c, s, start)
  PROVE  LiesAhead(f, c + 1, IF f.power[c].time > s THEN f.power[c].time ELSE s, start)
  <1>1. s \in Nat /\ c \in Nat /\ Len(f.power) \in Nat /\ f.landing \in Nat
    BY PowerStates DEF StartInv
  <1>2. f.power[c].time \in Nat
    BY PowerStates
  <1>3. start \in start .. end - 1 /\ ScoringStart(f) <= start
    BY DEF Glides
  <1>4. f.power[c].time <= start
    <2>1. CASE c = 1
      <3>1. f.power # <<>>
        BY <1>1, <2>1, PowerStates
      <3>2. start < f.power[1].time => Powered(f, start)
        BY <3>1, <2>1 DEF Powered
      <3>3. QED
        BY <1>2, <1>3, <2>1, <3>2 DEF Glides
    <2>2. CASE c > 1
      <3>1. c - 1 \in 1 .. Len(f.power) /\ c - 1 < Len(f.power) /\ (c - 1) + 1 = c
        BY <1>1, <2>2
      <3>2. f.power[c - 1].powered
        BY <2>2, <3>1, PowerStates
      <3>3. f.power[c - 1].time <= start
        BY <2>2, <3>2 DEF LiesAhead
      <3>4. start < f.power[c].time => Powered(f, start)
        BY <3>1, <3>2, <3>3, PowerStates DEF Powered
      <3>5. QED
        BY <1>2, <1>3, <3>4 DEF Glides
    <2>3. QED
      BY <1>1, <2>1, <2>2
  <1>5. CASE f.power[c].time > s
    BY <1>1, <1>4, <1>5 DEF LiesAhead
  <1>6. CASE ~(f.power[c].time > s)
    <2>1. \A l \in 1 .. c - 1 : f.power[l].time < f.power[c].time
      BY PowerStates
    <2>2. \A l \in 1 .. c - 1 : f.power[l].time # s
      <3>1. \A l \in 1 .. c - 1 : f.power[l].time \in Nat
        BY <1>1, PowerStates
      <3>2. QED
        BY <1>1, <1>2, <1>6, <2>1, <3>1
    <2>3. s = ScoringStart(f)
      BY <2>2 DEF StartInv
    <2>4. QED
      BY <1>1, <1>3, <1>6, <2>3 DEF LiesAhead
  <1>7. QED
    BY <1>5, <1>6

(* A glide that is left lies between the start and the landing. *)
LEMMA AheadOfLanding ==
  ASSUME NEW f, IsFlight(f), NEW s, StartInv(f, Len(f.power) + 1, s), ~Powered(f, f.landing - 1),
         NEW start \in Nat, NEW end \in Nat, Glides(f, start, end),
         LiesAhead(f, Len(f.power) + 1, s, start)
  PROVE  s <= start /\ s < f.landing
  <1>1. s \in Nat /\ Len(f.power) \in Nat /\ f.landing \in Nat
    BY PowerStates DEF StartInv
  <1>2. start < end /\ end <= f.landing
    BY DEF Glides
  <1>3. ASSUME Len(f.power) > 0, f.power[Len(f.power)].powered,
               f.power[Len(f.power)].time <= start
        PROVE  FALSE
    <2>1. Len(f.power) \in 1 .. Len(f.power) /\ ~(Len(f.power) < Len(f.power))
      BY <1>1, <1>3
    <2>2. f.power[Len(f.power)].time \in Nat
      BY <2>1, PowerStates
    <2>3. f.power[Len(f.power)].time <= f.landing - 1
      BY <1>1, <1>2, <1>3, <2>2
    <2>4. Powered(f, f.landing - 1)
      BY <1>3, <2>1, <2>3, PowerStates DEF Powered
    <2>5. QED
      BY <2>4
  <1>4. s <= start
    <2>1. (Len(f.power) + 1) - 1 = Len(f.power) /\ (Len(f.power) + 1 > 1 <=> Len(f.power) > 0)
      BY <1>1
    <2>2. QED
      BY <1>3, <2>1 DEF LiesAhead
  <1>5. QED
    BY <1>1, <1>2, <1>4

------------------------------------------------------------------------------
ScoredPeriods == [takeoff : Nat, landing : Nat, start : Nat, end : Nat]
Scorings ==
  [step : {"flight", "gather", "compare", "returned"}, flight : Nat \ {0}, state : Nat \ {0},
   start : Nat \union {NoTime}, periods : Seq(ScoredPeriods), period : Nat \ {0}]
Choices == [seconds : Nat, period : Periods \union {NoTime}]

(* A period from n on holds what flies from start to end. *)
InPeriods(periods, n, start, end) ==
  \E k \in n .. Len(periods) : periods[k].start <= start /\ end <= periods[k].end

NoneLonger(f, seconds) ==
  \A start, end \in Nat : Glides(f, start, end) => end - start <= seconds

FlightsType == times \in FlightTimes /\ scoring \in Scorings /\ chosen \in Choices

Gathering ==
  scoring.step = "gather"
  => /\ scoring.state \in 1 .. Len(CurrentFlight.power) + 1 /\ scoring.period = 1
     /\ StartInv(CurrentFlight, scoring.state, scoring.start)
     /\ \A start, end \in Nat : Glides(CurrentFlight, start, end)
          => \/ InPeriods(scoring.periods, 1, start, end)
             \/ LiesAhead(CurrentFlight, scoring.state, scoring.start, start)

Gathered ==
  scoring.step \in {"gather", "compare"}
  => /\ scoring.flight \in HasRelease
     /\ EnginesStopped
        => \A k \in 1 .. Len(scoring.periods) :
             scoring.periods[k].start < scoring.periods[k].end
             => Scored(CurrentFlight, scoring.periods[k])

Comparing ==
  scoring.step = "compare" /\ EnginesStopped
  => \A start, end \in Nat : Glides(CurrentFlight, start, end)
       => InPeriods(scoring.periods, scoring.period, start, end) \/ end - start <= chosen.seconds

FlightsDone ==
  EnginesStopped
  => \A k \in HasRelease : k < scoring.flight \/ scoring.step = "returned"
       => NoneLonger(times[k], chosen.seconds)

ChosenScored ==
  HasRelease # {} /\ chosen.period # NoTime
  => /\ chosen.period \in ScoredPeriods
     /\ chosen.seconds = chosen.period.end - chosen.period.start
     /\ EnginesStopped => \E k \in HasRelease : Scored(times[k], chosen.period)

Unscored ==
  HasRelease = {}
  => /\ scoring.step \in {"flight", "returned"}
     /\ \A k \in DOMAIN times : k < scoring.flight \/ scoring.step = "returned"
          => times[k].landing - times[k].takeoff <= chosen.seconds
     /\ chosen.period # NoTime
        => \E k \in DOMAIN times : /\ chosen.period = Period(times[k], NoTime, NoTime)
                                   /\ chosen.seconds = times[k].landing - times[k].takeoff

ScoringInv ==
  /\ FlightsType /\ Gathering /\ Gathered /\ Comparing /\ FlightsDone /\ ChosenScored /\ Unscored
  /\ chosen.period = NoTime => chosen.seconds = 0

LEMMA FileKept ==
  UNCHANGED times => (EnginesStopped' <=> EnginesStopped) /\ HasRelease' = HasRelease
  BY DEF EnginesStopped, HasRelease

LEMMA FlightOfFile ==
  ASSUME FlightsType
  PROVE  /\ Len(times) \in Nat /\ DOMAIN times = 1 .. Len(times)
         /\ \A k \in DOMAIN times : IsFlight(times[k])
         /\ HasRelease \subseteq DOMAIN times
         /\ \A k \in HasRelease : Released(times[k])
  BY FlightTimesAssumption DEF FlightsType, HasRelease

LEMMA ScoringInvInit == ScoringInit => ScoringInv
  <1> SUFFICES ASSUME ScoringInit PROVE ScoringInv
    OBVIOUS
  <1> USE DEF ScoringInit
  <1>1. FlightsType
    <2>1. <<>> \in Seq(ScoredPeriods)
      OBVIOUS
    <2>2. QED
      BY <2>1 DEF FlightsType, Scorings, Choices
  <1>2. Gathering /\ Gathered /\ Comparing
    BY DEF Gathering, Gathered, Comparing
  <1>3. FlightsDone /\ Unscored
    <2>1. \A k \in DOMAIN times : ~(k < scoring.flight)
      BY <1>1, FlightOfFile
    <2>2. HasRelease \subseteq DOMAIN times
      BY <1>1, FlightOfFile
    <2>3. QED
      BY <2>1, <2>2 DEF FlightsDone, Unscored
  <1>4. QED
    BY <1>1, <1>2, <1>3 DEF ScoringInv, ChosenScored

LEMMA NextFlightKeeps == ScoringInv /\ NextFlight => ScoringInv'
  <1> SUFFICES ASSUME ScoringInv, NextFlight PROVE ScoringInv'
    OBVIOUS
  <1>1. PICK k \in HasRelease :
          /\ k >= scoring.flight /\ \A l \in HasRelease : l >= scoring.flight => k <= l
          /\ scoring' = [step |-> "gather", flight |-> k, state |-> 1,
                         start |-> ScoringStart(times[k]), periods |-> <<>>, period |-> 1]
    BY DEF NextFlight
  <1>2. /\ times' = times /\ chosen' = chosen /\ scoring.step = "flight"
        /\ (EnginesStopped' <=> EnginesStopped) /\ HasRelease' = HasRelease
    BY FileKept DEF NextFlight
  <1>3. IsFlight(times[k]) /\ Released(times[k]) /\ k \in Nat \ {0} /\ k \in DOMAIN times
    BY FlightOfFile DEF ScoringInv
  <1>4. /\ scoring'.step = "gather" /\ scoring'.flight = k /\ scoring'.state = 1
        /\ scoring'.start = ScoringStart(times[k]) /\ scoring'.periods = <<>>
        /\ scoring'.period = 1
    BY <1>1
  <1>5. CurrentFlight' = times[k]
    BY <1>2, <1>4 DEF CurrentFlight
  <1>6. FlightsType'
    <2>1. ScoringStart(times[k]) \in Nat /\ <<>> \in Seq(ScoredPeriods)
      BY <1>3, StartOfScoring
    <2>2. QED
      BY <1>1, <1>2, <1>3, <2>1 DEF ScoringInv, FlightsType, Scorings
  <1>7. Gathering'
    <2>1. StartInv(times[k], 1, ScoringStart(times[k]))
      BY <1>3, StartBegins
    <2>2. 1 \in 1 .. Len(times[k].power) + 1
      BY <1>3, PowerStates
    <2>3. \A start, end \in Nat : Glides(times[k], start, end)
            => LiesAhead(times[k], 1, ScoringStart(times[k]), start)
      BY DEF Glides, LiesAhead
    <2>4. QED
      BY <1>4, <1>5, <2>1, <2>2, <2>3 DEF Gathering
  <1>8. Gathered'
    BY <1>1, <1>2, <1>4 DEF Gathered
  <1>9. FlightsDone'
    <2>1. \A l \in HasRelease : l < k => l < scoring.flight
      <3>1. \A l \in HasRelease : l \in Nat
        BY FlightOfFile DEF ScoringInv
      <3>2. scoring.flight \in Nat
        BY DEF ScoringInv, FlightsType, Scorings
      <3>3. QED
        BY <1>1, <1>3, <3>1, <3>2
    <2>2. QED
      BY <1>2, <1>4, <2>1 DEF ScoringInv, FlightsDone
  <1>10. Comparing' /\ ChosenScored' /\ (chosen.period = NoTime => chosen.seconds = 0)'
    BY <1>2, <1>4 DEF ScoringInv, ChosenScored, Comparing
  <1>11. Unscored'
    BY <1>1, <1>2 DEF Unscored
  <1>12. QED
    BY <1>6, <1>7, <1>8, <1>9, <1>10, <1>11 DEF ScoringInv

LEMMA GatherKeeps == ScoringInv /\ Gather => ScoringInv'
  <1> SUFFICES ASSUME ScoringInv, Gather PROVE ScoringInv'
    OBVIOUS
  <1> DEFINE f == CurrentFlight
             c == scoring.state
             s == scoring.start
             t == f.power[c].time
             on == f.power[c].powered
             new == Period(f, s, Smaller(t, f.landing))
  <1>1. /\ times' = times /\ chosen' = chosen /\ scoring.step = "gather"
        /\ (EnginesStopped' <=> EnginesStopped) /\ HasRelease' = HasRelease
    BY FileKept DEF Gather
  <1>2. /\ scoring \in Scorings /\ scoring.flight \in HasRelease /\ scoring.flight \in Nat
        /\ scoring.periods \in Seq(ScoredPeriods) /\ scoring.period = 1
    BY <1>1 DEF ScoringInv, FlightsType, Scorings, Gathered, Gathering
  <1>3. IsFlight(f) /\ Released(f)
    BY <1>2, FlightOfFile DEF ScoringInv, CurrentFlight
  <1>4. c \in 1 .. Len(f.power)
    BY <1>3, PowerStates DEF Gather
  <1>5. /\ StartInv(f, c, s) /\ s \in Nat
        /\ t \in Nat /\ on \in BOOLEAN /\ f.landing \in Nat /\ f.takeoff \in Nat
    BY <1>1, <1>3, <1>4, PowerStates DEF ScoringInv, Gathering, StartInv, IsFlight
  <1>6. /\ scoring'.step = "gather" /\ scoring'.flight = scoring.flight /\ scoring'.state = c + 1
        /\ scoring'.start = IF ~on /\ t > s THEN t ELSE s
        /\ scoring'.periods = IF on /\ t > s THEN Append(scoring.periods, new)
                              ELSE scoring.periods
        /\ scoring'.period = 1
    BY <1>2, <1>1 DEF Gather, Scorings
  <1>7. new \in ScoredPeriods /\ new.start = s /\ new.end = Smaller(t, f.landing)
    BY <1>5 DEF Period, ScoredPeriods, Smaller
  <1>8. CurrentFlight' = f
    BY <1>1, <1>6 DEF CurrentFlight
  <1> HIDE DEF f, c, s, t, on, new
  <1>9. FlightsType'
    <2>1. scoring'.periods \in Seq(ScoredPeriods)
      BY <1>2, <1>6, <1>7, AppendProperties
    <2>2. scoring'.start \in Nat
      BY <1>5, <1>6
    <2>3. c + 1 \in Nat \ {0}
      BY <1>4, <1>3, PowerStates
    <2>4. scoring' \in Scorings
      <3>1. scoring' = [scoring EXCEPT !.state = scoring'.state, !.start = scoring'.start,
                                       !.periods = scoring'.periods]
        BY <1>2 DEF Gather, Scorings
      <3>2. QED
        BY <1>2, <1>6, <2>1, <2>2, <2>3, <3>1 DEF Scorings
    <2>5. QED
      BY <1>1, <2>4 DEF ScoringInv, FlightsType
  <1>10. \A k \in 1 .. Len(scoring'.periods) :
           \/ k \in 1 .. Len(scoring.periods) /\ scoring'.periods[k] = scoring.periods[k]
           \/ on /\ t > s /\ scoring'.periods[k] = new
    BY <1>2, <1>6, <1>7, AppendProperties
  <1>11. /\ \A k \in 1 .. Len(scoring.periods) :
              /\ k \in 1 .. Len(scoring'.periods)
              /\ scoring'.periods[k] = scoring.periods[k]
         /\ on /\ t > s => \E k \in 1 .. Len(scoring'.periods) : scoring'.periods[k] = new
    BY <1>2, <1>6, <1>7, AppendProperties
  <1>12. Gathered'
    <2>1. ASSUME on, t > s, s < Smaller(t, f.landing) PROVE Scored(f, new)
      <3>1. Smaller(t, f.landing) \in Nat /\ Smaller(t, f.landing) <= t
            /\ Smaller(t, f.landing) <= f.landing
        BY <1>5 DEF Smaller
      <3>2. Glides(f, s, Smaller(t, f.landing))
        BY <1>3, <1>4, <1>5, <2>1, <3>1, PeriodGlides DEF t, on
      <3>3. QED
        BY <1>7, <3>2 DEF Scored, new
    <2>2. ASSUME EnginesStopped, NEW k \in 1 .. Len(scoring'.periods),
                 scoring'.periods[k].start < scoring'.periods[k].end
          PROVE  Scored(f, scoring'.periods[k])
      <3>1. CASE k \in 1 .. Len(scoring.periods) /\ scoring'.periods[k] = scoring.periods[k]
        BY <1>1, <2>2, <3>1 DEF ScoringInv, Gathered, f
      <3>2. CASE on /\ t > s /\ scoring'.periods[k] = new
        BY <1>7, <2>1, <2>2, <3>2
      <3>3. QED
        BY <1>10, <3>1, <3>2
    <2>3. QED
      BY <1>1, <1>2, <1>6, <1>8, <2>2 DEF Gathered
  <1>13. Gathering'
    <2>1. StartInv(f, c + 1, scoring'.start)
      BY <1>3, <1>4, <1>5, <1>6, StartKept DEF t, on
    <2>2. c + 1 \in 1 .. Len(f.power) + 1
      BY <1>3, <1>4, PowerStates
    <2>3. ASSUME NEW start \in Nat, NEW end \in Nat, Glides(f, start, end)
          PROVE  \/ InPeriods(scoring'.periods, 1, start, end)
                 \/ LiesAhead(f, c + 1, scoring'.start, start)
      <3>1. CASE InPeriods(scoring.periods, 1, start, end)
        BY <1>11, <3>1 DEF InPeriods
      <3>2. CASE LiesAhead(f, c, s, start)
        <4>1. CASE ~on
          <5>1. LiesAhead(f, c + 1, IF t > s THEN t ELSE s, start)
            BY <1>3, <1>4, <1>5, <2>3, <3>2, <4>1, AheadOfStop DEF t, on
          <5>2. QED
            BY <1>6, <4>1, <5>1
        <4>2. CASE on
          <5>1. scoring'.start = s
            BY <1>6, <4>2
          <5>2. \/ s < t /\ s <= start /\ end <= Smaller(t, f.landing)
                \/ LiesAhead(f, c + 1, s, start)
            BY <1>3, <1>4, <1>5, <2>3, <3>2, <4>2, AheadOfStart DEF t, on
          <5>3. CASE s < t /\ s <= start /\ end <= Smaller(t, f.landing)
            BY <1>5, <1>7, <1>11, <4>2, <5>3 DEF InPeriods
          <5>4. QED
            BY <5>1, <5>2, <5>3
        <4>3. QED
          BY <4>1, <4>2
      <3>3. QED
        BY <1>1, <2>3, <3>1, <3>2 DEF ScoringInv, Gathering, f, c, s
    <2>4. QED
      BY <1>6, <1>8, <2>1, <2>2, <2>3 DEF Gathering
  <1>14. FlightsDone' /\ Unscored' /\ Comparing'
    BY <1>1, <1>2, <1>6 DEF ScoringInv, FlightsDone, Unscored, Comparing
  <1>15. ChosenScored' /\ (chosen.period = NoTime => chosen.seconds = 0)'
    BY <1>1 DEF ScoringInv, ChosenScored
  <1>16. QED
    BY <1>9, <1>12, <1>13, <1>14, <1>15 DEF ScoringInv

LEMMA LastPeriodKeeps == ScoringInv /\ LastPeriod => ScoringInv'
  <1> SUFFICES ASSUME ScoringInv, LastPeriod PROVE ScoringInv'
    OBVIOUS
  <1> DEFINE f == CurrentFlight
             s == scoring.start
             new == Period(f, s, f.landing)
  <1>1. /\ times' = times /\ chosen' = chosen /\ scoring.step = "gather"
        /\ (EnginesStopped' <=> EnginesStopped) /\ HasRelease' = HasRelease
    BY FileKept DEF LastPeriod
  <1>2. /\ scoring \in Scorings /\ scoring.flight \in HasRelease /\ scoring.flight \in Nat
        /\ scoring.periods \in Seq(ScoredPeriods) /\ scoring.period = 1
    BY <1>1 DEF ScoringInv, FlightsType, Scorings, Gathered, Gathering
  <1>3. IsFlight(f) /\ Released(f)
    BY <1>2, FlightOfFile DEF ScoringInv, CurrentFlight
  <1>4. scoring.state = Len(f.power) + 1 /\ Len(f.power) \in Nat
    BY <1>1, <1>3, PowerStates DEF ScoringInv, Gathering, LastPeriod
  <1>5. /\ StartInv(f, Len(f.power) + 1, s) /\ s \in Nat /\ f.landing \in Nat /\ f.takeoff \in Nat
    BY <1>1, <1>3, <1>4 DEF ScoringInv, Gathering, StartInv, IsFlight
  <1>6. /\ scoring'.step = "compare" /\ scoring'.flight = scoring.flight
        /\ scoring'.periods = IF s < f.landing THEN Append(scoring.periods, new)
                              ELSE scoring.periods
        /\ scoring'.period = 1
    BY <1>2 DEF LastPeriod, Scorings
  <1>7. new \in ScoredPeriods /\ new.start = s /\ new.end = f.landing
    BY <1>5 DEF Period, ScoredPeriods
  <1>8. CurrentFlight' = f
    BY <1>1, <1>6 DEF CurrentFlight
  <1>9. EnginesStopped => ~Powered(f, f.landing - 1)
    BY <1>2 DEF EnginesStopped, CurrentFlight
  <1> HIDE DEF f, s, new
  <1>10. FlightsType'
    <2>1. scoring'.periods \in Seq(ScoredPeriods)
      BY <1>2, <1>6, <1>7, AppendProperties
    <2>2. scoring' = [scoring EXCEPT !.step = "compare", !.periods = scoring'.periods]
      BY <1>2 DEF LastPeriod, Scorings
    <2>3. scoring' \in Scorings
      BY <1>2, <2>1, <2>2 DEF Scorings
    <2>4. QED
      BY <1>1, <2>3 DEF ScoringInv, FlightsType
  <1>11. \A k \in 1 .. Len(scoring'.periods) :
           \/ k \in 1 .. Len(scoring.periods) /\ scoring'.periods[k] = scoring.periods[k]
           \/ s < f.landing /\ scoring'.periods[k] = new
    BY <1>2, <1>6, <1>7, AppendProperties
  <1>12. /\ \A k \in 1 .. Len(scoring.periods) :
              /\ k \in 1 .. Len(scoring'.periods)
              /\ scoring'.periods[k] = scoring.periods[k]
         /\ s < f.landing => \E k \in 1 .. Len(scoring'.periods) : scoring'.periods[k] = new
    BY <1>2, <1>6, <1>7, AppendProperties
  <1>13. Gathered'
    <2>1. ASSUME EnginesStopped, s < f.landing PROVE Scored(f, new)
      <3>1. Glides(f, s, f.landing)
        BY <1>3, <1>5, <1>9, <2>1, LastGlides
      <3>2. QED
        BY <1>7, <3>1 DEF Scored, new
    <2>2. ASSUME EnginesStopped, NEW k \in 1 .. Len(scoring'.periods),
                 scoring'.periods[k].start < scoring'.periods[k].end
          PROVE  Scored(f, scoring'.periods[k])
      <3>1. CASE k \in 1 .. Len(scoring.periods) /\ scoring'.periods[k] = scoring.periods[k]
        BY <1>1, <2>2, <3>1 DEF ScoringInv, Gathered, f
      <3>2. CASE s < f.landing /\ scoring'.periods[k] = new
        BY <2>1, <2>2, <3>2
      <3>3. QED
        BY <1>11, <3>1, <3>2
    <2>3. QED
      BY <1>1, <1>2, <1>6, <1>8, <2>2 DEF Gathered
  <1>14. Comparing'
    <2>1. ASSUME EnginesStopped, NEW start \in Nat, NEW end \in Nat, Glides(f, start, end)
          PROVE  InPeriods(scoring'.periods, 1, start, end)
      <3>1. CASE InPeriods(scoring.periods, 1, start, end)
        BY <1>12, <3>1 DEF InPeriods
      <3>2. CASE LiesAhead(f, Len(f.power) + 1, s, start)
        <4>1. s <= start /\ s < f.landing /\ end <= f.landing
          BY <1>3, <1>5, <1>9, <2>1, <3>2, AheadOfLanding DEF Glides
        <4>2. QED
          BY <1>7, <1>12, <4>1 DEF InPeriods
      <3>3. QED
        BY <1>1, <1>4, <2>1, <3>1, <3>2 DEF ScoringInv, Gathering, f, s
    <2>2. QED
      BY <1>1, <1>6, <1>8, <2>1 DEF Comparing
  <1>15. FlightsDone' /\ Unscored' /\ Gathering'
    BY <1>1, <1>2, <1>6 DEF ScoringInv, FlightsDone, Unscored, Gathering
  <1>16. ChosenScored' /\ (chosen.period = NoTime => chosen.seconds = 0)'
    BY <1>1 DEF ScoringInv, ChosenScored
  <1>17. QED
    BY <1>10, <1>13, <1>14, <1>15, <1>16 DEF ScoringInv

LEMMA CompareKeeps == ScoringInv /\ Compare => ScoringInv'
  <1> SUFFICES ASSUME ScoringInv, Compare PROVE ScoringInv'
    OBVIOUS
  <1> DEFINE n == scoring.period
             period == scoring.periods[n]
             length == period.end - period.start
  <1>1. /\ times' = times /\ scoring.step = "compare"
        /\ (EnginesStopped' <=> EnginesStopped) /\ HasRelease' = HasRelease
    BY FileKept DEF Compare
  <1>2. /\ scoring \in Scorings /\ scoring.flight \in HasRelease
        /\ scoring.periods \in Seq(ScoredPeriods) /\ chosen \in Choices
        /\ chosen.seconds \in Nat /\ n \in Nat \ {0}
    BY <1>1 DEF ScoringInv, FlightsType, Scorings, Gathered, Choices
  <1>3. n \in 1 .. Len(scoring.periods) /\ Len(scoring.periods) \in Nat
    BY <1>2 DEF Compare
  <1>4. /\ period \in ScoredPeriods /\ period.start \in Nat /\ period.end \in Nat
        /\ length \in Int
    <2>1. period \in ScoredPeriods
      BY <1>2, <1>3, ElementOfSeq
    <2> HIDE DEF period
    <2>2. QED
      BY <2>1 DEF ScoredPeriods
  <1>5. chosen' = IF length > chosen.seconds THEN [seconds |-> length, period |-> period]
                  ELSE chosen
    BY DEF Compare, Choose
  <1>6. /\ scoring'.step = "compare" /\ scoring'.flight = scoring.flight
        /\ scoring'.periods = scoring.periods /\ scoring'.period = n + 1
        /\ scoring' \in Scorings
    BY <1>2 DEF Compare, Scorings
  <1>7. CurrentFlight' = CurrentFlight
    BY <1>1, <1>6 DEF CurrentFlight
  <1>8. period \in Periods /\ period # NoTime
    BY <1>4, NoTimeAssumption DEF Periods, ScoredPeriods
  <1>9. /\ chosen.seconds <= chosen'.seconds /\ length <= chosen'.seconds
        /\ chosen'.seconds \in Nat /\ chosen' \in Choices
    <2> HIDE DEF period, length
    <2>1. CASE length > chosen.seconds
      <3>1. length \in Nat /\ chosen.seconds <= length
        BY <1>2, <1>4, <2>1
      <3>2. QED
        BY <1>2, <1>4, <1>5, <1>8, <2>1, <3>1 DEF Choices
    <2>2. CASE ~(length > chosen.seconds)
      BY <1>2, <1>4, <1>5, <2>2
    <2>3. QED
      BY <2>1, <2>2
  <1>10. chosen' = chosen \/ (length > 0 /\ chosen' = [seconds |-> length, period |-> period])
    BY <1>2, <1>4, <1>5
  <1>11. FlightsType'
    BY <1>1, <1>6, <1>9 DEF ScoringInv, FlightsType
  <1>12. Gathering' /\ Gathered' /\ Unscored'
    BY <1>1, <1>2, <1>6, <1>7 DEF ScoringInv, Gathering, Gathered, Unscored
  <1>13. Comparing'
    <2>1. ASSUME EnginesStopped, NEW start \in Nat, NEW end \in Nat,
                 Glides(CurrentFlight, start, end)
          PROVE  \/ InPeriods(scoring.periods, n + 1, start, end)
                 \/ end - start <= chosen'.seconds
      <3>1. CASE end - start <= chosen.seconds
        BY <1>2, <1>9, <3>1
      <3>2. CASE InPeriods(scoring.periods, n, start, end)
        <4>1. PICK k \in n .. Len(scoring.periods) :
                scoring.periods[k].start <= start /\ end <= scoring.periods[k].end
          BY <3>2 DEF InPeriods
        <4>2. CASE k = n
          <5>1. \A p, q, seconds \in Nat : p <= start /\ end <= q /\ q - p <= seconds
                                          => end - start <= seconds
            OBVIOUS
          <5>2. period.start <= start /\ end <= period.end
            BY <4>1, <4>2
          <5> HIDE DEF period
          <5>3. QED
            BY <1>4, <1>9, <5>1, <5>2
        <4>3. CASE k # n
          <5>1. k \in n + 1 .. Len(scoring.periods)
            BY <1>2, <1>3, <4>3
          <5>2. QED
            BY <4>1, <5>1 DEF InPeriods
        <4>4. QED
          BY <4>2, <4>3
      <3>3. QED
        BY <1>1, <2>1, <3>1, <3>2 DEF ScoringInv, Comparing
    <2>2. QED
      BY <1>1, <1>6, <1>7, <2>1 DEF Comparing
  <1>14. FlightsDone'
    <2>1. \A k \in HasRelease :
            NoneLonger(times[k], chosen.seconds) => NoneLonger(times[k], chosen'.seconds)
      BY <1>2, <1>9 DEF NoneLonger
    <2>2. QED
      BY <1>1, <1>6, <2>1 DEF ScoringInv, FlightsDone
  <1>15. ChosenScored' /\ (chosen.period = NoTime => chosen.seconds = 0)'
    <2>1. CASE chosen' = chosen
      BY <1>1, <2>1 DEF ScoringInv, ChosenScored
    <2>2. CASE length > 0 /\ chosen' = [seconds |-> length, period |-> period]
      <3>1. EnginesStopped => Scored(CurrentFlight, period)
        BY <1>1, <1>3, <1>4, <2>2, SMTT(20) DEF ScoringInv, Gathered
      <3>2. EnginesStopped => \E k \in HasRelease : Scored(times[k], period)
        BY <1>2, <3>1 DEF CurrentFlight
      <3>3. chosen'.seconds = length /\ chosen'.period = period
        BY <2>2
      <3> HIDE DEF period
      <3>4. QED
        BY <1>1, <1>4, <1>8, <3>2, <3>3 DEF ChosenScored
    <2>3. QED
      BY <1>10, <2>1, <2>2
  <1>16. QED
    BY <1>11, <1>12, <1>13, <1>14, <1>15 DEF ScoringInv

LEMMA ComparedKeeps == ScoringInv /\ Compared => ScoringInv'
  <1> SUFFICES ASSUME ScoringInv, Compared PROVE ScoringInv'
    OBVIOUS
  <1>1. /\ times' = times /\ chosen' = chosen /\ scoring.step = "compare"
        /\ (EnginesStopped' <=> EnginesStopped) /\ HasRelease' = HasRelease
    BY FileKept DEF Compared
  <1>2. /\ scoring \in Scorings /\ scoring.flight \in HasRelease
        /\ scoring.flight \in Nat \ {0} /\ scoring.period \in Nat \ {0}
        /\ scoring.periods \in Seq(ScoredPeriods)
    BY <1>1 DEF ScoringInv, FlightsType, Scorings, Gathered
  <1>3. /\ scoring'.step = "flight" /\ scoring'.flight = scoring.flight + 1
        /\ scoring' \in Scorings
    <2>1. scoring.flight + 1 \in Nat \ {0}
      BY <1>2
    <2>2. scoring' = [scoring EXCEPT !.step = "flight", !.flight = scoring.flight + 1]
      BY DEF Compared
    <2>3. QED
      BY <1>2, <2>1, <2>2 DEF Scorings
  <1>4. FlightsType' /\ Gathering' /\ Gathered' /\ Comparing'
    BY <1>1, <1>3 DEF ScoringInv, FlightsType, Gathering, Gathered, Comparing
  <1>5. FlightsDone'
    <2>1. ASSUME EnginesStopped PROVE NoneLonger(CurrentFlight, chosen.seconds)
      <3>1. \A start, end \in Nat : ~InPeriods(scoring.periods, scoring.period, start, end)
        BY <1>2 DEF Compared, InPeriods
      <3>2. QED
        BY <1>1, <2>1, <3>1 DEF ScoringInv, Comparing, NoneLonger
    <2>2. \A k \in HasRelease : k < scoring.flight + 1 => k < scoring.flight \/ k = scoring.flight
      <3>1. \A k \in HasRelease : k \in Nat
        BY FlightOfFile DEF ScoringInv
      <3>2. QED
        BY <1>2, <3>1
    <2>3. QED
      BY <1>1, <1>3, <2>1, <2>2 DEF ScoringInv, FlightsDone, CurrentFlight
  <1>6. Unscored' /\ ChosenScored' /\ (chosen.period = NoTime => chosen.seconds = 0)'
    BY <1>1, <1>2 DEF ScoringInv, Unscored, ChosenScored
  <1>7. QED
    BY <1>4, <1>5, <1>6 DEF ScoringInv

LEMMA CompareFlightKeeps == ScoringInv /\ CompareFlight => ScoringInv'
  <1> SUFFICES ASSUME ScoringInv, CompareFlight PROVE ScoringInv'
    OBVIOUS
  <1> DEFINE period == Period(CurrentFlight, NoTime, NoTime)
             length(k) == times[k].landing - times[k].takeoff
  <1>1. /\ times' = times /\ scoring.step = "flight" /\ HasRelease = {}
        /\ (EnginesStopped' <=> EnginesStopped) /\ HasRelease' = HasRelease
        /\ scoring.flight \in DOMAIN times
    BY FileKept DEF CompareFlight
  <1>2. /\ scoring \in Scorings /\ scoring.flight \in Nat \ {0} /\ chosen \in Choices
        /\ chosen.seconds \in Nat
    BY <1>1 DEF ScoringInv, FlightsType, Scorings, Choices
  <1>3. /\ scoring'.step = "flight" /\ scoring'.flight = scoring.flight + 1
        /\ scoring' \in Scorings
    <2>1. scoring.flight + 1 \in Nat \ {0}
      BY <1>2
    <2>2. scoring' = [scoring EXCEPT !.flight = scoring.flight + 1]
      BY DEF CompareFlight
    <2>3. QED
      BY <1>1, <1>2, <2>1, <2>2 DEF Scorings
  <1>4. \A k \in DOMAIN times : times[k].takeoff \in Nat /\ times[k].landing \in Nat
                               /\ length(k) \in Int /\ k \in Nat
    BY FlightOfFile DEF ScoringInv, IsFlight
  <1>5. period \in Periods /\ period # NoTime
    BY <1>1, <1>4, NoTimeAssumption DEF Period, Periods, CurrentFlight
  <1>6. chosen' = IF length(scoring.flight) > chosen.seconds
                  THEN [seconds |-> length(scoring.flight), period |-> period] ELSE chosen
    BY DEF CompareFlight, Choose, CurrentFlight
  <1> HIDE DEF period
  <1>7. /\ chosen'.seconds \in Nat /\ chosen.seconds <= chosen'.seconds
        /\ length(scoring.flight) <= chosen'.seconds /\ chosen' \in Choices
    <2>1. CASE length(scoring.flight) > chosen.seconds
      <3>1. length(scoring.flight) \in Nat /\ chosen.seconds <= length(scoring.flight)
        BY <1>1, <1>2, <1>4, <2>1
      <3> HIDE DEF length
      <3>2. QED
        BY <1>2, <1>5, <1>6, <2>1, <3>1 DEF Choices
    <2>2. CASE ~(length(scoring.flight) > chosen.seconds)
      BY <1>1, <1>2, <1>4, <1>6, <2>2
    <2>3. QED
      BY <2>1, <2>2
  <1>8. FlightsType' /\ Gathering' /\ Gathered' /\ Comparing' /\ FlightsDone' /\ ChosenScored'
    BY <1>1, <1>3, <1>7
    DEF ScoringInv, FlightsType, Gathering, Gathered, Comparing, FlightsDone, ChosenScored
  <1>9. Unscored' /\ (chosen.period = NoTime => chosen.seconds = 0)'
    <2>1. ASSUME NEW k \in DOMAIN times, k < scoring.flight + 1
          PROVE  length(k) <= chosen'.seconds
      <3>1. CASE k = scoring.flight
        BY <1>7, <3>1
      <3>2. CASE k < scoring.flight
        <4>1. length(k) <= chosen.seconds
          BY <1>1, <3>2 DEF ScoringInv, Unscored
        <4>2. QED
          BY <1>2, <1>4, <1>7, <4>1
      <3>3. QED
        BY <1>2, <1>4, <2>1, <3>1, <3>2
    <2>2. CASE chosen' = chosen
      BY <1>1, <1>3, <2>1, <2>2 DEF ScoringInv, Unscored
    <2>3. CASE chosen' = [seconds |-> length(scoring.flight), period |-> period]
      <3>1. chosen'.seconds = length(scoring.flight) /\ chosen'.period = period
        BY <2>3
      <3>2. QED
        BY <1>1, <1>3, <1>5, <2>1, <3>1 DEF Unscored, period, CurrentFlight
    <2>4. QED
      BY <1>6, <2>2, <2>3
  <1>10. QED
    BY <1>8, <1>9 DEF ScoringInv

LEMMA ReturnKeeps == ScoringInv /\ Return => ScoringInv'
  <1> SUFFICES ASSUME ScoringInv, Return PROVE ScoringInv'
    OBVIOUS
  <1>1. /\ times' = times /\ chosen' = chosen /\ scoring.step = "flight"
        /\ (EnginesStopped' <=> EnginesStopped) /\ HasRelease' = HasRelease
        /\ \A k \in DOMAIN times : k >= scoring.flight => HasRelease # {} /\ k \notin HasRelease
    BY FileKept DEF Return
  <1>2. scoring \in Scorings /\ scoring.flight \in Nat
    BY <1>1 DEF ScoringInv, FlightsType, Scorings
  <1>3. scoring'.step = "returned" /\ scoring' \in Scorings
    BY <1>2 DEF Return, Scorings
  <1>4. /\ HasRelease \subseteq DOMAIN times
        /\ \A k \in DOMAIN times : k \in Nat /\ (k >= scoring.flight \/ k < scoring.flight)
    BY <1>2, FlightOfFile DEF ScoringInv
  <1>5. FlightsType' /\ Gathering' /\ Gathered' /\ Comparing'
    BY <1>1, <1>3 DEF ScoringInv, FlightsType, Gathering, Gathered, Comparing
  <1>6. FlightsDone' /\ Unscored'
    BY <1>1, <1>3, <1>4 DEF ScoringInv, FlightsDone, Unscored
  <1>7. ChosenScored' /\ (chosen.period = NoTime => chosen.seconds = 0)'
    BY <1>1 DEF ScoringInv, ChosenScored
  <1>8. QED
    BY <1>5, <1>6, <1>7 DEF ScoringInv

LEMMA ScoringInvHolds == ScoringSpec => []ScoringInv
  <1>1. ScoringInv /\ UNCHANGED scoringVars => ScoringInv'
    BY DEF ScoringInv, scoringVars, FlightsType, Gathering, Gathered, Comparing, FlightsDone,
           ChosenScored, Unscored, EnginesStopped, HasRelease, CurrentFlight
  <1>2. ScoringInv /\ [ScoringNext]_scoringVars => ScoringInv'
    BY <1>1, NextFlightKeeps, GatherKeeps, LastPeriodKeeps, CompareKeeps, ComparedKeeps,
       CompareFlightKeeps, ReturnKeeps
    DEF ScoringNext
  <1>3. QED
    BY ScoringInvInit, <1>2, PTL DEF ScoringSpec

(* get_analysis_times takes the longest glide of the flights with a release *)
(* of any file, however often their engines run, or the longest flight of   *)
(* a file without a release.                                                *)
THEOREM LongestGlideScored == ScoringSpec => []ScoringGliding
  <1>1. ScoringInv => ScoringGliding
    <2> SUFFICES ASSUME ScoringInv, scoring.step = "returned"
                 PROVE  IF HasRelease = {} THEN LongestFlight ELSE EnginesStopped => LongestGlide
      BY DEF ScoringGliding
    <2>1. chosen.seconds \in Nat /\ (chosen.period = NoTime => chosen.seconds = 0)
      BY DEF ScoringInv, FlightsType, Choices
    <2>2. CASE HasRelease = {}
      BY <2>1, <2>2 DEF ScoringInv, Unscored, LongestFlight
    <2>3. ASSUME HasRelease # {}, EnginesStopped PROVE LongestGlide
      <3>1. chosen.period = NoTime \/ \E k \in HasRelease : Scored(times[k], chosen.period)
        BY <2>3 DEF ScoringInv, ChosenScored
      <3>2. IF chosen.period = NoTime THEN chosen.seconds = 0
            ELSE chosen.seconds = chosen.period.end - chosen.period.start
        BY <2>1, <2>3 DEF ScoringInv, ChosenScored
      <3>3. \A k \in HasRelease : times[k].landing \in Nat
        BY FlightOfFile DEF ScoringInv, IsFlight
      <3>4. \A k \in HasRelease : \A start, end \in 0 .. times[k].landing :
              Glides(times[k], start, end) => end - start <= chosen.seconds
        BY <2>3, <3>3 DEF ScoringInv, FlightsDone, NoneLonger
      <3>5. QED
        BY <3>1, <3>2, <3>4 DEF LongestGlide
    <2>4. QED
      BY <2>2, <2>3
  <1>2. QED
    BY ScoringInvHolds, <1>1, PTL

==============================================================================
