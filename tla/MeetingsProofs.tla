--------------------------- MODULE MeetingsProofs ----------------------------
(***************************************************************************)
(* What find_meetings guarantees for any number of flights and runs, and   *)
(* what it guarantees if one run is executed at a time.                    *)
(*                                                                         *)
(* MeetingsFound says nothing while tasks are queued or under way, so the  *)
(* invariant says of every pair of neighbours who is going to write their  *)
(* meetings, if there are none yet: a task, a run that is going to search, *)
(* or one that has found them (Expected).  A commit deletes rows; they are *)
(* of pairs that it writes itself (OwnPairs).  OneRunPerPair rests on      *)
(* Cleared: what a lone run has not deleted is still to come.              *)
(***************************************************************************)
EXTENDS MCMeetings, FiniteSetTheorems, TLAPS

Working == {"clear", "deleting", "insert"}

(* What a run knows; its rows are of its flight and of others it has found. *)
RunTyped(r) ==
  /\ pc[r] \in {"idle", "search"} => others[r] = {} /\ victims[r] = {} /\ removed[r] = {}
  /\ pc[r] \in Active => flight[r] \in Flights
  /\ others[r] \subseteq Flights /\ flight[r] \notin others[r]
  /\ pc[r] \in Working => todo[r] \subseteq others[r]
OwnPairs(r) ==
  pc[r] \in Working =>
    \A row \in victims[r] \union removed[r] : \E f \in others[r] : Pair(row) = {flight[r], f}

RunsTyped ==
  /\ stored \subseteq Flights /\ tasks \subseteq Flights
  /\ pc \in [Runs -> {"idle", "done", "failed"} \union Active]
  /\ DOMAIN flight = Runs /\ flight = [r \in Runs |-> flight[r]]
  /\ others \in [Runs -> SUBSET Flights] /\ todo \in [Runs -> SUBSET Flights]
  /\ DOMAIN victims = Runs /\ victims = [r \in Runs |-> victims[r]]
  /\ DOMAIN removed = Runs /\ removed = [r \in Runs |-> removed[r]]
  /\ \A r \in Runs : RunTyped(r) /\ OwnPairs(r)

(* Somebody is going to find the meetings of f and g, or has failed. *)
Expected(f, g) ==
  \/ f \in tasks \/ g \in tasks
  \/ \E r \in Runs :
       \/ pc[r] = "failed"
       \/ pc[r] = "search" /\ flight[r] \in {f, g}
       \/ /\ pc[r] \in Working
          /\ \/ flight[r] = f /\ g \in others[r]
             \/ flight[r] = g /\ f \in others[r]
Met(f, g) == \E row \in meetings : Pair(row) = {f, g}
MeetingsExpected ==
  \A f, g \in stored : g \in Near[f] /\ f \in Near[g] => Met(f, g) \/ Expected(f, g)

LEMMA RunsTypedInit == Init => RunsTyped
  BY DEF Init, RunsTyped, RunTyped, OwnPairs, Active, Working

(* A step of one run changes only what that run knows. *)
LEMMA OtherRuns ==
  ASSUME RunsTyped, NEW r \in Runs, NEW q \in Runs, q # r, Take(r) \/ RunStep(r)
  PROVE  /\ pc'[q] = pc[q] /\ flight'[q] = flight[q] /\ others'[q] = others[q]
         /\ todo'[q] = todo[q] /\ victims'[q] = victims[q] /\ removed'[q] = removed[q]
  <1> USE DEF RunsTyped, Goto, runVars
  <1>1. CASE Take(r)
    BY <1>1 DEF Take
  <1>2. CASE Search(r)
    BY <1>2 DEF Search
  <1>3. CASE DeletePrevious(r)
    BY <1>3 DEF DeletePrevious
  <1>4. CASE Deleted(r)
    BY <1>4 DEF Deleted
  <1>5. CASE NothingToDelete(r) \/ RollBack(r) \/ Commit(r)
    BY <1>5 DEF NothingToDelete, RollBack, Commit
  <1> QED BY <1>1, <1>2, <1>3, <1>4, <1>5 DEF RunStep

LEMMA TakeTyped ==
  ASSUME RunsTyped, NEW r \in Runs, Take(r)
  PROVE  /\ pc[r] = "idle" /\ pc' = [pc EXCEPT ![r] = "search"] /\ flight'[r] \in Flights
         /\ others' = others /\ todo' = todo /\ victims' = victims /\ removed' = removed
         /\ RunTyped(r)' /\ OwnPairs(r)'
  BY DEF RunsTyped, Take, Goto, RunTyped, OwnPairs, Active, Working

LEMMA SearchTyped ==
  ASSUME RunsTyped, NEW r \in Runs, Search(r)
  PROVE  RunTyped(r)' /\ OwnPairs(r)' /\ others' \in [Runs -> SUBSET Flights]
         /\ todo' \in [Runs -> SUBSET Flights]
  BY NearAssumption DEF RunsTyped, Search, Goto, RunTyped, OwnPairs, Active, Working

LEMMA DeletePreviousTyped ==
  ASSUME RunsTyped, NEW r \in Runs, DeletePrevious(r)
  PROVE  RunTyped(r)' /\ OwnPairs(r)' /\ todo' \in [Runs -> SUBSET Flights]
  <1>1. PICK f \in todo[r] :
          /\ victims' = [victims EXCEPT ![r] = Previous(r, f)]
          /\ todo' = [todo EXCEPT ![r] = @ \ {f}]
    BY DEF DeletePrevious
  <1>2. /\ pc[r] = "clear" /\ pc'[r] = "deleting" /\ others' = others /\ flight' = flight
        /\ removed' = removed
    BY DEF DeletePrevious, Goto, RunsTyped
  <1>3. victims'[r] = Previous(r, f) /\ todo'[r] = todo[r] \ {f} /\ f \in others[r]
    BY <1>1, <1>2 DEF RunsTyped, RunTyped, Working
  <1>4. \A row \in Previous(r, f) : Pair(row) = {flight[r], f}
    BY DEF Previous
  <1> QED BY <1>1, <1>2, <1>3, <1>4 DEF RunsTyped, RunTyped, OwnPairs, Active, Working

LEMMA DeletedTyped ==
  ASSUME RunsTyped, NEW r \in Runs, Deleted(r)
  PROVE  RunTyped(r)' /\ OwnPairs(r)'
  BY DEF RunsTyped, Deleted, Goto, RunTyped, OwnPairs, Active, Working

LEMMA RunsTypedStep == RunsTyped /\ [Next]_vars => RunsTyped'
  <1> SUFFICES ASSUME RunsTyped, [Next]_vars PROVE RunsTyped'
    OBVIOUS
  <1>1. ASSUME UNCHANGED <<pc, runVars>>, stored' \subseteq Flights, tasks' \subseteq Flights
        PROVE  RunsTyped'
    BY <1>1 DEF RunsTyped, RunTyped, OwnPairs, runVars
  <1>2. CASE UNCHANGED vars
    BY <1>1, <1>2 DEF vars, RunsTyped, runVars
  <1>3. ASSUME NEW f \in Flights, Upload(f) \/ Reschedule(f) \/ DeleteFlight(f) PROVE RunsTyped'
    BY <1>1, <1>3 DEF RunsTyped, Upload, Reschedule, DeleteFlight
  <1>4. ASSUME NEW r \in Runs, Take(r) \/ RunStep(r) PROVE RunsTyped'
    <2>1. \A q \in Runs : q # r => RunTyped(q)' /\ OwnPairs(q)'
      <3> SUFFICES ASSUME NEW q \in Runs, q # r PROVE RunTyped(q)' /\ OwnPairs(q)'
        OBVIOUS
      <3>1. /\ pc'[q] = pc[q] /\ flight'[q] = flight[q] /\ others'[q] = others[q]
            /\ todo'[q] = todo[q] /\ victims'[q] = victims[q] /\ removed'[q] = removed[q]
        BY <1>4, OtherRuns
      <3> QED BY <3>1 DEF RunsTyped, RunTyped, OwnPairs
    <2>2. RunTyped(r)' /\ OwnPairs(r)'
      <3>1. CASE NothingToDelete(r) \/ Commit(r) \/ RollBack(r)
        BY <3>1 DEF RunsTyped, NothingToDelete, Commit, RollBack, Goto, RunTyped, OwnPairs,
                    Active, Working, runVars
      <3> QED BY <1>4, <3>1, TakeTyped, SearchTyped, DeletePreviousTyped, DeletedTyped DEF RunStep
    <2>3. /\ stored' \subseteq Flights /\ tasks' \subseteq Flights
          /\ pc' \in [Runs -> {"idle", "done", "failed"} \union Active]
      <3>1. stored' = stored /\ tasks' \subseteq tasks
        BY <1>4 DEF Take, RunStep, Search, DeletePrevious, Deleted, NothingToDelete, Commit, RollBack
      <3>2. \E state \in {"idle", "done", "failed"} \union Active : pc' = [pc EXCEPT ![r] = state]
        BY <1>4 DEF Take, RunStep, Search, DeletePrevious, Deleted, NothingToDelete, Commit, RollBack,
                    Goto, Active
      <3> QED BY <3>1, <3>2 DEF RunsTyped
    <2>4. /\ DOMAIN flight' = Runs /\ flight' = [q \in Runs |-> flight'[q]]
          /\ DOMAIN victims' = Runs /\ victims' = [q \in Runs |-> victims'[q]]
          /\ DOMAIN removed' = Runs /\ removed' = [q \in Runs |-> removed'[q]]
      BY <1>4 DEF RunsTyped, Take, RunStep, Search, DeletePrevious, Deleted, NothingToDelete, Commit,
                  RollBack, runVars
    <2>5. others' \in [Runs -> SUBSET Flights] /\ todo' \in [Runs -> SUBSET Flights]
      <3>1. CASE NothingToDelete(r) \/ Commit(r) \/ RollBack(r) \/ Take(r) \/ Deleted(r)
        BY <3>1 DEF RunsTyped, NothingToDelete, Commit, RollBack, Take, Deleted, runVars
      <3>2. CASE DeletePrevious(r)
        BY <3>2, DeletePreviousTyped DEF RunsTyped, DeletePrevious
      <3> QED BY <1>4, <3>1, <3>2, SearchTyped DEF RunStep
    <2> QED BY <2>1, <2>2, <2>3, <2>4, <2>5 DEF RunsTyped
  <1> QED BY <1>2, <1>3, <1>4 DEF Next

LEMMA RunsTypedHold == Spec => []RunsTyped
  BY RunsTypedInit, RunsTypedStep, PTL DEF Spec

------------------------------------------------------------------------------
(* Meetings are found *)

(* A run that goes on or fails is still expected to find the meetings of    *)
(* those it was expected to find, if its search comes to the flights.       *)
LEMMA StillExpected ==
  ASSUME RunsTyped, NEW r \in Runs, Take(r) \/ RunStep(r), ~Commit(r),
         NEW f \in stored, NEW g \in stored, g \in Near[f], f \in Near[g], Expected(f, g)
  PROVE  Expected(f, g)'
  <1>1. CASE Take(r)
    BY <1>1 DEF Take, Goto, Expected, RunsTyped, Working
  <1>2. CASE Search(r)
    BY <1>2 DEF Search, Goto, Expected, RunsTyped, Working
  <1>3. CASE DeletePrevious(r) \/ Deleted(r) \/ NothingToDelete(r)
    BY <1>3 DEF DeletePrevious, Deleted, NothingToDelete, runVars, Goto, Expected, RunsTyped, Working
  <1>4. CASE RollBack(r)
    BY <1>4 DEF RollBack, runVars, Goto, Expected, RunsTyped, Working
  <1> QED BY <1>1, <1>2, <1>3, <1>4 DEF RunStep

(* The rows that a run deletes for good are of pairs that it writes.        *)
LEMMA CommitMeets ==
  ASSUME RunsTyped, NEW r \in Runs, Commit(r), NEW f, NEW g, Met(f, g) \/ Expected(f, g)
  PROVE  Met(f, g)' \/ Expected(f, g)'
  <1>1. /\ pc[r] = "insert" /\ UNCHANGED <<tasks, flight, others>>
        /\ \/ meetings' = (meetings \ removed[r]) \union Found(r) /\ Goto(r, "done")
           \/ Goto(r, "failed")
    BY DEF Commit, runVars
  <1>2. CASE Goto(r, "failed")
    BY <1>2 DEF Goto, RunsTyped, Expected
  <1>3. CASE meetings' = (meetings \ removed[r]) \union Found(r) /\ Goto(r, "done")
    <2>1. \A h \in others[r] : \E row \in meetings' : Pair(row) = {flight[r], h}
      <3> SUFFICES ASSUME NEW h \in others[r] PROVE \E row \in meetings' : Pair(row) = {flight[r], h}
        OBVIOUS
      <3> DEFINE row == [source |-> flight[r], destination |-> h, run |-> r]
      <3>1. row \in meetings' /\ Pair(row) = {flight[r], h}
        BY <1>3 DEF Found, Pair
      <3> QED BY <3>1
    <2>2. CASE Met(f, g)
      <3>1. PICK row \in meetings : Pair(row) = {f, g}
        BY <2>2 DEF Met
      <3>2. CASE row \in removed[r]
        <4>1. PICK h \in others[r] : Pair(row) = {flight[r], h}
          BY <1>1, <3>2 DEF RunsTyped, OwnPairs, Working
        <4>2. PICK next \in meetings' : Pair(next) = {flight[r], h}
          BY <2>1
        <4> QED BY <3>1, <4>1, <4>2 DEF Met
      <3>3. CASE row \notin removed[r]
        BY <1>3, <3>1, <3>3 DEF Met
      <3> QED BY <3>2, <3>3
    <2>3. CASE f \in tasks \/ g \in tasks
      BY <1>1, <2>3 DEF Expected
    <2>4. ASSUME NEW q \in Runs,
                 \/ pc[q] = "failed"
                 \/ pc[q] = "search" /\ flight[q] \in {f, g}
                 \/ /\ pc[q] \in Working
                    /\ \/ flight[q] = f /\ g \in others[q]
                       \/ flight[q] = g /\ f \in others[q]
          PROVE  Met(f, g)' \/ Expected(f, g)'
      <3>1. CASE q = r
        BY <1>1, <2>1, <2>4, <3>1 DEF Met
      <3>2. CASE q # r
        BY <1>1, <1>3, <2>4, <3>2 DEF Goto, RunsTyped, Expected
      <3> QED BY <3>1, <3>2
    <2> QED BY <2>2, <2>3, <2>4 DEF Expected
  <1> QED BY <1>1, <1>2, <1>3

LEMMA MeetingsExpectedStep ==
  ASSUME RunsTyped, MeetingsExpected, [Next]_vars
  PROVE  MeetingsExpected'
  <1> SUFFICES ASSUME NEW f \in stored', NEW g \in stored', g \in Near[f], f \in Near[g]
               PROVE  Met(f, g)' \/ Expected(f, g)'
    BY DEF MeetingsExpected
  <1>1. f \in stored /\ g \in stored => Met(f, g) \/ Expected(f, g)
    BY DEF MeetingsExpected
  <1>2. CASE UNCHANGED vars
    BY <1>1, <1>2 DEF vars, Met, Expected
  <1>3. ASSUME NEW h \in Flights, Upload(h) \/ Reschedule(h) PROVE Met(f, g)' \/ Expected(f, g)'
    BY <1>1, <1>3 DEF Upload, Reschedule, Met, Expected, runVars
  <1>4. ASSUME NEW h \in Flights, DeleteFlight(h) PROVE Met(f, g)' \/ Expected(f, g)'
    <2>1. h # f /\ h # g /\ f \in stored /\ g \in stored
      BY <1>4 DEF DeleteFlight
    <2>2. CASE Met(f, g)
      BY <1>4, <2>1, <2>2 DEF DeleteFlight, Met
    <2>3. CASE Expected(f, g)
      BY <1>4, <2>3 DEF DeleteFlight, Expected, runVars
    <2> QED BY <1>1, <2>1, <2>2, <2>3
  <1>5. ASSUME NEW r \in Runs, Commit(r) PROVE Met(f, g)' \/ Expected(f, g)'
    BY <1>1, <1>5, CommitMeets DEF Commit
  <1>6. ASSUME NEW r \in Runs, Take(r) \/ RunStep(r), ~Commit(r) PROVE Met(f, g)' \/ Expected(f, g)'
    <2>1. stored' = stored /\ meetings' = meetings
      BY <1>6 DEF Take, RunStep, Search, DeletePrevious, Deleted, NothingToDelete, RollBack
    <2>2. CASE Met(f, g)
      BY <2>1, <2>2 DEF Met
    <2> QED BY <1>1, <1>6, <2>1, <2>2, StillExpected
  <1> QED BY <1>2, <1>3, <1>4, <1>5, <1>6 DEF Next, RunStep

(* When every task has ended well, two flights that are near each other     *)
(* have a meeting, in whatever order flights were committed, searched for,  *)
(* deleted and cleared of previous meetings by any number of workers        *)
(* (find_meetings_task).                                                    *)
THEOREM NeighboursMeet == Spec => []MeetingsFound
  <1>1. Init => MeetingsExpected
    BY DEF Init, MeetingsExpected
  <1>2. MeetingsExpected => MeetingsFound
    BY DEF MeetingsExpected, MeetingsFound, Met, Expected, Working
  <1> QED BY <1>1, <1>2, MeetingsExpectedStep, RunsTypedHold, PTL DEF Spec

------------------------------------------------------------------------------
(* One run at a time *)

(* A lone run has deleted the rows of each pair, or is going to. *)
Cleared(r) ==
  pc[r] \in Working =>
    \A row \in meetings, f \in others[r] : Pair(row) = {flight[r], f} =>
      \/ row \in removed[r]
      \/ pc[r] # "insert" /\ f \in todo[r]
      \/ pc[r] = "deleting" /\ row \in victims[r]
Alone ==
  /\ IsFiniteSet(ActiveRuns) /\ \A q, r \in ActiveRuns : q = r
  /\ \A r \in Runs : Cleared(r)
  /\ OneRunPerPair

(* A set with no more than one element. *)
LEMMA AtMostOne ==
  ASSUME NEW S, IsFiniteSet(S), Cardinality(S) <= 1, NEW x \in S, NEW y \in S
  PROVE  x = y
  <1> SUFFICES ASSUME x # y PROVE FALSE
    OBVIOUS
  <1> DEFINE T == {x} \union {y}
  <1>1. IsFiniteSet({x}) /\ Cardinality({x}) = 1
    BY FS_Singleton
  <1>2. Cardinality(T) = 2
    <2>1. y \notin {x}
      OBVIOUS
    <2>2. Cardinality({x} \union {y}) = Cardinality({x}) + 1
      BY <1>1, <2>1, FS_AddElement
    <2> QED BY <1>1, <2>2
  <1>3. Cardinality(T) <= Cardinality(S)
    <2>1. T \in SUBSET S
      OBVIOUS
    <2> HIDE DEF T
    <2> QED BY <2>1, FS_Subset
  <1>4. Cardinality(S) \in Nat
    BY FS_CardinalityType
  <1> QED BY <1>2, <1>3, <1>4

LEMMA ActiveRunsFinite ==
  ASSUME RunsTyped, IsFiniteSet(ActiveRuns), NEW r \in Runs, Take(r) \/ RunStep(r)
  PROVE  IsFiniteSet(ActiveRuns')
  <1>1. ActiveRuns' \subseteq ActiveRuns \union {r}
    BY OtherRuns DEF ActiveRuns
  <1>2. IsFiniteSet(ActiveRuns \union {r})
    BY FS_AddElement
  <1> QED BY <1>1, <1>2, FS_Subset

LEMMA ClearedStep ==
  ASSUME RunsTyped, Alone, NEW r \in Runs, Take(r) \/ RunStep(r),
         \A p, q \in ActiveRuns' : p = q
  PROVE  /\ \A q \in Runs : Cleared(q)'
         /\ OneRunPerPair'
  <1>0. OneRunPerPair
    BY DEF Alone
  <1>1. \A q \in Runs : q # r => pc'[q] \notin Working /\ Cleared(q)'
    <2> SUFFICES ASSUME NEW q \in Runs, q # r, pc'[q] \in Working PROVE FALSE
      BY DEF Cleared
    <2>1. pc[q] \in Working
      BY OtherRuns
    <2>2. CASE pc[r] \in Active
      BY <2>1, <2>2 DEF Alone, ActiveRuns, Active, Working
    <2>3. CASE Take(r)
      <3>1. pc'[r] \in Active
        BY <2>3 DEF Take, Goto, RunsTyped, Active
      <3> QED BY <3>1 DEF ActiveRuns, Active, Working
    <2>4. RunStep(r) => pc[r] \in Active
      BY DEF RunStep, Search, DeletePrevious, Deleted, NothingToDelete, Commit, RollBack, Active
    <2> QED BY <2>2, <2>3, <2>4
  <1>2. CASE Take(r) \/ RollBack(r)
    BY <1>1, <1>2 DEF Take, RollBack, Goto, RunsTyped, Cleared, Working, Alone, OneRunPerPair
  <1>3. CASE Search(r)
    <2>1. Cleared(r)'
      BY <1>3 DEF Search, Goto, RunsTyped, Cleared, Working
    <2> QED BY <1>1, <1>3, <2>1 DEF Search, Alone, OneRunPerPair
  <1>4. CASE DeletePrevious(r)
    <2>1. PICK f \in todo[r] :
            /\ victims' = [victims EXCEPT ![r] = Previous(r, f)]
            /\ todo' = [todo EXCEPT ![r] = @ \ {f}]
      BY <1>4 DEF DeletePrevious
    <2>2. /\ pc[r] = "clear" /\ pc'[r] = "deleting" /\ others' = others /\ flight' = flight
          /\ removed' = removed /\ meetings' = meetings
      BY <1>4 DEF DeletePrevious, Goto, RunsTyped
    <2>3. victims'[r] = Previous(r, f) /\ todo'[r] = todo[r] \ {f}
      BY <2>1 DEF RunsTyped
    <2>4. Cleared(r)'
      BY <2>2, <2>3 DEF Cleared, Alone, Working, Previous
    <2> QED BY <1>1, <2>2, <2>4 DEF Alone, OneRunPerPair
  <1>5. CASE Deleted(r)
    <2>1. Cleared(r)'
      BY <1>5 DEF Deleted, Goto, RunsTyped, Cleared, Working, Alone
    <2> QED BY <1>1, <1>5, <2>1 DEF Deleted, Alone, OneRunPerPair
  <1>6. CASE NothingToDelete(r)
    <2>1. Cleared(r)'
      BY <1>6 DEF NothingToDelete, Goto, RunsTyped, Cleared, Working, Alone, runVars
    <2> QED BY <1>1, <1>6, <2>1 DEF NothingToDelete, Alone, OneRunPerPair
  <1>7. CASE Commit(r)
    <2>1. Cleared(r)'
      BY <1>7 DEF Commit, Goto, RunsTyped, Cleared, Working
    <2>2. ASSUME meetings' = meetings PROVE OneRunPerPair'
      BY <1>0, <2>2 DEF OneRunPerPair
    <2>3. ASSUME meetings' = (meetings \ removed[r]) \union Found(r) PROVE OneRunPerPair'
      <3>1. pc[r] = "insert"
        BY <1>7 DEF Commit
      <3>2. \A row \in meetings \ removed[r], f \in others[r] : Pair(row) # {flight[r], f}
        BY <3>1 DEF Alone, Cleared, Working
      <3>3. \A row \in Found(r) : \E f \in others[r] :
              row = [source |-> flight[r], destination |-> f, run |-> r] /\ Pair(row) = {flight[r], f}
        BY DEF Found, Pair
      <3>4. \A x, y \in Found(r) : Pair(x) = Pair(y) => x = y
        BY <3>3
      <3>5. \A x, y \in meetings \ removed[r] : Pair(x) = Pair(y) => x = y
        BY <1>0 DEF OneRunPerPair
      <3>6. \A x \in Found(r), y \in meetings \ removed[r] : Pair(x) # Pair(y)
        BY <3>2, <3>3
      <3>7. \A x, y \in meetings' : Pair(x) = Pair(y) => x = y
        BY <2>3, <3>4, <3>5, <3>6
      <3> QED BY <3>7 DEF OneRunPerPair
    <2> QED BY <1>1, <1>7, <2>1, <2>2, <2>3 DEF Commit
  <1> QED BY <1>2, <1>3, <1>4, <1>5, <1>6, <1>7 DEF RunStep

LEMMA AloneStep ==
  ASSUME RunsTyped, Alone, [MCNext]_<<vars, parallel>>, ~parallel
  PROVE  Alone'
  <1>1. ASSUME UNCHANGED <<pc, runVars>>, meetings' \subseteq meetings PROVE Alone'
    BY <1>1 DEF Alone, ActiveRuns, Cleared, OneRunPerPair, runVars
  <1>2. CASE UNCHANGED vars
    BY <1>1, <1>2 DEF vars, runVars
  <1>3. ASSUME NEW f \in Flights, Upload(f) \/ Reschedule(f) \/ DeleteFlight(f) PROVE Alone'
    BY <1>1, <1>3 DEF Upload, Reschedule, DeleteFlight
  <1>4. ASSUME NEW r \in Runs, Take(r) \/ RunStep(r), Cardinality(ActiveRuns') <= 1 PROVE Alone'
    <2>1. IsFiniteSet(ActiveRuns')
      BY <1>4, ActiveRunsFinite DEF Alone
    <2>2. \A p, q \in ActiveRuns' : p = q
      BY <1>4, <2>1, AtMostOne
    <2> QED BY <1>4, <2>1, <2>2, ClearedStep DEF Alone
  <1>5. [Next]_vars /\ (Next => Cardinality(ActiveRuns') <= 1 \/ UNCHANGED vars)
    BY DEF MCNext, vars
  <1> QED BY <1>2, <1>3, <1>4, <1>5 DEF Next

(* One run at a time: the meetings of two flights are those of one run, the *)
(* latest for either ("delete all previous detected points between src and  *)
(* dst").                                                                   *)
THEOREM SerialRunsReplace == MCSpec => []SerialOneRunPerPair
  <1> DEFINE Inv == ~parallel => Alone
  <1>1. MCInit => Inv
    <2>1. Init => ActiveRuns = {}
      BY DEF Init, ActiveRuns, Active
    <2>2. Init => Alone
      BY <2>1, FS_EmptySet DEF Init, Alone, Cleared, OneRunPerPair, Working
    <2> QED BY <2>2 DEF MCInit
  <1>2. RunsTyped /\ Inv /\ [MCNext]_<<vars, parallel>> => Inv'
    <2>1. [MCNext]_<<vars, parallel>> => parallel' = parallel
      BY DEF MCNext
    <2> QED BY <2>1, AloneStep
  <1>3. MCSpec => []RunsTyped
    <2>1. MCInit => Init
      BY DEF MCInit
    <2>2. [MCNext]_<<vars, parallel>> => [Next]_vars
      BY DEF MCNext
    <2> QED BY <2>1, <2>2, RunsTypedInit, RunsTypedStep, PTL DEF MCSpec
  <1>4. Inv => SerialOneRunPerPair
    BY DEF Alone, SerialOneRunPerPair
  <1> HIDE DEF Inv
  <1> QED BY <1>1, <1>2, <1>3, <1>4, PTL DEF MCSpec
==============================================================================
