----------------------------- MODULE MCMeetings ------------------------------
(* Meetings for TLC, with one worker process or with two.  Runs differ in   *)
(* nothing but their names and are taken in order; so do flights where none *)
(* is deleted.                                                              *)
EXTENDS Meetings

VARIABLE parallel

(* All flights meet pairwise. *)
MCNear == [f \in Flights |-> Flights \ {f}]

UploadedInOrder == \A f \in stored : \A g \in Flights : g < f => g \in stored
ActiveRuns == {r \in Runs : pc[r] \in Active}

MCInit == Init /\ parallel \in BOOLEAN
MCNext ==
  /\ Next /\ UNCHANGED parallel
  /\ \A r \in Runs : pc'[r] = "idle" => \A q \in Runs : q > r => pc'[q] = "idle"
  /\ IF parallel THEN deleted' = {} /\ pc'[4] = "idle" /\ UploadedInOrder'
     ELSE Cardinality(ActiveRuns') <= 1
MCSpec == MCInit /\ [][MCNext]_<<vars, parallel>> /\ \A r \in Runs : WF_vars(RunStep(r))

(* Stated of one worker process: see OneRunPerPair. *)
SerialOneRunPerPair == ~parallel => OneRunPerPair
==============================================================================
