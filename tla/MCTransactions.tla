---------------------------- MODULE MCTransactions ----------------------------
(* Transactions that wait for each other's locks, for TLC: those of tasks   *)
(* that find meetings, which wait for rows that another one has deleted     *)
(* (MCMeetings), and those of uploads, which wait for digests that another  *)
(* one has inserted (Upload).  Tasks and uploads do not wait for each other. *)
EXTENDS MCMeetings, Sequences

CONSTANTS u1, u2, Missing, Empty, Mixed

VARIABLES
  uploads,  \* whether a behaviour is about uploads
  disk, handle, flights, rows, queue, step, batch, file, md5, answers, target

uploadVars == <<disk, handle, flights, rows, queue, step, batch, file, md5, answers, target>>

(* Two archives with the same flights in opposite orders, each under names  *)
(* of its own.                                                              *)
Archives == {u1, u2}
Contents == {"good", "fine"}
Named(data, name) == [data |-> data, name |-> name]
Crossing ==
  [r \in Archives |-> IF r = u1 THEN <<Named("good", 0), Named("fine", 1)>>
                      ELSE <<Named("fine", 2), Named("good", 3)>>]

U == INSTANCE Upload WITH
  Uploads <- Archives, Deletes <- {}, Data <- Contents, Batches <- {Crossing[r] : r \in Archives},
  Verdict <- [d \in Contents |-> "SUCCESS"], Names <- 0 .. 3, Threads <- 2,
  Faulty <- {u1}, pc <- step

TransactionsInit == MCInit /\ U!Init /\ uploads \in BOOLEAN /\ (uploads => ~parallel)
TransactionsNext ==
  /\ UNCHANGED uploads
  /\ \/ /\ uploads /\ U!Next /\ UNCHANGED <<vars, parallel>>
        /\ \A r \in Archives : batch'[r] \in {<<>>, Crossing[r]}
     \/ ~uploads /\ MCNext /\ UNCHANGED uploadVars
TransactionsSpec ==
  /\ TransactionsInit /\ [][TransactionsNext]_<<vars, parallel, uploads, uploadVars>>
  /\ \A r \in Runs : WF_vars(RunStep(r))
  /\ \A r \in Archives : WF_uploadVars(U!UploadStep(r))

(* Two archives whose flights are the same in opposite orders do not wait   *)
(* for each other for ever: see EveryRequestEnds of Upload.                 *)
EveryRequestEnds == U!EveryRequestEnds
==============================================================================
