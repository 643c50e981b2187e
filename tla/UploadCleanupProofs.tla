------------------------- MODULE UploadCleanupProofs -------------------------
(***************************************************************************)
(* What uploads and deletions leave behind: OrphansOfFailuresOnly and      *)
(* TasksForPublished of Upload, for any number of requests and names.      *)
(*                                                                         *)
(* OrphansOfFailuresOnly is not inductive: a request at "next" would still *)
(* own a name that it has only looked at, and a deletion could take away   *)
(* the row of a name that was used again after its unlink.  FilesOwned     *)
(* counts a name from its open on, and a row only until its file is gone.  *)
(*                                                                         *)
(* Of requests one at a time, where it cannot happen that two write one    *)
(* file, TurnsInv follows a file from its open to the verdict and to the   *)
(* line of the result page; NamesKept adds that no two rows share a name,  *)
(* unless a delete request died between its unlink and its commit.         *)
(***************************************************************************)
EXTENDS UploadProofs, MCUploadModes, FiniteSetTheorems

(* From the open on, the file of an upload is its own to keep or delete. *)
HoldsFile ==
  {"write", "hash", "lookup", "headers", "analyse", "insert", "aborted"} \union Rejections

Kept(r) ==
  IF pc[r] \in InTransaction \union {"aborted"}
  THEN {row.file : row \in rows[r]} \union (IF pc[r] \in HoldsFile THEN {file[r]} ELSE {})
  ELSE {}

BeingErased(row) == \E d \in Deletes : pc[d] = "erase" /\ row \in target[d]

FilesOwned ==
  \A n \in Names : disk[n] # Missing =>
    \/ \E row \in flights : row.file = n /\ ~BeingErased(row)
    \/ \E r \in Uploads : n \in Kept(r)

(* What is published, or loaded by a delete request, comes from a request   *)
(* that has committed.                                                      *)
Published ==
  /\ \A row \in flights : Committed(row.id[1])
  /\ \A d \in Deletes : \A row \in target[d] : Committed(row.id[1])

CleanInv == IInv /\ OneTarget /\ FilesOwned /\ Published

LEMMA InitClean == Init => FilesOwned /\ Published
  BY DEF Init, FilesOwned, Published

(* A step of one upload that neither publishes nor touches the deletions:   *)
(* what it creates it keeps, and what it no longer keeps is gone.           *)
LEMMA OwnedByUploads ==
  ASSUME FilesOwned, NEW r \in Uploads,
         UNCHANGED <<flights, target>>, \A d \in Deletes : pc'[d] = pc[d],
         \A q \in Uploads \ {r} : Kept(q)' = Kept(q),
         \A n \in Names : disk'[n] # Missing => disk[n] # Missing \/ n \in Kept(r)',
         \A n \in Names : n \in Kept(r) => disk'[n] = Missing \/ n \in Kept(r)'
  PROVE  FilesOwned'
  <1> SUFFICES ASSUME NEW n \in Names, disk'[n] # Missing, n \notin Kept(r)'
               PROVE  \/ \E row \in flights' : row.file = n /\ ~BeingErased(row)'
                      \/ \E q \in Uploads : n \in Kept(q)'
    BY DEF FilesOwned
  <1>1. disk[n] # Missing /\ n \notin Kept(r)
    OBVIOUS
  <1>2. CASE \E row \in flights : row.file = n /\ ~BeingErased(row)
    BY <1>2 DEF BeingErased
  <1>3. CASE \E q \in Uploads : n \in Kept(q)
    BY <1>1, <1>3
  <1> QED
    BY <1>1, <1>2, <1>3 DEF FilesOwned

(* Committed requests stay committed. *)
LEMMA PublishedKept ==
  ASSUME Published, \A q \in Uploads : Committed(q) => Committed(q)', RowOwners,
         flights' \subseteq flights, UNCHANGED target, flights \subseteq Row, TypeOK
  PROVE  Published'
  <1>1. \A row \in Row : row.id[1] \in Uploads
    BY DEF Row
  <1>2. \A d \in Deletes : target[d] \subseteq Row
    BY DEF TypeOK
  <1> QED
    BY <1>1, <1>2 DEF Published

LEMMA UploadKeeps ==
  ASSUME CleanInv, NEW r \in Uploads, Receive(r) \/ UploadStep(r), ~Commit(r)
  PROVE  FilesOwned' /\ Published'
  <1> USE DEF CleanInv, IInv, TypeInv
  <1>1. r \in Requests /\ r \notin Deletes /\ Uploads \subseteq Requests /\ Deletes \subseteq Requests
    BY RequestsAssumption DEF Requests
  <1>2. UNCHANGED <<flights, target>>
    <2>1. CASE Receive(r) \/ NextFile(r) \/ Probe(r) \/ Open(r) \/ Write(r) \/ Hash(r)
               \/ LookUp(r) \/ ReadHeaders(r) \/ Analyse(r) \/ Reject(r)
      BY <2>1 DEF Receive, NextFile, Probe, Open, Write, Hash, LookUp, ReadHeaders,
                  Analyse, Reject, dbVars, localVars
    <2>2. CASE Insert(r) \/ InsertConflict(r) \/ InsertDeadlock(r)
               \/ Enqueue(r) \/ RedisDown(r) \/ Respond(r)
      BY <2>2 DEF Insert, InsertConflict, InsertDeadlock, Enqueue, RedisDown, Respond,
                  dbVars, localVars
    <2> QED BY <2>1, <2>2 DEF UploadStep
  <1>3. /\ \A q \in Requests \ {r} : pc'[q] = pc[q]
        /\ \A q \in Uploads \ {r} : rows'[q] = rows[q] /\ file'[q] = file[q]
    <2>1. CASE Receive(r) \/ NextFile(r) \/ Probe(r) \/ Open(r) \/ Write(r) \/ Hash(r)
               \/ LookUp(r)
      BY <2>1, <1>1 DEF Receive, NextFile, Probe, Open, Write, Hash, LookUp,
                  dbVars, localVars, Goto, TypeOK
    <2>2. CASE ReadHeaders(r) \/ Analyse(r) \/ Reject(r) \/ Insert(r)
      BY <2>2, <1>1 DEF ReadHeaders, Analyse, Reject, Insert, dbVars, localVars, Goto, TypeOK
    <2>3. CASE InsertConflict(r) \/ InsertDeadlock(r)
               \/ Enqueue(r) \/ RedisDown(r) \/ Respond(r)
      BY <2>3, <1>1 DEF InsertConflict, InsertDeadlock, Enqueue, RedisDown, Respond,
                  dbVars, localVars, Goto, TypeOK
    <2> QED BY <2>1, <2>2, <2>3 DEF UploadStep
  <1>4. \A q \in Uploads \ {r} : Kept(q)' = Kept(q)
    BY <1>1, <1>3 DEF Kept
  <1>5. Committed(r) => Committed(r)'
    <2>1. CASE Receive(r) \/ NextFile(r) \/ Probe(r) \/ Open(r) \/ Write(r) \/ Hash(r)
               \/ LookUp(r) \/ ReadHeaders(r) \/ Analyse(r) \/ Reject(r)
      BY <2>1 DEF Receive, NextFile, Probe, Open, Write, Hash, LookUp, ReadHeaders,
                  Analyse, Reject, Committed, Rejections
    <2>2. CASE Insert(r) \/ InsertConflict(r) \/ InsertDeadlock(r)
      BY <2>2 DEF Insert, InsertConflict, InsertDeadlock, Committed
    <2>3. CASE Enqueue(r) \/ RedisDown(r) \/ Respond(r)
      BY <2>3, <1>1 DEF Enqueue, RedisDown, Respond, Committed, Goto, TypeOK
    <2> QED BY <2>1, <2>2, <2>3 DEF UploadStep
  <1>6. Published'
    <2>1. \A q \in Uploads : Committed(q) => Committed(q)'
      BY <1>1, <1>3, <1>5 DEF Committed
    <2> QED BY <1>2, <2>1, PublishedKept DEF TypeOK
  <1>7. /\ \A n \in Names : disk'[n] # Missing => disk[n] # Missing \/ n \in Kept(r)'
        /\ \A n \in Names : n \in Kept(r) => disk'[n] = Missing \/ n \in Kept(r)'
    <2>1. CASE Receive(r) \/ NextFile(r) \/ Probe(r)
      BY <2>1, <1>1 DEF Receive, NextFile, Probe, Kept, Goto, TypeOK, fileVars, dbVars,
                  HoldsFile, InTransaction, Rejections
    <2>2. CASE Open(r)
      BY <2>2, <1>1 DEF Open, Kept, Goto, TypeOK, dbVars, localVars,
                  HoldsFile, InTransaction, Rejections
    <2>3. CASE Write(r)
      BY <2>3, <1>1 DEF Write, Kept, Goto, TypeOK, dbVars, localVars,
                  HoldsFile, InTransaction, Rejections
    <2>4. CASE Hash(r) \/ LookUp(r) \/ ReadHeaders(r) \/ Analyse(r) \/ InsertConflict(r)
               \/ InsertDeadlock(r)
      <3>1. /\ UNCHANGED <<disk, rows, file>>
            /\ pc[r] \in HoldsFile /\ pc[r] \in InTransaction
            /\ \E state \in HoldsFile : Goto(r, state) /\ state \in InTransaction \union {"aborted"}
        BY <2>4 DEF Hash, LookUp, ReadHeaders, Analyse, InsertConflict, InsertDeadlock,
                    HoldsFile, InTransaction, Rejections, fileVars, dbVars, localVars
      <3> QED BY <3>1, <1>1 DEF Kept, Goto, TypeOK
    <2>5. CASE Reject(r)
      BY <2>5, <1>1 DEF Reject, Unlink, Kept, Goto, TypeOK, dbVars,
                  HoldsFile, InTransaction, Rejections
    <2>6. CASE Insert(r)
      <3>1. file[r] \in {row.file : row \in rows'[r]} /\ rows[r] \subseteq rows'[r]
        <4>1. rows'[r] = rows[r] \union {NewRow(r)}
          BY <2>6 DEF Insert, TypeOK
        <4>2. NewRow(r).file = file[r]
          BY DEF NewRow
        <4> QED BY <4>1, <4>2
      <3> QED BY <2>6, <3>1, <1>1 DEF Insert, Kept, Goto, TypeOK, fileVars,
                  HoldsFile, InTransaction, Rejections
    <2>7. CASE Enqueue(r) \/ RedisDown(r) \/ Respond(r)
      BY <2>7, <1>1 DEF Enqueue, RedisDown, Respond, Kept, fileVars,
                  HoldsFile, InTransaction, Rejections
    <2> QED BY <2>1, <2>2, <2>3, <2>4, <2>5, <2>6, <2>7 DEF UploadStep
  <1> QED
    BY <1>1, <1>2, <1>3, <1>4, <1>6, <1>7, OwnedByUploads

(* A commit hands its files over to its rows, which nobody can have loaded  *)
(* for deletion before.                                                     *)
LEMMA CommitKeeps ==
  ASSUME CleanInv, NEW r \in Uploads, Commit(r)
  PROVE  FilesOwned' /\ Published'
  <1> USE DEF CleanInv, IInv, TypeInv
  <1>1. r \in Requests /\ r \notin Deletes /\ Uploads \subseteq Requests /\ Deletes \subseteq Requests
    BY RequestsAssumption DEF Requests
  <1>2. /\ UNCHANGED <<disk, rows, file, target>>
        /\ pc[r] = "next"
        /\ \A q \in Requests \ {r} : pc'[q] = pc[q]
    BY <1>1 DEF Commit, Goto, TypeOK, fileVars, localVars
  <1>3. \A q \in Uploads \ {r} : Kept(q)' = Kept(q)
    BY <1>1, <1>2 DEF Kept
  <1>4. CASE flights' = flights /\ Goto(r, "aborted")
    <2>1. \A n \in Names : n \in Kept(r) => n \in Kept(r)'
      BY <1>1, <1>2, <1>4 DEF Kept, Goto, TypeOK, InTransaction, HoldsFile, Rejections
    <2>2. FilesOwned'
      BY <1>1, <1>2, <1>3, <1>4, <2>1, OwnedByUploads
    <2>3. \A q \in Uploads : Committed(q) => Committed(q)'
      BY <1>1, <1>2 DEF Committed
    <2> QED BY <1>2, <1>4, <2>2, <2>3, PublishedKept DEF TypeOK
  <1>5. CASE flights' = flights \union rows[r] /\ Goto(r, "enqueue")
    <2>1. \A q \in Uploads : Committed(q) => Committed(q)'
      BY <1>1, <1>2 DEF Committed
    <2>2. Committed(r)' /\ ~Committed(r)
      BY <1>1, <1>2, <1>5 DEF Committed, Goto, TypeOK
    <2>3. \A row \in rows[r] : row.id[1] = r
      BY DEF RowOwners
    <2>4. \A row \in flights : row.id[1] \in Uploads
      BY DEF TypeOK, Row
    <2>5. \A d \in Deletes : \A row \in target[d] : row.id[1] \in Uploads
      BY DEF TypeOK, Row
    <2>6. Published'
      BY <1>2, <1>5, <2>1, <2>2, <2>3, <2>4, <2>5 DEF Published
    <2>7. \A row : BeingErased(row)' <=> BeingErased(row)
      BY <1>1, <1>2 DEF BeingErased
    <2>8. \A row \in rows[r] : ~BeingErased(row)
      BY <2>2, <2>3 DEF BeingErased, Published
    <2>9. \A n \in Kept(r) : \E row \in rows[r] : row.file = n
      BY <1>2 DEF Kept, HoldsFile, Rejections
    <2>10. FilesOwned'
      BY <1>2, <1>3, <1>5, <2>7, <2>8, <2>9 DEF FilesOwned
    <2> QED BY <2>6, <2>10
  <1> QED
    BY <1>4, <1>5 DEF Commit

(* A deletion takes its row away only after the file, and whatever uses the *)
(* name again has another owner.                                            *)
LEMMA DeleteKeeps ==
  ASSUME CleanInv, NEW d \in Deletes, DeleteLoad(d) \/ DeleteStep(d)
  PROVE  FilesOwned' /\ Published'
  <1> USE DEF CleanInv, IInv, TypeInv
  <1>1. d \in Requests /\ d \notin Uploads /\ Uploads \subseteq Requests /\ Deletes \subseteq Requests
    BY RequestsAssumption DEF Requests
  <1>2. /\ UNCHANGED <<rows, file>>
        /\ \A q \in Requests \ {d} : pc'[q] = pc[q]
    BY <1>1 DEF DeleteLoad, DeleteStep, DeleteUnlink, DeleteCommit, Goto, TypeOK,
                dbVars, localVars, fileVars
  <1>3. \A q \in Uploads : Kept(q)' = Kept(q) /\ (Committed(q) => Committed(q)')
    BY <1>1, <1>2 DEF Kept, Committed
  <1>4. CASE DeleteLoad(d)
    <2>1. PICK row \in flights : target' = [target EXCEPT ![d] = {row}]
      BY <1>4 DEF DeleteLoad
    <2>2. /\ UNCHANGED <<disk, flights>> /\ pc[d] = "idle" /\ pc'[d] = "unlink"
      BY <1>4, <1>1 DEF DeleteLoad, fileVars, dbVars, Goto, TypeOK
    <2>3. \A a : BeingErased(a)' => BeingErased(a)
      BY <2>1, <2>2, <1>1, <1>2 DEF BeingErased, TypeOK
    <2>4. FilesOwned'
      BY <1>3, <2>2, <2>3 DEF FilesOwned
    <2>5. \A a \in Row : a.id[1] \in Uploads
      BY DEF Row
    <2>6. \A e \in Deletes : \A a \in target'[e] : a \in target[e] \/ a \in flights
      BY <2>1 DEF TypeOK
    <2>7. Published'
      BY <1>3, <2>2, <2>5, <2>6 DEF Published, TypeOK
    <2> QED BY <2>4, <2>7
  <1>5. CASE DeleteUnlink(d)
    <2>1. UNCHANGED <<flights, target>>
      BY <1>5 DEF DeleteUnlink, dbVars, localVars
    <2>2. PICK row \in target[d] : Unlink(row.file)
      BY <1>5 DEF DeleteUnlink
    <2>3. row.file \in Names
      BY DEF TypeOK, Row
    <2>4. \A n \in Names : disk'[n] # Missing => disk[n] # Missing /\ n # row.file
      BY <2>2, <2>3 DEF Unlink, TypeOK
    <2>5. \A a : BeingErased(a)' => BeingErased(a) \/ a = row
      BY <2>1, <1>1, <1>2 DEF BeingErased, OneTarget
    <2>6. FilesOwned'
      BY <1>3, <2>1, <2>4, <2>5 DEF FilesOwned
    <2>7. Published'
      BY <1>3, <2>1, PublishedKept DEF TypeOK
    <2> QED BY <2>6, <2>7
  <1>6. CASE DeleteCommit(d)
    <2>1. /\ UNCHANGED <<disk, target>> /\ flights' = flights \ target[d]
          /\ pc[d] = "erase" /\ pc'[d] = "done"
      BY <1>6, <1>1 DEF DeleteCommit, fileVars, localVars, Goto, TypeOK
    <2>2. \A a : BeingErased(a)' => BeingErased(a)
      BY <2>1, <1>1, <1>2 DEF BeingErased
    <2>3. \A a \in flights : ~BeingErased(a) => a \in flights'
      BY <2>1 DEF BeingErased
    <2>4. FilesOwned'
      BY <1>3, <2>1, <2>2, <2>3 DEF FilesOwned
    <2>5. Published'
      BY <1>3, <2>1, PublishedKept DEF TypeOK
    <2> QED BY <2>4, <2>5
  <1> QED
    BY <1>4, <1>5, <1>6 DEF DeleteStep

(* Who dies keeps what it held. *)
LEMMA DieKeeps ==
  ASSUME CleanInv, NEW r \in Requests, Die(r)
  PROVE  FilesOwned' /\ Published'
  <1> USE DEF CleanInv, IInv, TypeInv
  <1>1. /\ UNCHANGED <<disk, flights, rows, file, target>>
        /\ \A q \in Requests \ {r} : pc'[q] = pc[q]
        /\ pc[r] \in Active
        /\ pc'[r] = IF PastRecall(r) THEN "cutOff" ELSE "aborted"
    BY DEF Die, Goto, TypeOK, dbVars, localVars
  <1>a. r \in Uploads => (PastRecall(r) <=> pc[r] = "enqueue")
    BY RequestsAssumption DEF PastRecall
  <1>2. Uploads \subseteq Requests /\ Deletes \subseteq Requests
    BY DEF Requests
  <1>3. \A q \in Uploads : Kept(q) \subseteq Kept(q)'
    BY <1>1, <1>a, <1>2 DEF Kept, Active, InTransaction, HoldsFile, Rejections
  <1>4. \A a : BeingErased(a)' => BeingErased(a)
    BY <1>1, <1>2 DEF BeingErased
  <1>5. \A q \in Uploads : Committed(q) => Committed(q)'
    BY <1>1, <1>a, <1>2 DEF Committed, Active, InTransaction, Rejections
  <1>6. FilesOwned'
    BY <1>1, <1>3, <1>4 DEF FilesOwned
  <1>7. Published'
    BY <1>1, <1>5, PublishedKept DEF TypeOK
  <1> QED BY <1>6, <1>7

LEMMA CleanHolds == Init /\ [][Next]_vars => []CleanInv
  <1>1. Init => FilesOwned /\ Published
    BY InitClean
  <1>2. CleanInv /\ [Next]_vars => FilesOwned' /\ Published'
    <2> SUFFICES ASSUME CleanInv, [Next]_vars PROVE FilesOwned' /\ Published'
      OBVIOUS
    <2>1. CASE UNCHANGED vars
      BY <2>1 DEF vars, CleanInv, FilesOwned, Published, Kept, BeingErased, Committed
    <2> QED
      BY <2>1, UploadKeeps, CommitKeeps, DeleteKeeps, DieKeeps DEF Next
  <1>3. CleanInv <=> IInv /\ OneTarget /\ FilesOwned /\ Published
    BY DEF CleanInv
  <1> QED
    BY <1>1, <1>2, <1>3, InvariantHolds, OneTargetHolds, PTL

(* A file without a flight is one that an upload under way still holds, or  *)
(* the leftover of one that failed (killed, a conflict, a deadlock, a       *)
(* flight that cannot be flushed): no request that is answered leaves one,  *)
(* however many run (delete_file on each rejecting path, unlink before      *)
(* delete).                                                                 *)
THEOREM NothingOrphaned == Spec => []OrphansOfFailuresOnly
  <1>1. CleanInv => OrphansOfFailuresOnly
    BY DEF CleanInv, FilesOwned, OrphansOfFailuresOnly, Kept, StoredBy, Failed
  <1> QED
    BY <1>1, CleanHolds, PTL DEF Spec

------------------------------------------------------------------------------
(* Tasks *)

(* Each file answered SUCCESS has its row; the queue is about such rows. *)
RowsForAnswers ==
  \A r \in Uploads : \A i \in DOMAIN answers[r] :
    answers[r][i] = "SUCCESS" => \E row \in rows[r] : row.id = <<r, i>>

TaskInv == IInv /\ RowsForAnswers /\ TasksForPublished

(* Steps at which requests keep their rows and answers, and no task comes   *)
(* or only tasks of a committed request's rows.                             *)
LEMMA TasksKept ==
  ASSUME TaskInv, UNCHANGED <<rows, answers>>,
         \A q \in Uploads : Committed(q) => Committed(q)',
         \A task \in queue' \ queue :
           \E r \in Uploads : Committed(r) /\ \E row \in rows[r] : row.id = task[2]
  PROVE  RowsForAnswers' /\ TasksForPublished'
  <1>1. RowsForAnswers'
    BY DEF TaskInv, RowsForAnswers
  <1>2. TasksForPublished'
    BY DEF TaskInv, TasksForPublished
  <1> QED BY <1>1, <1>2

LEMMA UploadTasks ==
  ASSUME TaskInv, NEW r \in Uploads, Receive(r) \/ UploadStep(r)
  PROVE  RowsForAnswers' /\ TasksForPublished'
  <1> USE DEF TaskInv, IInv, TypeInv
  <1>1. r \in Requests /\ Uploads \subseteq Requests
    BY DEF Requests
  <1>2. answers[r] \in Seq(UploadStatus) /\ rows[r] \subseteq Row
    BY DEF TypeOK
  <1>3. CASE Receive(r) \/ NextFile(r) \/ Probe(r) \/ Open(r) \/ Write(r) \/ Hash(r)
             \/ LookUp(r) \/ ReadHeaders(r) \/ Analyse(r) \/ InsertConflict(r)
             \/ InsertDeadlock(r) \/ Commit(r)
    <2>1. UNCHANGED <<rows, answers, queue>>
      BY <1>3 DEF Receive, NextFile, Probe, Open, Write, Hash, LookUp, ReadHeaders, Analyse,
                  InsertConflict, InsertDeadlock, Commit, dbVars, localVars
    <2>2. pc[r] \notin {"enqueue", "done", "cutOff"}
      BY <1>3 DEF Receive, NextFile, Probe, Open, Write, Hash, LookUp, ReadHeaders, Analyse,
                  InsertConflict, InsertDeadlock, Commit
    <2>3. \A q \in Uploads \ {r} : pc'[q] = pc[q]
      BY <1>3, <1>1 DEF Receive, NextFile, Probe, Open, Write, Hash, LookUp, ReadHeaders,
                  Analyse, InsertConflict, InsertDeadlock, Commit, Goto, TypeOK
    <2> QED BY <2>1, <2>2, <2>3, TasksKept DEF Committed
  <1>4. CASE Enqueue(r) \/ RedisDown(r) \/ Respond(r)
    <2>1. UNCHANGED <<rows, answers>> /\ pc[r] = "enqueue"
      BY <1>4 DEF Enqueue, RedisDown, Respond, dbVars, localVars
    <2>2. \A q \in Uploads : Committed(q) => Committed(q)'
      BY <1>4, <1>1 DEF Enqueue, RedisDown, Respond, Goto, TypeOK, Committed
    <2>3. \A i \in Unqueued(r) : \E row \in rows[r] : row.id = <<r, i>>
      BY DEF Unqueued, RowsForAnswers
    <2>4. \A task \in queue' \ queue : \E i \in Unqueued(r) : task[2] = <<r, i>>
      BY <1>4 DEF Enqueue, RedisDown, Respond, TasksOf, dbVars
    <2>5. \A task \in queue' \ queue : \E row \in rows[r] : row.id = task[2]
      BY <2>3, <2>4
    <2> QED BY <2>1, <2>2, <2>5, TasksKept DEF Committed
  <1>5. CASE Reject(r) \/ Insert(r)
    <2>1. /\ UNCHANGED queue
          /\ pc[r] \notin {"enqueue", "done", "cutOff"}
          /\ \A q \in Uploads \ {r} : pc'[q] = pc[q] /\ rows'[q] = rows[q]
                                      /\ answers'[q] = answers[q]
      BY <1>5, <1>1 DEF Reject, Insert, dbVars, Goto, TypeOK, Rejections
    <2>2. TasksForPublished'
      BY <2>1 DEF TasksForPublished, Committed
    <2>3. \A i \in DOMAIN answers'[r] :
            answers'[r][i] = "SUCCESS" => \E row \in rows'[r] : row.id = <<r, i>>
      <3>1. CASE Reject(r)
        <4>1. /\ rows'[r] = rows[r] /\ answers'[r] = Append(answers[r], pc[r])
              /\ pc[r] # "SUCCESS"
          BY <3>1 DEF Reject, dbVars, TypeOK, Rejections
        <4>2. \A i \in DOMAIN answers'[r] : answers'[r][i] = "SUCCESS" =>
                i \in DOMAIN answers[r] /\ answers[r][i] = "SUCCESS"
          BY <4>1, <1>2
        <4> QED BY <4>1, <4>2 DEF RowsForAnswers
      <3>2. CASE Insert(r)
        <4>1. /\ rows'[r] = rows[r] \union {NewRow(r)}
              /\ answers'[r] = Append(answers[r], "SUCCESS")
          BY <3>2 DEF Insert, TypeOK
        <4>2. \A i \in DOMAIN answers'[r] :
                \/ i = Len(answers[r]) + 1
                \/ i \in DOMAIN answers[r] /\ answers'[r][i] = answers[r][i]
          BY <4>1, <1>2
        <4>3. NewRow(r).id = <<r, Len(answers[r]) + 1>>
          BY DEF NewRow
        <4> QED BY <4>1, <4>2, <4>3 DEF RowsForAnswers
      <3> QED BY <1>5, <3>1, <3>2
    <2>4. RowsForAnswers'
      BY <2>1, <2>3 DEF RowsForAnswers
    <2> QED BY <2>2, <2>4
  <1> QED
    BY <1>3, <1>4, <1>5 DEF UploadStep

(* No task is queued before the commit (index_post), so that no worker ever *)
(* looks for a flight that a rollback may still take back.                  *)
THEOREM TasksOnlyForPublished == Spec => []TasksForPublished
  <1>1. Init => RowsForAnswers /\ TasksForPublished
    BY DEF Init, RowsForAnswers, TasksForPublished
  <1>2. TaskInv /\ [Next]_vars => RowsForAnswers' /\ TasksForPublished'
    <2> SUFFICES ASSUME TaskInv, [Next]_vars PROVE RowsForAnswers' /\ TasksForPublished'
      OBVIOUS
    <2>1. CASE UNCHANGED vars
      BY <2>1 DEF vars, TaskInv, RowsForAnswers, TasksForPublished, Committed
    <2>2. ASSUME NEW d \in Deletes, DeleteLoad(d) \/ DeleteStep(d)
          PROVE  RowsForAnswers' /\ TasksForPublished'
      <3>1. UNCHANGED <<rows, answers, queue>> /\ \A q \in Uploads : pc'[q] = pc[q]
        BY <2>2, RequestsAssumption
        DEF DeleteLoad, DeleteStep, DeleteUnlink, DeleteCommit, Goto, dbVars, localVars,
            TaskInv, IInv, TypeInv, TypeOK, Requests
      <3> QED BY <3>1, TasksKept DEF Committed
    <2>3. ASSUME NEW r \in Requests, Die(r) PROVE RowsForAnswers' /\ TasksForPublished'
      <3>1. UNCHANGED <<rows, answers, queue>>
        BY <2>3 DEF Die, dbVars, localVars
      <3>2. \A q \in Uploads : Committed(q) => Committed(q)'
        BY <2>3, RequestsAssumption
        DEF Die, PastRecall, Goto, Committed, TaskInv, IInv, TypeInv, TypeOK, Requests,
            Active, InTransaction, Rejections
      <3> QED BY <3>1, <3>2, TasksKept
    <2> QED
      BY <2>1, <2>2, <2>3, UploadTasks DEF Next
  <1>3. TaskInv <=> IInv /\ RowsForAnswers /\ TasksForPublished
    BY DEF TaskInv
  <1> QED
    BY <1>1, <1>2, <1>3, InvariantHolds, PTL DEF Spec

------------------------------------------------------------------------------
(* One request at a time *)

ActiveRequests == {q \in Requests : pc[q] \in Active}
Alone == IsFiniteSet(ActiveRequests) /\ \A q, r \in ActiveRequests : q = r

(* The content of the file that an upload works on. *)
Item(r) == batch[r][Len(answers[r]) + 1].data

Hashed == {"lookup", "headers", "analyse", "insert"} \union Rejections

(* What an upload has opened, written and hashed is its file. *)
OwnFile(r) ==
  /\ handle[r] = IF pc[r] = "write" THEN "sole" ELSE "closed"
  /\ pc[r] = "open" => disk[file[r]] = Missing
  /\ pc[r] \in Hashed \union {"hash"} => disk[file[r]] = Item(r)
  /\ pc[r] \in Hashed => md5[r] = Item(r)

(* Where the verdict on a file leads. *)
Judged(r) ==
  /\ pc[r] \in {"headers", "analyse", "insert"} => ~Conflicts(r)
  /\ pc[r] = "DUPLICATE" => Conflicts(r)
  /\ pc[r] \in Rejections \ {"DUPLICATE"} => Verdict[Item(r)] # "SUCCESS"

Has(r, data) ==
  \/ \E row \in rows[r] : row.md5 = data
  \/ \E q \in Uploads : Committed(q) /\ \E row \in rows[q] : row.md5 = data

(* The good ones of the files answered so far are stored. *)
Saved(r) ==
  /\ pc[r] = "idle" => answers[r] = <<>>
  /\ pc[r] \in {"enqueue", "done"} => Len(answers[r]) = Len(batch[r])
  /\ pc[r] \in InTransaction \union {"enqueue", "done"} =>
       \A i \in DOMAIN answers[r] :
         Verdict[batch[r][i].data] = "SUCCESS" => Has(r, batch[r][i].data)

Excused(r) == pc[r] = "aborted" => r \in Faulty \/ Unflushable(r)

InTurn(r) == OwnFile(r) /\ Judged(r) /\ Saved(r) /\ Excused(r)

RowsKept == \A row \in flights : row \in rows[row.id[1]]

TurnsInv == Alone /\ RowsKept /\ \A r \in Uploads : InTurn(r)

(* A set with no more than one element. *)
LEMMA AtMostOne ==
  ASSUME NEW S, IsFiniteSet(S), Cardinality(S) <= 1, NEW x \in S, NEW y \in S
  PROVE  x = y
  <1> SUFFICES ASSUME x # y PROVE FALSE
    OBVIOUS
  <1> DEFINE T == {x} \union {y}
  <1>1. IsFiniteSet({x}) /\ Cardinality({x}) = 1
    BY FS_Singleton
  <1>2. Cardinality(T) = 2
    <2>1. y \notin {x}
      OBVIOUS
    <2>2. Cardinality({x} \union {y}) = Cardinality({x}) + 1
      BY <1>1, <2>1, FS_AddElement
    <2> QED BY <1>1, <2>2
  <1>3. Cardinality(T) <= Cardinality(S)
    <2>1. T \in SUBSET S
      OBVIOUS
    <2> HIDE DEF T
    <2> QED BY <2>1, FS_Subset
  <1>4. Cardinality(S) \in Nat
    BY FS_CardinalityType
  <1> QED BY <1>2, <1>3, <1>4

(* Only one request moves at a step. *)
LEMMA OneMoves ==
  ASSUME TypeOK, [Next]_vars
  PROVE  pc' = pc \/ \E r \in Requests : pc' = [pc EXCEPT ![r] = pc'[r]]
  <1>2. ASSUME NEW r \in Requests, NEW state, Goto(r, state)
        PROVE  pc' = [pc EXCEPT ![r] = pc'[r]]
    BY <1>2 DEF Goto, TypeOK
  <1>3. ASSUME NEW r \in Uploads, Receive(r) \/ UploadStep(r)
        PROVE  pc' = pc \/ \E state : Goto(r, state)
    BY <1>3 DEF UploadStep, Receive, NextFile, Probe, Open, Write, Hash, LookUp, ReadHeaders,
         Analyse, Reject, Insert, InsertConflict, InsertDeadlock, Commit, Enqueue, RedisDown, Respond
  <1>4. ASSUME NEW d \in Deletes, DeleteLoad(d) \/ DeleteStep(d)
        PROVE  \E state : Goto(d, state)
    BY <1>4 DEF DeleteLoad, DeleteStep, DeleteUnlink, DeleteCommit
  <1>5. ASSUME NEW r \in Requests, Die(r) PROVE \E state : Goto(r, state)
    BY <1>5 DEF Die
  <1>6. Uploads \subseteq Requests /\ Deletes \subseteq Requests
    BY DEF Requests
  <1>7. pc' = pc \/ \E r \in Requests : \E state : Goto(r, state)
    <2>1. CASE \E r \in Uploads : Receive(r) \/ UploadStep(r)
      BY <1>3, <1>6, <2>1
    <2>2. CASE \E d \in Deletes : DeleteLoad(d) \/ DeleteStep(d)
      BY <1>4, <1>6, <2>2
    <2>3. CASE \E r \in Requests : Die(r)
      BY <1>5, <2>3
    <2>4. CASE UNCHANGED vars
      BY <2>4 DEF vars
    <2> QED BY <2>1, <2>2, <2>3, <2>4 DEF Next
  <1> QED BY <1>2, <1>7

LEMMA AloneStep ==
  ASSUME TypeOK, Alone, [MCNext]_<<vars, parallel>>, ~parallel
  PROVE  Alone'
  <1>1. [Next]_vars
    BY DEF MCNext
  <1>2. CASE pc' = pc
    BY <1>2 DEF Alone, ActiveRequests
  <1>3. CASE pc' # pc
    <2>1. PICK r \in Requests : pc' = [pc EXCEPT ![r] = pc'[r]]
      BY <1>1, <1>3, OneMoves
    <2>2. ActiveRequests' \subseteq ActiveRequests \union {r}
      BY <2>1 DEF ActiveRequests, TypeOK
    <2>3. IsFiniteSet(ActiveRequests \union {r})
      BY FS_AddElement DEF Alone
    <2>4. IsFiniteSet(ActiveRequests')
      BY <2>2, <2>3, FS_Subset
    <2>5. Cardinality(ActiveRequests') <= 1
      BY <1>3 DEF MCNext, vars, ActiveRequests
    <2>6. \A q, s \in ActiveRequests' : q = s
      BY <2>4, <2>5, AtMostOne
    <2> QED BY <2>4, <2>6 DEF Alone
  <1> QED BY <1>2, <1>3

(* While one request works the others rest. *)
LEMMA OthersRest ==
  ASSUME TypeOK, Alone, Alone', NEW r \in Requests, \A q \in Requests \ {r} : pc'[q] = pc[q],
         pc[r] \in Active \/ pc'[r] \in Active
  PROVE  \A q \in Requests \ {r} : pc[q] \notin Active
  BY DEF Alone, ActiveRequests

LEMMA HasKept ==
  ASSUME NEW r \in Uploads, NEW data, Has(r, data),
         \A q \in Uploads : rows[q] \subseteq rows'[q] /\ (Committed(q) => Committed(q)')
  PROVE  Has(r, data)'
  BY DEF Has

LEMMA RestingKept ==
  ASSUME NEW r \in Uploads, InTurn(r), pc[r] \notin Active, pc'[r] = pc[r],
         handle'[r] = handle[r], answers'[r] = answers[r], batch'[r] = batch[r],
         \A q \in Uploads : rows[q] \subseteq rows'[q] /\ (Committed(q) => Committed(q)')
  PROVE  InTurn(r)'
  <1>1. OwnFile(r)'
    BY DEF InTurn, OwnFile, Hashed, Active, InTransaction
  <1>2. Judged(r)'
    BY DEF InTurn, Judged, Active, InTransaction, Rejections
  <1>3. Saved(r)'
    BY HasKept DEF InTurn, Saved, Active
  <1>4. Excused(r)'
    BY DEF InTurn, Excused, Unflushable
  <1> QED BY <1>1, <1>2, <1>3, <1>4 DEF InTurn

(* What the content of a file is taken for. *)
LEMMA ItemTyped ==
  ASSUME TypeInv, NEW r \in Uploads, pc[r] \in AtFile
  PROVE  Item(r) \in Data /\ Item(r) # Missing /\ Parses(Item(r)) = {Verdict[Item(r)]}
  <1>1. Item(r) \in Data
    BY FileOfArchive DEF TypeInv, FileInHand, Item
  <1> QED BY <1>1, BodiesAssumption DEF Parses

(* A line is added to the result page. *)
LEMMA AnswerSaved ==
  ASSUME TypeInv, NEW r \in Uploads, Saved(r), pc[r] \in AtFile, pc'[r] = "next",
         NEW status \in UploadStatus, answers' = [answers EXCEPT ![r] = Append(@, status)],
         batch' = batch, \A q \in Uploads : Committed(q) => Committed(q)',
         \A q \in Uploads : rows[q] \subseteq rows'[q],
         Verdict[Item(r)] = "SUCCESS" =>
           \E q \in Uploads : (q = r \/ Committed(q)') /\ \E row \in rows'[q] : row.md5 = Item(r)
  PROVE  Saved(r)'
  <1>1. /\ answers[r] \in Seq(UploadStatus) /\ answers'[r] = Append(answers[r], status)
    BY DEF TypeInv, TypeOK
  <1>2. /\ DOMAIN answers[r] = 1 .. Len(answers[r]) /\ Len(answers[r]) \in Nat
        /\ DOMAIN answers'[r] = 1 .. Len(answers[r]) + 1
    BY <1>1, AppendProperties, LenProperties
  <1>3. ASSUME NEW i \in DOMAIN answers'[r], Verdict[batch[r][i].data] = "SUCCESS"
        PROVE  Has(r, batch[r][i].data)'
    <2>1. CASE i \in DOMAIN answers[r]
      <3>1. Has(r, batch[r][i].data)
        BY <1>3, <2>1 DEF Saved, AtFile, InTransaction
      <3> QED BY <3>1 DEF Has
    <2>2. CASE i = Len(answers[r]) + 1
      BY <1>3, <2>2 DEF Item, Has
    <2> QED BY <1>2, <1>3, <2>1, <2>2
  <1> QED BY <1>3 DEF Saved, InTransaction

(* What a step of an upload leaves alone when the others rest. *)
LEMMA OthersKept ==
  ASSUME TypeInv, TurnsInv, NEW r \in Uploads, Receive(r) \/ UploadStep(r), Alone'
  PROVE  /\ \A q \in Requests \ {r} : pc'[q] = pc[q] /\ pc[q] \notin Active
         /\ \A q \in Uploads \ {r} : /\ handle'[q] = handle[q] /\ handle[q] = "closed"
                                     /\ answers'[q] = answers[q] /\ batch'[q] = batch[q]
                                     /\ rows'[q] = rows[q]
         /\ rows[r] \subseteq rows'[r] /\ target' = target
         /\ Committed(r) => Committed(r)'
  <1> USE DEF TypeInv
  <1>1. r \in Requests /\ Uploads \subseteq Requests
    BY DEF Requests
  <1>2. Receive(r) \/ NextFile(r) \/ Probe(r) \/ Open(r) \/ Write(r) \/ Hash(r) \/ LookUp(r)
        \/ ReadHeaders(r) \/ Analyse(r) \/ Reject(r) \/ Insert(r) \/ InsertConflict(r)
        \/ InsertDeadlock(r) \/ Commit(r) \/ Enqueue(r) \/ RedisDown(r) \/ Respond(r)
    BY DEF UploadStep
  <1>3. \A q \in Requests \ {r} : pc'[q] = pc[q]
    BY <1>1, <1>2
    DEF Goto, TypeOK, Receive, NextFile, Probe, Open, Write, Hash, LookUp, ReadHeaders, Analyse,
        Reject, Insert, InsertConflict, InsertDeadlock, Commit, Enqueue, RedisDown, Respond
  <1>4. pc[r] \in Active \/ pc'[r] \in Active
    <2>1. CASE Receive(r)
      BY <1>1, <2>1 DEF Receive, Goto, TypeOK, Active, InTransaction
    <2>2. CASE ~Receive(r)
      BY <1>2, <2>2
      DEF NextFile, Probe, Open, Write, Hash, LookUp, ReadHeaders, Analyse, Reject, Insert,
          InsertConflict, InsertDeadlock, Commit, Enqueue, RedisDown, Respond, Active,
          InTransaction, Rejections
    <2> QED BY <2>1, <2>2
  <1>5. \A q \in Requests \ {r} : pc[q] \notin Active
    BY <1>1, <1>3, <1>4, OthersRest DEF TurnsInv
  <1>6. \A q \in Uploads \ {r} : handle[q] = "closed"
    BY <1>1, <1>5 DEF TurnsInv, InTurn, OwnFile, Active, InTransaction
  <1>7. \A q \in Uploads \ {r} : handle'[q] = handle[q]
    <2>1. CASE Open(r)
      BY <1>6, <2>1 DEF Open, Writers
    <2>2. CASE Write(r)
      BY <2>2 DEF Write, TypeOK
    <2>3. CASE Reject(r)
      BY <1>6, <2>3 DEF Reject, Unlink, Writers
    <2>4. ASSUME ~Open(r), ~Write(r), ~Reject(r) PROVE handle' = handle
      BY <1>2, <2>4
      DEF Receive, NextFile, Probe, Hash, LookUp, ReadHeaders, Analyse, Insert, InsertConflict,
          InsertDeadlock, Commit, Enqueue, RedisDown, Respond, fileVars
    <2> QED BY <2>1, <2>2, <2>3, <2>4
  <1>8. \A q \in Uploads \ {r} : answers'[q] = answers[q] /\ batch'[q] = batch[q]
    <2>1. CASE Receive(r)
      BY <2>1 DEF Receive, TypeOK
    <2>2. CASE Reject(r) \/ Insert(r)
      BY <2>2 DEF Reject, Insert, TypeOK
    <2>3. ASSUME ~Receive(r), ~Reject(r), ~Insert(r) PROVE UNCHANGED <<answers, batch>>
      BY <1>2, <2>3
      DEF NextFile, Probe, Open, Write, Hash, LookUp, ReadHeaders, Analyse, InsertConflict,
          InsertDeadlock, Commit, Enqueue, RedisDown, Respond, localVars
    <2> QED BY <2>1, <2>2, <2>3
  <1>9. rows[r] \subseteq rows'[r] /\ \A q \in Uploads \ {r} : rows'[q] = rows[q]
    <2>1. CASE Insert(r)
      BY <2>1 DEF Insert, TypeOK
    <2>2. ASSUME ~Insert(r) PROVE rows' = rows
      BY <1>2, <2>2
      DEF Receive, NextFile, Probe, Open, Write, Hash, LookUp, ReadHeaders, Analyse, Reject,
          InsertConflict, InsertDeadlock, Commit, Enqueue, RedisDown, Respond, dbVars
    <2> QED BY <2>1, <2>2
  <1>10. target' = target
    BY <1>2
    DEF Receive, NextFile, Probe, Open, Write, Hash, LookUp, ReadHeaders, Analyse, Reject, Insert,
        InsertConflict, InsertDeadlock, Commit, Enqueue, RedisDown, Respond, localVars
  <1>11. Committed(r) => Committed(r)'
    BY <1>1, <1>2
    DEF Committed, Goto, TypeOK, Receive, NextFile, Probe, Open, Write, Hash, LookUp, ReadHeaders,
        Analyse, Reject, Insert, InsertConflict, InsertDeadlock, Commit, Enqueue, RedisDown,
        Respond, Rejections
  <1> QED BY <1>3, <1>5, <1>6, <1>7, <1>8, <1>9, <1>10, <1>11

(* No lines are added and none are stored: what is saved stays so. *)
LEMMA SavedKept ==
  ASSUME NEW r \in Uploads, Saved(r), pc[r] \in InTransaction, UNCHANGED <<answers, batch, rows>>,
         \A q \in Uploads : Committed(q) => Committed(q)',
         pc'[r] \in InTransaction \union {"aborted"}
  PROVE  Saved(r)'
  BY DEF Saved, Has, InTransaction, Rejections

(* The file that an upload works on, up to the verdict. *)
LEMMA FileTurn ==
  ASSUME TypeInv, TurnsInv, NEW r \in Uploads, Alone',
         NextFile(r) \/ Probe(r) \/ Open(r) \/ Write(r) \/ Hash(r)
  PROVE  InTurn(r)' /\ UNCHANGED <<rows, flights>>
  <1> USE DEF TypeInv
  <1>1. r \in Requests /\ Uploads \subseteq Requests
    BY DEF Requests
  <1>2. UploadStep(r)
    BY DEF UploadStep
  <1>3. /\ \A q \in Requests \ {r} : pc'[q] = pc[q]
        /\ \A q \in Uploads \ {r} : handle[q] = "closed"
        /\ Committed(r) => Committed(r)'
    BY <1>2, OthersKept
  <1>4. \A q \in Uploads : Committed(q) => Committed(q)'
    BY <1>1, <1>3 DEF Committed
  <1>5. /\ UNCHANGED <<answers, batch, rows, flights>> /\ pc[r] \in InTransaction
        /\ pc'[r] \in {"probe", "open", "write", "hash", "lookup", "aborted"}
    BY <1>1 DEF NextFile, Probe, Open, Write, Hash, Goto, TypeOK, InTransaction, localVars, dbVars
  <1>6. InTurn(r) /\ Saved(r)
    BY DEF TurnsInv, InTurn
  <1>7. Saved(r)'
    BY <1>4, <1>5, <1>6, SavedKept DEF InTransaction
  <1>8. Judged(r)'
    BY <1>5 DEF Judged, Rejections
  <1>9. OwnFile(r)' /\ pc'[r] # "aborted"
    <2>1. CASE NextFile(r)
      BY <1>1, <1>6, <2>1 DEF NextFile, InTurn, OwnFile, Goto, TypeOK, fileVars, Hashed, Rejections
    <2>2. CASE Probe(r)
      BY <1>1, <1>6, <2>2 DEF Probe, InTurn, OwnFile, Goto, TypeOK, fileVars, Hashed, Rejections
    <2>3. CASE Open(r)
      <3>1. Writers(file[r]) = {}
        BY <1>3, <1>6, <2>3 DEF Open, Writers, InTurn, OwnFile
      <3> QED BY <1>1, <2>3, <3>1 DEF Open, OwnFile, Goto, TypeOK, Hashed, Rejections
    <2>4. CASE Write(r)
      <3>1. handle[r] = "sole"
        BY <1>6, <2>4 DEF Write, InTurn, OwnFile
      <3>2. disk' = [disk EXCEPT ![file[r]] = Item(r)] /\ pc'[r] = "hash" /\ handle'[r] = "closed"
        BY <1>1, <2>4, <3>1 DEF Write, Item, Goto, TypeOK
      <3>3. file' = file /\ disk'[file[r]] = Item(r)
        BY <2>4, <3>2 DEF Write, localVars, TypeOK
      <3> QED BY <1>5, <3>2, <3>3 DEF OwnFile, Item, Hashed, Rejections
    <2>5. CASE Hash(r)
      <3>1. Item(r) # Missing /\ disk[file[r]] = Item(r) /\ handle[r] = "closed"
        BY <1>6, <2>5, ItemTyped DEF Hash, InTurn, OwnFile, AtFile
      <3>2. pc'[r] = "lookup" /\ md5'[r] = Item(r) /\ UNCHANGED <<disk, handle, file>>
        BY <1>1, <2>5, <3>1 DEF Hash, Goto, TypeOK, fileVars
      <3> QED BY <1>5, <3>1, <3>2 DEF OwnFile, Item
    <2> QED BY <2>1, <2>2, <2>3, <2>4, <2>5
  <1>10. Excused(r)'
    BY <1>9 DEF Excused
  <1> QED BY <1>5, <1>7, <1>8, <1>9, <1>10 DEF InTurn

(* The verdict on it. *)
LEMMA VerdictTurn ==
  ASSUME TypeInv, TurnsInv, NEW r \in Uploads, Alone',
         LookUp(r) \/ ReadHeaders(r) \/ Analyse(r) \/ InsertConflict(r) \/ InsertDeadlock(r)
  PROVE  InTurn(r)' /\ UNCHANGED <<rows, flights>>
  <1> USE DEF TypeInv
  <1>1. r \in Requests /\ Uploads \subseteq Requests
    BY DEF Requests
  <1>2. UploadStep(r)
    BY DEF UploadStep
  <1>3. /\ \A q \in Requests \ {r} : pc'[q] = pc[q] /\ pc[q] \notin Active
        /\ Committed(r) => Committed(r)'
    BY <1>2, OthersKept
  <1>4. \A q \in Uploads : Committed(q) => Committed(q)'
    BY <1>1, <1>3 DEF Committed
  <1>5. /\ UNCHANGED <<disk, handle, rows, flights, batch, file, md5, answers>>
        /\ pc[r] \in {"lookup", "headers", "analyse", "insert"}
    BY DEF LookUp, ReadHeaders, Analyse, InsertConflict, InsertDeadlock, fileVars, dbVars, localVars
  <1>6. InTurn(r) /\ Saved(r) /\ OwnFile(r) /\ Judged(r)
    BY DEF TurnsInv, InTurn
  <1>7. /\ disk[file[r]] = Item(r) /\ md5[r] = Item(r) /\ handle[r] = "closed"
        /\ Item(r) # Missing /\ Parses(disk[file[r]]) = {Verdict[Item(r)]}
    BY <1>5, <1>6, ItemTyped DEF OwnFile, Hashed, AtFile
  <1>8. Item(r)' = Item(r) /\ Conflicts(r)' = Conflicts(r) /\ Unflushable(r)' = Unflushable(r)
    BY <1>5 DEF Item, Conflicts, Visible, Unflushable
  <1>9. CASE LookUp(r)
    <2>1. /\ pc'[r] \in {"DUPLICATE", "headers"}
          /\ pc'[r] = "DUPLICATE" => Conflicts(r)
          /\ pc'[r] = "headers" => ~Conflicts(r)
      BY <1>1, <1>9 DEF LookUp, Goto, TypeOK, Conflicts
    <2>2. Saved(r)'
      BY <1>4, <1>5, <1>6, <2>1, SavedKept DEF Rejections, InTransaction
    <2>3. OwnFile(r)'
      BY <1>5, <1>7, <1>8, <2>1 DEF OwnFile
    <2>4. Judged(r)' /\ Excused(r)'
      BY <1>8, <2>1 DEF Judged, Excused, Rejections
    <2> QED BY <1>5, <2>2, <2>3, <2>4 DEF InTurn
  <1>10. CASE ReadHeaders(r)
    <2>1. /\ pc'[r] \in {"MISSING_DATE", "analyse"} /\ ~Conflicts(r)
          /\ pc'[r] = "MISSING_DATE" => Verdict[Item(r)] # "SUCCESS"
      BY <1>1, <1>6, <1>7, <1>10 DEF ReadHeaders, Goto, TypeOK, Judged
    <2> QED
      BY <1>4, <1>5, <1>6, <1>7, <1>8, <2>1, SavedKept
      DEF InTurn, OwnFile, Judged, Excused, Rejections, InTransaction, Hashed
  <1>11. CASE Analyse(r)
    <2>1. /\ pc'[r] \in {"insert", "NO_FLIGHT", "PARSER_ERROR"} /\ ~Conflicts(r)
          /\ pc'[r] # "insert" => Verdict[Item(r)] # "SUCCESS"
      <3>1. ~Conflicts(r) /\ disk[file[r]] # Missing
        BY <1>6, <1>7, <1>11 DEF Analyse, Judged
      <3>2. Goto(r, CASE Verdict[Item(r)] = "SUCCESS" -> "insert"
                      [] Verdict[Item(r)] = "NO_FLIGHT" -> "NO_FLIGHT"
                      [] OTHER -> "PARSER_ERROR")
        BY <1>7, <1>11, <3>1 DEF Analyse
      <3> QED BY <1>1, <3>1, <3>2 DEF Goto, TypeOK
    <2> QED
      BY <1>4, <1>5, <1>6, <1>7, <1>8, <2>1, SavedKept
      DEF InTurn, OwnFile, Judged, Excused, Rejections, InTransaction, Hashed
  <1>12. CASE InsertConflict(r)
    <2>1. pc'[r] = "aborted" /\ Unflushable(r)
      BY <1>1, <1>6, <1>12 DEF InsertConflict, Judged, Goto, TypeOK
    <2>2. Saved(r)'
      BY <1>4, <1>5, <1>6, <2>1, SavedKept DEF Rejections, InTransaction
    <2>3. OwnFile(r)'
      BY <1>5, <1>7, <1>8, <2>1 DEF OwnFile
    <2>4. Judged(r)' /\ Excused(r)'
      BY <1>8, <2>1 DEF Judged, Excused, Rejections
    <2> QED BY <1>5, <2>2, <2>3, <2>4 DEF InTurn
  <1>13. ~InsertDeadlock(r)
    <2>1. WaitsFor(r) = {}
      BY <1>1, <1>3 DEF WaitsFor, Flushed, Active
    <2> QED BY <2>1 DEF InsertDeadlock, Deadlocked
  <1> QED BY <1>5, <1>9, <1>10, <1>11, <1>12, <1>13

(* A line of the result page. *)
LEMMA LineTurn ==
  ASSUME TypeInv, TurnsInv, Published, NEW r \in Uploads, Alone', Reject(r) \/ Insert(r)
  PROVE  InTurn(r)' /\ UNCHANGED flights
  <1> USE DEF TypeInv
  <1>1. r \in Requests /\ Uploads \subseteq Requests
    BY DEF Requests
  <1>2. UploadStep(r)
    BY DEF UploadStep
  <1>3. /\ \A q \in Requests \ {r} : pc'[q] = pc[q]
        /\ rows[r] \subseteq rows'[r] /\ \A q \in Uploads \ {r} : rows'[q] = rows[q]
        /\ Committed(r) => Committed(r)'
    BY <1>2, OthersKept
  <1>4. /\ \A q \in Uploads : Committed(q) => Committed(q)'
        /\ \A q \in Uploads : rows[q] \subseteq rows'[q]
    BY <1>1, <1>3 DEF Committed
  <1>5. /\ UNCHANGED <<flights, batch>> /\ pc'[r] = "next" /\ pc[r] \in Rejections \union {"insert"}
        /\ handle'[r] = "closed"
    <2>1. handle[r] = "closed"
      BY DEF TurnsInv, InTurn, OwnFile, Reject, Insert, Rejections
    <2> QED BY <1>1, <2>1 DEF Reject, Insert, Goto, TypeOK, Unlink, Writers, dbVars, fileVars
  <1>6. InTurn(r) /\ Saved(r) /\ md5[r] = Item(r)
    BY <1>5 DEF TurnsInv, InTurn, OwnFile, Hashed
  <1>7. OwnFile(r)' /\ Judged(r)' /\ Excused(r)'
    BY <1>5 DEF OwnFile, Judged, Excused, Hashed, Rejections
  <1>8. CASE Reject(r)
    <2>1. answers' = [answers EXCEPT ![r] = Append(@, pc[r])] /\ pc[r] \in Rejections
      BY <1>8 DEF Reject
    <2>2. ASSUME Verdict[Item(r)] = "SUCCESS"
          PROVE  \E q \in Uploads : (q = r \/ Committed(q)') /\ \E row \in rows'[q] : row.md5 = Item(r)
      <3>1. Conflicts(r)
        BY <1>6, <2>1, <2>2 DEF InTurn, Judged
      <3>2. PICK row \in flights \union rows[r] : row.md5 = Item(r)
        BY <1>6, <3>1 DEF Conflicts, Visible
      <3>3. CASE row \in rows[r]
        BY <1>4, <3>2, <3>3
      <3>4. CASE row \in flights
        <4>1. row.id[1] \in Uploads
          BY <3>4 DEF TypeOK, Row
        <4>2. Committed(row.id[1]) /\ row \in rows[row.id[1]]
          BY <3>4 DEF Published, TurnsInv, RowsKept
        <4> QED BY <1>4, <3>2, <4>1, <4>2
      <3> QED BY <3>2, <3>3, <3>4
    <2>3. Saved(r)'
      BY <1>4, <1>5, <1>6, <2>1, <2>2, AnswerSaved DEF AtFile, UploadStatus
    <2> QED BY <1>5, <1>7, <2>3 DEF InTurn
  <1>9. CASE Insert(r)
    <2>1. /\ answers' = [answers EXCEPT ![r] = Append(@, "SUCCESS")] /\ NewRow(r) \in rows'[r]
          /\ NewRow(r).md5 = Item(r)
      BY <1>6, <1>9 DEF Insert, TypeOK, NewRow
    <2>2. Saved(r)'
      BY <1>4, <1>5, <1>6, <2>1, AnswerSaved DEF AtFile, UploadStatus
    <2> QED BY <1>5, <1>7, <2>2 DEF InTurn
  <1> QED BY <1>8, <1>9

(* The rest of a request. *)
LEMMA EndTurn ==
  ASSUME TypeInv, TurnsInv, NEW r \in Uploads, Alone',
         Receive(r) \/ Commit(r) \/ Enqueue(r) \/ RedisDown(r) \/ Respond(r)
  PROVE  InTurn(r)' /\ UNCHANGED rows
  <1> USE DEF TypeInv
  <1>1. r \in Requests /\ Uploads \subseteq Requests
    BY DEF Requests
  <1>2. Receive(r) \/ UploadStep(r)
    BY DEF UploadStep
  <1>3. /\ \A q \in Requests \ {r} : pc'[q] = pc[q]
        /\ Committed(r) => Committed(r)'
    BY <1>2, OthersKept
  <1>4. \A q \in Uploads : Committed(q) => Committed(q)'
    BY <1>1, <1>3 DEF Committed
  <1>5. InTurn(r) /\ Saved(r)
    BY DEF TurnsInv, InTurn
  <1>6. UNCHANGED <<disk, handle, rows, file, md5, answers>> /\ handle[r] = "closed"
    BY <1>5 DEF InTurn, OwnFile, Receive, Commit, Enqueue, RedisDown, Respond, fileVars, dbVars, localVars
  <1>7. CASE Receive(r)
    <2>1. pc[r] = "idle" /\ pc'[r] = "next"
      BY <1>1, <1>7 DEF Receive, Goto, TypeOK
    <2>2. answers'[r] = <<>>
      BY <1>5, <1>6, <2>1 DEF Saved
    <2>3. Saved(r)'
      BY <2>1, <2>2 DEF Saved
    <2> QED BY <1>6, <2>1, <2>3 DEF InTurn, OwnFile, Judged, Excused, Hashed, Rejections
  <1>8. CASE Commit(r) \/ Enqueue(r) \/ RedisDown(r) \/ Respond(r)
    <2>1. /\ pc[r] \in {"next", "enqueue"} /\ pc'[r] \in {"enqueue", "done", "aborted"}
          /\ pc[r] = "next" => Len(answers[r]) = Len(batch[r])
          /\ pc'[r] = "aborted" => Unflushable(r)
          /\ batch' = batch
      BY <1>1, <1>8 DEF Commit, Enqueue, RedisDown, Respond, Goto, TypeOK, localVars
    <2>2. Saved(r)'
      BY <1>4, <1>5, <1>6, <2>1 DEF Saved, Has, InTransaction
    <2>3. OwnFile(r)' /\ Judged(r)' /\ Excused(r)'
      BY <1>6, <2>1 DEF OwnFile, Judged, Excused, Hashed, Rejections, Unflushable
    <2> QED BY <1>6, <2>2, <2>3 DEF InTurn
  <1> QED BY <1>6, <1>7, <1>8

(* A step of an upload. *)
LEMMA UploadTurn ==
  ASSUME TypeInv, RowOwners, TurnsInv, Published, NEW r \in Uploads, Receive(r) \/ UploadStep(r), Alone'
  PROVE  TurnsInv'
  <1>1. r \in Requests /\ Uploads \subseteq Requests
    BY DEF Requests
  <1>2. /\ \A q \in Requests \ {r} : pc'[q] = pc[q] /\ pc[q] \notin Active
        /\ \A q \in Uploads \ {r} : /\ handle'[q] = handle[q]
                                    /\ answers'[q] = answers[q] /\ batch'[q] = batch[q]
                                    /\ rows'[q] = rows[q]
        /\ rows[r] \subseteq rows'[r]
        /\ Committed(r) => Committed(r)'
    BY OthersKept
  <1>3. \A q \in Uploads : rows[q] \subseteq rows'[q] /\ (Committed(q) => Committed(q)')
    BY <1>1, <1>2 DEF Committed
  <1>4. \A q \in Uploads \ {r} : InTurn(q)'
    BY <1>1, <1>2, <1>3, RestingKept DEF TurnsInv
  <1>5. InTurn(r)' /\ (flights' = flights \/ Commit(r))
    <2>1. CASE NextFile(r) \/ Probe(r) \/ Open(r) \/ Write(r) \/ Hash(r)
      BY <2>1, FileTurn
    <2>2. CASE LookUp(r) \/ ReadHeaders(r) \/ Analyse(r) \/ InsertConflict(r) \/ InsertDeadlock(r)
      BY <2>2, VerdictTurn
    <2>3. CASE Reject(r) \/ Insert(r)
      BY <2>3, LineTurn
    <2>4. CASE Receive(r) \/ Commit(r) \/ Enqueue(r) \/ RedisDown(r) \/ Respond(r)
      <3>1. Commit(r) \/ flights' = flights
        BY <2>4 DEF Receive, Enqueue, RedisDown, Respond, dbVars
      <3> QED BY <2>4, <3>1, EndTurn
    <2> QED BY <2>1, <2>2, <2>3, <2>4 DEF UploadStep
  <1>6. \A row \in flights' \ flights : row \in rows[r] /\ row.id[1] = r
    BY <1>5 DEF Commit, RowOwners
  <1>7. \A row \in flights : row.id[1] \in Uploads
    BY DEF TypeInv, TypeOK, Row
  <1>8. RowsKept'
    BY <1>3, <1>6, <1>7 DEF TurnsInv, RowsKept
  <1> QED BY <1>4, <1>5, <1>8 DEF TurnsInv

(* While a delete request works no upload does. *)
LEMMA UploadsRest ==
  ASSUME TypeInv, TurnsInv, NEW d \in Deletes, DeleteLoad(d) \/ DeleteStep(d), Alone'
  PROVE  /\ \A q \in Requests \ {d} : pc'[q] = pc[q] /\ pc[q] \notin Active
         /\ \A q \in Uploads : handle[q] = "closed" /\ handle'[q] = handle[q]
         /\ UNCHANGED <<rows, batch, file, md5, answers>> /\ flights' \subseteq flights
  <1> USE DEF TypeInv
  <1>1. d \in Requests /\ Uploads \subseteq Requests \ {d}
    BY RequestsAssumption DEF Requests
  <1>2. \A q \in Requests \ {d} : pc'[q] = pc[q]
    BY <1>1 DEF DeleteLoad, DeleteStep, DeleteUnlink, DeleteCommit, Goto, TypeOK
  <1>3. pc[d] \in Active \/ pc'[d] \in Active
    BY <1>1 DEF DeleteLoad, DeleteStep, DeleteUnlink, DeleteCommit, Goto, TypeOK, Active, InTransaction
  <1>4. \A q \in Requests \ {d} : pc[q] \notin Active
    BY <1>1, <1>2, <1>3, OthersRest DEF TurnsInv
  <1>5. \A q \in Uploads : handle[q] = "closed"
    BY <1>1, <1>4 DEF TurnsInv, InTurn, OwnFile, Active, InTransaction
  <1>6. \A q \in Uploads : handle'[q] = handle[q]
    BY <1>5 DEF DeleteLoad, DeleteStep, DeleteUnlink, DeleteCommit, Unlink, Writers, fileVars
  <1>7. UNCHANGED <<rows, batch, file, md5, answers>> /\ flights' \subseteq flights
    BY DEF DeleteLoad, DeleteStep, DeleteUnlink, DeleteCommit, dbVars, localVars
  <1> QED BY <1>2, <1>4, <1>5, <1>6, <1>7

LEMMA DeleteTurn ==
  ASSUME TypeInv, TurnsInv, NEW d \in Deletes, DeleteLoad(d) \/ DeleteStep(d), Alone'
  PROVE  TurnsInv'
  <1>1. Uploads \subseteq Requests \ {d}
    BY RequestsAssumption DEF Requests
  <1>2. /\ \A q \in Requests \ {d} : pc'[q] = pc[q] /\ pc[q] \notin Active
        /\ \A q \in Uploads : handle'[q] = handle[q]
        /\ UNCHANGED <<rows, batch, file, md5, answers>> /\ flights' \subseteq flights
    BY UploadsRest
  <1>3. \A q \in Uploads : Committed(q) => Committed(q)'
    BY <1>1, <1>2 DEF Committed
  <1>4. \A q \in Uploads : InTurn(q)'
    BY <1>1, <1>2, <1>3, RestingKept DEF TurnsInv
  <1>5. RowsKept'
    BY <1>2 DEF TurnsInv, RowsKept
  <1> QED BY <1>4, <1>5 DEF TurnsInv

LEMMA DieTurn ==
  ASSUME TypeInv, TurnsInv, NEW r \in Requests, Die(r), Alone'
  PROVE  TurnsInv'
  <1> USE DEF TypeInv
  <1>1. /\ \A q \in Requests \ {r} : pc'[q] = pc[q]
        /\ pc[r] \in Active /\ pc'[r] = IF PastRecall(r) THEN "cutOff" ELSE "aborted"
        /\ \A q \in Uploads : handle'[q] = IF q = r THEN "closed" ELSE handle[q]
        /\ UNCHANGED <<rows, batch, file, md5, answers, flights>> /\ r \in Faulty
    BY DEF Die, Goto, TypeOK, dbVars, localVars
  <1>a. r \in Uploads => (PastRecall(r) <=> pc[r] = "enqueue")
    BY RequestsAssumption DEF PastRecall
  <1>2. \A q \in Requests \ {r} : pc[q] \notin Active
    BY <1>1, OthersRest DEF TurnsInv
  <1>3. Uploads \subseteq Requests
    BY DEF Requests
  <1>4. \A q \in Uploads : Committed(q) => Committed(q)'
    BY <1>1, <1>a, <1>3 DEF Committed, Active, InTransaction, Rejections
  <1>5. \A q \in Uploads \ {r} : InTurn(q)'
    BY <1>1, <1>2, <1>3, <1>4, RestingKept DEF TurnsInv
  <1>6. r \in Uploads => InTurn(r)'
    BY <1>1, <1>a DEF InTurn, OwnFile, Judged, Saved, Excused, Hashed, Rejections, InTransaction
  <1>7. RowsKept'
    BY <1>1 DEF TurnsInv, RowsKept
  <1> QED BY <1>5, <1>6, <1>7 DEF TurnsInv

LEMMA TurnsStep ==
  ASSUME CleanInv, TurnsInv, [MCNext]_<<vars, parallel>>, ~parallel
  PROVE  TurnsInv'
  <1> USE DEF CleanInv, IInv
  <1>1. Alone'
    BY AloneStep DEF TypeInv, TurnsInv
  <1>2. CASE UNCHANGED vars
    <2>1. \A q \in Uploads : InTurn(q)'
      BY <1>2 DEF vars, TurnsInv, InTurn, OwnFile, Item, Judged, Conflicts, Visible, Saved, Has,
                  Committed, Excused, Unflushable
    <2>2. RowsKept'
      BY <1>2 DEF vars, TurnsInv, RowsKept
    <2> QED BY <1>1, <2>1, <2>2 DEF TurnsInv
  <1>3. CASE Next
    BY <1>1, <1>3, UploadTurn, DeleteTurn, DieTurn DEF Next
  <1> QED BY <1>2, <1>3 DEF MCNext, vars

LEMMA TurnsInit == Init => TurnsInv
  <1> SUFFICES ASSUME Init PROVE TurnsInv
    OBVIOUS
  <1>1. ActiveRequests = {}
    BY DEF Init, ActiveRequests, Active, InTransaction, Rejections
  <1>2. Alone
    BY <1>1, FS_EmptySet DEF Alone
  <1>3. \A r \in Uploads : pc[r] = "idle" /\ handle[r] = "closed" /\ answers[r] = <<>>
    BY DEF Init, Requests
  <1>4. \A r \in Uploads : InTurn(r)
    BY <1>3 DEF InTurn, OwnFile, Judged, Saved, Excused, Hashed, InTransaction, Rejections
  <1> QED BY <1>2, <1>4 DEF TurnsInv, RowsKept, Init

LEMMA TurnsHold == MCSpec => [](CleanInv /\ (~parallel => TurnsInv))
  <1>1. MCSpec => Init /\ [][Next]_vars
    <2>1. MCInit => Init
      BY DEF MCInit
    <2>2. [MCNext]_<<vars, parallel>> => [Next]_vars
      BY DEF MCNext
    <2> QED BY <2>1, <2>2, PTL DEF MCSpec
  <1> DEFINE Inv == ~parallel => TurnsInv
  <1>2. MCInit => Inv
    BY TurnsInit DEF MCInit
  <1>3. CleanInv /\ Inv /\ [MCNext]_<<vars, parallel>> => Inv'
    <2>1. [MCNext]_<<vars, parallel>> => parallel' = parallel
      BY DEF MCNext
    <2> QED BY <2>1, TurnsStep
  <1> HIDE DEF Inv
  <1>4. MCSpec => []CleanInv
    BY <1>1, CleanHolds, PTL
  <1>5. CleanInv /\ Inv => CleanInv /\ (~parallel => TurnsInv)
    BY DEF Inv
  <1> QED BY <1>2, <1>3, <1>4, <1>5, PTL DEF MCSpec

(* One request at a time: a file that is in the archive twice or was        *)
(* uploaded before never fails a request; only a fault or the flight that   *)
(* cannot be flushed does (the session.flush after each file).              *)
THEOREM RepeatsAreAnswered == MCSpec => []SerialRepeatsNeverFail
  <1>1. CleanInv /\ (~parallel => TurnsInv) => SerialRepeatsNeverFail
    BY DEF TurnsInv, InTurn, Excused, SerialRepeatsNeverFail, RepeatsNeverFail
  <1> QED BY <1>1, TurnsHold, PTL

(* One request at a time: when a request has been answered, every flight in *)
(* its files has been stored by it or, answered DUPLICATE, by an earlier    *)
(* one (by_md5, the verdicts and the commit of index_post).                 *)
THEOREM GoodFlightsAreStored == MCSpec => []SerialGoodFlightsStored
  <1>1. ASSUME CleanInv, ~parallel => TurnsInv PROVE SerialGoodFlightsStored
    <2> SUFFICES ASSUME ~parallel, NEW r \in Uploads, pc[r] = "done",
                        NEW i \in DOMAIN batch[r], Verdict[batch[r][i].data] = "SUCCESS"
                 PROVE  \E q \in Uploads : Committed(q) /\ \E row \in rows[q] : row.md5 = batch[r][i].data
      BY DEF SerialGoodFlightsStored, GoodFlightsStored
    <2>1. Saved(r)
      BY <1>1 DEF TurnsInv, InTurn
    <2>2. i \in DOMAIN answers[r]
      BY <1>1, <2>1, LenProperties DEF Saved, CleanInv, IInv, TypeInv, TypeOK
    <2>3. Has(r, batch[r][i].data)
      BY <2>1, <2>2 DEF Saved
    <2> QED BY <2>3 DEF Has, Committed
  <1> QED BY <1>1, TurnsHold, PTL

------------------------------------------------------------------------------
(* Names and bodies.  A delete request that dies after its unlink leaves a  *)
(* name that is used a second time; the damage never leaves such names.     *)

OwnName(r) ==
  pc[r] \in AtFile \ {"probe"} => \A a \in Held : a.file # file[r] \/ a.file \in Spoilt

NamesKept ==
  /\ \A a, b \in Held : a.file = b.file => a = b \/ a.file \in Spoilt
  /\ \A a \in Held : disk[a.file] = a.md5 \/ BeingErased(a) \/ a.file \in Spoilt
  /\ \A d \in Deletes : pc[d] \in {"unlink", "erase"} => target[d] \subseteq flights
  /\ \A r \in Uploads : OwnName(r)

LEMMA HeldRow ==
  ASSUME TypeOK, NEW a \in Held
  PROVE  a.file \in Names /\ a.md5 # Missing
  <1>1. a \in Row
    BY DEF TypeOK, Held, Flushed
  <1> QED BY <1>1, BodiesAssumption DEF Row, Body

(* A name stays spoilt: no request leaves "cutOff" or changes its target.   *)
LEMMA SpoiltKept ==
  ASSUME NEW r, r \in Deletes => pc[r] # "cutOff",
         \A d \in Deletes \ {r} : pc'[d] = pc[d] /\ target'[d] = target[d]
  PROVE  Spoilt \subseteq Spoilt'
  BY DEF Spoilt

LEMMA UploadNames ==
  ASSUME CleanInv, TurnsInv, NamesKept, NEW r \in Uploads, Receive(r) \/ UploadStep(r), Alone'
  PROVE  NamesKept'
  <1> USE DEF CleanInv, IInv, TypeInv
  <1>1. r \in Requests /\ Uploads \subseteq Requests /\ Deletes \subseteq Requests \ {r}
    BY RequestsAssumption DEF Requests
  <1>2. /\ \A q \in Requests \ {r} : pc'[q] = pc[q] /\ pc[q] \notin Active
        /\ \A q \in Uploads \ {r} : rows'[q] = rows[q]
    BY OthersKept
  <1>3. \A d \in Deletes : pc'[d] \notin {"unlink", "erase"} /\ pc[d] \notin {"unlink", "erase"}
    BY <1>1, <1>2 DEF Active, InTransaction
  <1>4. /\ Held = flights \union Flushed(r) /\ Held' = flights' \union Flushed(r)'
    BY <1>1, <1>2 DEF Held, Flushed, Active
  <1>5. \A a : ~BeingErased(a) /\ ~BeingErased(a)'
    BY <1>3 DEF BeingErased
  <1>6. \A q \in Uploads \ {r} : OwnName(q)'
    BY <1>1, <1>2 DEF OwnName, AtFile, Active, InTransaction
  <1>7. InTurn(r) /\ OwnName(r)
    BY DEF TurnsInv, NamesKept
  <1>8. /\ \A a \in Held : disk[a.file] = a.md5 \/ a.file \in Spoilt
        /\ \A a \in Held : a.file \in Names /\ a.md5 # Missing
    BY <1>5, HeldRow DEF NamesKept
  <1>s. Spoilt \subseteq Spoilt'
    BY <1>1, <1>2, OthersKept, RequestsAssumption, SpoiltKept
  <1>9. ASSUME Held' \subseteq Held, OwnName(r)',
               \A a \in Held : disk'[a.file] = disk[a.file] \/ a.file \in Spoilt
        PROVE  NamesKept'
    <2>1. \A a, b \in Held' : a.file = b.file => a = b \/ a.file \in Spoilt'
      BY <1>9, <1>s DEF NamesKept
    <2>2. \A a \in Held' : disk'[a.file] = a.md5 \/ a.file \in Spoilt'
      BY <1>8, <1>9, <1>s
    <2> QED BY <1>3, <1>6, <1>9, <2>1, <2>2 DEF NamesKept
  <1>10. CASE Receive(r)
    <2>1. rows[r] = {} /\ Flushed(r)' = {} /\ pc'[r] = "next" /\ UNCHANGED <<flights, disk>>
      BY <1>1, <1>10 DEF Receive, RowOwners, Flushed, Goto, TypeOK, fileVars, dbVars
    <2> QED BY <1>4, <1>9, <2>1 DEF OwnName, AtFile, Rejections
  <1>11. CASE NextFile(r) \/ Probe(r)
    <2>1. /\ UNCHANGED <<flights, rows, disk>> /\ pc[r] \in InTransaction
          /\ pc'[r] \in {"probe", "open"}
          /\ pc'[r] = "open" => disk[file[r]] = Missing /\ file' = file
      BY <1>1, <1>11 DEF NextFile, Probe, Goto, TypeOK, fileVars, dbVars, InTransaction
    <2>2. Held' = Held
      BY <1>4, <2>1 DEF Flushed, InTransaction
    <2>3. OwnName(r)'
      BY <1>8, <1>s, <2>1, <2>2 DEF OwnName, AtFile, Rejections
    <2> QED BY <1>9, <2>1, <2>2, <2>3
  <1>12. CASE Open(r) \/ Write(r) \/ Reject(r)
    <2>1. /\ UNCHANGED <<flights, rows, file>> /\ pc[r] \in InTransaction /\ pc'[r] \in InTransaction
          /\ pc[r] \in AtFile \ {"probe"}
          /\ \A n \in Names : n # file[r] => disk'[n] = disk[n]
          /\ pc'[r] \in AtFile => pc[r] \in AtFile \ {"probe"}
      BY <1>1, <1>12
      DEF Open, Write, Reject, Goto, TypeOK, Unlink, dbVars, localVars, InTransaction, AtFile, Rejections
    <2>2. Held' = Held
      BY <1>4, <2>1 DEF Flushed
    <2>3. \A a \in Held : a.file # file[r] \/ a.file \in Spoilt
      BY <1>7, <2>1 DEF OwnName
    <2>4. OwnName(r)'
      BY <1>s, <2>1, <2>2, <2>3 DEF OwnName
    <2> QED BY <1>8, <1>9, <2>1, <2>2, <2>3, <2>4
  <1>13. CASE Hash(r) \/ LookUp(r) \/ ReadHeaders(r) \/ Analyse(r) \/ InsertConflict(r)
              \/ InsertDeadlock(r)
    <2>1. /\ UNCHANGED <<flights, rows, file, disk>>
          /\ pc[r] \in {"hash", "lookup", "headers", "analyse", "insert"}
      BY <1>13 DEF Hash, LookUp, ReadHeaders, Analyse, InsertConflict, InsertDeadlock,
                   dbVars, fileVars, localVars
    <2>2. Held' \subseteq Held
      BY <1>4, <2>1 DEF Flushed, InTransaction
    <2>3. OwnName(r)'
      BY <1>7, <1>s, <2>1, <2>2 DEF OwnName, AtFile
    <2> QED BY <1>9, <2>1, <2>2, <2>3
  <1>14. CASE Insert(r)
    <2>1. /\ rows'[r] = rows[r] \union {NewRow(r)} /\ UNCHANGED <<flights, disk>>
          /\ pc[r] = "insert" /\ pc'[r] = "next"
      BY <1>1, <1>14 DEF Insert, Goto, TypeOK, dbVars, fileVars
    <2>2. Held' = Held \union {NewRow(r)}
      BY <1>4, <2>1 DEF Flushed, InTransaction
    <2>3. NewRow(r).file = file[r] /\ disk[file[r]] = NewRow(r).md5
      BY <1>7, <2>1 DEF NewRow, InTurn, OwnFile, Hashed
    <2>4. \A a \in Held : a.file # NewRow(r).file \/ a.file \in Spoilt
      BY <1>7, <2>1, <2>3 DEF OwnName, AtFile
    <2>5. \A a, b \in Held' : a.file = b.file => a = b \/ a.file \in Spoilt'
      BY <1>s, <2>2, <2>4 DEF NamesKept
    <2>6. \A a \in Held' : disk'[a.file] = a.md5 \/ a.file \in Spoilt'
      BY <1>8, <1>s, <2>1, <2>2, <2>3
    <2>7. OwnName(r)'
      BY <2>1 DEF OwnName, AtFile, Rejections
    <2> QED BY <1>3, <1>6, <2>5, <2>6, <2>7 DEF NamesKept
  <1>15. CASE Commit(r) \/ Enqueue(r) \/ RedisDown(r) \/ Respond(r)
    <2>1. /\ UNCHANGED <<rows, disk>> /\ pc[r] \in {"next", "enqueue"}
          /\ pc'[r] \in {"enqueue", "aborted", "done"}
          /\ flights' = flights \/ (pc[r] = "next" /\ flights' = flights \union rows[r])
      BY <1>1, <1>15 DEF Commit, Enqueue, RedisDown, Respond, Goto, TypeOK, fileVars, dbVars
    <2>2. Held' \subseteq Held
      BY <1>4, <2>1 DEF Flushed, InTransaction, Rejections
    <2>3. OwnName(r)'
      BY <2>1 DEF OwnName, AtFile, Rejections
    <2> QED BY <1>9, <2>1, <2>2, <2>3
  <1> QED BY <1>10, <1>11, <1>12, <1>13, <1>14, <1>15 DEF UploadStep

LEMMA DeleteNames ==
  ASSUME CleanInv, TurnsInv, NamesKept, NEW d \in Deletes, DeleteLoad(d) \/ DeleteStep(d), Alone'
  PROVE  NamesKept'
  <1> USE DEF CleanInv, IInv, TypeInv
  <1>1. d \in Requests /\ Uploads \subseteq Requests \ {d} /\ Deletes \subseteq Requests
    BY RequestsAssumption DEF Requests
  <1>2. /\ \A q \in Requests \ {d} : pc'[q] = pc[q] /\ pc[q] \notin Active
        /\ UNCHANGED rows /\ flights' \subseteq flights
    BY UploadsRest
  <1>3. Held = flights /\ Held' = flights'
    BY <1>1, <1>2 DEF Held, Flushed, Active
  <1>4. \A q \in Uploads : OwnName(q)'
    BY <1>1, <1>2 DEF OwnName, AtFile, Active, InTransaction
  <1>5. \A e \in Deletes \ {d} : pc[e] \notin {"unlink", "erase"} /\ pc'[e] \notin {"unlink", "erase"}
    BY <1>1, <1>2 DEF Active, InTransaction
  <1>s. Spoilt \subseteq Spoilt'
    <2>1. pc[d] # "cutOff" /\ \A e \in Deletes \ {d} : target'[e] = target[e]
      BY DEF DeleteLoad, DeleteStep, DeleteUnlink, DeleteCommit, TypeOK, localVars
    <2> QED BY <1>1, <1>2, <2>1, SpoiltKept
  <1>6. \A a, b \in flights' : a.file = b.file => a = b \/ a.file \in Spoilt'
    BY <1>2, <1>3, <1>s DEF NamesKept
  <1>7. \A a \in flights : a.file \in Names
    BY <1>3, HeldRow
  <1>8. CASE DeleteLoad(d)
    <2>1. /\ pc[d] = "idle" /\ pc'[d] = "unlink" /\ target'[d] \subseteq flights
          /\ UNCHANGED <<flights, disk>>
      BY <1>1, <1>8 DEF DeleteLoad, Goto, TypeOK, fileVars, dbVars
    <2>2. \A a \in flights : disk[a.file] = a.md5 \/ a.file \in Spoilt'
      BY <1>3, <1>5, <1>s, <2>1 DEF NamesKept, BeingErased
    <2> QED BY <1>3, <1>4, <1>5, <1>6, <2>1, <2>2 DEF NamesKept
  <1>9. CASE DeleteUnlink(d)
    <2>1. PICK row \in target[d] : Unlink(row.file)
      BY <1>9 DEF DeleteUnlink
    <2>2. /\ pc[d] = "unlink" /\ pc'[d] = "erase" /\ UNCHANGED <<flights, target>>
          /\ \A n \in Names : n # row.file => disk'[n] = disk[n]
      BY <1>1, <1>9, <2>1 DEF DeleteUnlink, Unlink, Goto, TypeOK, dbVars, localVars
    <2>3. target[d] \subseteq flights
      BY <2>2 DEF NamesKept
    <2>4. \A a \in flights : disk[a.file] = a.md5 \/ a.file \in Spoilt'
      BY <1>3, <1>5, <1>s, <2>2 DEF NamesKept, BeingErased
    <2>5. \A a \in flights : disk'[a.file] = a.md5 \/ BeingErased(a)' \/ a.file \in Spoilt'
      <3>1. \A a \in flights : a # row => a.file # row.file \/ a.file \in Spoilt'
        BY <1>3, <1>s, <2>3 DEF NamesKept
      <3>2. BeingErased(row)'
        BY <2>2 DEF BeingErased
      <3> QED BY <1>7, <2>2, <2>4, <3>1, <3>2
    <2> QED BY <1>3, <1>4, <1>5, <1>6, <2>2, <2>3, <2>5 DEF NamesKept
  <1>10. CASE DeleteCommit(d)
    <2>1. /\ pc[d] = "erase" /\ pc'[d] = "done" /\ flights' = flights \ target[d]
          /\ UNCHANGED disk
      BY <1>1, <1>10 DEF DeleteCommit, Goto, TypeOK, fileVars
    <2>2. \A a \in flights' : disk[a.file] = a.md5 \/ a.file \in Spoilt'
      BY <1>3, <1>5, <1>s, <2>1 DEF NamesKept, BeingErased
    <2> QED BY <1>3, <1>4, <1>5, <1>6, <2>1, <2>2 DEF NamesKept
  <1> QED BY <1>8, <1>9, <1>10 DEF DeleteStep

(* A deletion that dies after its unlink spoils the name of its row.        *)
LEMMA DieNames ==
  ASSUME CleanInv, TurnsInv, NamesKept, NEW r \in Requests, Die(r), Alone'
  PROVE  NamesKept'
  <1> USE DEF CleanInv, IInv, TypeInv
  <1>1. /\ \A q \in Requests \ {r} : pc'[q] = pc[q]
        /\ pc[r] \in Active /\ pc'[r] \in {"cutOff", "aborted"}
        /\ UNCHANGED <<rows, disk, file, target, flights>>
    BY DEF Die, Goto, TypeOK, dbVars, localVars
  <1>2. Uploads \subseteq Requests /\ Deletes \subseteq Requests
    BY DEF Requests
  <1>3. Held' \subseteq Held
    BY <1>1, <1>2 DEF Held, Flushed, InTransaction, Rejections
  <1>4. Spoilt \subseteq Spoilt'
    <2>1. pc[r] # "cutOff"
      BY <1>1 DEF Active, InTransaction, Rejections
    <2> QED BY <1>1, <1>2, <2>1, SpoiltKept
  <1>5. \A q \in Uploads : OwnName(q)'
    BY <1>1, <1>2, <1>3, <1>4 DEF NamesKept, OwnName, AtFile, Rejections
  <1>6. ASSUME NEW a \in Held, BeingErased(a) PROVE BeingErased(a)' \/ a.file \in Spoilt'
    <2>1. PICK d \in Deletes : pc[d] = "erase" /\ a \in target[d]
      BY <1>6 DEF BeingErased
    <2>2. CASE d # r
      BY <1>1, <1>2, <2>1, <2>2 DEF BeingErased
    <2>3. CASE d = r
      <3>1. pc'[d] = "cutOff" /\ a \in target'[d]
        BY <1>1, <1>2, <2>1, <2>3 DEF Die, PastRecall, Goto, TypeOK
      <3> QED BY <3>1 DEF Spoilt
    <2> QED BY <2>2, <2>3
  <1>7. \A a \in Held' : disk'[a.file] = a.md5 \/ BeingErased(a)' \/ a.file \in Spoilt'
    BY <1>1, <1>3, <1>4, <1>6 DEF NamesKept
  <1>8. \A d \in Deletes : pc'[d] \in {"unlink", "erase"} => target'[d] \subseteq flights'
    BY <1>1, <1>2 DEF NamesKept
  <1>9. \A a, b \in Held' : a.file = b.file => a = b \/ a.file \in Spoilt'
    BY <1>3, <1>4 DEF NamesKept
  <1> QED BY <1>5, <1>7, <1>8, <1>9 DEF NamesKept

LEMMA NamesStep ==
  ASSUME CleanInv, TurnsInv, NamesKept, [MCNext]_<<vars, parallel>>, ~parallel
  PROVE  NamesKept'
  <1>1. Alone'
    BY AloneStep DEF CleanInv, IInv, TypeInv, TurnsInv
  <1>2. CASE UNCHANGED vars
    BY <1>2 DEF vars, NamesKept, Held, Flushed, BeingErased, OwnName, Spoilt
  <1>3. CASE Next
    BY <1>1, <1>3, UploadNames, DeleteNames, DieNames DEF Next
  <1> QED BY <1>2, <1>3 DEF MCNext, vars

(* One request at a time, any of which may die at any point: the file of a  *)
(* stored flight is the one that its MD5 was taken from, unless its name is *)
(* that of a file which a delete request unlinked before it died (add_file  *)
(* takes no name that is taken, delete_file removes no other file).         *)
THEOREM FilesStayIntact == MCSpec => []SerialFilesIntact
  <1> DEFINE Turns == ~parallel => TurnsInv
             Inv == ~parallel => NamesKept
  <1>1. MCInit => Inv
    <2>1. Init => Held = {}
      BY DEF Init, Held, Flushed
    <2>2. Init => NamesKept
      BY <2>1 DEF Init, NamesKept, OwnName, AtFile, Rejections, Requests
    <2> QED BY <2>2 DEF MCInit
  <1>2. CleanInv /\ Turns /\ Inv /\ [MCNext]_<<vars, parallel>> => Inv'
    <2>1. [MCNext]_<<vars, parallel>> => parallel' = parallel
      BY DEF MCNext
    <2> QED BY <2>1, NamesStep
  <1>3. Inv => SerialFilesIntact
    BY DEF NamesKept, SerialFilesIntact, FilesIntact, Held, BeingErased, Spoilt
  <1>4. MCSpec => []CleanInv /\ []Turns
    <2>1. CleanInv /\ Turns => CleanInv
      OBVIOUS
    <2> QED BY TurnsHold, PTL
  <1> HIDE DEF Inv, Turns
  <1> QED BY <1>1, <1>2, <1>3, <1>4, PTL DEF MCSpec
==============================================================================
