---------------------------- MODULE UploadProofs -----------------------------
(***************************************************************************)
(* What Upload guarantees for any number of requests, files and names.     *)
(*                                                                         *)
(* UniqueMd5 is not inductive: a commit adds rows that only the inserts    *)
(* before it have checked.  UniqueHeld is, because an insert checks the    *)
(* committed rows, its own transaction's and (by waiting) all others', and *)
(* a commit, a rollback or a deletion never adds to what the database      *)
(* holds.                                                                  *)
(***************************************************************************)
EXTENDS Upload, SequenceTheorems, TLAPS

(* While a file is handled there is one: its number is within the archive. *)
AtFile == {"probe", "open", "write", "hash", "lookup", "headers", "analyse",
           "insert"} \union Rejections
FileInHand == \A r \in Uploads : pc[r] \in AtFile => Len(answers[r]) < Len(batch[r])

(* Rows carry the request that inserted them; a request that has not begun  *)
(* has inserted none.                                                       *)
RowOwners ==
  \A r \in Uploads :
    /\ \A row \in rows[r] : row.id[1] = r
    /\ pc[r] = "idle" => rows[r] = {}

TypeInv == TypeOK /\ FileInHand
IInv == TypeInv /\ RowOwners /\ UniqueHeld

------------------------------------------------------------------------------
(* Types *)

LEMMA InitTypeInv == Init => TypeInv
  <1> SUFFICES ASSUME Init PROVE TypeInv
    OBVIOUS
  <1>1. (CHOOSE n \in Names : TRUE) \in Names
    BY NamesAssumption
  <1>2. <<>> \in Seq([data: Data, name: Names]) /\ <<>> \in Seq(UploadStatus)
    OBVIOUS
  <1>3. QED
    BY <1>1, <1>2
    DEF Init, TypeInv, TypeOK, FileInHand, Body, AtFile, Rejections, Requests,
        Active, InTransaction, Ended

(* Where a request goes next is always a control state. *)
LEMMA GotoTypeOK ==
  ASSUME TypeOK, NEW r \in Requests,
         NEW state \in {"idle"} \union Active \union Ended, Goto(r, state)
  PROVE  pc' \in [Requests -> {"idle"} \union Active \union Ended]
  BY DEF TypeOK, Goto

LEMMA UnlinkTypeOK ==
  ASSUME TypeOK, NEW n \in Names, Unlink(n)
  PROVE  /\ disk' \in [Names -> Body \union {Missing}]
         /\ handle' \in [Uploads -> {"closed", "sole", "shared", "unlinked"}]
  BY DEF TypeOK, Unlink, Writers

(* The archive has a file after those that have been answered. *)
LEMMA FileOfArchive ==
  ASSUME TypeOK, NEW r \in Uploads, Len(answers[r]) < Len(batch[r])
  PROVE  batch[r][Len(answers[r]) + 1] \in [data: Data, name: Names]
  <1>1. answers[r] \in Seq(UploadStatus) /\ batch[r] \in Seq([data: Data, name: Names])
    BY DEF TypeOK
  <1>2. Len(answers[r]) + 1 \in 1 .. Len(batch[r])
    BY <1>1, LenProperties
  <1>3. QED
    BY <1>1, <1>2, ElementOfSeq

(* A request that stays at its file, or leaves it, keeps FileInHand. *)
LEMMA FileInHandKept ==
  ASSUME TypeInv, NEW r \in Requests, UNCHANGED <<batch, answers>>,
         NEW state, Goto(r, state),
         r \in Uploads => (state \in AtFile => pc[r] \in AtFile)
  PROVE  FileInHand'
  BY DEF TypeInv, TypeOK, FileInHand, Goto, Requests

(* A status is added to the result page. *)
LEMMA AnswerTypeOK ==
  ASSUME TypeOK, NEW r \in Uploads, NEW status \in UploadStatus,
         answers' = [answers EXCEPT ![r] = Append(@, status)]
  PROVE  answers' \in [Uploads -> Seq(UploadStatus)]
  <1>1. Append(answers[r], status) \in Seq(UploadStatus)
    BY AppendProperties DEF TypeOK
  <1>2. QED
    BY <1>1 DEF TypeOK

LEMMA NewRowTypeOK ==
  ASSUME TypeOK, NEW r \in Uploads
  PROVE  NewRow(r) \in Row
  <1>1. Len(answers[r]) + 1 \in Nat
    BY LenProperties DEF TypeOK
  <1>2. QED
    BY <1>1 DEF NewRow, Row, TypeOK

(* One step of one upload request. *)
LEMMA UploadTypeInv ==
  ASSUME TypeInv, NEW r \in Uploads, Receive(r) \/ UploadStep(r)
  PROVE  TypeInv'
  <1> USE DEF TypeInv
  <1> r \in Requests
    BY DEF Requests
  <1>1. CASE Receive(r)
    <2>1. pc' \in [Requests -> {"idle"} \union Active \union Ended]
      BY <1>1, GotoTypeOK DEF Receive, Active, InTransaction
    <2>2. batch' \in [Uploads -> Seq([data: Data, name: Names])]
      BY <1>1, BatchesAssumption DEF Receive, TypeOK
    <2>3. TypeOK'
      BY <1>1, <2>1, <2>2 DEF Receive, TypeOK, fileVars, dbVars
    <2>4. FileInHand'
      BY <1>1 DEF Receive, Goto, FileInHand, AtFile, Rejections, TypeOK
    <2>5. QED
      BY <2>3, <2>4
  <1>2. CASE NextFile(r)
    <2>1. pc' \in [Requests -> {"idle"} \union Active \union Ended]
      BY <1>2, GotoTypeOK DEF NextFile, Active, InTransaction
    <2>2. file' \in [Uploads -> Names]
      BY <1>2, FileOfArchive DEF NextFile, TypeOK
    <2>3. TypeOK'
      BY <1>2, <2>1, <2>2 DEF NextFile, TypeOK, fileVars, dbVars
    <2>4. FileInHand'
      BY <1>2 DEF NextFile, Goto, FileInHand, AtFile, Rejections, TypeOK
    <2>5. QED
      BY <2>3, <2>4
  <1>3. CASE Probe(r)
    <2>1. pc' \in [Requests -> {"idle"} \union Active \union Ended]
      BY <1>3, GotoTypeOK DEF Probe, Active, InTransaction, TypeOK
    <2>2. file' \in [Uploads -> Names]
      BY <1>3 DEF Probe, TypeOK
    <2>3. TypeOK'
      BY <1>3, <2>1, <2>2 DEF Probe, TypeOK, fileVars, dbVars
    <2>4. FileInHand'
      <3>1. CASE Goto(r, "open")
        BY <1>3, <3>1, FileInHandKept DEF Probe, AtFile
      <3>2. CASE UNCHANGED pc
        BY <1>3, <3>2 DEF Probe, FileInHand
      <3>3. QED
        BY <1>3, <3>1, <3>2 DEF Probe
    <2>5. QED
      BY <2>3, <2>4
  <1>4. CASE Open(r)
    <2>1. pc' \in [Requests -> {"idle"} \union Active \union Ended]
      BY <1>4, GotoTypeOK DEF Open, Active, InTransaction
    <2>2. disk' \in [Names -> Body \union {Missing}]
      BY <1>4 DEF Open, TypeOK, Body
    <2>3. handle' \in [Uploads -> {"closed", "sole", "shared", "unlinked"}]
      BY <1>4 DEF Open, TypeOK
    <2>4. TypeOK'
      BY <1>4, <2>1, <2>2, <2>3 DEF Open, TypeOK, dbVars, localVars
    <2>5. FileInHand'
      BY <1>4 DEF Open, Goto, FileInHand, AtFile, Rejections, TypeOK, localVars
    <2>6. QED
      BY <2>4, <2>5
  <1>5. CASE Write(r)
    <2>1. pc' \in [Requests -> {"idle"} \union Active \union Ended]
      BY <1>5, GotoTypeOK DEF Write, Active, InTransaction
    <2>2. batch[r][Len(answers[r]) + 1].data \in Body
      BY <1>5, FileOfArchive DEF Write, FileInHand, AtFile, Body
    <2>3. disk' \in [Names -> Body \union {Missing}]
      BY <1>5, <2>2 DEF Write, TypeOK, Body
    <2>4. handle' \in [Uploads -> {"closed", "sole", "shared", "unlinked"}]
      BY <1>5 DEF Write, TypeOK
    <2>5. TypeOK'
      BY <1>5, <2>1, <2>3, <2>4 DEF Write, TypeOK, dbVars, localVars
    <2>6. FileInHand'
      BY <1>5 DEF Write, Goto, FileInHand, AtFile, Rejections, TypeOK, localVars
    <2>7. QED
      BY <2>5, <2>6
  <1>6. CASE Hash(r)
    <2>1. pc' \in [Requests -> {"idle"} \union Active \union Ended]
      BY <1>6, GotoTypeOK DEF Hash, Active, InTransaction, Ended
    <2>2. md5' \in [Uploads -> Body]
      BY <1>6 DEF Hash, TypeOK
    <2>3. TypeOK'
      BY <1>6, <2>1, <2>2 DEF Hash, TypeOK, fileVars, dbVars
    <2>4. FileInHand'
      <3>1. PICK state \in {"aborted", "lookup"} : Goto(r, state)
        BY <1>6 DEF Hash
      <3>2. QED
        BY <1>6, <3>1, FileInHandKept DEF Hash, AtFile, Rejections
    <2>5. QED
      BY <2>3, <2>4
  <1>7. CASE LookUp(r) \/ ReadHeaders(r) \/ Analyse(r)
    <2>1. PICK state \in {"aborted", "headers", "analyse", "insert"} \union Rejections :
            Goto(r, state)
      BY <1>7 DEF LookUp, ReadHeaders, Analyse, Rejections
    <2>2. pc' \in [Requests -> {"idle"} \union Active \union Ended]
      BY <2>1, GotoTypeOK DEF Active, InTransaction, Ended, Rejections
    <2>3. TypeOK'
      BY <1>7, <2>2 DEF LookUp, ReadHeaders, Analyse, TypeOK, fileVars, dbVars, localVars
    <2>4. Len(answers[r]) < Len(batch[r])
      BY <1>7 DEF LookUp, ReadHeaders, Analyse, FileInHand, AtFile
    <2>5. FileInHand'
      BY <1>7, <2>1, <2>4
      DEF LookUp, ReadHeaders, Analyse, Goto, FileInHand, AtFile, TypeOK, localVars
    <2>6. QED
      BY <2>3, <2>5
  <1>8. CASE Reject(r)
    <2>1. pc' \in [Requests -> {"idle"} \union Active \union Ended]
      BY <1>8, GotoTypeOK DEF Reject, Active, InTransaction
    <2>2. answers' \in [Uploads -> Seq(UploadStatus)]
      BY <1>8, AnswerTypeOK DEF Reject, UploadStatus
    <2>3. /\ disk' \in [Names -> Body \union {Missing}]
          /\ handle' \in [Uploads -> {"closed", "sole", "shared", "unlinked"}]
      BY <1>8, UnlinkTypeOK DEF Reject, TypeOK
    <2>4. TypeOK'
      BY <1>8, <2>1, <2>2, <2>3 DEF Reject, TypeOK, dbVars
    <2>5. FileInHand'
      BY <1>8 DEF Reject, Goto, FileInHand, AtFile, Rejections, TypeOK
    <2>6. QED
      BY <2>4, <2>5
  <1>9. CASE Insert(r)
    <2>1. pc' \in [Requests -> {"idle"} \union Active \union Ended]
      BY <1>9, GotoTypeOK DEF Insert, Active, InTransaction
    <2>2. answers' \in [Uploads -> Seq(UploadStatus)]
      BY <1>9, AnswerTypeOK DEF Insert, UploadStatus
    <2>3. rows' \in [Uploads -> SUBSET Row]
      BY <1>9, NewRowTypeOK DEF Insert, TypeOK
    <2>4. TypeOK'
      BY <1>9, <2>1, <2>2, <2>3 DEF Insert, TypeOK, fileVars
    <2>5. FileInHand'
      BY <1>9 DEF Insert, Goto, FileInHand, AtFile, Rejections, TypeOK
    <2>6. QED
      BY <2>4, <2>5
  <1>10. CASE InsertConflict(r) \/ InsertDeadlock(r) \/ Respond(r)
    <2>1. PICK state \in Ended : Goto(r, state)
      BY <1>10 DEF InsertConflict, InsertDeadlock, Respond, Ended
    <2>2. pc' \in [Requests -> {"idle"} \union Active \union Ended]
      BY <2>1, GotoTypeOK
    <2>3. TypeOK'
      BY <1>10, <2>2
      DEF InsertConflict, InsertDeadlock, Respond, TypeOK, fileVars, dbVars, localVars
    <2>4. FileInHand'
      BY <1>10, <2>1
      DEF InsertConflict, InsertDeadlock, Respond, Goto, FileInHand, AtFile, Rejections,
          Ended, TypeOK, localVars
    <2>5. QED
      BY <2>3, <2>4
  <1>11. CASE Commit(r)
    <2>1. pc' \in [Requests -> {"idle"} \union Active \union Ended]
      BY <1>11, GotoTypeOK DEF Commit, Active, InTransaction, Ended
    <2>2. flights' \in SUBSET Row
      BY <1>11 DEF Commit, TypeOK
    <2>3. TypeOK'
      BY <1>11, <2>1, <2>2 DEF Commit, TypeOK, fileVars, localVars
    <2>4. FileInHand'
      <3>1. PICK state \in {"aborted", "enqueue"} : Goto(r, state)
        BY <1>11 DEF Commit
      <3>2. QED
        BY <1>11, <3>1, FileInHandKept DEF Commit, AtFile, Rejections, localVars
    <2>5. QED
      BY <2>3, <2>4
  <1>12. CASE Enqueue(r) \/ RedisDown(r)
    <2>1. pc' \in [Requests -> {"idle"} \union Active \union Ended]
      BY <1>12, GotoTypeOK DEF Enqueue, RedisDown, TypeOK, Ended
    <2>2. Unqueued(r) \subseteq Nat
      BY DEF Unqueued, TypeOK
    <2>3. queue' \subseteq {"analyse_flight", "find_meetings"} \X (Uploads \X Nat)
      BY <1>12, <2>2 DEF Enqueue, RedisDown, TasksOf, TypeOK
    <2>4. TypeOK'
      BY <1>12, <2>1, <2>3 DEF Enqueue, RedisDown, TypeOK, fileVars, localVars
    <2>5. FileInHand'
      <3>1. CASE Enqueue(r)
        BY <3>1 DEF Enqueue, FileInHand, localVars
      <3>2. CASE RedisDown(r)
        BY <3>2, FileInHandKept DEF RedisDown, AtFile, Rejections, localVars
      <3>3. QED
        BY <1>12, <3>1, <3>2
    <2>6. QED
      BY <2>4, <2>5
  <1>13. QED
    BY <1>1, <1>2, <1>3, <1>4, <1>5, <1>6, <1>7, <1>8, <1>9, <1>10, <1>11, <1>12
    DEF UploadStep

(* One step of one delete request. *)
LEMMA DeleteTypeInv ==
  ASSUME TypeInv, NEW d \in Deletes, DeleteLoad(d) \/ DeleteStep(d)
  PROVE  TypeInv'
  <1> USE DEF TypeInv
  <1> d \in Requests /\ d \notin Uploads
    BY RequestsAssumption DEF Requests
  <1>1. PICK state \in {"unlink", "erase", "done"} : Goto(d, state)
    BY DEF DeleteLoad, DeleteStep, DeleteUnlink, DeleteCommit
  <1>2. pc' \in [Requests -> {"idle"} \union Active \union Ended]
    BY <1>1, GotoTypeOK DEF Active, InTransaction, Ended
  <1>3. FileInHand'
    BY <1>1, FileInHandKept
    DEF DeleteLoad, DeleteStep, DeleteUnlink, DeleteCommit, localVars
  <1>4. CASE DeleteLoad(d)
    <2>1. target' \in [Deletes -> SUBSET Row]
      BY <1>4 DEF DeleteLoad, TypeOK
    <2>2. QED
      BY <1>2, <1>3, <1>4, <2>1 DEF DeleteLoad, TypeOK, fileVars, dbVars
  <1>5. CASE DeleteUnlink(d)
    <2>1. PICK row \in target[d] : Unlink(row.file)
      BY <1>5 DEF DeleteUnlink
    <2>2. row.file \in Names
      BY <2>1 DEF TypeOK, Row
    <2>3. /\ disk' \in [Names -> Body \union {Missing}]
          /\ handle' \in [Uploads -> {"closed", "sole", "shared", "unlinked"}]
      BY <2>1, <2>2, UnlinkTypeOK
    <2>4. QED
      BY <1>2, <1>3, <1>5, <2>3 DEF DeleteUnlink, TypeOK, dbVars, localVars
  <1>6. CASE DeleteCommit(d)
    <2>1. flights' \in SUBSET Row
      BY <1>6 DEF DeleteCommit, TypeOK
    <2>2. QED
      BY <1>2, <1>3, <1>6, <2>1 DEF DeleteCommit, TypeOK, fileVars, localVars
  <1>7. QED
    BY <1>4, <1>5, <1>6 DEF DeleteStep

LEMMA DieTypeInv ==
  ASSUME TypeInv, NEW r \in Requests, Die(r)
  PROVE  TypeInv'
  <1> USE DEF TypeInv
  <1>1. PICK state \in {"aborted", "cutOff"} : Goto(r, state)
    BY DEF Die
  <1>2. pc' \in [Requests -> {"idle"} \union Active \union Ended]
    BY <1>1, GotoTypeOK DEF Ended
  <1>3. FileInHand'
    BY <1>1, FileInHandKept DEF Die, AtFile, Rejections, localVars
  <1>4. handle' \in [Uploads -> {"closed", "sole", "shared", "unlinked"}]
    BY DEF Die, TypeOK
  <1>5. QED
    BY <1>2, <1>3, <1>4 DEF Die, TypeOK, dbVars, localVars

LEMMA NextTypeInv == TypeInv /\ [Next]_vars => TypeInv'
  <1> SUFFICES ASSUME TypeInv, [Next]_vars PROVE TypeInv'
    OBVIOUS
  <1>1. CASE UNCHANGED vars
    BY <1>1 DEF vars, TypeInv, TypeOK, FileInHand
  <1>2. CASE Next
    BY <1>2, UploadTypeInv, DeleteTypeInv, DieTypeInv DEF Next
  <1>3. QED
    BY <1>1, <1>2

(* Every variable of the upload and delete handlers keeps its type, however *)
(* many requests, files and names there are.                                *)
THEOREM TypeCorrect == Spec => []TypeOK
  <1>1. TypeInv => TypeOK
    BY DEF TypeInv
  <1>2. QED
    BY InitTypeInv, NextTypeInv, <1>1, PTL DEF Spec

------------------------------------------------------------------------------
(* The database *)

LEMMA InitHeld == Init => RowOwners /\ UniqueHeld
  <1> SUFFICES ASSUME Init PROVE RowOwners /\ UniqueHeld
    OBVIOUS
  <1>1. Held = {}
    BY DEF Init, Held, Flushed
  <1>2. QED
    BY <1>1 DEF Init, RowOwners, UniqueHeld, OneRowPerDigest

(* Whatever the database gives up cannot break uniqueness. *)
LEMMA HeldShrinks ==
  ASSUME UniqueHeld, Held' \subseteq Held
  PROVE  UniqueHeld'
  BY DEF UniqueHeld, OneRowPerDigest

(* A request that leaves its transaction gives up its rows; one that enters *)
(* it has none yet.                                                         *)
LEMMA HeldByMoving ==
  ASSUME TypeInv, RowOwners, NEW r \in Requests, NEW state, Goto(r, state),
         UNCHANGED rows, flights' \subseteq flights,
         r \in Uploads => pc[r] = "idle" \/ pc[r] \in InTransaction
                          \/ state \notin InTransaction,
         state # "idle"
  PROVE  RowOwners' /\ Held' \subseteq Held
  <1>1. \A q \in Uploads : Flushed(q)' \subseteq Flushed(q)
    BY DEF TypeInv, TypeOK, RowOwners, Goto, Flushed, Requests
  <1>2. Held' \subseteq Held
    BY <1>1 DEF Held
  <1>3. RowOwners'
    BY DEF TypeInv, TypeOK, RowOwners, Goto, Requests
  <1>4. QED
    BY <1>2, <1>3

(* The insert, the only step that adds to what the database holds. *)
LEMMA InsertHeld ==
  ASSUME IInv, NEW r \in Uploads, Insert(r)
  PROVE  RowOwners' /\ UniqueHeld'
  <1> USE DEF IInv
  <1> r \in Requests
    BY DEF Requests
  <1>1. pc' = [pc EXCEPT ![r] = "next"] /\ rows' = [rows EXCEPT ![r] = @ \union {NewRow(r)}]
    BY DEF Insert, Goto
  <1>2. /\ pc'[r] = "next" /\ rows'[r] = rows[r] \union {NewRow(r)}
        /\ \A q \in Uploads \ {r} : pc'[q] = pc[q] /\ rows'[q] = rows[q]
    BY <1>1 DEF TypeInv, TypeOK, Requests
  <1>3. NewRow(r).md5 = md5[r] /\ NewRow(r).id[1] = r
    BY DEF NewRow
  <1>4. Held' \subseteq Held \union {NewRow(r)}
    <2>1. \A q \in Uploads \ {r} : Flushed(q)' = Flushed(q)
      BY <1>2 DEF Flushed
    <2>2. Flushed(r)' = Flushed(r) \union {NewRow(r)}
      BY <1>2 DEF Flushed, InTransaction, Insert
    <2>3. flights' = flights
      BY DEF Insert
    <2>4. QED
      BY <2>1, <2>2, <2>3 DEF Held
  <1>5. \A row \in Held : row.md5 # md5[r]
    <2>1. \A row \in flights \union rows[r] : row.md5 # md5[r]
      BY DEF Insert, Conflicts, Visible
    <2>2. \A q \in Uploads \ {r} : \A row \in Flushed(q) : row.md5 # md5[r]
      BY DEF Insert, WaitsFor
    <2>3. QED
      BY <2>1, <2>2 DEF Held, Flushed
  <1>6. UniqueHeld'
    BY <1>3, <1>4, <1>5 DEF UniqueHeld, OneRowPerDigest
  <1>7. RowOwners'
    BY <1>2, <1>3 DEF RowOwners
  <1>8. QED
    BY <1>6, <1>7

(* The commit shows everybody what the database already held. *)
LEMMA CommitHeld ==
  ASSUME IInv, NEW r \in Uploads, Commit(r)
  PROVE  RowOwners' /\ UniqueHeld'
  <1> USE DEF IInv
  <1> r \in Requests
    BY DEF Requests
  <1>1. rows[r] = Flushed(r)
    BY DEF Commit, Flushed, InTransaction
  <1>2. flights' \subseteq Held /\ UNCHANGED rows
    BY <1>1 DEF Commit, Held
  <1>3. PICK state \in {"aborted", "enqueue"} : Goto(r, state)
    BY DEF Commit
  <1>4. \A q \in Uploads : Flushed(q)' \subseteq Flushed(q)
    BY <1>2, <1>3 DEF TypeInv, TypeOK, Goto, Flushed, Requests, InTransaction, Rejections
  <1>5. Held' \subseteq Held
    BY <1>2, <1>4 DEF Held
  <1>6. RowOwners'
    BY <1>2, <1>3 DEF TypeInv, TypeOK, RowOwners, Goto, Requests
  <1>7. QED
    BY <1>5, <1>6, HeldShrinks

LEMMA NextHeld == IInv /\ [Next]_vars => RowOwners' /\ UniqueHeld'
  <1> SUFFICES ASSUME IInv, [Next]_vars PROVE RowOwners' /\ UniqueHeld'
    OBVIOUS
  <1> USE DEF IInv
  <1>1. CASE UNCHANGED vars
    BY <1>1 DEF vars, RowOwners, UniqueHeld, OneRowPerDigest, Held, Flushed
  <1>2. ASSUME NEW r \in Uploads, Receive(r) \/ UploadStep(r)
        PROVE  RowOwners' /\ UniqueHeld'
    <2> r \in Requests
      BY DEF Requests
    <2>1. CASE Insert(r)
      BY <2>1, InsertHeld
    <2>2. CASE Commit(r)
      BY <2>2, CommitHeld
    <2>3. CASE UNCHANGED pc
      <3>1. CASE Insert(r) \/ Commit(r)
        BY <2>1, <2>2, <3>1
      <3>2. CASE Receive(r) \/ NextFile(r) \/ Probe(r) \/ Open(r) \/ Write(r) \/ Hash(r)
                 \/ LookUp(r) \/ ReadHeaders(r) \/ Analyse(r) \/ Reject(r)
        <4>1. UNCHANGED <<rows, flights>>
          BY <3>2 DEF Receive, NextFile, Probe, Open, Write, Hash, LookUp, ReadHeaders,
                      Analyse, Reject, dbVars
        <4>2. QED
          BY <2>3, <4>1 DEF RowOwners, UniqueHeld, OneRowPerDigest, Held, Flushed
      <3>3. CASE InsertConflict(r) \/ InsertDeadlock(r) \/ Enqueue(r) \/ RedisDown(r)
                 \/ Respond(r)
        <4>1. UNCHANGED <<rows, flights>>
          BY <3>3 DEF InsertConflict, InsertDeadlock, Enqueue, RedisDown, Respond, dbVars
        <4>2. QED
          BY <2>3, <4>1 DEF RowOwners, UniqueHeld, OneRowPerDigest, Held, Flushed
      <3>4. QED
        BY <1>2, <3>1, <3>2, <3>3 DEF UploadStep
    <2>4. CASE ~Insert(r) /\ ~Commit(r) /\ pc' # pc
      <3>1. /\ UNCHANGED <<rows, flights>>
            /\ \E state \in (Active \union Ended) \ {"idle"} :
                 /\ Goto(r, state)
                 /\ pc[r] = "idle" \/ pc[r] \in InTransaction \/ state \notin InTransaction
        BY <1>2, <2>4
        DEF UploadStep, Receive, NextFile, Probe, Open, Write, Hash, LookUp, ReadHeaders,
            Analyse, Reject, InsertConflict, InsertDeadlock, Enqueue, RedisDown, Respond,
            dbVars, Active, Ended, InTransaction, Rejections
      <3>2. QED
        BY <3>1, HeldByMoving, HeldShrinks
    <2>5. QED
      BY <2>1, <2>2, <2>3, <2>4
  <1>3. ASSUME NEW d \in Deletes, DeleteLoad(d) \/ DeleteStep(d)
        PROVE  RowOwners' /\ UniqueHeld'
    <2>1. d \in Requests /\ d \notin Uploads
      BY RequestsAssumption DEF Requests
    <2>2. /\ UNCHANGED rows /\ flights' \subseteq flights
          /\ \E state \in {"unlink", "erase", "done"} : Goto(d, state)
      BY <1>3 DEF DeleteLoad, DeleteStep, DeleteUnlink, DeleteCommit, dbVars
    <2>3. QED
      BY <2>1, <2>2, HeldByMoving, HeldShrinks
  <1>4. ASSUME NEW r \in Requests, Die(r)
        PROVE  RowOwners' /\ UniqueHeld'
    <2>1. /\ UNCHANGED rows /\ flights' \subseteq flights
          /\ \E state \in {"aborted", "cutOff"} : Goto(r, state)
      BY <1>4 DEF Die, dbVars
    <2>2. QED
      BY <2>1, HeldByMoving, HeldShrinks DEF InTransaction, Rejections
  <1>5. QED
    BY <1>1, <1>2, <1>3, <1>4 DEF Next

LEMMA InvariantHolds == Init /\ [][Next]_vars => []IInv
  <1>1. Init => IInv
    BY InitTypeInv, InitHeld DEF IInv
  <1>2. IInv /\ [Next]_vars => IInv'
    BY NextTypeInv, NextHeld DEF IInv
  <1>3. QED
    BY <1>1, <1>2, PTL

(* Rows that the database has accepted never share an MD5, whether they are *)
(* committed or still in somebody's transaction.                            *)
THEOREM HeldDigestsUnique == Spec => []UniqueHeld
  <1>1. IInv => UniqueHeld
    BY DEF IInv
  <1>2. QED
    BY <1>1, InvariantHolds, PTL DEF Spec

(* However many uploads race for the same file, it is stored only once. *)
THEOREM Md5Unique == Spec => []UniqueMd5
  <1>1. IInv => UniqueMd5
    BY DEF IInv, UniqueHeld, UniqueMd5, OneRowPerDigest, Held
  <1>2. QED
    BY <1>1, InvariantHolds, PTL DEF Spec

------------------------------------------------------------------------------
(* Upload implements FlightStore *)

(* A delete request has loaded at most one row. *)
OneTarget == \A d \in Deletes : \A a, b \in target[d] : a = b

LEMMA OneTargetHolds == Init /\ [][Next]_vars => []OneTarget
  <1>1. Init => OneTarget
    BY DEF Init, OneTarget
  <1>2. TypeInv /\ OneTarget /\ [Next]_vars => OneTarget'
    <2> SUFFICES ASSUME TypeInv, OneTarget, [Next]_vars PROVE OneTarget'
      OBVIOUS
    <2>1. CASE \E d \in Deletes : DeleteLoad(d)
      BY <2>1 DEF DeleteLoad, OneTarget, TypeInv, TypeOK
    <2>2. CASE UNCHANGED target
      BY <2>2 DEF OneTarget
    <2>3. ASSUME NEW r \in Uploads, Receive(r) \/ UploadStep(r)
          PROVE  UNCHANGED target
      <3>1. CASE Receive(r) \/ NextFile(r) \/ Probe(r) \/ Open(r) \/ Write(r) \/ Hash(r)
                 \/ LookUp(r) \/ ReadHeaders(r) \/ Analyse(r) \/ Reject(r)
        BY <3>1 DEF Receive, NextFile, Probe, Open, Write, Hash, LookUp, ReadHeaders,
                    Analyse, Reject, localVars
      <3>2. CASE Insert(r) \/ InsertConflict(r) \/ InsertDeadlock(r) \/ Commit(r)
                 \/ Enqueue(r) \/ RedisDown(r) \/ Respond(r)
        BY <3>2 DEF Insert, InsertConflict, InsertDeadlock, Commit, Enqueue, RedisDown,
                    Respond, localVars
      <3>3. QED
        BY <2>3, <3>1, <3>2 DEF UploadStep
    <2>4. ASSUME NEW d \in Deletes, DeleteStep(d)
          PROVE  UNCHANGED target
      BY <2>4 DEF DeleteStep, DeleteUnlink, DeleteCommit, localVars
    <2>5. ASSUME NEW r \in Requests, Die(r)
          PROVE  UNCHANGED target
      BY <2>5 DEF Die, localVars
    <2>6. QED
      BY <2>1, <2>2, <2>3, <2>4, <2>5 DEF Next, vars
  <1>3. QED
    BY <1>1, <1>2, InitTypeInv, NextTypeInv, PTL

(* The requests that the abstract store has served. *)
Served == {r \in Uploads : Committed(r)}

LEMMA InitStore == Init => Store!StoreInit
  BY RequestsAssumption DEF Init, Store!StoreInit, Committed, Requests

(* A commit publishes the flights of its request. *)
LEMMA CommitPublishes ==
  ASSUME IInv, IInv', NEW r \in Uploads, Commit(r)
  PROVE  Store!Publish(r) \/ UNCHANGED <<flights, Served>>
  <1> USE DEF IInv, TypeInv
  <1> r \in Requests
    BY DEF Requests
  <1>1. CASE Unflushable(r)
    <2>1. UNCHANGED flights /\ pc' = [pc EXCEPT ![r] = "aborted"] /\ pc[r] = "next"
      BY <1>1 DEF Commit, Goto
    <2>2. UNCHANGED Served
      BY <2>1 DEF Served, Committed, TypeOK, Requests
    <2>3. QED
      BY <2>1, <2>2
  <1>2. CASE ~Unflushable(r)
    <2>1. /\ flights' = flights \union rows[r]
          /\ pc' = [pc EXCEPT ![r] = "enqueue"] /\ pc[r] = "next"
      BY <1>2 DEF Commit, Goto
    <2>2. r \notin Served /\ Served' = Served \union {r}
      BY <2>1 DEF Served, Committed, TypeOK, Requests
    <2>3. \A row \in flights' \ flights : row \in Row /\ row.id[1] = r
      BY <2>1 DEF RowOwners, TypeOK
    <2>4. OneRowPerDigest(flights)'
      BY DEF UniqueHeld, OneRowPerDigest, Held
    <2>5. QED
      BY <2>1, <2>2, <2>3, <2>4
      DEF Store!Publish, Store!OneRowPerDigest, Store!Row, Row, OneRowPerDigest, Served
  <1>3. QED
    BY <1>1, <1>2

(* Where a request that is not committing goes does not change what it has  *)
(* been counted as.                                                         *)
LEMMA ServedKept ==
  ASSUME TypeInv, NEW r \in Requests, NEW state, Goto(r, state),
         r \in Uploads => (Committed(r) <=> state \in {"enqueue", "done", "cutOff"})
  PROVE  UNCHANGED Served
  BY DEF TypeInv, TypeOK, Served, Committed, Goto, Requests

LEMMA StepImplementsStore ==
  IInv /\ IInv' /\ OneTarget /\ [Next]_vars => [Store!StoreNext]_(Store!storeVars)
  <1> SUFFICES ASSUME IInv, IInv', OneTarget, [Next]_vars
               PROVE  Store!StoreNext \/ UNCHANGED <<flights, Served>>
    BY DEF Store!storeVars, Served
  <1> USE DEF IInv
  <1>1. CASE UNCHANGED vars
    BY <1>1 DEF vars, Served, Committed
  <1>2. ASSUME NEW r \in Uploads, Receive(r) \/ UploadStep(r)
        PROVE  Store!StoreNext \/ UNCHANGED <<flights, Served>>
    <2> r \in Requests
      BY DEF Requests
    <2>1. CASE Commit(r)
      BY <2>1, CommitPublishes DEF Store!StoreNext
    <2>2. CASE Receive(r) \/ NextFile(r) \/ Probe(r) \/ Open(r) \/ Write(r) \/ Hash(r)
               \/ LookUp(r) \/ ReadHeaders(r) \/ Analyse(r) \/ Reject(r)
      <3>1. UNCHANGED flights
        BY <2>2 DEF Receive, NextFile, Probe, Open, Write, Hash, LookUp, ReadHeaders,
                    Analyse, Reject, dbVars
      <3>2. CASE UNCHANGED pc
        BY <3>1, <3>2 DEF Served, Committed
      <3>3. CASE pc' # pc
        <4>1. /\ ~Committed(r)
              /\ \E state \in InTransaction \union {"aborted"} : Goto(r, state)
          BY <2>2, <3>3
          DEF Receive, NextFile, Probe, Open, Write, Hash, LookUp, ReadHeaders,
              Analyse, Reject, Committed, InTransaction, Rejections
        <4>2. QED
          BY <3>1, <4>1, ServedKept DEF InTransaction, Rejections
      <3>4. QED
        BY <3>2, <3>3
    <2>3. CASE Insert(r) \/ InsertConflict(r) \/ InsertDeadlock(r)
      <3>1. /\ ~Committed(r) /\ UNCHANGED flights
            /\ \E state \in {"next", "aborted"} : Goto(r, state)
        BY <2>3 DEF Insert, InsertConflict, InsertDeadlock, dbVars, Committed
      <3>2. QED
        BY <3>1, ServedKept
    <2>4. CASE Enqueue(r)
      BY <2>4 DEF Enqueue, Served, Committed
    <2>5. CASE RedisDown(r) \/ Respond(r)
      <3>1. Committed(r) /\ UNCHANGED flights /\ Goto(r, "done")
        BY <2>5 DEF RedisDown, Respond, dbVars, Committed
      <3>2. QED
        BY <3>1, ServedKept
    <2>6. QED
      BY <1>2, <2>1, <2>2, <2>3, <2>4, <2>5 DEF UploadStep
  <1>3. ASSUME NEW d \in Deletes, DeleteLoad(d) \/ DeleteStep(d)
        PROVE  Store!StoreNext \/ UNCHANGED <<flights, Served>>
    <2>1. d \in Requests /\ d \notin Uploads
      BY RequestsAssumption DEF Requests
    <2>2. \E state \in {"unlink", "erase", "done"} : Goto(d, state)
      BY <1>3 DEF DeleteLoad, DeleteStep, DeleteUnlink, DeleteCommit
    <2>3. UNCHANGED Served
      BY <2>1, <2>2, ServedKept
    <2>4. CASE DeleteCommit(d)
      <3>1. flights' = flights \/ \E row \in flights : flights' = flights \ {row}
        BY <2>4 DEF DeleteCommit, OneTarget
      <3>2. QED
        BY <2>3, <3>1 DEF Store!StoreNext, Store!Remove, Served
    <2>5. CASE ~DeleteCommit(d)
      BY <1>3, <2>3, <2>5 DEF DeleteLoad, DeleteStep, DeleteUnlink, dbVars
    <2>6. QED
      BY <2>4, <2>5
  <1>4. ASSUME NEW r \in Requests, Die(r)
        PROVE  Store!StoreNext \/ UNCHANGED <<flights, Served>>
    <2>1. /\ UNCHANGED flights
          /\ \E state \in {"aborted", "cutOff"} :
               Goto(r, state) /\ (r \in Uploads => (Committed(r) <=> state = "cutOff"))
      BY <1>4, RequestsAssumption
      DEF Die, PastRecall, dbVars, Committed, Active, InTransaction, Rejections
    <2>2. QED
      BY <2>1, ServedKept
  <1>5. QED
    BY <1>1, <1>2, <1>3, <1>4 DEF Next

(* Whatever races, dies or is deleted, the database behaves as a FlightStore. *)
THEOREM StoreImplemented == Spec => ImplementsStore
  <1>1. Spec => [][Next]_vars
    BY PTL DEF Spec
  <1>2. QED
    BY <1>1, InitStore, InvariantHolds, OneTargetHolds, StepImplementsStore, PTL
    DEF Spec, ImplementsStore, Store!StoreSpec
==============================================================================
