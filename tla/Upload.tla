------------------------------- MODULE Upload --------------------------------
(***************************************************************************)
(* Uploading and deleting flights: the handlers of POST /flights/upload    *)
(* and POST /flights/<id>/delete, run by the threads of the FastCGI        *)
(* server over one directory of IGC files and one PostgreSQL database.     *)
(*                                                                         *)
(* A thread is interrupted between any two system calls or statements.     *)
(* The directory has no locks and no rollback; the database has both: a    *)
(* transaction's inserts are seen by others only once it commits, an       *)
(* insert whose unique MD5 is held by an uncommitted insert waits, and a   *)
(* request that dies is rolled back.                                       *)
(***************************************************************************)
EXTENDS Naturals, Sequences, FiniteSets

CONSTANTS
  Uploads,   \* upload requests
  Deletes,   \* delete requests
  Data,      \* contents of uploaded files
  Verdict,   \* what the parser finds in each of them
  Names,     \* file names: n + 1 is next_filename of n
  Batches,   \* uploads a client may send, each a sequence of named files
  Threads,   \* requests the server runs at the same time
  Faulty,    \* requests that may die at any point
  Missing,   \* disk state: there is no file of this name
  Empty,     \* disk state: opened for writing, nothing written yet
  Mixed      \* disk state: parts of several uploads on top of each other

Requests == Uploads \union Deletes
Rejections == {"DUPLICATE", "MISSING_DATE", "PARSER_ERROR", "NO_FLIGHT"}
UploadStatus == Rejections \union {"SUCCESS"}
Body == Data \union {Empty, Mixed}

ASSUME RequestsAssumption == Uploads \intersect Deletes = {}
ASSUME NamesAssumption == Names \subseteq Nat /\ Names # {}
ASSUME BodiesAssumption ==
  /\ Data \intersect {Missing, Empty, Mixed} = {}
  /\ Missing # Empty /\ Missing # Mixed /\ Empty # Mixed
ASSUME VerdictAssumption == Verdict \in [Data -> UploadStatus \ {"DUPLICATE"}]
ASSUME BatchesAssumption == Batches \subseteq Seq([data: Data, name: Names])

VARIABLES
  disk,      \* SKYLINES_FILES_PATH: the body under each name
  handle,    \* what the file that an upload has open for writing has become
  flights,   \* committed rows of flights joined with igc_files
  rows,      \* rows that each upload's own transaction has inserted
  queue,     \* tasks handed over to celery
  pc,        \* what each request does next
  batch,     \* the files each upload received
  file,      \* the name under which an upload stores its current file
  md5,       \* the digest of that file
  answers,   \* the status of the upload's files so far, for the result page
  target     \* the row a delete request has loaded

dbVars == <<flights, rows, queue>>
fileVars == <<disk, handle>>
localVars == <<batch, file, md5, answers, target>>
vars == <<disk, handle, flights, rows, queue, pc, batch, file, md5, answers, target>>

Row == [id: Uploads \X Nat, md5: Body, file: Names]

(* The control states of a request between its first and last statement. *)
InTransaction ==
  {"next", "probe", "open", "write", "hash", "lookup", "headers", "analyse",
   "insert", "unlink", "erase"} \union Rejections
Active == InTransaction \union {"enqueue"}
Ended == {"done", "aborted", "cutOff"}

(* Uploads whose transaction has committed. *)
Committed(r) == pc[r] \in {"enqueue", "done", "cutOff"}

(* Rows of r that the database holds but shows to nobody else. *)
Flushed(r) == IF pc[r] \in InTransaction THEN rows[r] ELSE {}
Held == flights \union UNION {Flushed(r) : r \in Uploads}

ThreadFree == Cardinality({r \in Requests : pc[r] \in Active}) < Threads

------------------------------------------------------------------------------
Init ==
  /\ disk = [n \in Names |-> Missing]
  /\ handle = [r \in Uploads |-> "closed"]
  /\ flights = {}
  /\ rows = [r \in Uploads |-> {}]
  /\ queue = {}
  /\ pc = [r \in Requests |-> "idle"]
  /\ batch = [r \in Uploads |-> <<>>]
  /\ file = [r \in Uploads |-> CHOOSE n \in Names : TRUE]
  /\ md5 = [r \in Uploads |-> Empty]
  /\ answers = [r \in Uploads |-> <<>>]
  /\ target = [d \in Deletes |-> {}]

Goto(r, state) == pc' = [pc EXCEPT ![r] = state]

------------------------------------------------------------------------------
(* The upload handler, index_post *)

(* A free thread takes up the request of a logged-in user. *)
Receive(r) ==
  /\ pc[r] = "idle" /\ ThreadFree
  /\ \E b \in Batches : batch' = [batch EXCEPT ![r] = b]
  /\ Goto(r, "next")
  /\ UNCHANGED <<fileVars, dbVars, file, md5, answers, target>>

(* The next file of the archive, under its sanitised name. *)
NextFile(r) ==
  /\ pc[r] = "next" /\ Len(answers[r]) < Len(batch[r])
  /\ file' = [file EXCEPT ![r] = batch[r][Len(answers[r]) + 1].name]
  /\ Goto(r, "probe")
  /\ UNCHANGED <<fileVars, dbVars, batch, md5, answers, target>>

(* Mutant: add_file does not look whether the name is taken. *)
ProbeNothing(r) ==
  /\ pc[r] = "probe"
  /\ Goto(r, "open")
  /\ UNCHANGED <<fileVars, dbVars, localVars>>

(* add_file looks for a name that is not taken ...                          *)
(* (Names bounds the numbers that next_filename counts through.)            *)
Probe(r) ==
  /\ pc[r] = "probe"
  /\ \/ /\ disk[file[r]] = Missing
        /\ Goto(r, "open")
        /\ UNCHANGED file
     \/ /\ disk[file[r]] # Missing
        /\ file[r] + 1 \in Names
        /\ file' = [file EXCEPT ![r] = @ + 1]
        /\ UNCHANGED pc
  /\ UNCHANGED <<fileVars, dbVars, batch, md5, answers, target>>

(* Uploads whose open file is the one that the name n leads to. *)
Writers(n) == {q \in Uploads : handle[q] \in {"sole", "shared"} /\ file[q] = n}

(* ... and opens it with mode 'w', whatever happened to it since: a file    *)
(* that another request has created in the meantime is truncated.           *)
Open(r) ==
  /\ pc[r] = "open"
  /\ disk' = [disk EXCEPT ![file[r]] = Empty]
  /\ handle' = [q \in Uploads |->
       IF q = r THEN IF Writers(file[r]) = {} THEN "sole" ELSE "shared"
       ELSE IF q \in Writers(file[r]) THEN "shared" ELSE handle[q]]
  /\ Goto(r, "write")
  /\ UNCHANGED <<dbVars, localVars>>

(* copyfileobj and close.  Two requests that had the same file open         *)
(* overwrite each other; what is written to an unlinked file is lost.       *)
Write(r) ==
  /\ pc[r] = "write"
  /\ LET data == batch[r][Len(answers[r]) + 1].data
     IN \/ /\ handle[r] \in {"sole", "shared"}
           /\ disk' = [disk EXCEPT ![file[r]] = data]
        \/ handle[r] = "shared" /\ disk' = [disk EXCEPT ![file[r]] = Mixed]
        \/ handle[r] = "unlinked" /\ UNCHANGED disk
  /\ handle' = [handle EXCEPT ![r] = "closed"]
  /\ Goto(r, "hash")
  /\ UNCHANGED <<dbVars, localVars>>

(* open_file raises IOError if the file is gone, and the request fails. *)
Hash(r) ==
  /\ pc[r] = "hash"
  /\ IF disk[file[r]] = Missing
     THEN Goto(r, "aborted") /\ UNCHANGED md5
     ELSE Goto(r, "lookup") /\ md5' = [md5 EXCEPT ![r] = disk[file[r]]]
  /\ UNCHANGED <<fileVars, dbVars, batch, file, answers, target>>

(* Mutant: the session of a request that died is not rolled back. *)
VisibleForever(r) == flights \union UNION {rows[q] : q \in Uploads}

(* What by_md5 can see: committed rows and the transaction's own. *)
Visible(r) == flights \union rows[r]

(* A flight rejected by update_flight_path is already in the session,       *)
(* without its NOT NULL path: the next flush or commit of the request fails *)
(* (queries do not flush: the session has autoflush off).                   *)
Unflushable(r) == \E i \in DOMAIN answers[r] : answers[r][i] = "NO_FLIGHT"

(* Mutant: flights are flushed only by the commit at the end. *)
LookUpCommitted(r) ==
  /\ pc[r] = "lookup"
  /\ Goto(r, IF \E row \in flights : row.md5 = md5[r] THEN "DUPLICATE" ELSE "headers")
  /\ UNCHANGED <<fileVars, dbVars, localVars>>

(* The query for a stored flight with the same digest. *)
LookUp(r) ==
  /\ pc[r] = "lookup"
  /\ Goto(r, IF \E row \in Visible(r) : row.md5 = md5[r] THEN "DUPLICATE" ELSE "headers")
  /\ UNCHANGED <<fileVars, dbVars, localVars>>

(* What the parser may make of the file that it finds on the disk. *)
Parses(body) ==
  CASE body \in Data -> {Verdict[body]}
    [] body = Mixed  -> UploadStatus \ {"DUPLICATE"}
    [] OTHER         -> {"MISSING_DATE"}

ReadHeaders(r) ==
  /\ pc[r] = "headers"
  /\ \E verdict \in Parses(disk[file[r]]) :
       Goto(r, IF verdict = "MISSING_DATE" THEN "MISSING_DATE" ELSE "analyse")
  /\ UNCHANGED <<fileVars, dbVars, localVars>>

(* analyse_flight and update_flight_path read the file again. *)
Analyse(r) ==
  /\ pc[r] = "analyse"
  /\ \/ \E verdict \in Parses(disk[file[r]]) :
          Goto(r, CASE verdict = "SUCCESS" -> "insert"
                    [] verdict = "NO_FLIGHT" -> "NO_FLIGHT"
                    [] OTHER -> "PARSER_ERROR")
     \/ disk[file[r]] = Missing /\ Goto(r, "aborted")
  /\ UNCHANGED <<fileVars, dbVars, localVars>>

(* The effect of unlink on the directory and on files that are still open. *)
Unlink(n) ==
  /\ disk' = [disk EXCEPT ![n] = Missing]
  /\ handle' = [q \in Uploads |-> IF q \in Writers(n) THEN "unlinked" ELSE handle[q]]

(* Mutant: one of the rejecting paths forgets delete_file. *)
RejectKeepingFile(r) ==
  /\ pc[r] \in Rejections
  /\ answers' = [answers EXCEPT ![r] = Append(@, pc[r])]
  /\ Goto(r, "next")
  /\ UNCHANGED <<fileVars, dbVars, batch, file, md5, target>>

(* delete_file, a line of the result page, and on to the next file. *)
Reject(r) ==
  /\ pc[r] \in Rejections
  /\ Unlink(file[r])
  /\ answers' = [answers EXCEPT ![r] = Append(@, pc[r])]
  /\ Goto(r, "next")
  /\ UNCHANGED <<dbVars, batch, file, md5, target>>

(* Other uploads whose uncommitted insert of the same digest r waits for. *)
WaitsFor(r) ==
  {q \in Uploads \ {r} : pc[r] = "insert" /\ \E row \in Flushed(q) : row.md5 = md5[r]}

(* The unique constraint of igc_files.md5. *)
Conflicts(r) == \E row \in Visible(r) : row.md5 = md5[r]

NewRow(r) == [id |-> <<r, Len(answers[r]) + 1>>, md5 |-> md5[r], file |-> file[r]]

(* Mutant: every file is committed on its own. *)
InsertAndCommit(r) ==
  /\ pc[r] = "insert"
  /\ ~Unflushable(r) /\ ~Conflicts(r) /\ WaitsFor(r) = {}
  /\ rows' = [rows EXCEPT ![r] = @ \union {NewRow(r)}]
  /\ flights' = flights \union {NewRow(r)}
  /\ answers' = [answers EXCEPT ![r] = Append(@, "SUCCESS")]
  /\ Goto(r, "next")
  /\ UNCHANGED <<fileVars, queue, batch, file, md5, target>>

(* Mutant: the tasks are queued as soon as the flight has its id. *)
InsertAndEnqueue(r) ==
  /\ pc[r] = "insert"
  /\ ~Unflushable(r) /\ ~Conflicts(r) /\ WaitsFor(r) = {}
  /\ rows' = [rows EXCEPT ![r] = @ \union {NewRow(r)}]
  /\ queue' = queue \union {<<"analyse_flight", NewRow(r).id>>}
  /\ answers' = [answers EXCEPT ![r] = Append(@, "SUCCESS")]
  /\ Goto(r, "next")
  /\ UNCHANGED <<fileVars, flights, batch, file, md5, target>>

(* The flight and its IGC file are flushed to the database. *)
Insert(r) ==
  /\ pc[r] = "insert"
  /\ ~Unflushable(r) /\ ~Conflicts(r) /\ WaitsFor(r) = {}
  /\ rows' = [rows EXCEPT ![r] = @ \union {NewRow(r)}]
  /\ answers' = [answers EXCEPT ![r] = Append(@, "SUCCESS")]
  /\ Goto(r, "next")
  /\ UNCHANGED <<fileVars, flights, queue, batch, file, md5, target>>

(* IntegrityError: the request fails and its transaction is rolled back;    *)
(* the files that it has stored stay on the disk.                           *)
InsertConflict(r) ==
  /\ pc[r] = "insert" /\ (Conflicts(r) \/ Unflushable(r))
  /\ Goto(r, "aborted")
  /\ UNCHANGED <<fileVars, dbVars, localVars>>

(* Mutant: nobody detects deadlocks. *)
NeverDeadlocked(r) == FALSE

(* PostgreSQL rolls back a transaction of a cycle of waiting transactions. *)
Deadlocked(r) ==
  \E C \in SUBSET Uploads :
    /\ r \in C
    /\ \A q \in C : WaitsFor(q) \intersect C # {}
    /\ \A q \in C : \E p \in C : q \in WaitsFor(p)

InsertDeadlock(r) ==
  /\ pc[r] = "insert" /\ Deadlocked(r)
  /\ Goto(r, "aborted")
  /\ UNCHANGED <<fileVars, dbVars, localVars>>

(* The one commit of the request, after its last file. *)
Commit(r) ==
  /\ pc[r] = "next" /\ Len(answers[r]) = Len(batch[r])
  /\ IF Unflushable(r)
     THEN Goto(r, "aborted") /\ UNCHANGED flights
     ELSE Goto(r, "enqueue") /\ flights' = flights \union rows[r]
  /\ UNCHANGED <<fileVars, rows, queue, localVars>>

(* Flights of r whose tasks are not queued yet, in the order of the archive. *)
Unqueued(r) ==
  {i \in DOMAIN answers[r] : answers[r][i] = "SUCCESS"
                             /\ <<"find_meetings", <<r, i>>>> \notin queue}
TasksOf(id) == {<<"analyse_flight", id>>, <<"find_meetings", id>>}

Enqueue(r) ==
  /\ pc[r] = "enqueue"
  /\ \E i \in Unqueued(r) :
       /\ \A j \in Unqueued(r) : i <= j
       /\ queue' = queue \union TasksOf(<<r, i>>)
  /\ UNCHANGED <<fileVars, flights, rows, pc, localVars>>

(* ConnectionError ends the loop, before or after the first of the two      *)
(* tasks; the user gets the result page all the same.                       *)
RedisDown(r) ==
  /\ pc[r] = "enqueue"
  /\ \E i \in Unqueued(r) :
       /\ \A j \in Unqueued(r) : i <= j
       /\ queue' \in {queue, queue \union {<<"analyse_flight", <<r, i>>>>}}
  /\ Goto(r, "done")
  /\ UNCHANGED <<fileVars, flights, rows, localVars>>

Respond(r) ==
  /\ pc[r] = "enqueue" /\ Unqueued(r) = {}
  /\ Goto(r, "done")
  /\ UNCHANGED <<fileVars, dbVars, localVars>>

------------------------------------------------------------------------------
(* The delete handler, and one round of the DeleteFlights command *)

(* The flight is loaded when the request arrives ... *)
DeleteLoad(d) ==
  /\ pc[d] = "idle" /\ ThreadFree
  /\ \E row \in flights : target' = [target EXCEPT ![d] = {row}]
  /\ Goto(d, "unlink")
  /\ UNCHANGED <<fileVars, dbVars, batch, file, md5, answers>>

(* ... its file is deleted at once ... *)
DeleteUnlink(d) ==
  /\ pc[d] = "unlink"
  /\ \E row \in target[d] : Unlink(row.file)
  /\ Goto(d, "erase")
  /\ UNCHANGED <<dbVars, localVars>>

(* ... and its rows only when the transaction commits. *)
DeleteCommit(d) ==
  /\ pc[d] = "erase"
  /\ flights' = flights \ target[d]
  /\ Goto(d, "done")
  /\ UNCHANGED <<fileVars, rows, queue, localVars>>

------------------------------------------------------------------------------
(* What nothing undoes: the commit of an upload, the unlink of a deletion.   *)
PastRecall(r) == pc[r] = "enqueue" \/ (r \in Deletes /\ pc[r] = "erase")

(* A request dies: its thread or process is killed, or raises an exception  *)
(* such as a full disk or a lost database connection.                       *)
Die(r) ==
  /\ r \in Faulty /\ pc[r] \in Active
  /\ Goto(r, IF PastRecall(r) THEN "cutOff" ELSE "aborted")
  /\ handle' = [q \in Uploads |-> IF q = r THEN "closed" ELSE handle[q]]
  /\ UNCHANGED <<disk, dbVars, localVars>>

UploadStep(r) ==
  \/ NextFile(r) \/ Probe(r) \/ Open(r) \/ Write(r) \/ Hash(r) \/ LookUp(r)
  \/ ReadHeaders(r) \/ Analyse(r) \/ Reject(r)
  \/ Insert(r) \/ InsertConflict(r) \/ InsertDeadlock(r)
  \/ Commit(r) \/ Enqueue(r) \/ RedisDown(r) \/ Respond(r)
DeleteStep(d) == DeleteUnlink(d) \/ DeleteCommit(d)

Next ==
  \/ \E r \in Uploads : Receive(r) \/ UploadStep(r)
  \/ \E d \in Deletes : DeleteLoad(d) \/ DeleteStep(d)
  \/ \E r \in Requests : Die(r)

(* A thread that runs is scheduled again; clients need not send anything.   *)
Fairness ==
  /\ \A r \in Uploads : WF_vars(UploadStep(r))
  /\ \A d \in Deletes : WF_vars(DeleteStep(d))

Spec == Init /\ [][Next]_vars /\ Fairness

------------------------------------------------------------------------------
(* Properties *)

(* Every variable stays within its type, for every choice of the constants. *)
TypeOK ==
  /\ disk \in [Names -> Body \union {Missing}]
  /\ handle \in [Uploads -> {"closed", "sole", "shared", "unlinked"}]
  /\ flights \in SUBSET Row
  /\ rows \in [Uploads -> SUBSET Row]
  /\ queue \subseteq {"analyse_flight", "find_meetings"} \X (Uploads \X Nat)
  /\ pc \in [Requests -> {"idle"} \union Active \union Ended]
  /\ batch \in [Uploads -> Seq([data: Data, name: Names])]
  /\ file \in [Uploads -> Names]
  /\ md5 \in [Uploads -> Body]
  /\ answers \in [Uploads -> Seq(UploadStatus)]
  /\ target \in [Deletes -> SUBSET Row]

OneRowPerDigest(held) == \A a, b \in held : a.md5 = b.md5 => a = b

(* No two stored flights have the same MD5, whichever uploads raced for it: *)
(* by_md5 alone cannot ensure it, the unique column does.                   *)
UniqueMd5 == OneRowPerDigest(flights)

(* The same holds of everything the database has accepted, rows that are    *)
(* still to be committed or rolled back included (the inductive form).      *)
UniqueHeld == OneRowPerDigest(Held)

(* The database is a FlightStore: an upload's flights appear all at once,   *)
(* only once, with fresh digests, and nothing else but a deletion changes   *)
(* what is stored (one commit at the end of index_post).                    *)
Store == INSTANCE FlightStore
           WITH store <- flights,
                served <- {r \in Uploads : Committed(r)},
                Digest <- Body
ImplementsStore == Store!StoreSpec

(* Names of files that a delete request has unlinked without removing the   *)
(* flight.  A later upload may take such a name.                            *)
Spoilt == UNION {{row.file : row \in target[d]} : d \in {e \in Deletes : pc[e] = "cutOff"}}

(* The file of a stored flight is the one its MD5 was taken from, except    *)
(* while a delete request is between its unlink and its commit, and where   *)
(* one has died there: that damages no flight whose file has another name.  *)
FilesIntact ==
  \A row \in flights :
    \/ disk[row.file] = row.md5
    \/ \E d \in Deletes : pc[d] = "erase" /\ row \in target[d]
    \/ row.file \in Spoilt

(* When a request has been answered, every flight that was in its files has *)
(* been stored, by this request or (DUPLICATE) by an earlier one.           *)
GoodFlightsStored ==
  \A r \in Uploads : pc[r] = "done" =>
    \A i \in DOMAIN batch[r] : Verdict[batch[r][i].data] = "SUCCESS" =>
      \E q \in Uploads : Committed(q) /\ \E row \in rows[q] : row.md5 = batch[r][i].data

(* "flush data to make sure we don't get duplicate files from ZIP files":   *)
(* with one request at a time, a file that is in the archive twice or was   *)
(* uploaded before is answered DUPLICATE and never fails the request.       *)
RepeatsNeverFail ==
  \A r \in Uploads : pc[r] = "aborted" => r \in Faulty \/ Unflushable(r)

(* The result page says "Your flights have been saved": the files of the    *)
(* flights it lists are there for as long as nobody deletes those flights.  *)
SavedMeansStored ==
  \A r \in Uploads : pc[r] = "done" =>
    \A row \in rows[r] \intersect flights :
      \/ disk[row.file] = row.md5
      \/ \E d \in Deletes : row \in target[d]

(* Names under which an upload has stored a file, or is about to. *)
StoredBy(r) == {file[r]} \union {row.file : row \in rows[r]}

(* Requests that ended in an exception: killed, or refused by the database  *)
(* for a digest that another upload committed first, for a deadlock, for a  *)
(* flight that cannot be flushed.  index_post does not clean up after them. *)
Failed(r) == pc[r] = "aborted"

(* A file on the disk belongs to a stored flight, to an upload that is      *)
(* under way, or is left over from an upload that failed.  Requests that    *)
(* are answered, or whose transaction has committed, leave no file without  *)
(* a flight, whatever was rejected, raced or deleted meanwhile (delete_file *)
(* on each rejecting path); failed requests leave all that they stored.     *)
OrphansOfFailuresOnly ==
  \A n \in Names : disk[n] # Missing =>
    \/ \E row \in flights : row.file = n
    \/ \E r \in Uploads : (pc[r] \in InTransaction \/ Failed(r)) /\ n \in StoredBy(r)

(* A worker never gets a task for a flight whose transaction did not commit *)
(* (the tasks are queued after db.session.commit).                          *)
TasksForPublished ==
  \A task \in queue :
    \E r \in Uploads : Committed(r) /\ \E row \in rows[r] : row.id = task[2]

(* No request waits forever for another one's transaction. *)
EveryRequestEnds == \A r \in Requests : pc[r] \in Active ~> pc[r] \in Ended

==============================================================================
