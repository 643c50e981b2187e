------------------------------- MODULE Aircraft -------------------------------
(***************************************************************************)
(* Which aircraft a flight was flown with: what an upload takes from the   *)
(* file and guesses from earlier flights, what the form below the result   *)
(* of an upload and the form of a flight change, and the list of models.   *)
(*                                                                         *)
(* The result form commits flight by flight.  A request writes only the    *)
(* columns that differ from the row it has loaded, and fails if the row is *)
(* gone.                                                                   *)
(***************************************************************************)
EXTENDS Naturals, Sequences, FiniteSets

CONSTANTS
  Logged,        \* ids of flights, in the order of their upload
  Uploaders,     \* users
  Staff,         \* users who may edit every flight
  Headers,       \* headers of IGC files
  PhoneLoggers,  \* loggers whose manufacturer id begins with X
  ModelNames,    \* names of aircraft models
  Similar,       \* for a glider type, the names that resemble it, best first
  Entries,       \* what may be entered for a flight
  IndexFiles,    \* lists of names with DMSt indices
  Forms,         \* requests
  MaxListed,     \* files in a result form
  NoData,        \* null
  Empty, Blank,  \* an empty text, and one of spaces only
  TooLong        \* a text that is too long for its column

ASSUME LoggedAssumption == Logged \subseteq Nat \ {0} /\ NoData \notin Logged
ASSUME ListedAssumption == MaxListed \in Nat

VARIABLES
  logged,  \* the rows of flights joined with igc_files
  models,  \* DMSt index, or NoData, of each model in the table
  form     \* the requests under way, and their answers

aircraftVars == <<logged, models, form>>

NoForm == [step |-> "none"]

AircraftInit ==
  /\ logged = {} /\ models = [n \in {} |-> NoData]
  /\ form = [r \in Forms |-> NoForm]

Writable(u, f) == u \in {f.owner, f.pilot} \union Staff

------------------------------------------------------------------------------
(* Guesses *)

(* ORDER BY id DESC LIMIT 1 *)
Newest(found) == {f \in found : \A g \in found : g.id <= f.id}

(* Flights by the same logger; if the logger is a phone, only the owner's. *)
SameLogger(h, owner) ==
  {f \in logged : /\ h.logger # NoData /\ f.header.logger = h.logger
                  /\ h.logger \in PhoneLoggers => f.pilot = owner}

(* The registration of the newest of those that have none. *)
GuessRegistration(h, owner) ==
  LET found == Newest({f \in SameLogger(h, owner) : f.registration = NoData}) IN
  IF found = {} THEN NoData ELSE (CHOOSE f \in found : TRUE).registration

(* The model in that row of the database, or the model that resembles the   *)
(* type best.                                                               *)
GuessModel(h, owner) ==
  LET sameGlider == Newest({f \in logged : h.registration # NoData /\ f.registration = h.registration})
      sameLogger == Newest({f \in SameLogger(h, owner) : f.model = NoData})
      sure == {f.model : f \in sameGlider} \ {NoData}
      likely == {f.model : f \in sameLogger} \ {NoData}
      like == {i \in DOMAIN Similar[h.type] : Similar[h.type][i] \in DOMAIN models}
  IN CASE sure # {} -> CHOOSE m \in sure : TRUE
       [] sure = {} /\ likely # {} -> CHOOSE m \in likely : TRUE
       [] sure \union likely = {} /\ like # {} ->
            Similar[h.type][CHOOSE i \in like : \A j \in like : i <= j]
       [] OTHER -> NoData

UploadAircraft ==
  /\ \E u \in Uploaders, h \in Headers, id \in Logged : \E pilot \in {u, NoData} :
       /\ \A f \in logged : f.id < id
       /\ logged' = logged \union
            {[id |-> id, owner |-> u, pilot |-> pilot, header |-> h,
              model |-> GuessModel(h, u),
              registration |-> IF h.registration # NoData THEN h.registration
                               ELSE GuessRegistration(h, u),
              competition |-> h.competition]}
  /\ UNCHANGED <<models, form>>

RemoveFlight ==
  /\ \E f \in logged : logged' = logged \ {f}
  /\ UNCHANGED <<models, form>>

------------------------------------------------------------------------------
(* What is entered *)

(* The validators of ChangeAircraftForm. *)
Validates(entry) == TooLong \notin {entry.registration, entry.competition}

Stripped(text) == IF text \in {Empty, Blank} THEN NoData ELSE text
OrNone(text) == IF text = Empty THEN NoData ELSE text

(* _update_flight *)
Updated(f, entry) ==
  [f EXCEPT !.model = entry.model,
            !.registration = Stripped(entry.registration),
            !.competition = Stripped(entry.competition)]

(* change_aircraft_post *)
Changed(f, entry) ==
  [f EXCEPT !.model = entry.model,
            !.registration = Stripped(entry.registration),
            !.competition = OrNone(entry.competition)]

(* An UPDATE of the changed columns of the row that was loaded as before. *)
WriteRow(before, after) ==
  \E now \in logged :
    /\ now.id = before.id
    /\ logged' = (logged \ {now}) \union
         {[c \in DOMAIN now |-> IF before[c] = after[c] THEN now[c] ELSE after[c]]}

------------------------------------------------------------------------------
(* The form below the result of an upload *)

(* The page lists the files of an upload: new flights of the user, flights  *)
(* of anybody that are there already, and files that were rejected.         *)
Row(u) ==
  {[flight |-> f.id, status |-> "SUCCESS", entry |-> e] :
     f \in {f \in logged : f.owner = u}, e \in {e \in Entries : e.model \in DOMAIN models \union {NoData}}}
  \union {[flight |-> f.id, status |-> "DUPLICATE"] : f \in logged}
  \union {[flight |-> NoData, status |-> "NO_FLIGHT"]}

SubmitUpdate(r, u) ==
  /\ form[r].step \in {"none", "answered"}
  /\ \E n \in 1 .. MaxListed : \E list \in [1 .. n -> Row(u)] :
       /\ \A i, j \in 1 .. n : list[i].status = "SUCCESS" /\ i # j => list[i].flight # list[j].flight
       /\ form' = [form EXCEPT ![r] = [step |-> "check", user |-> u, list |-> list, at |-> 1,
                                       before |-> NoData, error |-> FALSE, published |-> {}]]
  /\ UNCHANGED <<logged, models>>

Answer(r, text) == form' = [form EXCEPT ![r] = [step |-> "answered", answer |-> text]]

(* After the last row: the form again, the flights published, or today's. *)
Proceed(r, q) ==
  IF q.at < Len(q.list) THEN form' = [form EXCEPT ![r] = [q EXCEPT !.step = "check", !.at = @ + 1]]
  ELSE Answer(r, CASE q.error -> "form"
                   [] ~q.error /\ q.published # {} -> "published"
                   [] ~q.error /\ q.published = {} -> "today")

AtRow(q) == q.list[q.at]
Here(id) == {f \in logged : f.id = id}

(* Nothing to fill in for a file that was rejected or there already. *)
SkipRow(r) ==
  /\ form[r].step = "check"
  /\ LET row == AtRow(form[r]) IN
       \/ row.flight = NoData
       \/ row.status = "DUPLICATE" /\ Here(row.flight) # {}
  /\ Proceed(r, form[r])
  /\ UNCHANGED <<logged, models>>

(* Error 404 or 403 ends the request; what has been committed stays. *)
RefuseRow(r) ==
  /\ form[r].step = "check"
  /\ LET row == AtRow(form[r]) IN
       /\ row.flight # NoData
       /\ IF row.status = "DUPLICATE" THEN Here(row.flight) = {}
          ELSE \A f \in Here(row.flight) : ~Writable(form[r].user, f)
  /\ Answer(r, "refused")
  /\ UNCHANGED <<logged, models>>

(* Mutant: the error of a row is forgotten with the next. *)
LastError(q) == ~Validates(AtRow(q).entry)

(* form_error *)
FormError(q) == q.error \/ ~Validates(AtRow(q).entry)

CheckRow(r) ==
  /\ form[r].step = "check" /\ AtRow(form[r]).status = "SUCCESS"
  /\ \E f \in Here(AtRow(form[r]).flight) :
       /\ Writable(form[r].user, f)
       /\ LET q == [form[r] EXCEPT !.error = FormError(form[r])] IN
          IF Validates(AtRow(q).entry)
          THEN form' = [form EXCEPT ![r] = [q EXCEPT !.step = "update", !.before = f]]
          ELSE Proceed(r, q)
  /\ UNCHANGED <<logged, models>>

(* _update_flight commits the row. *)
UpdateRow(r) ==
  /\ form[r].step = "update"
  /\ LET q == form[r] IN
       /\ WriteRow(q.before, Updated(q.before, AtRow(q).entry))
       /\ Proceed(r, [q EXCEPT !.published = @ \union {q.before.id}, !.before = NoData])
  /\ UNCHANGED models

(* Somebody has deleted the flight since it was loaded. *)
UpdateFails(r) ==
  /\ form[r].step \in {"update", "change"} /\ Here(form[r].before.id) = {}
  /\ Answer(r, "failed")
  /\ UNCHANGED <<logged, models>>

------------------------------------------------------------------------------
(* The form of a flight *)

LoadChange(r, u) ==
  /\ form[r].step \in {"none", "answered"}
  /\ \E f \in logged, e \in Entries :
       /\ Writable(u, f) /\ Validates(e) /\ e.model \in DOMAIN models \union {NoData}
       /\ form' = [form EXCEPT ![r] = [step |-> "change", before |-> f, entry |-> e]]
  /\ UNCHANGED <<logged, models>>

CommitChange(r) ==
  /\ form[r].step = "change"
  /\ WriteRow(form[r].before, Changed(form[r].before, form[r].entry))
  /\ Answer(r, "changed")
  /\ UNCHANGED models

------------------------------------------------------------------------------
(* Models *)

AddModel(n) ==
  /\ n \notin DOMAIN models
  /\ models' = [m \in DOMAIN models \union {n} |-> IF m = n THEN NoData ELSE models[m]]
  /\ UNCHANGED <<logged, form>>

(* The query for a name does not see names of the same file that are still  *)
(* to be inserted: a new name listed twice makes the import fail.           *)
ImportIndex ==
  /\ \E file \in IndexFiles :
       /\ \A i, j \in DOMAIN file : i # j /\ file[i].name = file[j].name => file[i].name \in DOMAIN models
       /\ models' = [n \in DOMAIN models \union {file[i].name : i \in DOMAIN file} |->
            LET at == {i \in DOMAIN file : file[i].name = n} IN
            IF at = {} THEN models[n]
            ELSE file[CHOOSE i \in at : \A j \in at : j <= i].index]
  /\ UNCHANGED <<logged, form>>

AircraftNext ==
  \/ UploadAircraft \/ RemoveFlight \/ ImportIndex
  \/ \E n \in ModelNames : AddModel(n)
  \/ \E r \in Forms :
       \/ SkipRow(r) \/ RefuseRow(r) \/ CheckRow(r) \/ UpdateRow(r) \/ UpdateFails(r)
       \/ CommitChange(r)
       \/ \E u \in Uploaders : SubmitUpdate(r, u) \/ LoadChange(r, u)

AircraftSpec == AircraftInit /\ [][AircraftNext]_aircraftVars

------------------------------------------------------------------------------
(* "Your flight(s) have been successfully published." means that all the    *)
(* flights of the form have what was entered for them, although each was    *)
(* committed by itself: holds where no two requests overlap.                *)
PublishedAsEntered ==
  \A r \in Forms :
    (form[r].step # "answered" /\ form'[r].step = "answered" /\ form'[r].answer = "published") =>
      \A i \in DOMAIN form[r].list :
        LET row == form[r].list[i] IN
        row.status = "SUCCESS" =>
          \E f \in logged' : f.id = row.flight /\ f = Updated(f, row.entry)

(* "try to find another flight with the same logger and use it's aircraft   *)
(* registration": a new flight without a registration gets one if another   *)
(* flight by its logger has one.                                            *)
RegistrationGuessed ==
  [][\A f \in logged' \ logged :
       f.header.registration = NoData /\ (\E g \in SameLogger(f.header, f.owner) : g.registration # NoData)
         => f.registration # NoData]_aircraftVars
==============================================================================
