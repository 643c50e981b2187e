---------------------------- MODULE MCCommunity ------------------------------
(* Small instances of Community, Aircraft and UserAccounts for TLC: each    *)
(* behaviour is about one of them, and the others stay as they begin.       *)
EXTENDS Community, Aircraft, UserAccounts, TLC

CONSTANTS u1, u2, u3, r1, r2, m1, m2, L1, R1, C1, a1

(* Where there is one request at a time, the second one is never made. *)
ASSUME RequestsAssumption == Requests = {r1, r2} /\ Handlers = {1, 2} /\ Forms = {1, 2}

(* What a behaviour is about: one request at a time about clubs and flights *)
(* or about news and their readers, or two overlapping requests; guesses of *)
(* aircraft, one form of aircraft, or two at the same time; one request at  *)
(* a time about accounts and passwords, or two.                             *)
VARIABLE topic

------------------------------------------------------------------------------
(* Community *)

OneByOne == req'[r2] = Idle /\ (req[r1] # Idle => req'[r1] = Idle)
Operations(ops) == \A r \in Requests : req'[r].op \in ops \union {"idle"}

ClubsAndFlights ==
  /\ OneByOne /\ Operations({"upload", "change_pilot", "club_change", "merge"})
  /\ follows' = {}
  /\ \A n \in notes' : ~n.read
  /\ account'[u3] = "unused"

News ==
  /\ OneByOne /\ Operations({"follow", "upload", "comment", "club_change"})
  /\ UNCHANGED owner

Overlap ==
  /\ Operations({"follow", "upload", "comment", "merge"})
  /\ last' <= 2
  /\ UNCHANGED club
  /\ \A n \in notes' : ~n.read

------------------------------------------------------------------------------
(* Aircraft: the header of a glider's logger, and that of a phone. *)

MCHeaders == {[registration |-> R1, logger |-> L1, competition |-> C1, type |-> NoData],
              [registration |-> NoData, logger |-> L1, competition |-> NoData, type |-> m1]}
MCSimilar == m1 :> <<m2, m1>> @@ NoData :> <<>>
MCEntries == {[model |-> m1, registration |-> R1, competition |-> Blank],
              [model |-> NoData, registration |-> Empty, competition |-> C1],
              [model |-> m1, registration |-> TooLong, competition |-> C1]}
MCFiles == {<<[name |-> m1, index |-> 1], [name |-> m2, index |-> 2], [name |-> m1, index |-> 3]>>,
            <<[name |-> m2, index |-> 1]>>}

Guesses == (\A r \in Forms : form'[r] = NoForm) /\ \A f \in logged' : f.owner = u1

(* One model, and all flights uploaded before the first form is submitted. *)
Submitted ==
  /\ \A n \in DOMAIN models' : n = m1 /\ models'[n] = NoData
  /\ \A f \in logged' :
       /\ Here(f.id) = {} => DOMAIN models = {m1} /\ \A r \in Forms : form[r] = NoForm
       /\ f.header.registration = R1 /\ f.pilot = f.owner
       /\ f.id = 1 => f.owner = u1

FormAlone ==
  /\ Submitted /\ form'[2] = NoForm
  /\ form[1].step \in {"check", "update", "change"} => form'[1] # form[1]

(* The form of a single file and that of a flight. *)
TwoForms ==
  /\ Submitted
  /\ form'[1].step \in {"check", "update"} =>
       Len(form'[1].list) = 1 /\ form'[1].list[1].status # "NO_FLIGHT" /\ ~form'[1].error
  /\ form'[1].step # "change" /\ form'[2].step \notin {"check", "update"}

------------------------------------------------------------------------------
CommunityTopics == {"clubs", "news", "overlap"}
AircraftTopics == {"guess", "form", "forms"}
AccountTopics == {"account", "accounts"}

MCInit ==
  /\ topic \in CommunityTopics \union AircraftTopics \union AccountTopics
  /\ Init /\ (topic # "clubs" => \A u \in Users : club[u] = NoClub)
  /\ AircraftInit /\ AccountsInit
  /\ topic \notin AccountTopics => \A row \in Rows : row.address = a1

MCNext ==
  /\ UNCHANGED topic
  /\ \/ /\ topic \in CommunityTopics /\ Next /\ UNCHANGED <<aircraftVars, accountVars>>
        /\ CASE topic = "clubs" -> ClubsAndFlights
             [] topic = "news" -> News
             [] topic = "overlap" -> Overlap
     \/ /\ topic \in AircraftTopics /\ AircraftNext /\ UNCHANGED <<vars, accountVars>>
        /\ CASE topic = "guess" -> Guesses
             [] topic = "form" -> FormAlone
             [] topic = "forms" -> TwoForms
     \/ /\ topic \in AccountTopics /\ AccountsNext /\ UNCHANGED <<vars, aircraftVars>>
        /\ topic = "account" => handler'[2] = Waiting

MCSpec == MCInit /\ [][MCNext]_<<vars, aircraftVars, accountVars, topic>>

(* Stated of one request at a time: see FlightsHaveClub. *)
ClubsOfFlights == topic # "overlap" => FlightsHaveClub

(* Stated of one request at a time: see NoSelfNews. *)
NewsOfOthers == topic # "overlap" => NoSelfNews

(* Stated of one request at a time: see PilotsKept. *)
MergesKeepPilots == [][topic # "overlap" => PilotsKept]_vars

(* Stated of one form at a time: see PublishedAsEntered. *)
FormsPublish == [][topic = "form" => PublishedAsEntered]_aircraftVars

(* Stated of one request at a time: see KeysFresh. *)
LinksFresh == topic = "account" => KeysFresh
==============================================================================
