------------------------------ MODULE Community ------------------------------
(***************************************************************************)
(* Pilots, their clubs and their flights, who follows whom, and the events *)
(* and notifications that tell them of each other.                         *)
(*                                                                         *)
(* A handler first loads the records it needs and commits at its end; in   *)
(* between others commit.  What it found out when it loaded is in req.     *)
(* Flask-SQLAlchemy does not flush before a query, so queries see nothing  *)
(* of the handler's own changes, and only changed columns are written.  A  *)
(* commit fails as a whole if a row that it refers to is gone.             *)
(***************************************************************************)
EXTENDS Naturals, FiniteSets

CONSTANTS
  Users, Clubs, Flights,  \* ids
  NoUser, NoClub,         \* null
  Requests,               \* handlers and commands that run at the same time
  Managers,               \* users who may edit every flight and every account
  NoPassword,             \* users who have never set a password
  FirstUsers,             \* accounts at the start
  FirstClubs,             \* clubs at the start
  MaxEvents               \* number of events

ASSUME NullAssumption == NoUser \notin Users /\ NoClub \notin Clubs
ASSUME IdsAssumption == FirstUsers \subseteq Users /\ FirstClubs \subseteq Clubs
(* An event has a column for each kind of row that it may be about. *)
ASSUME ColumnsAssumption == \A id \in Flights : id \notin Users \union Clubs
ASSUME EventsAssumption == MaxEvents \in Nat

VARIABLES
  account,  \* "unused", "active" or "merged"
  club,     \* club_id of each user
  owner,    \* owner_id of each club that exists
  flights,  \* the rows of flights joined with igc_files
  follows,  \* the rows of followers, pairs of source and destination
  events,   \* the rows of events
  notes,    \* the rows of notifications, with their events
  last,     \* number of events so far
  older,    \* flights that had no club when their pilot's was founded (history)
  req       \* the handlers under way

newsVars == <<events, notes, last>>
userVars == <<account, club, owner, older>>
vars == <<userVars, flights, follows, newsVars, req>>

Accounts == {u \in Users : account[u] = "active"}
MaybeUser == Users \union {NoUser}
MaybeClub == Clubs \union {NoClub}

Flight == [id: Flights, owner: Users, pilot: MaybeUser, co_pilot: MaybeUser, club: MaybeClub]
Type == {"FLIGHT_COMMENT", "FLIGHT", "FOLLOWER", "NEW_USER", "CLUB_JOIN"}
Event == [n: 1 .. MaxEvents, type: Type, actor: Users, about: Users \union Clubs \union Flights]
Notification == [event: Event, recipient: Users, read: BOOLEAN]

Idle == [op |-> "idle"]
Request ==
  {Idle}
  \union [op: {"follow"}, user: Users, other: Users, missing: BOOLEAN]
  \union [op: {"upload"}, user: Users, pilot: MaybeUser, club: MaybeClub]
  \union [op: {"comment"}, user: Users, flight: Flights, recipients: SUBSET Users]
  \union [op: {"change_pilot"}, before: Flight, after: Flight]
  \union [op: {"club_change"}, user: Users, club: MaybeClub]
  \union [op: {"merge"}, new: Users, old: Users]

Init ==
  /\ account = [u \in Users |-> IF u \in FirstUsers THEN "active" ELSE "unused"]
  /\ club \in [Users -> FirstClubs \union {NoClub}]
  /\ \A u \in Users \ FirstUsers : club[u] = NoClub
  /\ owner = [c \in FirstClubs |-> NoUser]
  /\ flights = {} /\ follows = {}
  /\ events = {} /\ notes = {} /\ last = 0 /\ older = {}
  /\ req = [r \in Requests |-> Idle]

Load(r, loaded) == req[r] = Idle /\ req' = [req EXCEPT ![r] = loaded]
End(r) == req' = [req EXCEPT ![r] = Idle]

(* A handler fails, or its process ends, before it commits. *)
Fail(r) ==
  /\ req[r] # Idle /\ End(r)
  /\ UNCHANGED <<userVars, flights, follows, newsVars>>

(* An event, and a notification of it for each recipient. *)
Announce(type, actor, about, recipients) ==
  LET event == [n |-> last + 1, type |-> type, actor |-> actor, about |-> about] IN
  /\ last < MaxEvents /\ last' = last + 1
  /\ events' = events \union {event}
  /\ notes' = notes \union {[event |-> event, recipient |-> u, read |-> FALSE] : u \in recipients}

(* ON DELETE CASCADE from events to notifications. *)
Forget(gone) ==
  /\ events' = events \ gone
  /\ notes' = {n \in notes : n.event \notin gone}

Members(c) == {u \in Accounts : club[u] = c}
Followers(people) == {u \in Users : \E v \in people : <<u, v>> \in follows}
Crew(f) == {f.owner, f.pilot, f.co_pilot} \ {NoUser}

------------------------------------------------------------------------------
(* Following *)

LoadFollow(r, u, v) ==
  /\ Load(r, [op |-> "follow", user |-> u, other |-> v,
              missing |-> u # v /\ <<u, v>> \notin follows])
  /\ UNCHANGED <<userVars, flights, follows, newsVars>>

(* Mutant: the two users of create_follower_notification exchanged. *)
CommitFollowSwapped(r) ==
  /\ req[r].op = "follow"
  /\ LET q == req[r]  pair == <<q.user, q.other>> IN
       /\ {q.user, q.other} \subseteq Accounts
       /\ ~(q.missing /\ pair \in follows)
       /\ follows' = IF q.missing THEN follows \union {pair} ELSE follows
       /\ Announce("FOLLOWER", q.other, q.user, {q.user})
  /\ End(r)
  /\ UNCHANGED <<userVars, flights>>

(* The unique constraint refuses a second row, and the notification with it *)
(* (Fail); a pilot who follows already is announced once more.              *)
CommitFollow(r) ==
  /\ req[r].op = "follow"
  /\ LET q == req[r]  pair == <<q.user, q.other>> IN
       /\ {q.user, q.other} \subseteq Accounts
       /\ ~(q.missing /\ pair \in follows)
       /\ follows' = IF q.missing THEN follows \union {pair} ELSE follows
       /\ Announce("FOLLOWER", q.user, q.other, {q.other})
  /\ End(r)
  /\ UNCHANGED <<userVars, flights>>

Unfollow(u, v) ==
  /\ <<u, v>> \in follows /\ follows' = follows \ {<<u, v>>}
  /\ UNCHANGED <<userVars, flights, newsVars, req>>

------------------------------------------------------------------------------
(* Flights *)

(* ClubPilotsSelectField: nobody, oneself and the members of one's club. *)
Choices(u) == {NoUser, u} \union (IF club[u] = NoClub THEN {} ELSE Members(club[u]))

(* The pilot's club, else the uploader's. *)
ClubFor(u, pilot) ==
  IF pilot # NoUser /\ club[pilot] # NoClub THEN club[pilot] ELSE club[u]

LoadUpload(r, u) ==
  /\ \E pilot \in Choices(u) :
       Load(r, [op |-> "upload", user |-> u, pilot |-> pilot, club |-> ClubFor(u, pilot)])
  /\ UNCHANGED <<userVars, flights, follows, newsVars>>

CommitUpload(r) ==
  /\ req[r].op = "upload"
  /\ \E id \in Flights \ {f.id : f \in flights} :
       LET q == req[r]
           f == [id |-> id, owner |-> q.user, pilot |-> q.pilot, co_pilot |-> NoUser,
                 club |-> q.club]
       IN /\ Crew(f) \subseteq Accounts
          /\ flights' = flights \union {f}
          /\ Announce("FLIGHT", q.user, id, Followers(Crew(f)) \ Crew(f))
  /\ End(r)
  /\ UNCHANGED <<userVars, follows>>

LoadComment(r, u, f) ==
  /\ Load(r, [op |-> "comment", user |-> u, flight |-> f.id, recipients |-> Crew(f) \ {u}])
  /\ UNCHANGED <<userVars, flights, follows, newsVars>>

CommitComment(r) ==
  /\ req[r].op = "comment"
  /\ LET q == req[r] IN
       /\ \E f \in flights : f.id = q.flight
       /\ {q.user} \union q.recipients \subseteq Accounts
       /\ Announce("FLIGHT_COMMENT", q.user, q.flight, q.recipients)
  /\ End(r)
  /\ UNCHANGED <<userVars, flights, follows>>

(* Mutant: the club of the flight stays. *)
ClubStays(f, pilot) == f.club

(* The club changes with the pilot. *)
ClubAfter(f, pilot) ==
  IF pilot \in {f.pilot, NoUser} THEN f.club ELSE club[pilot]

(* change_pilot: pilot and co-pilot differ by the form, or there is none. *)
LoadPilots(r, u, f) ==
  /\ u \in {f.owner, f.pilot} \union Managers
  /\ \E pilot, co_pilot \in Choices(u) :
       /\ co_pilot = NoUser \/ co_pilot # pilot
       /\ LET after == [f EXCEPT !.pilot = pilot, !.co_pilot = co_pilot,
                                 !.club = ClubAfter(f, pilot)]
          IN after # f /\ Load(r, [op |-> "change_pilot", before |-> f, after |-> after])
  /\ UNCHANGED <<userVars, flights, follows, newsVars>>

(* The row as it is now, with the columns that the request has changed. *)
Written(now, before, after) ==
  [c \in DOMAIN now |-> IF before[c] = after[c] THEN now[c] ELSE after[c]]

CommitPilots(r) ==
  /\ req[r].op = "change_pilot"
  /\ LET q == req[r] IN \E f \in flights :
       /\ f.id = q.before.id
       /\ {q.after.pilot, q.after.co_pilot} \subseteq Accounts \union {NoUser}
       /\ flights' = (flights \ {f}) \union {Written(f, q.before, q.after)}
  /\ End(r)
  /\ UNCHANGED <<userVars, follows, newsVars>>

(* Mutant: events outlive their flight. *)
DeleteFlightOnly(f) ==
  /\ flights' = flights \ {f} /\ older' = older \ {f.id}
  /\ UNCHANGED <<account, club, owner, follows, newsVars, req>>

(* The rows of the flight, with its events by ON DELETE CASCADE. *)
DeleteFlight(f) ==
  /\ flights' = flights \ {f} /\ older' = older \ {f.id}
  /\ Forget({e \in events : e.about = f.id})
  /\ UNCHANGED <<account, club, owner, follows, last, req>>

------------------------------------------------------------------------------
(* Clubs *)

LoadClubChange(r, u) ==
  /\ \E c \in (DOMAIN owner \union {NoClub}) \ {club[u]} :
       Load(r, [op |-> "club_change", user |-> u, club |-> c])
  /\ UNCHANGED <<userVars, flights, follows, newsVars>>

(* His flights that have no club yet get the new one. *)
Swept(u, c) ==
  {[f EXCEPT !.club = IF @ = NoClub /\ u \in {f.pilot, f.owner} THEN c ELSE @] : f \in flights}

(* Mutant: the new club is flushed before the members are queried. *)
WithNewMember(c, u) == Members(c) \union {u} \union Followers({u})

(* Recipients of create_club_join_event. *)
ToldOfJoin(c, u) == Members(c) \union Followers({u})

CommitClubChange(r) ==
  /\ req[r].op = "club_change"
  /\ LET q == req[r] IN
       /\ q.user \in Accounts
       /\ club' = [club EXCEPT ![q.user] = q.club]
       /\ flights' = Swept(q.user, q.club)
       /\ IF q.club = NoClub THEN UNCHANGED newsVars
          ELSE Announce("CLUB_JOIN", q.user, q.club, ToldOfJoin(q.club, q.user))
  /\ End(r)
  /\ UNCHANGED <<account, owner, older, follows>>

(* Whose settings a user may change, by the parameter "user". *)
IsWritable(u, actor) ==
  \/ u = actor
  \/ u \in NoPassword /\ club[u] = club[actor]
  \/ actor \in Managers

(* A new club for u, which belongs to whoever founds it; the flights are    *)
(* left as they are.                                                        *)
CreateClub(actor, u) ==
  /\ IsWritable(u, actor)
  /\ \E c \in Clubs \ DOMAIN owner :
       /\ owner' = [d \in DOMAIN owner \union {c} |-> IF d = c THEN actor ELSE owner[d]]
       /\ club' = [club EXCEPT ![u] = c]
       /\ Announce("CLUB_JOIN", u, c, ToldOfJoin(c, u))
  /\ older' = older \union {f.id : f \in {g \in flights : g.pilot = u /\ g.club = NoClub}}
  /\ UNCHANGED <<account, flights, follows, req>>

------------------------------------------------------------------------------
(* Accounts *)

NewUser(u) ==
  /\ account[u] = "unused"
  /\ account' = [account EXCEPT ![u] = "active"]
  /\ Announce("NEW_USER", u, u, {})
  /\ UNCHANGED <<club, owner, older, flights, follows, req>>

(* Mutant: flights as co-pilot and pilot are not moved. *)
MovedFiles(f, old, new) == [f EXCEPT !.owner = IF @ = old THEN new ELSE @]

Moved(f, old, new) ==
  LET Who(u) == IF u = old THEN new ELSE u IN
  [f EXCEPT !.owner = Who(@), !.pilot = Who(@), !.co_pilot = Who(@)]

(* The first commit of the command that merges two accounts of one club. *)
MergeMove(r, new, old) ==
  /\ new # old /\ club[new] = club[old]
  /\ flights' = {Moved(f, old, new) : f \in flights}
  /\ owner' = [c \in DOMAIN owner |-> IF owner[c] = old THEN new ELSE owner[c]]
  /\ Load(r, [op |-> "merge", new |-> new, old |-> old])
  /\ UNCHANGED <<account, club, older, follows, newsVars>>

(* The second commit deletes the old account, with what refers to it.  It   *)
(* fails if the account follows or is followed, since SQLAlchemy then sets  *)
(* a NOT NULL column to null, or if it has uploaded since the first.        *)
MergeDelete(r) ==
  /\ req[r].op = "merge"
  /\ LET new == req[r].new
         old == req[r].old
         Who(u) == IF u = old THEN NoUser ELSE u
     IN /\ {new, old} \subseteq Accounts
        /\ \A pair \in follows : old \notin {pair[1], pair[2]}
        /\ \A f \in flights : f.owner # old
        /\ account' = [account EXCEPT ![old] = "merged"]
        /\ owner' = [c \in DOMAIN owner |-> Who(owner[c])]
        /\ flights' = {[f EXCEPT !.pilot = Who(@), !.co_pilot = Who(@)] : f \in flights}
        /\ events' = {e \in events : old \notin {e.actor, e.about}}
        /\ notes' = {n \in notes : old \notin {n.event.actor, n.event.about, n.recipient}}
  /\ End(r)
  /\ UNCHANGED <<club, older, follows, last>>

------------------------------------------------------------------------------
(* Reading: a page marks what it shows, "clear" what its filter lets pass. *)

MarkRead(u, shown) ==
  /\ notes' = {IF n.recipient = u /\ n.event \in shown THEN [n EXCEPT !.read = TRUE] ELSE n : n \in notes}
  /\ notes' # notes
  /\ UNCHANGED <<userVars, flights, follows, events, last, req>>

ViewFlight(u, f) == MarkRead(u, {e \in events : e.type \in {"FLIGHT", "FLIGHT_COMMENT"} /\ e.about = f.id})
ViewUser(u, v) == MarkRead(u, {e \in events : e.actor = v})
ClearNotifications(u) ==
  \/ MarkRead(u, events)
  \/ \E type \in Type : MarkRead(u, {e \in events : e.type = type})

MarkAllUnread ==
  /\ notes' = {[n EXCEPT !.read = FALSE] : n \in notes} /\ notes' # notes
  /\ UNCHANGED <<userVars, flights, follows, events, last, req>>

------------------------------------------------------------------------------
Next ==
  \/ \E r \in Requests :
       \/ Fail(r) \/ CommitFollow(r) \/ CommitUpload(r) \/ CommitComment(r)
       \/ CommitPilots(r) \/ CommitClubChange(r) \/ MergeDelete(r)
       \/ \E u \in Accounts :
            \/ LoadUpload(r, u) \/ LoadClubChange(r, u)
            \/ \E v \in Accounts : LoadFollow(r, u, v) \/ MergeMove(r, u, v)
            \/ \E f \in flights : LoadComment(r, u, f) \/ LoadPilots(r, u, f)
  \/ \E u \in Accounts :
       \/ ClearNotifications(u)
       \/ \E v \in Accounts : CreateClub(u, v) \/ Unfollow(u, v) \/ ViewUser(u, v)
       \/ \E f \in flights : ViewFlight(u, f)
  \/ \E u \in Users : NewUser(u)
  \/ \E f \in flights : DeleteFlight(f)
  \/ MarkAllUnread

Spec == Init /\ [][Next]_vars

------------------------------------------------------------------------------
(* Every variable stays within its type, and no row refers to one that is   *)
(* gone, whatever is deleted or merged while a handler is under way.        *)
TypeOK ==
  /\ account \in [Users -> {"unused", "active", "merged"}]
  /\ club \in [Users -> DOMAIN owner \union {NoClub}]
  /\ DOMAIN owner \subseteq Clubs /\ \A c \in DOMAIN owner : owner[c] \in Accounts \union {NoUser}
  /\ flights \subseteq Flight /\ older \subseteq Flights
  /\ \A f \in flights : Crew(f) \subseteq Accounts
  /\ \A f, g \in flights : f.id = g.id => f = g
  /\ follows \subseteq Accounts \X Accounts
  /\ events \subseteq Event /\ last \in 0 .. MaxEvents
  /\ \A e \in events :
       /\ e.actor \in Accounts
       /\ e.about \in Accounts \union DOMAIN owner \union {f.id : f \in flights}
  /\ notes \subseteq Notification
  /\ \A n \in notes : n.event \in events /\ n.recipient \in Accounts
  /\ req \in [Requests -> Request]

(* Whoever is followed has been told so, however many requests to follow    *)
(* race, fail, are repeated or are taken back.                              *)
FollowersAnnounced ==
  \A pair \in follows : \E n \in notes :
    /\ n.recipient = pair[2]
    /\ n.event.type = "FOLLOWER" /\ n.event.actor = pair[1] /\ n.event.about = pair[2]

(* A pilot who has a club has no flight without one, except those that he   *)
(* had when a club was founded for him, by himself or by a manager, however *)
(* flights change hands and accounts merge: holds where no two requests     *)
(* overlap.                                                                 *)
FlightsHaveClub ==
  \A f \in flights : f.pilot # NoUser /\ f.club = NoClub =>
    club[f.pilot] = NoClub \/ f.id \in older

(* Of what a pilot does to others he is not notified himself, also when     *)
(* he joins a club whose members are: holds where no two requests overlap.  *)
NoSelfNews ==
  \A n \in notes : n.recipient = n.event.actor =>
    n.event.type = "FOLLOWER" /\ n.event.about = n.event.actor

(* No flight loses its pilot or its co-pilot unless somebody enters that:   *)
(* merging accounts has moved all flights before it deletes the old one,    *)
(* if no flight is uploaded or changed between its two commits.             *)
Entered(id) ==
  \E r \in Requests : req[r].op = "change_pilot" /\ req[r].before.id = id /\ req'[r] = Idle
PilotsKept ==
  \A f \in flights, g \in flights' : f.id = g.id /\ ~Entered(f.id) =>
    (f.pilot # NoUser => g.pilot # NoUser) /\ (f.co_pilot # NoUser => g.co_pilot # NoUser)
==============================================================================
