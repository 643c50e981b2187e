--------------------------- MODULE CommunityProofs ---------------------------
(***************************************************************************)
(* What Community guarantees for any number of users, clubs, flights and   *)
(* requests, and what it guarantees of one request at a time.              *)
(*                                                                         *)
(* TypeOK is not inductive: a request under way must know no club and no   *)
(* flight that may go before its commit, and what a form about pilots has  *)
(* loaded must keep its id and owner (Typed).  What holds of one request   *)
(* at a time rests on Settled: what the request has loaded is still true   *)
(* when it commits.                                                        *)
(***************************************************************************)
EXTENDS MCCommunity, TLAPS

(* What events may be about: accounts, clubs and flights that are there. *)
Known == Accounts \union DOMAIN owner \union {f.id : f \in flights}

PeopleTyped ==
  /\ account \in [Users -> {"unused", "active", "merged"}]
  /\ club \in [Users -> DOMAIN owner \union {NoClub}]
  /\ DOMAIN owner \subseteq Clubs /\ \A c \in DOMAIN owner : owner[c] \in Accounts \union {NoUser}
  /\ follows \subseteq Accounts \X Accounts /\ older \subseteq Flights

FlightsTyped ==
  /\ flights \subseteq Flight
  /\ \A f \in flights : Crew(f) \subseteq Accounts
  /\ \A f, g \in flights : f.id = g.id => f = g

NewsTyped ==
  /\ events \subseteq Event /\ last \in 0 .. MaxEvents
  /\ \A e \in events : e.actor \in Accounts /\ e.about \in Known
  /\ notes \subseteq Notification
  /\ \A n \in notes : n.event \in events /\ n.recipient \in Accounts

(* A request knows no club that is not there, and what a form about pilots *)
(* changes is neither the id nor the owner of the flight.                  *)
RequestsTyped ==
  /\ req \in [Requests -> Request]
  /\ \A r \in Requests :
       /\ req[r].op = "club_change" => req[r].club \in DOMAIN owner \union {NoClub}
       /\ req[r].op = "change_pilot" =>
            /\ req[r].before.id = req[r].after.id
            /\ req[r].before.owner = req[r].after.owner

Typed == PeopleTyped /\ FlightsTyped /\ NewsTyped /\ RequestsTyped

LEMMA TypedImplies == Typed => TypeOK
  BY DEF Typed, PeopleTyped, FlightsTyped, NewsTyped, RequestsTyped, TypeOK, Known

LEMMA TypedInit == Init => Typed
  <1> SUFFICES ASSUME Init PROVE Typed
    OBVIOUS
  <1>1. PeopleTyped
    BY IdsAssumption DEF Init, PeopleTyped, Accounts
  <1>2. FlightsTyped
    BY DEF Init, FlightsTyped
  <1>3. NewsTyped
    BY EventsAssumption DEF Init, NewsTyped
  <1>4. RequestsTyped
    BY DEF Init, RequestsTyped, Request, Idle
  <1> QED BY <1>1, <1>2, <1>3, <1>4 DEF Typed

------------------------------------------------------------------------------
(* What does not touch a part of the state leaves it well typed, if nobody  *)
(* and nothing that it refers to goes.                                      *)
LEMMA SameAccounts == account' = account => Accounts' = Accounts
  BY DEF Accounts

LEMMA SamePeople == PeopleTyped /\ UNCHANGED <<userVars, follows>> => PeopleTyped'
  BY DEF PeopleTyped, userVars, Accounts

LEMMA SameFlights ==
  FlightsTyped /\ flights' = flights /\ Accounts \subseteq Accounts' => FlightsTyped'
  BY DEF FlightsTyped

LEMMA SameNews ==
  NewsTyped /\ UNCHANGED newsVars /\ Accounts \subseteq Accounts' /\ Known \subseteq Known'
    => NewsTyped'
  BY DEF NewsTyped, newsVars

LEMMA SameRequests ==
  RequestsTyped /\ req' = req /\ DOMAIN owner \subseteq DOMAIN owner' => RequestsTyped'
  BY DEF RequestsTyped

LEMMA EndedRequest ==
  ASSUME RequestsTyped, NEW r \in Requests, End(r), DOMAIN owner \subseteq DOMAIN owner'
  PROVE  RequestsTyped'
  BY DEF RequestsTyped, End, Idle, Request

LEMMA LoadedRequest ==
  ASSUME RequestsTyped, NEW r \in Requests, NEW loaded \in Request, Load(r, loaded),
         DOMAIN owner \subseteq DOMAIN owner',
         loaded.op = "club_change" => loaded.club \in DOMAIN owner \union {NoClub},
         loaded.op = "change_pilot" =>
           loaded.before.id = loaded.after.id /\ loaded.before.owner = loaded.after.owner
  PROVE  RequestsTyped'
  BY DEF RequestsTyped, Load

LEMMA SameButRequests ==
  ASSUME Typed, UNCHANGED <<userVars, flights, follows, newsVars>>, RequestsTyped'
  PROVE  Typed'
  <1>1. Accounts' = Accounts /\ Known' = Known
    BY DEF Accounts, Known, userVars
  <1> QED BY <1>1, SamePeople, SameFlights, SameNews DEF Typed

(* An event about what is there, of and for people who are there. *)
LEMMA AnnouncedNews ==
  ASSUME NewsTyped, NEW type \in Type, NEW actor \in Users, NEW about \in Users \union Clubs \union Flights,
         NEW recipients \in SUBSET Users, Announce(type, actor, about, recipients),
         actor \in Accounts', about \in Known', recipients \subseteq Accounts',
         Accounts \subseteq Accounts', Known \subseteq Known'
  PROVE  NewsTyped'
  <1> DEFINE event == [n |-> last + 1, type |-> type, actor |-> actor, about |-> about]
             note(u) == [event |-> event, recipient |-> u, read |-> FALSE]
  <1>1. /\ last < MaxEvents /\ last' = last + 1
        /\ events' = events \union {event}
        /\ notes' = notes \union {note(u) : u \in recipients}
    BY DEF Announce
  <1>2. last \in Nat /\ last' \in 0 .. MaxEvents /\ last + 1 \in 1 .. MaxEvents
    BY <1>1, EventsAssumption DEF NewsTyped
  <1>3. event \in Event /\ event.actor = actor /\ event.about = about
    BY <1>2 DEF Event
  <1>4. \A u \in recipients : note(u) \in Notification /\ note(u).event = event /\ note(u).recipient = u
    BY <1>3 DEF Notification
  <1> HIDE DEF event, note
  <1>5. events' \subseteq Event /\ \A e \in events' : e.actor \in Accounts' /\ e.about \in Known'
    BY <1>1, <1>3 DEF NewsTyped
  <1>6. notes' \subseteq Notification /\ \A n \in notes' : n.event \in events' /\ n.recipient \in Accounts'
    BY <1>1, <1>4 DEF NewsTyped
  <1> QED BY <1>2, <1>5, <1>6 DEF NewsTyped

LEMMA FollowersThere == PeopleTyped => \A people : Followers(people) \subseteq Accounts
  BY DEF PeopleTyped, Followers

(* Flights replaced by others of the same id, one by one. *)
LEMMA ReplacedFlights ==
  ASSUME FlightsTyped, NEW new, \A f \in flights : new[f] \in Flight /\ new[f].id = f.id /\ Crew(new[f]) \subseteq Accounts',
         flights' = {new[f] : f \in flights}
  PROVE  FlightsTyped' /\ {f.id : f \in flights'} = {f.id : f \in flights}
  BY DEF FlightsTyped, Crew

------------------------------------------------------------------------------
(* Steps *)

LEMMA LoadFollowTyped ==
  ASSUME Typed, NEW r \in Requests, NEW u \in Accounts, NEW v \in Accounts, LoadFollow(r, u, v)
  PROVE  Typed'
  <1> DEFINE work == [op |-> "follow", user |-> u, other |-> v, missing |-> u # v /\ <<u, v>> \notin follows]
  <1>1. work \in Request /\ work.op = "follow"
    BY DEF Request, Accounts
  <1>2. Load(r, work) /\ UNCHANGED <<userVars, flights, follows, newsVars>>
    BY DEF LoadFollow
  <1> HIDE DEF work
  <1> QED BY <1>1, <1>2, LoadedRequest, SameButRequests DEF Typed, userVars

LEMMA CommitFollowTyped ==
  ASSUME Typed, NEW r \in Requests, CommitFollow(r)
  PROVE  Typed'
  <1> DEFINE u == req[r].user  v == req[r].other
  <1>1. /\ u \in Accounts /\ v \in Accounts
        /\ follows' \in {follows, follows \union {<<u, v>>}}
        /\ Announce("FOLLOWER", u, v, {v}) /\ End(r) /\ UNCHANGED <<userVars, flights>>
    BY DEF CommitFollow
  <1> HIDE DEF u, v
  <1>2. Accounts' = Accounts /\ Known' = Known /\ Accounts \subseteq Users /\ owner' = owner
    BY <1>1 DEF Accounts, Known, userVars
  <1>3. PeopleTyped'
    BY <1>1, <1>2 DEF Typed, PeopleTyped, userVars
  <1>4. NewsTyped'
    <2>1. v \in Known /\ {v} \in SUBSET Users /\ "FOLLOWER" \in Type
      BY <1>1, <1>2 DEF Known, Type
    <2> QED BY <1>1, <1>2, <2>1, AnnouncedNews DEF Typed
  <1> QED BY <1>1, <1>2, <1>3, <1>4, SameFlights, EndedRequest DEF Typed

LEMMA UnfollowTyped ==
  ASSUME Typed, NEW u, NEW v, Unfollow(u, v)
  PROVE  Typed'
  <1>1. follows' \subseteq follows /\ UNCHANGED <<userVars, flights, newsVars, req>>
    BY DEF Unfollow
  <1>2. Accounts' = Accounts /\ Known' = Known /\ owner' = owner
    BY <1>1 DEF Accounts, Known, userVars
  <1>3. PeopleTyped'
    BY <1>1, <1>2 DEF Typed, PeopleTyped, userVars
  <1> QED BY <1>1, <1>2, <1>3, SameFlights, SameNews, SameRequests DEF Typed

LEMMA ChoicesThere ==
  ASSUME Typed, NEW u \in Accounts
  PROVE  Choices(u) \subseteq Accounts \union {NoUser} /\ Choices(u) \subseteq MaybeUser
  BY DEF Choices, Members, Accounts, MaybeUser

LEMMA ClubForTyped ==
  ASSUME Typed, NEW u \in Users, NEW pilot \in MaybeUser
  PROVE  ClubFor(u, pilot) \in MaybeClub
  BY DEF Typed, PeopleTyped, ClubFor, MaybeUser, MaybeClub

LEMMA LoadUploadTyped ==
  ASSUME Typed, NEW r \in Requests, NEW u \in Accounts, LoadUpload(r, u)
  PROVE  Typed'
  <1> DEFINE work(pilot) == [op |-> "upload", user |-> u, pilot |-> pilot, club |-> ClubFor(u, pilot)]
  <1>1. PICK pilot \in Choices(u) : Load(r, work(pilot))
    BY DEF LoadUpload
  <1>2. u \in Users /\ pilot \in MaybeUser /\ ClubFor(u, pilot) \in MaybeClub
    BY ChoicesThere, ClubForTyped DEF Accounts
  <1>3. work(pilot) \in Request /\ work(pilot).op = "upload"
    BY <1>2 DEF Request
  <1>4. UNCHANGED <<userVars, flights, follows, newsVars>>
    BY DEF LoadUpload
  <1> HIDE DEF work
  <1> QED BY <1>1, <1>3, <1>4, LoadedRequest, SameButRequests DEF Typed, userVars

LEMMA CommitUploadTyped ==
  ASSUME Typed, NEW r \in Requests, CommitUpload(r)
  PROVE  Typed'
  <1> DEFINE q == req[r]
             f(id) == [id |-> id, owner |-> q.user, pilot |-> q.pilot, co_pilot |-> NoUser, club |-> q.club]
  <1>1. PICK id \in Flights \ {g.id : g \in flights} :
          /\ Crew(f(id)) \subseteq Accounts
          /\ flights' = flights \union {f(id)}
          /\ Announce("FLIGHT", q.user, id, Followers(Crew(f(id))) \ Crew(f(id)))
    BY DEF CommitUpload
  <1>2. End(r) /\ UNCHANGED <<userVars, follows>> /\ q.op = "upload"
    BY DEF CommitUpload
  <1>3. q.user \in Users /\ q.pilot \in MaybeUser /\ q.club \in MaybeClub
    BY <1>2 DEF Typed, RequestsTyped, Request, Idle
  <1>4. /\ f(id) \in Flight /\ f(id).id = id
        /\ q.user \in Crew(f(id))
    BY <1>3, NullAssumption DEF Flight, Crew, MaybeUser
  <1> HIDE DEF f, q
  <1>5. Accounts' = Accounts /\ Accounts \subseteq Users /\ owner' = owner
    BY <1>2 DEF Accounts, userVars
  <1>6. FlightsTyped'
    BY <1>1, <1>4, <1>5 DEF Typed, FlightsTyped, Crew
  <1>7. Known \subseteq Known' /\ id \in Known'
    BY <1>1, <1>4, <1>5 DEF Known
  <1>8. NewsTyped'
    <2>1. /\ Followers(Crew(f(id))) \ Crew(f(id)) \in SUBSET Users
          /\ Followers(Crew(f(id))) \ Crew(f(id)) \subseteq Accounts
          /\ "FLIGHT" \in Type /\ q.user \in Accounts
      BY <1>1, <1>4, <1>5, FollowersThere DEF Typed, Type
    <2> QED BY <1>1, <1>3, <1>5, <1>7, <2>1, AnnouncedNews DEF Typed
  <1> QED BY <1>2, <1>5, <1>6, <1>8, SamePeople, EndedRequest DEF Typed

LEMMA LoadCommentTyped ==
  ASSUME Typed, NEW r \in Requests, NEW u \in Accounts, NEW f \in flights, LoadComment(r, u, f)
  PROVE  Typed'
  <1> DEFINE work == [op |-> "comment", user |-> u, flight |-> f.id, recipients |-> Crew(f) \ {u}]
  <1>1. Crew(f) \subseteq Users /\ f.id \in Flights /\ u \in Users
    BY DEF Typed, FlightsTyped, Flight, Accounts
  <1>2. work \in Request /\ work.op = "comment"
    BY <1>1 DEF Request
  <1>3. Load(r, work) /\ UNCHANGED <<userVars, flights, follows, newsVars>>
    BY DEF LoadComment
  <1> HIDE DEF work
  <1> QED BY <1>2, <1>3, LoadedRequest, SameButRequests DEF Typed, userVars

LEMMA CommitCommentTyped ==
  ASSUME Typed, NEW r \in Requests, CommitComment(r)
  PROVE  Typed'
  <1> DEFINE q == req[r]
  <1>1. /\ \E f \in flights : f.id = q.flight
        /\ {q.user} \union q.recipients \subseteq Accounts
        /\ Announce("FLIGHT_COMMENT", q.user, q.flight, q.recipients)
        /\ End(r) /\ UNCHANGED <<userVars, flights, follows>>
    BY DEF CommitComment
  <1> HIDE DEF q
  <1>2. Accounts' = Accounts /\ Known' = Known /\ Accounts \subseteq Users /\ owner' = owner
    BY <1>1 DEF Accounts, Known, userVars
  <1>3. /\ q.flight \in Known /\ q.flight \in Flights /\ "FLIGHT_COMMENT" \in Type
        /\ q.recipients \in SUBSET Users /\ q.user \in Users
    BY <1>1, <1>2 DEF Known, Typed, FlightsTyped, Flight, Type
  <1>4. NewsTyped'
    BY <1>1, <1>2, <1>3, AnnouncedNews DEF Typed
  <1> QED BY <1>1, <1>2, <1>4, SamePeople, SameFlights, EndedRequest DEF Typed

LEMMA LoadPilotsTyped ==
  ASSUME Typed, NEW r \in Requests, NEW u \in Accounts, NEW f \in flights, LoadPilots(r, u, f)
  PROVE  Typed'
  <1> DEFINE after(pilot, co_pilot) ==
               [f EXCEPT !.pilot = pilot, !.co_pilot = co_pilot, !.club = ClubAfter(f, pilot)]
             work(pilot, co_pilot) == [op |-> "change_pilot", before |-> f, after |-> after(pilot, co_pilot)]
  <1>1. PICK pilot \in Choices(u), co_pilot \in Choices(u) : Load(r, work(pilot, co_pilot))
    BY DEF LoadPilots
  <1>2. f \in Flight /\ pilot \in MaybeUser /\ co_pilot \in MaybeUser
    BY ChoicesThere DEF Typed, FlightsTyped
  <1>3. ClubAfter(f, pilot) \in MaybeClub
    BY <1>2 DEF ClubAfter, Flight, MaybeUser, MaybeClub, Typed, PeopleTyped
  <1>4. after(pilot, co_pilot) \in Flight /\ after(pilot, co_pilot).id = f.id /\ after(pilot, co_pilot).owner = f.owner
    BY <1>2, <1>3 DEF Flight
  <1> HIDE DEF after
  <1>5. /\ work(pilot, co_pilot) \in Request /\ work(pilot, co_pilot).op = "change_pilot"
        /\ work(pilot, co_pilot).before = f /\ work(pilot, co_pilot).after = after(pilot, co_pilot)
    BY <1>2, <1>4 DEF Request
  <1>6. UNCHANGED <<userVars, flights, follows, newsVars>>
    BY DEF LoadPilots
  <1> HIDE DEF work
  <1> QED BY <1>1, <1>4, <1>5, <1>6, LoadedRequest, SameButRequests DEF Typed, userVars

(* The row that CommitPilots writes. *)
LEMMA WrittenFlight ==
  ASSUME NEW f \in Flight, NEW before \in Flight, NEW after \in Flight, before.id = after.id, before.owner = after.owner
  PROVE  /\ Written(f, before, after) \in Flight
         /\ Written(f, before, after).id = f.id
         /\ Written(f, before, after).owner = f.owner
         /\ Written(f, before, after).pilot \in {f.pilot, after.pilot}
         /\ Written(f, before, after).co_pilot \in {f.co_pilot, after.co_pilot}
  <1>1. DOMAIN f = {"id", "owner", "pilot", "co_pilot", "club"}
    BY DEF Flight
  <1> QED BY <1>1 DEF Written, Flight

LEMMA CommitPilotsTyped ==
  ASSUME Typed, NEW r \in Requests, CommitPilots(r)
  PROVE  Typed'
  <1> DEFINE before == req[r].before  after == req[r].after
  <1>1. PICK f \in flights :
          /\ f.id = before.id
          /\ {after.pilot, after.co_pilot} \subseteq Accounts \union {NoUser}
          /\ flights' = (flights \ {f}) \union {Written(f, before, after)}
    BY DEF CommitPilots
  <1>2. End(r) /\ UNCHANGED <<userVars, follows, newsVars>> /\ req[r].op = "change_pilot"
    BY DEF CommitPilots
  <1>3. before \in Flight /\ after \in Flight /\ before.id = after.id /\ before.owner = after.owner
    BY <1>2 DEF Typed, RequestsTyped, Request, Idle
  <1> HIDE DEF before, after
  <1> DEFINE g == Written(f, before, after)
  <1>4. f \in Flight /\ Crew(f) \subseteq Accounts
    BY DEF Typed, FlightsTyped
  <1>5. g \in Flight /\ g.id = f.id /\ Crew(g) \subseteq Accounts
    <2>1. g.owner = f.owner /\ g.pilot \in {f.pilot, after.pilot} /\ g.co_pilot \in {f.co_pilot, after.co_pilot}
      BY <1>3, <1>4, WrittenFlight
    <2> QED BY <1>1, <1>3, <1>4, <2>1, WrittenFlight DEF Crew
  <1>9. flights' = (flights \ {f}) \union {g}
    BY <1>1
  <1> HIDE DEF g
  <1>6. Accounts' = Accounts /\ owner' = owner
    BY <1>2 DEF Accounts, userVars
  <1>7. FlightsTyped'
    BY <1>5, <1>6, <1>9 DEF Typed, FlightsTyped, Crew
  <1>8. Known' = Known
    BY <1>5, <1>6, <1>9 DEF Known
  <1> QED BY <1>2, <1>6, <1>7, <1>8, SamePeople, SameNews, EndedRequest DEF Typed

LEMMA DeleteFlightTyped ==
  ASSUME Typed, NEW f \in flights, DeleteFlight(f)
  PROVE  Typed'
  <1>1. /\ flights' = flights \ {f}
        /\ events' = events \ {e \in events : e.about = f.id}
        /\ notes' = {n \in notes : n.event \notin {e \in events : e.about = f.id}}
        /\ older' = older \ {f.id} /\ UNCHANGED <<account, club, owner, follows, last, req>>
    BY DEF DeleteFlight, Forget
  <1>2. Accounts' = Accounts /\ owner' = owner
    BY <1>1 DEF Accounts
  <1>3. FlightsTyped'
    BY <1>1, <1>2 DEF Typed, FlightsTyped, Crew
  <1>4. Known \ {f.id} \subseteq Known'
    BY <1>1, <1>2 DEF Known
  <1>5. NewsTyped'
    BY <1>1, <1>2, <1>4 DEF Typed, NewsTyped
  <1>6. PeopleTyped'
    BY <1>1, <1>2 DEF Typed, PeopleTyped
  <1> QED BY <1>1, <1>2, <1>3, <1>5, <1>6, SameRequests DEF Typed

LEMMA LoadClubChangeTyped ==
  ASSUME Typed, NEW r \in Requests, NEW u \in Accounts, LoadClubChange(r, u)
  PROVE  Typed'
  <1> DEFINE work(c) == [op |-> "club_change", user |-> u, club |-> c]
  <1>1. PICK c \in (DOMAIN owner \union {NoClub}) \ {club[u]} : Load(r, work(c))
    BY DEF LoadClubChange
  <1>2. u \in Users /\ c \in MaybeClub
    BY DEF Accounts, Typed, PeopleTyped, MaybeClub
  <1>3. work(c) \in Request /\ work(c).op = "club_change" /\ work(c).club = c
    BY <1>2 DEF Request
  <1>4. UNCHANGED <<userVars, flights, follows, newsVars>>
    BY DEF LoadClubChange
  <1> HIDE DEF work
  <1> QED BY <1>1, <1>3, <1>4, LoadedRequest, SameButRequests DEF Typed, userVars

LEMMA ToldOfJoinThere ==
  ASSUME Typed, NEW c, NEW u
  PROVE  ToldOfJoin(c, u) \subseteq Accounts
  BY FollowersThere DEF Typed, ToldOfJoin, Members

LEMMA SweptFlights ==
  ASSUME Typed, NEW u \in Users, NEW c \in MaybeClub, flights' = Swept(u, c), Accounts' = Accounts
  PROVE  FlightsTyped' /\ {f.id : f \in flights'} = {f.id : f \in flights}
  <1> DEFINE new == [f \in flights |->
               [f EXCEPT !.club = IF @ = NoClub /\ u \in {f.pilot, f.owner} THEN c ELSE @]]
  <1>1. ASSUME NEW f \in flights
        PROVE  new[f] \in Flight /\ new[f].id = f.id /\ Crew(new[f]) \subseteq Accounts
    <2>1. f \in Flight /\ Crew(f) \subseteq Accounts
      BY DEF Typed, FlightsTyped
    <2> QED BY <2>1 DEF Flight, Crew
  <1>2. flights' = {new[f] : f \in flights}
    BY DEF Swept
  <1> HIDE DEF new
  <1> QED BY <1>1, <1>2, ReplacedFlights DEF Typed

LEMMA CommitClubChangeTyped ==
  ASSUME Typed, NEW r \in Requests, CommitClubChange(r)
  PROVE  Typed'
  <1> DEFINE u == req[r].user  c == req[r].club
  <1>1. /\ req[r].op = "club_change" /\ u \in Accounts
        /\ club' = [club EXCEPT ![u] = c]
        /\ flights' = Swept(u, c)
        /\ IF c = NoClub THEN UNCHANGED newsVars
           ELSE Announce("CLUB_JOIN", u, c, ToldOfJoin(c, u))
        /\ End(r) /\ UNCHANGED <<account, owner, older, follows>>
    BY DEF CommitClubChange
  <1>2. c \in DOMAIN owner \union {NoClub} /\ c \in MaybeClub /\ u \in Users
    BY <1>1 DEF Typed, RequestsTyped, PeopleTyped, MaybeClub, Accounts
  <1> HIDE DEF u, c
  <1>3. Accounts' = Accounts /\ Accounts \subseteq Users
    BY <1>1 DEF Accounts
  <1>4. FlightsTyped' /\ Known' = Known
    BY <1>1, <1>2, <1>3, SweptFlights DEF Known
  <1>5. PeopleTyped'
    BY <1>1, <1>2, <1>3 DEF Typed, PeopleTyped
  <1>6. NewsTyped'
    <2>1. CASE c = NoClub
      BY <1>1, <1>3, <1>4, <2>1, SameNews DEF Typed
    <2>2. CASE c # NoClub
      <3>1. c \in Known /\ c \in Clubs /\ ToldOfJoin(c, u) \in SUBSET Users /\ "CLUB_JOIN" \in Type
        BY <1>2, <1>3, <2>2, ToldOfJoinThere DEF Known, Type, Typed, PeopleTyped
      <3> QED BY <1>1, <1>2, <1>3, <1>4, <2>2, <3>1, ToldOfJoinThere, AnnouncedNews DEF Typed
    <2> QED BY <2>1, <2>2
  <1> QED BY <1>1, <1>4, <1>5, <1>6, EndedRequest DEF Typed

LEMMA CreateClubTyped ==
  ASSUME Typed, NEW actor \in Accounts, NEW u \in Accounts, CreateClub(actor, u)
  PROVE  Typed'
  <1>1. PICK c \in Clubs \ DOMAIN owner :
          /\ owner' = [d \in DOMAIN owner \union {c} |-> IF d = c THEN actor ELSE owner[d]]
          /\ club' = [club EXCEPT ![u] = c]
          /\ Announce("CLUB_JOIN", u, c, ToldOfJoin(c, u))
    BY DEF CreateClub
  <1>2. UNCHANGED <<account, flights, follows, req>>
    BY DEF CreateClub
  <1>3. Accounts' = Accounts /\ Accounts \subseteq Users
    BY <1>2 DEF Accounts
  <1>4. DOMAIN owner' = DOMAIN owner \union {c} /\ Known' = Known \union {c}
    BY <1>1, <1>2, <1>3 DEF Known
  <1>5. PeopleTyped'
    <2>1. older' \subseteq Flights
      BY DEF CreateClub, Typed, PeopleTyped, FlightsTyped, Flight
    <2> QED BY <1>1, <1>2, <1>3, <1>4, <2>1 DEF Typed, PeopleTyped
  <1>6. NewsTyped'
    <2>1. ToldOfJoin(c, u) \in SUBSET Users /\ ToldOfJoin(c, u) \subseteq Accounts /\ "CLUB_JOIN" \in Type
      BY <1>3, ToldOfJoinThere DEF Type
    <2> QED BY <1>1, <1>3, <1>4, <2>1, AnnouncedNews DEF Typed
  <1> QED BY <1>2, <1>3, <1>4, <1>5, <1>6, SameFlights, SameRequests DEF Typed

LEMMA NewUserTyped ==
  ASSUME Typed, NEW u \in Users, NewUser(u)
  PROVE  Typed'
  <1>1. /\ account[u] = "unused" /\ account' = [account EXCEPT ![u] = "active"]
        /\ Announce("NEW_USER", u, u, {})
        /\ UNCHANGED <<club, owner, older, flights, follows, req>>
    BY DEF NewUser
  <1>2. Accounts \subseteq Accounts' /\ u \in Accounts' /\ Known \subseteq Known' /\ u \in Known'
    BY <1>1 DEF Typed, PeopleTyped, Accounts, Known
  <1>3. PeopleTyped'
    BY <1>1, <1>2 DEF Typed, PeopleTyped
  <1>4. NewsTyped'
    <2>1. "NEW_USER" \in Type /\ {} \in SUBSET Users
      BY DEF Type
    <2> QED BY <1>1, <1>2, <2>1, AnnouncedNews DEF Typed
  <1> QED BY <1>1, <1>2, <1>3, <1>4, SameFlights, SameRequests DEF Typed

LEMMA MovedFlight ==
  ASSUME NEW f \in Flight, NEW new \in Users, NEW old \in Users
  PROVE  /\ Moved(f, old, new) \in Flight /\ Moved(f, old, new).id = f.id
         /\ Moved(f, old, new).club = f.club
         /\ Moved(f, old, new).owner = IF f.owner = old THEN new ELSE f.owner
         /\ Moved(f, old, new).pilot = IF f.pilot = old THEN new ELSE f.pilot
         /\ Moved(f, old, new).co_pilot = IF f.co_pilot = old THEN new ELSE f.co_pilot
  BY DEF Moved, Flight, MaybeUser

LEMMA MergeMoveTyped ==
  ASSUME Typed, NEW r \in Requests, NEW new \in Accounts, NEW old \in Accounts, MergeMove(r, new, old)
  PROVE  Typed'
  <1> DEFINE work == [op |-> "merge", new |-> new, old |-> old]
             moved == [f \in flights |-> Moved(f, old, new)]
  <1>1. /\ flights' = {moved[f] : f \in flights}
        /\ owner' = [c \in DOMAIN owner |-> IF owner[c] = old THEN new ELSE owner[c]]
        /\ Load(r, work) /\ UNCHANGED <<account, club, older, follows, newsVars>>
    BY DEF MergeMove
  <1>2. work \in Request /\ work.op = "merge"
    BY DEF Request, Accounts
  <1>3. Accounts' = Accounts /\ Accounts \subseteq Users /\ DOMAIN owner' = DOMAIN owner
    BY <1>1 DEF Accounts
  <1>4. ASSUME NEW f \in flights
        PROVE  moved[f] \in Flight /\ moved[f].id = f.id /\ Crew(moved[f]) \subseteq Accounts
    <2>1. f \in Flight /\ Crew(f) \subseteq Accounts
      BY DEF Typed, FlightsTyped
    <2> QED BY <1>3, <2>1, MovedFlight, SMTT(20) DEF Crew
  <1> HIDE DEF work, moved
  <1>5. FlightsTyped' /\ Known' = Known
    BY <1>1, <1>3, <1>4, ReplacedFlights DEF Typed, Known
  <1>6. PeopleTyped'
    BY <1>1, <1>3 DEF Typed, PeopleTyped
  <1> QED BY <1>1, <1>2, <1>3, <1>5, <1>6, SameNews, LoadedRequest DEF Typed

LEMMA MergeDeleteTyped ==
  ASSUME Typed, NEW r \in Requests, MergeDelete(r)
  PROVE  Typed'
  <1> DEFINE new == req[r].new
             old == req[r].old
             Who(u) == IF u = old THEN NoUser ELSE u
             left == [f \in flights |-> [f EXCEPT !.pilot = Who(@), !.co_pilot = Who(@)]]
  <1>1. /\ {new, old} \subseteq Accounts
        /\ \A pair \in follows : old \notin {pair[1], pair[2]}
        /\ \A f \in flights : f.owner # old
        /\ account' = [account EXCEPT ![old] = "merged"]
        /\ owner' = [c \in DOMAIN owner |-> Who(owner[c])]
        /\ flights' = {left[f] : f \in flights}
        /\ events' = {e \in events : old \notin {e.actor, e.about}}
        /\ notes' = {n \in notes : old \notin {n.event.actor, n.event.about, n.recipient}}
        /\ End(r) /\ UNCHANGED <<club, older, follows, last>>
    BY DEF MergeDelete
  <1> HIDE DEF new, old
  <1>2. Accounts' = Accounts \ {old} /\ Accounts \subseteq Users
    BY <1>1 DEF Accounts, Typed, PeopleTyped
  <1>3. ASSUME NEW f \in flights
        PROVE  left[f] \in Flight /\ left[f].id = f.id /\ Crew(left[f]) \subseteq Accounts'
    <2>1. f \in Flight /\ Crew(f) \subseteq Accounts /\ f.owner # old
      BY <1>1 DEF Typed, FlightsTyped
    <2>2. /\ left[f] \in Flight /\ left[f].id = f.id /\ left[f].owner = f.owner
          /\ left[f].pilot = Who(f.pilot) /\ left[f].co_pilot = Who(f.co_pilot)
      BY <2>1 DEF Flight, MaybeUser
    <2> HIDE DEF left
    <2> QED BY <1>1, <1>2, <2>1, <2>2, NullAssumption DEF Crew
  <1>4. PeopleTyped'
    <2>1. follows' \subseteq Accounts' \X Accounts'
      BY <1>1, <1>2 DEF Typed, PeopleTyped
    <2> QED BY <1>1, <1>2, <2>1 DEF Typed, PeopleTyped
  <1> HIDE DEF left
  <1>5. FlightsTyped' /\ {f.id : f \in flights'} = {f.id : f \in flights}
    BY <1>1, <1>3, ReplacedFlights DEF Typed
  <1>6. Known \ {old} \subseteq Known' /\ DOMAIN owner' = DOMAIN owner
    BY <1>1, <1>2, <1>5 DEF Known
  <1>7. NewsTyped'
    BY <1>1, <1>2, <1>6 DEF Typed, NewsTyped
  <1> QED BY <1>1, <1>4, <1>5, <1>6, <1>7, EndedRequest DEF Typed

LEMMA FailTyped ==
  ASSUME Typed, NEW r \in Requests, Fail(r)
  PROVE  Typed'
  BY EndedRequest, SameButRequests DEF Fail, Typed, userVars

(* Notifications that are marked remain notifications of the same event. *)
LEMMA MarkedTyped ==
  ASSUME Typed, UNCHANGED <<userVars, flights, follows, events, last, req>>,
         notes' \subseteq notes \union {[n EXCEPT !.read = TRUE] : n \in notes}
                                \union {[n EXCEPT !.read = FALSE] : n \in notes}
  PROVE  Typed'
  <1>1. Accounts' = Accounts /\ Known' = Known /\ owner' = owner
    BY DEF Accounts, Known, userVars
  <1>2. ASSUME NEW n \in notes, NEW read \in BOOLEAN
        PROVE  /\ [n EXCEPT !.read = read] \in Notification
               /\ [n EXCEPT !.read = read].event = n.event
               /\ [n EXCEPT !.read = read].recipient = n.recipient
    BY DEF Typed, NewsTyped, Notification
  <1>3. ASSUME NEW n \in notes'
        PROVE  n \in Notification /\ n.event \in events /\ n.recipient \in Accounts
    <2>1. n \in notes \/ \E m \in notes, read \in BOOLEAN : n = [m EXCEPT !.read = read]
      BY <1>3
    <2> QED BY <1>2, <2>1 DEF Typed, NewsTyped
  <1>4. NewsTyped'
    BY <1>1, <1>3 DEF Typed, NewsTyped
  <1> QED BY <1>1, <1>4, SamePeople, SameFlights, SameRequests DEF Typed

LEMMA MarkReadTyped ==
  ASSUME Typed, NEW u, NEW shown, MarkRead(u, shown)
  PROVE  Typed'
  BY MarkedTyped DEF MarkRead

LEMMA ReadersTyped ==
  ASSUME Typed
  PROVE  /\ \A u, v : ViewUser(u, v) => Typed'
         /\ \A u, f : ViewFlight(u, f) => Typed'
         /\ \A u : ClearNotifications(u) => Typed'
         /\ MarkAllUnread => Typed'
  BY MarkReadTyped, MarkedTyped DEF ViewUser, ViewFlight, ClearNotifications, MarkAllUnread

LEMMA TypedStep == Typed /\ [Next]_vars => Typed'
  <1> SUFFICES ASSUME Typed, [Next]_vars PROVE Typed'
    OBVIOUS
  <1>1. CASE UNCHANGED vars
    BY <1>1, SameButRequests, SameRequests DEF vars, Typed, userVars
  <1>2. CASE Next
    <2> USE <1>2
    <2>1. ASSUME NEW r \in Requests,
                 \/ Fail(r) \/ CommitFollow(r) \/ CommitUpload(r) \/ CommitComment(r)
                 \/ CommitPilots(r) \/ CommitClubChange(r) \/ MergeDelete(r)
          PROVE  Typed'
      BY <2>1, FailTyped, CommitFollowTyped, CommitUploadTyped, CommitCommentTyped,
         CommitPilotsTyped, CommitClubChangeTyped, MergeDeleteTyped
    <2>2. ASSUME NEW r \in Requests, NEW u \in Accounts,
                 \/ LoadUpload(r, u) \/ LoadClubChange(r, u)
                 \/ \E v \in Accounts : LoadFollow(r, u, v) \/ MergeMove(r, u, v)
                 \/ \E f \in flights : LoadComment(r, u, f) \/ LoadPilots(r, u, f)
          PROVE  Typed'
      BY <2>2, LoadUploadTyped, LoadClubChangeTyped, LoadFollowTyped, MergeMoveTyped,
         LoadCommentTyped, LoadPilotsTyped
    <2>3. ASSUME NEW u \in Accounts,
                 \/ ClearNotifications(u)
                 \/ \E v \in Accounts : CreateClub(u, v) \/ Unfollow(u, v) \/ ViewUser(u, v)
                 \/ \E f \in flights : ViewFlight(u, f)
          PROVE  Typed'
      BY <2>3, CreateClubTyped, UnfollowTyped, ReadersTyped
    <2> QED BY <2>1, <2>2, <2>3, NewUserTyped, DeleteFlightTyped, ReadersTyped DEF Next
  <1> QED BY <1>1, <1>2

LEMMA TypedHolds == Spec => []Typed
  BY TypedInit, TypedStep, PTL DEF Spec

(* No row of users, clubs, flights, followers, events or notifications      *)
(* refers to one that is gone, whatever new accounts, the deletion of a     *)
(* flight, User.delete of a merge and the commits of overlapping requests   *)
(* do (the foreign keys of the models).                                     *)
THEOREM NothingDangles == Spec => []TypeOK
  BY TypedHolds, TypedImplies, PTL

------------------------------------------------------------------------------
(* Followers *)

LEMMA AnnouncedStays ==
  ASSUME FollowersAnnounced, follows' \subseteq follows, notes \subseteq notes'
  PROVE  FollowersAnnounced'
  BY DEF FollowersAnnounced

LEMMA AnnounceAdds ==
  \A type, actor, about, recipients : Announce(type, actor, about, recipients) => notes \subseteq notes'
  BY DEF Announce

(* A notification that is marked still tells of the same event. *)
LEMMA MarkedAnnounced ==
  ASSUME FollowersAnnounced, Typed, follows' = follows,
         \A n \in notes : n \in notes' \/ \E read \in BOOLEAN : [n EXCEPT !.read = read] \in notes'
  PROVE  FollowersAnnounced'
  <1> SUFFICES ASSUME NEW pair \in follows
               PROVE  \E n \in notes' : /\ n.recipient = pair[2]
                                        /\ n.event.type = "FOLLOWER" /\ n.event.actor = pair[1]
                                        /\ n.event.about = pair[2]
    BY DEF FollowersAnnounced
  <1>1. PICK n \in notes : /\ n.recipient = pair[2]
                           /\ n.event.type = "FOLLOWER" /\ n.event.actor = pair[1]
                           /\ n.event.about = pair[2]
    BY DEF FollowersAnnounced
  <1>2. \A read \in BOOLEAN : /\ [n EXCEPT !.read = read].recipient = n.recipient
                              /\ [n EXCEPT !.read = read].event = n.event
    BY DEF Typed, NewsTyped, Notification
  <1> QED BY <1>1, <1>2

LEMMA ReadersAnnounced ==
  ASSUME FollowersAnnounced, Typed
  PROVE  /\ \A u, shown : MarkRead(u, shown) => FollowersAnnounced'
         /\ MarkAllUnread => FollowersAnnounced'
  <1>1. ASSUME NEW u, NEW shown, MarkRead(u, shown) PROVE FollowersAnnounced'
    <2>1. \A n \in notes : n \in notes' \/ [n EXCEPT !.read = TRUE] \in notes'
      BY <1>1 DEF MarkRead
    <2> QED BY <1>1, <2>1, MarkedAnnounced DEF MarkRead
  <1>2. ASSUME MarkAllUnread PROVE FollowersAnnounced'
    <2>1. \A n \in notes : [n EXCEPT !.read = FALSE] \in notes'
      BY <1>2 DEF MarkAllUnread
    <2> QED BY <1>2, <2>1, MarkedAnnounced DEF MarkAllUnread
  <1> QED BY <1>1, <1>2

LEMMA CommitFollowAnnounced ==
  ASSUME FollowersAnnounced, NEW r \in Requests, CommitFollow(r)
  PROVE  FollowersAnnounced'
  <1> DEFINE u == req[r].user  v == req[r].other
             event == [n |-> last + 1, type |-> "FOLLOWER", actor |-> u, about |-> v]
             note == [event |-> event, recipient |-> v, read |-> FALSE]
  <1>1. follows' \subseteq follows \union {<<u, v>>} /\ Announce("FOLLOWER", u, v, {v})
    BY DEF CommitFollow
  <1>2. notes \subseteq notes' /\ note \in notes'
    BY <1>1 DEF Announce
  <1>3. /\ note.recipient = v /\ note.event.type = "FOLLOWER"
        /\ note.event.actor = u /\ note.event.about = v
    OBVIOUS
  <1> HIDE DEF u, v, note
  <1> QED BY <1>1, <1>2, <1>3 DEF FollowersAnnounced

LEMMA DeleteFlightAnnounced ==
  ASSUME FollowersAnnounced, Typed, NEW f \in flights, DeleteFlight(f)
  PROVE  FollowersAnnounced'
  <1>1. /\ notes' = {n \in notes : n.event \notin {e \in events : e.about = f.id}}
        /\ follows' = follows
    BY DEF DeleteFlight, Forget
  <1>2. \A pair \in follows : pair[2] # f.id
    BY ColumnsAssumption DEF Typed, PeopleTyped, FlightsTyped, Flight, Accounts
  <1> QED BY <1>1, <1>2 DEF FollowersAnnounced

LEMMA MergeDeleteAnnounced ==
  ASSUME FollowersAnnounced, NEW r \in Requests, MergeDelete(r)
  PROVE  FollowersAnnounced'
  <1> DEFINE old == req[r].old
  <1>1. /\ \A pair \in follows : old \notin {pair[1], pair[2]}
        /\ notes' = {n \in notes : old \notin {n.event.actor, n.event.about, n.recipient}}
        /\ follows' = follows
    BY DEF MergeDelete
  <1> HIDE DEF old
  <1> QED BY <1>1 DEF FollowersAnnounced

LEMMA FollowersAnnouncedStep ==
  FollowersAnnounced /\ Typed /\ [Next]_vars => FollowersAnnounced'
  <1> SUFFICES ASSUME FollowersAnnounced, Typed, [Next]_vars PROVE FollowersAnnounced'
    OBVIOUS
  <1>1. ASSUME NEW r \in Requests,
               \/ Fail(r) \/ CommitUpload(r) \/ CommitComment(r)
               \/ CommitPilots(r) \/ CommitClubChange(r)
        PROVE  follows' = follows /\ notes \subseteq notes'
    <2>1. CASE Fail(r)
      BY <2>1 DEF Fail, newsVars
    <2>2. CASE CommitUpload(r)
      BY <2>2, AnnounceAdds DEF CommitUpload
    <2>3. CASE CommitComment(r)
      BY <2>3, AnnounceAdds DEF CommitComment
    <2>4. CASE CommitPilots(r)
      BY <2>4 DEF CommitPilots, newsVars
    <2>5. CASE CommitClubChange(r)
      BY <2>5, AnnounceAdds DEF CommitClubChange, newsVars
    <2> QED BY <1>1, <2>1, <2>2, <2>3, <2>4, <2>5
  <1>2. ASSUME NEW r \in Requests, NEW u \in Accounts,
               \/ LoadUpload(r, u) \/ LoadClubChange(r, u)
               \/ \E v \in Accounts : LoadFollow(r, u, v) \/ MergeMove(r, u, v)
               \/ \E f \in flights : LoadComment(r, u, f) \/ LoadPilots(r, u, f)
        PROVE  follows' = follows /\ notes' = notes
    BY <1>2 DEF LoadUpload, LoadClubChange, LoadFollow, MergeMove, LoadComment, LoadPilots, newsVars
  <1>3. ASSUME NEW u \in Accounts, \E v \in Accounts : CreateClub(u, v) \/ Unfollow(u, v)
        PROVE  follows' \subseteq follows /\ notes \subseteq notes'
    BY <1>3, AnnounceAdds DEF CreateClub, Unfollow, newsVars
  <1>4. ASSUME NEW u \in Users, NewUser(u) PROVE follows' = follows /\ notes \subseteq notes'
    BY <1>4, AnnounceAdds DEF NewUser
  <1>5. ASSUME NEW u, ClearNotifications(u) \/ \E v : ViewUser(u, v) \/ ViewFlight(u, v)
        PROVE  \E shown : MarkRead(u, shown)
    BY <1>5 DEF ClearNotifications, ViewUser, ViewFlight
  <1>6. CASE UNCHANGED vars
    BY <1>6 DEF vars, newsVars, FollowersAnnounced
  <1>7. CASE Next
    BY <1>7, <1>1, <1>2, <1>3, <1>4, <1>5, AnnouncedStays, ReadersAnnounced, CommitFollowAnnounced,
       DeleteFlightAnnounced, MergeDeleteAnnounced DEF Next
  <1> QED BY <1>6, <1>7

(* Whoever is followed has a notification that says so                      *)
(* (create_follower_notification before the commit of Follower.follow),     *)
(* however requests overlap, fail or are taken back: neither marking as     *)
(* read nor deleting flights or accounts removes it.                        *)
THEOREM FollowersHaveNews == Spec => []FollowersAnnounced
  <1>1. Init => FollowersAnnounced
    BY DEF Init, FollowersAnnounced
  <1> QED BY <1>1, FollowersAnnouncedStep, TypedHolds, PTL DEF Spec

------------------------------------------------------------------------------
(* One request at a time *)

allVars == <<vars, aircraftVars, accountVars, topic>>

LEMMA MCTyped == MCSpec => []Typed
  <1>1. MCInit => Typed
    BY TypedInit DEF MCInit
  <1>2. [MCNext]_allVars => [Next]_vars
    BY DEF MCNext, allVars
  <1> QED BY <1>1, <1>2, TypedStep, PTL DEF MCSpec, allVars

LEMMA SerialStep ==
  [MCNext]_allVars /\ topic # "overlap" => topic' = topic /\ [Next /\ OneByOne]_vars
  BY DEF MCNext, allVars, CommunityTopics, ClubsAndFlights, News

LEMMA SameTopic == [MCNext]_allVars => topic' = topic
  BY DEF MCNext, allVars

(* Nothing has changed since a request under way loaded what it knows. *)
Settled ==
  /\ req[r2] = Idle
  /\ req[r1].op = "follow" /\ req[r1].missing => req[r1].user # req[r1].other
  /\ req[r1].op = "comment" => req[r1].user \notin req[r1].recipients
  /\ req[r1].op = "upload" /\ req[r1].pilot # NoUser /\ req[r1].club = NoClub =>
       club[req[r1].pilot] = NoClub
  /\ req[r1].op = "change_pilot" =>
       LET after == req[r1].after IN
       /\ req[r1].before \in flights
       /\ after.pilot # NoUser /\ after.club = NoClub =>
            club[after.pilot] = NoClub \/ after.id \in older
  /\ req[r1].op = "club_change" => club[req[r1].user] # req[r1].club
  /\ req[r1].op = "merge" =>
       \A f \in flights : f.pilot # req[r1].old /\ f.co_pilot # req[r1].old

LEMMA SettledStep ==
  ASSUME Typed, Settled, FlightsHaveClub, Next, OneByOne
  PROVE  Settled'
  <1>1. req \in [Requests -> Request] /\ r1 \in Requests /\ r2 \in Requests
    BY RequestsAssumption DEF Typed, RequestsTyped
  <1>2. ASSUME req'[r1] = Idle PROVE Settled'
    BY <1>2 DEF Settled, OneByOne, Idle
  <1>3. ASSUME req[r1] = Idle, NEW r \in Requests, End(r) PROVE Settled'
    BY <1>1, <1>2, <1>3 DEF End
  <1>4. ASSUME req[r1] = Idle, UNCHANGED req PROVE Settled'
    BY <1>2, <1>4
  <1>5. ASSUME NEW r \in Requests, NEW u \in Accounts,
               \/ LoadUpload(r, u) \/ LoadClubChange(r, u)
               \/ \E v \in Accounts : LoadFollow(r, u, v) \/ MergeMove(r, u, v)
               \/ \E f \in flights : LoadComment(r, u, f) \/ LoadPilots(r, u, f)
        PROVE  \E loaded : Load(r, loaded)
    BY <1>5 DEF LoadUpload, LoadClubChange, LoadFollow, MergeMove, LoadComment, LoadPilots
  <1>6. ASSUME NEW loaded, Load(r1, loaded) PROVE req'[r1] = loaded /\ req'[r2] = Idle
    BY <1>1, <1>6 DEF Load, OneByOne
  <1>7. ASSUME req[r1] = Idle, NEW u \in Accounts,
               \/ LoadUpload(r1, u) \/ LoadClubChange(r1, u)
               \/ \E v \in Accounts : LoadFollow(r1, u, v) \/ MergeMove(r1, u, v)
               \/ \E f \in flights : LoadComment(r1, u, f) \/ LoadPilots(r1, u, f)
        PROVE  Settled'
    <2>1. CASE LoadUpload(r1, u)
      <3> DEFINE work(pilot) == [op |-> "upload", user |-> u, pilot |-> pilot, club |-> ClubFor(u, pilot)]
      <3>1. PICK pilot \in Choices(u) : Load(r1, work(pilot))
        BY <2>1 DEF LoadUpload
      <3>2. UNCHANGED club
        BY <2>1 DEF LoadUpload, userVars
      <3>3. pilot # NoUser /\ ClubFor(u, pilot) = NoClub => club[pilot] = NoClub
        BY DEF ClubFor
      <3> QED BY <1>6, <3>1, <3>2, <3>3 DEF Settled
    <2>2. CASE LoadClubChange(r1, u)
      <3> DEFINE work(c) == [op |-> "club_change", user |-> u, club |-> c]
      <3>1. PICK c \in (DOMAIN owner \union {NoClub}) \ {club[u]} : Load(r1, work(c))
        BY <2>2 DEF LoadClubChange
      <3>2. UNCHANGED club
        BY <2>2 DEF LoadClubChange, userVars
      <3> QED BY <1>6, <3>1, <3>2 DEF Settled
    <2>3. ASSUME NEW v \in Accounts, LoadFollow(r1, u, v) PROVE Settled'
      <3> DEFINE missing == u # v /\ <<u, v>> \notin follows
                 work == [op |-> "follow", user |-> u, other |-> v, missing |-> missing]
      <3>1. Load(r1, work)
        BY <2>3 DEF LoadFollow
      <3>2. missing => u # v
        OBVIOUS
      <3> HIDE DEF missing
      <3>3. work.op = "follow" /\ work.user = u /\ work.other = v /\ work.missing = missing
        OBVIOUS
      <3> HIDE DEF work
      <3> QED BY <1>6, <3>1, <3>2, <3>3 DEF Settled
    <2>4. ASSUME NEW v \in Accounts, MergeMove(r1, u, v) PROVE Settled'
      <3> DEFINE work == [op |-> "merge", new |-> u, old |-> v]
      <3>1. Load(r1, work) /\ u # v /\ flights' = {Moved(f, v, u) : f \in flights}
        BY <2>4 DEF MergeMove
      <3>2. \A f \in flights' : f.pilot # v /\ f.co_pilot # v
        <4>1. flights \subseteq Flight /\ u \in Users /\ v \in Users
          BY DEF Typed, FlightsTyped, Accounts
        <4>2. ASSUME NEW f \in flights PROVE Moved(f, v, u).pilot # v /\ Moved(f, v, u).co_pilot # v
          BY <3>1, <4>1, MovedFlight
        <4> QED BY <3>1, <4>2
      <3> QED BY <1>6, <3>1, <3>2 DEF Settled
    <2>5. ASSUME NEW f \in flights, LoadComment(r1, u, f) PROVE Settled'
      BY <1>6, <2>5 DEF LoadComment, Settled
    <2>6. ASSUME NEW f \in flights, LoadPilots(r1, u, f) PROVE Settled'
      <3> DEFINE after(pilot, co_pilot) ==
                   [f EXCEPT !.pilot = pilot, !.co_pilot = co_pilot, !.club = ClubAfter(f, pilot)]
                 work(pilot, co_pilot) == [op |-> "change_pilot", before |-> f, after |-> after(pilot, co_pilot)]
      <3>1. PICK pilot \in Choices(u), co_pilot \in Choices(u) : Load(r1, work(pilot, co_pilot))
        BY <2>6 DEF LoadPilots
      <3>2. UNCHANGED <<flights, club, older>>
        BY <2>6 DEF LoadPilots, userVars
      <3>3. after(pilot, co_pilot).pilot = pilot /\ after(pilot, co_pilot).club = ClubAfter(f, pilot)
            /\ after(pilot, co_pilot).id = f.id
        BY DEF Typed, FlightsTyped, Flight
      <3>4. pilot # NoUser /\ ClubAfter(f, pilot) = NoClub =>
              club[pilot] = NoClub \/ f.id \in older
        BY DEF ClubAfter, FlightsHaveClub
      <3>5. work(pilot, co_pilot).op = "change_pilot" /\ work(pilot, co_pilot).before = f
            /\ work(pilot, co_pilot).after = after(pilot, co_pilot)
        OBVIOUS
      <3> HIDE DEF work, after
      <3> QED BY <1>6, <3>1, <3>2, <3>3, <3>4, <3>5 DEF Settled
    <2> QED BY <1>7, <2>1, <2>2, <2>3, <2>4, <2>5, <2>6
  <1>8. CASE req[r1] # Idle
    BY <1>2, <1>8 DEF OneByOne
  <1>9. CASE req[r1] = Idle
    <2>1. \A r \in Requests : req[r] = Idle
      BY <1>9, RequestsAssumption DEF Settled
    <2>2. ASSUME NEW r \in Requests
          PROVE  ~(\/ Fail(r) \/ CommitFollow(r) \/ CommitUpload(r) \/ CommitComment(r)
                   \/ CommitPilots(r) \/ CommitClubChange(r) \/ MergeDelete(r))
      <3>1. req[r] = Idle /\ req[r].op = "idle"
        BY <2>1 DEF Idle
      <3>2. ~Fail(r)
        BY <3>1 DEF Fail
      <3>3. ~CommitFollow(r) /\ ~CommitUpload(r) /\ ~CommitComment(r)
        BY <3>1 DEF CommitFollow, CommitUpload, CommitComment
      <3>4. ~CommitPilots(r) /\ ~CommitClubChange(r) /\ ~MergeDelete(r)
        BY <3>1 DEF CommitPilots, CommitClubChange, MergeDelete
      <3> QED BY <3>2, <3>3, <3>4
    <2>3. ASSUME NEW r \in Requests, NEW u \in Accounts,
                 \/ LoadUpload(r, u) \/ LoadClubChange(r, u)
                 \/ \E v \in Accounts : LoadFollow(r, u, v) \/ MergeMove(r, u, v)
                 \/ \E f \in flights : LoadComment(r, u, f) \/ LoadPilots(r, u, f)
          PROVE  Settled'
      <3>1. CASE r = r1
        BY <1>7, <1>9, <2>3, <3>1
      <3>2. CASE r # r1
        <4>1. PICK loaded : Load(r, loaded)
          BY <1>5, <2>3
        <4>2. req'[r1] = Idle
          BY <1>1, <1>9, <3>2, <4>1 DEF Load
        <4> QED BY <1>2, <4>2
      <3> QED BY <3>1, <3>2
    <2>4. ASSUME NEW u \in Accounts,
                 \/ ClearNotifications(u)
                 \/ \E v \in Accounts : CreateClub(u, v) \/ Unfollow(u, v) \/ ViewUser(u, v)
                 \/ \E f \in flights : ViewFlight(u, f)
          PROVE  req' = req
      BY <2>4 DEF CreateClub, ClearNotifications, Unfollow, ViewUser, ViewFlight, MarkRead
    <2>5. \A u \in Users : NewUser(u) => req' = req
      BY DEF NewUser
    <2>6. \A f \in flights : DeleteFlight(f) => req' = req
      BY DEF DeleteFlight
    <2>7. MarkAllUnread => req' = req
      BY DEF MarkAllUnread
    <2> QED BY <1>4, <1>9, <2>2, <2>3, <2>4, <2>5, <2>6, <2>7 DEF Next
  <1> QED BY <1>8, <1>9

------------------------------------------------------------------------------
(* Clubs of flights *)

HasClub(f) ==
  f.pilot # NoUser /\ f.club = NoClub =>
    club[f.pilot] = NoClub \/ f.id \in older

LEMMA RequestHere ==
  ASSUME Settled, NEW r \in Requests, req[r] # Idle
  PROVE  r = r1
  BY RequestsAssumption DEF Settled

LEMMA CommitUploadClub ==
  ASSUME Typed, Settled, FlightsHaveClub, NEW r \in Requests, CommitUpload(r)
  PROVE  FlightsHaveClub'
  <1> DEFINE q == req[r]
             f(id) == [id |-> id, owner |-> q.user, pilot |-> q.pilot, co_pilot |-> NoUser, club |-> q.club]
  <1>1. PICK id \in Flights : flights' = flights \union {f(id)}
    BY DEF CommitUpload
  <1>2. UNCHANGED <<club, older>> /\ q.op = "upload"
    BY DEF CommitUpload, userVars
  <1>3. r = r1
    BY <1>2, RequestHere DEF Idle
  <1>4. q.pilot # NoUser /\ q.club = NoClub => club[q.pilot] = NoClub
    BY <1>2, <1>3 DEF Settled
  <1>5. f(id).pilot = q.pilot /\ f(id).club = q.club
    OBVIOUS
  <1> HIDE DEF q, f
  <1> QED BY <1>1, <1>2, <1>4, <1>5 DEF FlightsHaveClub

(* The row that is written is the one of the form: nothing came between. *)
LEMMA WrittenIsAfter ==
  ASSUME Typed, Settled, NEW r \in Requests, CommitPilots(r)
  PROVE  /\ req[r].before \in flights
         /\ flights' = (flights \ {req[r].before}) \union {req[r].after}
  <1> DEFINE before == req[r].before  after == req[r].after
  <1>1. PICK f \in flights :
          f.id = before.id /\ flights' = (flights \ {f}) \union {Written(f, before, after)}
    BY DEF CommitPilots
  <1>2. req[r].op = "change_pilot"
    BY DEF CommitPilots
  <1>3. before \in flights /\ before \in Flight /\ after \in Flight
    BY <1>2, RequestHere DEF Settled, Idle, Typed, RequestsTyped, Request
  <1> HIDE DEF before, after
  <1>4. f = before
    BY <1>1, <1>3 DEF Typed, FlightsTyped
  <1>5. Written(before, before, after) = after
    <2>1. DOMAIN before = {"id", "owner", "pilot", "co_pilot", "club"}
      BY <1>3 DEF Flight
    <2>2. /\ Written(before, before, after) \in Flight
          /\ \A c \in DOMAIN before : Written(before, before, after)[c] = after[c]
      BY <1>3, <2>1 DEF Written, Flight
    <2> QED BY <1>3, <2>1, <2>2 DEF Flight
  <1> QED BY <1>1, <1>3, <1>4, <1>5 DEF before, after

LEMMA CommitPilotsClub ==
  ASSUME Typed, Settled, FlightsHaveClub, NEW r \in Requests, CommitPilots(r)
  PROVE  FlightsHaveClub'
  <1>1. UNCHANGED <<club, older>> /\ req[r].op = "change_pilot"
    BY DEF CommitPilots, userVars
  <1>2. r = r1
    BY <1>1, RequestHere DEF Idle
  <1>3. HasClub(req[r].after)
    BY <1>1, <1>2 DEF Settled, HasClub
  <1> QED BY <1>1, <1>3, WrittenIsAfter DEF FlightsHaveClub, HasClub

LEMMA CommitClubChangeClub ==
  ASSUME Typed, FlightsHaveClub, NEW r \in Requests, CommitClubChange(r)
  PROVE  FlightsHaveClub'
  <1> DEFINE u == req[r].user  c == req[r].club
             new(f) == [f EXCEPT !.club = IF @ = NoClub /\ u \in {f.pilot, f.owner} THEN c ELSE @]
  <1>1. /\ u \in Users /\ club' = [club EXCEPT ![u] = c] /\ flights' = {new(f) : f \in flights}
        /\ older' = older
    BY DEF CommitClubChange, Swept, Accounts
  <1>2. ASSUME NEW f \in flights, NEW g, g = new(f) PROVE HasClub(g)'
    <2>1. f \in Flight /\ HasClub(f)
      BY DEF Typed, FlightsTyped, FlightsHaveClub, HasClub
    <2>2. /\ new(f).pilot = f.pilot /\ new(f).id = f.id
          /\ new(f).club = IF f.club = NoClub /\ u \in {f.pilot, f.owner} THEN c ELSE f.club
      BY <2>1 DEF Flight
    <2>3. f.pilot \in Users => club'[f.pilot] = IF f.pilot = u THEN c ELSE club[f.pilot]
      BY <1>1 DEF Typed, PeopleTyped
    <2>4. f.pilot # NoUser => f.pilot \in Users
      BY <2>1 DEF Flight, MaybeUser
    <2> HIDE DEF new, u, c
    <2> QED BY <1>1, <1>2, <2>1, <2>2, <2>3, <2>4 DEF HasClub
  <1>3. \A g \in flights' : HasClub(g)'
    BY <1>1, <1>2
  <1> QED BY <1>3 DEF FlightsHaveClub, HasClub

LEMMA CreateClubClub ==
  ASSUME Typed, FlightsHaveClub, NEW actor, NEW u \in Accounts, CreateClub(actor, u)
  PROVE  FlightsHaveClub'
  <1>1. /\ flights' = flights
        /\ older' = older \union {f.id : f \in {g \in flights : g.pilot = u /\ g.club = NoClub}}
        /\ \E c : club' = [club EXCEPT ![u] = c]
    BY DEF CreateClub
  <1>2. ASSUME NEW f \in flights, f.pilot # NoUser, f.club = NoClub
        PROVE  club'[f.pilot] = NoClub \/ f.id \in older'
    <2>1. f.pilot \in Users /\ (club[f.pilot] = NoClub \/ f.id \in older)
      BY <1>2 DEF Typed, FlightsTyped, Flight, MaybeUser, FlightsHaveClub
    <2>2. CASE f.pilot = u
      BY <1>1, <1>2, <2>2
    <2>3. CASE f.pilot # u
      BY <1>1, <2>1, <2>3 DEF Typed, PeopleTyped
    <2> QED BY <2>2, <2>3
  <1> QED BY <1>1, <1>2 DEF FlightsHaveClub

LEMMA MergeMoveClub ==
  ASSUME Typed, FlightsHaveClub, NEW r \in Requests, NEW new \in Accounts, NEW old \in Accounts,
         MergeMove(r, new, old)
  PROVE  FlightsHaveClub'
  <1>1. /\ club[new] = club[old] /\ flights' = {Moved(f, old, new) : f \in flights}
        /\ UNCHANGED <<club, older>>
    BY DEF MergeMove
  <1>2. ASSUME NEW f \in flights, NEW g, g = Moved(f, old, new) PROVE HasClub(g)'
    <2>1. f \in Flight /\ HasClub(f) /\ old \in Users /\ new \in Users
      BY DEF Typed, FlightsTyped, FlightsHaveClub, HasClub, Accounts
    <2>2. /\ Moved(f, old, new).club = f.club /\ Moved(f, old, new).id = f.id
          /\ Moved(f, old, new).pilot = IF f.pilot = old THEN new ELSE f.pilot
      BY <2>1, MovedFlight
    <2>3. old # NoUser
      BY <2>1, NullAssumption
    <2> QED BY <1>1, <1>2, <2>1, <2>2, <2>3 DEF HasClub
  <1>3. \A g \in flights' : HasClub(g)'
    BY <1>1, <1>2
  <1> QED BY <1>3 DEF FlightsHaveClub, HasClub

LEMMA MergeDeleteClub ==
  ASSUME Typed, FlightsHaveClub, NEW r \in Requests, MergeDelete(r)
  PROVE  FlightsHaveClub'
  <1> DEFINE old == req[r].old
             Who(u) == IF u = old THEN NoUser ELSE u
             left(f) == [f EXCEPT !.pilot = Who(@), !.co_pilot = Who(@)]
  <1>1. flights' = {left(f) : f \in flights} /\ UNCHANGED <<club, older>>
    BY DEF MergeDelete
  <1>2. ASSUME NEW f \in flights, NEW g, g = left(f) PROVE HasClub(g)'
    <2>1. f \in Flight /\ HasClub(f)
      BY DEF Typed, FlightsTyped, FlightsHaveClub, HasClub
    <2>2. left(f).pilot = Who(f.pilot) /\ left(f).club = f.club /\ left(f).id = f.id
      BY <2>1 DEF Flight
    <2> HIDE DEF left, old
    <2> QED BY <1>1, <1>2, <2>1, <2>2 DEF HasClub
  <1>3. \A g \in flights' : HasClub(g)'
    BY <1>1, <1>2
  <1> QED BY <1>3 DEF FlightsHaveClub, HasClub

LEMMA FlightsHaveClubStep ==
  ASSUME Typed, Settled, FlightsHaveClub, Next
  PROVE  FlightsHaveClub'
  <1>0. ASSUME UNCHANGED <<club, older>>, flights' \subseteq flights PROVE FlightsHaveClub'
    BY <1>0 DEF FlightsHaveClub
  <1>1. ASSUME NEW r \in Requests,
               \/ Fail(r) \/ CommitFollow(r) \/ CommitUpload(r) \/ CommitComment(r)
               \/ CommitPilots(r) \/ CommitClubChange(r) \/ MergeDelete(r)
        PROVE  FlightsHaveClub'
    <2>1. CASE Fail(r) \/ CommitFollow(r) \/ CommitComment(r)
      BY <1>0, <2>1 DEF Fail, CommitFollow, CommitComment, userVars
    <2> QED BY <1>1, <2>1, CommitUploadClub, CommitPilotsClub, CommitClubChangeClub, MergeDeleteClub
  <1>2. ASSUME NEW r \in Requests, NEW u \in Accounts,
               \/ LoadUpload(r, u) \/ LoadClubChange(r, u)
               \/ \E v \in Accounts : LoadFollow(r, u, v) \/ MergeMove(r, u, v)
               \/ \E f \in flights : LoadComment(r, u, f) \/ LoadPilots(r, u, f)
        PROVE  FlightsHaveClub'
    <2>1. CASE \/ LoadUpload(r, u) \/ LoadClubChange(r, u)
               \/ \E v \in Accounts : LoadFollow(r, u, v)
               \/ \E f \in flights : LoadComment(r, u, f) \/ LoadPilots(r, u, f)
      BY <1>0, <2>1 DEF LoadUpload, LoadClubChange, LoadFollow, LoadComment, LoadPilots, userVars
    <2> QED BY <1>2, <2>1, MergeMoveClub
  <1>3. ASSUME NEW u \in Accounts,
               \/ ClearNotifications(u)
               \/ \E v \in Accounts : CreateClub(u, v) \/ Unfollow(u, v) \/ ViewUser(u, v)
               \/ \E f \in flights : ViewFlight(u, f)
        PROVE  FlightsHaveClub'
    <2>1. CASE \E v \in Accounts : CreateClub(u, v)
      BY <2>1, CreateClubClub
    <2>2. CASE ~\E v \in Accounts : CreateClub(u, v)
      BY <1>0, <1>3, <2>2 DEF ClearNotifications, Unfollow, ViewUser, ViewFlight, MarkRead, userVars
    <2> QED BY <2>1, <2>2
  <1>4. ASSUME NEW u \in Users, NewUser(u) PROVE FlightsHaveClub'
    BY <1>0, <1>4 DEF NewUser
  <1>5. ASSUME NEW f \in flights, DeleteFlight(f) PROVE FlightsHaveClub'
    <2>1. flights' = flights \ {f} /\ older' = older \ {f.id} /\ club' = club
      BY <1>5 DEF DeleteFlight
    <2>2. \A g \in flights' : g \in flights /\ g.id # f.id
      BY <2>1 DEF Typed, FlightsTyped
    <2> QED BY <2>1, <2>2 DEF FlightsHaveClub
  <1>6. ASSUME MarkAllUnread PROVE FlightsHaveClub'
    BY <1>0, <1>6 DEF MarkAllUnread, userVars
  <1> QED BY <1>1, <1>2, <1>3, <1>4, <1>5, <1>6 DEF Next

(* The invariant of one request at a time. *)
Serial == topic # "overlap" => Settled /\ FlightsHaveClub

LEMMA SerialInit == MCInit => Serial
  BY RequestsAssumption DEF MCInit, Init, Serial, Settled, FlightsHaveClub, Idle

LEMMA SerialKept == Serial /\ Typed /\ [MCNext]_allVars => Serial'
  <1> SUFFICES ASSUME Serial, Typed, [MCNext]_allVars, topic # "overlap" PROVE Settled' /\ FlightsHaveClub'
    BY SameTopic DEF Serial
  <1>1. Settled /\ FlightsHaveClub /\ [Next /\ OneByOne]_vars
    BY SerialStep DEF Serial
  <1>2. CASE UNCHANGED vars
    BY <1>1, <1>2 DEF vars, userVars, Settled, FlightsHaveClub
  <1>3. CASE Next /\ OneByOne
    BY <1>1, <1>3, SettledStep, FlightsHaveClubStep
  <1> QED BY <1>1, <1>2, <1>3

LEMMA SerialHolds == MCSpec => []Serial
  BY SerialInit, SerialKept, MCTyped, PTL DEF MCSpec, allVars

(* One request at a time: no flight of a member lacks a club unless he had  *)
(* it when a club was founded for him, by himself or by a manager           *)
(* (FlightUpload, change_pilot, the change of the club and its sweep over   *)
(* flights, club_create_post, merge).                                       *)
THEOREM FlightsOfMembersHaveClub == MCSpec => []ClubsOfFlights
  <1>1. Serial => ClubsOfFlights
    BY DEF Serial, ClubsOfFlights
  <1> QED BY <1>1, SerialHolds, PTL

------------------------------------------------------------------------------
(* News of oneself *)

(* Nobody follows himself, and no news is of what he did, but that he tried. *)
OthersOnly ==
  /\ NoSelfNews
  /\ \A pair \in follows : pair[1] # pair[2]

LEMMA ToldOfOthers ==
  ASSUME OthersOnly, Typed, NEW type, NEW actor, NEW about, NEW recipients,
         Announce(type, actor, about, recipients), follows' = follows,
         actor \in recipients => type = "FOLLOWER" /\ about = actor
  PROVE  OthersOnly'
  <1> DEFINE event == [n |-> last + 1, type |-> type, actor |-> actor, about |-> about]
             note(u) == [event |-> event, recipient |-> u, read |-> FALSE]
  <1>1. notes' = notes \union {note(u) : u \in recipients}
    BY DEF Announce
  <1>2. \A u : /\ note(u).recipient = u /\ note(u).event.actor = actor
               /\ note(u).event.type = type /\ note(u).event.about = about
    OBVIOUS
  <1> HIDE DEF note
  <1> QED BY <1>1, <1>2 DEF OthersOnly, NoSelfNews

LEMMA FewerNews ==
  OthersOnly /\ notes' \subseteq notes /\ follows' \subseteq follows => OthersOnly'
  BY DEF OthersOnly, NoSelfNews

LEMMA MarkedNews ==
  ASSUME OthersOnly, Typed, follows' = follows,
         \A n \in notes' : n \in notes \/ \E m \in notes, read \in BOOLEAN : n = [m EXCEPT !.read = read]
  PROVE  OthersOnly'
  <1>1. ASSUME NEW m \in notes, NEW read \in BOOLEAN
        PROVE  [m EXCEPT !.read = read].recipient = m.recipient /\ [m EXCEPT !.read = read].event = m.event
    BY DEF Typed, NewsTyped, Notification
  <1>2. ASSUME NEW n \in notes'
        PROVE  \E m \in notes : n.recipient = m.recipient /\ n.event = m.event
    <2>1. CASE n \in notes
      BY <2>1
    <2>2. CASE n \notin notes
      <3>1. PICK m \in notes, read \in BOOLEAN : n = [m EXCEPT !.read = read]
        BY <1>2, <2>2
      <3> QED BY <1>1, <3>1
    <2> QED BY <2>1, <2>2
  <1> QED BY <1>2 DEF OthersOnly, NoSelfNews

LEMMA CommitsTellOthers ==
  ASSUME OthersOnly, Typed, Settled, NEW r \in Requests,
         \/ Fail(r) \/ CommitFollow(r) \/ CommitUpload(r) \/ CommitComment(r)
         \/ CommitPilots(r) \/ CommitClubChange(r) \/ MergeDelete(r)
  PROVE  OthersOnly'
  <1>1. req[r] # Idle => r = r1
    BY RequestHere
  <1> DEFINE q == req[r]
  <1>2. CASE Fail(r) \/ CommitPilots(r) \/ MergeDelete(r)
    BY <1>2, FewerNews DEF Fail, CommitPilots, MergeDelete, newsVars
  <1>3. CASE CommitFollow(r)
    <2>1. /\ q.op = "follow" /\ Announce("FOLLOWER", q.user, q.other, {q.other})
          /\ follows' = IF q.missing THEN follows \union {<<q.user, q.other>>} ELSE follows
      BY <1>3 DEF CommitFollow
    <2>2. q.missing => q.user # q.other
      BY <1>1, <2>1 DEF Settled, Idle
    <2> HIDE DEF q
    <2> DEFINE event == [n |-> last + 1, type |-> "FOLLOWER", actor |-> q.user, about |-> q.other]
               note == [event |-> event, recipient |-> q.other, read |-> FALSE]
    <2>3. notes' = notes \union {note}
      BY <2>1 DEF Announce
    <2>4. /\ note.recipient = q.other /\ note.event.actor = q.user
          /\ note.event.type = "FOLLOWER" /\ note.event.about = q.other
      OBVIOUS
    <2> HIDE DEF note
    <2>5. NoSelfNews'
      BY <2>3, <2>4 DEF OthersOnly, NoSelfNews
    <2>6. \A pair \in follows' : pair[1] # pair[2]
      BY <2>1, <2>2 DEF OthersOnly
    <2> QED BY <2>5, <2>6 DEF OthersOnly
  <1>4. CASE CommitUpload(r)
    <2> DEFINE f(id) == [id |-> id, owner |-> q.user, pilot |-> q.pilot, co_pilot |-> NoUser, club |-> q.club]
    <2>1. PICK id \in Flights : Announce("FLIGHT", q.user, id, Followers(Crew(f(id))) \ Crew(f(id)))
      BY <1>4 DEF CommitUpload
    <2>2. q.user \in Users /\ follows' = follows
      BY <1>4 DEF CommitUpload, Typed, RequestsTyped, Request, Idle
    <2>3. q.user \in Crew(f(id))
      BY <2>2, NullAssumption DEF Crew
    <2> HIDE DEF f, q
    <2> QED BY <2>1, <2>2, <2>3, ToldOfOthers
  <1>5. CASE CommitComment(r)
    <2>1. /\ q.op = "comment" /\ follows' = follows
          /\ Announce("FLIGHT_COMMENT", q.user, q.flight, q.recipients)
      BY <1>5 DEF CommitComment
    <2>2. q.user \notin q.recipients
      BY <1>1, <2>1 DEF Settled, Idle
    <2> HIDE DEF q
    <2> QED BY <2>1, <2>2, ToldOfOthers
  <1>6. CASE CommitClubChange(r)
    <2>1. /\ q.op = "club_change" /\ follows' = follows
          /\ IF q.club = NoClub THEN UNCHANGED newsVars
             ELSE Announce("CLUB_JOIN", q.user, q.club, ToldOfJoin(q.club, q.user))
      BY <1>6 DEF CommitClubChange
    <2>2. club[q.user] # q.club
      BY <1>1, <2>1 DEF Settled, Idle
    <2>3. q.user \notin ToldOfJoin(q.club, q.user)
      BY <2>2 DEF ToldOfJoin, Members, Followers, OthersOnly
    <2> HIDE DEF q
    <2>4. CASE q.club = NoClub
      BY <2>1, <2>4, FewerNews DEF newsVars
    <2>5. CASE q.club # NoClub
      BY <2>1, <2>3, <2>5, ToldOfOthers
    <2> QED BY <2>4, <2>5
  <1> QED BY <1>2, <1>3, <1>4, <1>5, <1>6

LEMMA OthersOnlyStep ==
  ASSUME OthersOnly, Typed, Settled, Next
  PROVE  OthersOnly'
  <1>1. ASSUME NEW r \in Requests, NEW u \in Accounts,
               \/ LoadUpload(r, u) \/ LoadClubChange(r, u)
               \/ \E v \in Accounts : LoadFollow(r, u, v) \/ MergeMove(r, u, v)
               \/ \E f \in flights : LoadComment(r, u, f) \/ LoadPilots(r, u, f)
        PROVE  OthersOnly'
    BY <1>1, FewerNews DEF LoadUpload, LoadClubChange, LoadFollow, MergeMove, LoadComment,
                           LoadPilots, newsVars
  <1>2. ASSUME NEW actor, NEW u \in Accounts, CreateClub(actor, u) PROVE OthersOnly'
    <2>1. PICK c \in Clubs \ DOMAIN owner : Announce("CLUB_JOIN", u, c, ToldOfJoin(c, u))
      BY <1>2 DEF CreateClub
    <2>2. follows' = follows
      BY <1>2 DEF CreateClub
    <2>3. c # NoClub /\ \A v \in Users : club[v] # c
      BY NullAssumption DEF Typed, PeopleTyped
    <2>4. u \notin ToldOfJoin(c, u)
      BY <2>3 DEF ToldOfJoin, Members, Followers, OthersOnly, Accounts
    <2> QED BY <2>1, <2>2, <2>4, ToldOfOthers
  <1>3. ASSUME NEW u, NEW shown, MarkRead(u, shown) PROVE OthersOnly'
    <2>1. \A n \in notes' : n \in notes \/ \E m \in notes : n = [m EXCEPT !.read = TRUE]
      BY <1>3 DEF MarkRead
    <2> QED BY <1>3, <2>1, MarkedNews DEF MarkRead
  <1>4. ASSUME NEW u, NEW v, Unfollow(u, v) PROVE OthersOnly'
    BY <1>4, FewerNews DEF Unfollow, newsVars
  <1>5. ASSUME NEW u,
               \/ ClearNotifications(u)
               \/ \E v \in Accounts : CreateClub(u, v) \/ Unfollow(u, v) \/ ViewUser(u, v)
               \/ \E f \in flights : ViewFlight(u, f),
               u \in Accounts
        PROVE  OthersOnly'
    BY <1>2, <1>3, <1>4, <1>5 DEF ClearNotifications, ViewUser, ViewFlight
  <1>6. ASSUME NEW u \in Users, NewUser(u) PROVE OthersOnly'
    BY <1>6, ToldOfOthers DEF NewUser
  <1>7. ASSUME NEW f \in flights, DeleteFlight(f) PROVE OthersOnly'
    BY <1>7, FewerNews DEF DeleteFlight, Forget
  <1>8. ASSUME MarkAllUnread PROVE OthersOnly'
    <2>1. \A n \in notes' : \E m \in notes : n = [m EXCEPT !.read = FALSE]
      BY <1>8 DEF MarkAllUnread
    <2> QED BY <1>8, <2>1, MarkedNews DEF MarkAllUnread
  <1> QED BY <1>1, <1>5, <1>6, <1>7, <1>8, CommitsTellOthers DEF Next

(* One request at a time: nobody is notified of what he did himself, unless *)
(* he tried to follow himself (whom the functions of model/event.py choose  *)
(* as recipients).                                                          *)
THEOREM NoNewsOfOneself == MCSpec => []NewsOfOthers
  <1> DEFINE Inv == topic # "overlap" => OthersOnly
  <1>1. MCInit => Inv
    BY DEF MCInit, Init, OthersOnly, NoSelfNews
  <1>2. Inv /\ Serial /\ Typed /\ [MCNext]_allVars => Inv'
    <2> SUFFICES ASSUME Inv, Serial, Typed, [MCNext]_allVars, topic # "overlap" PROVE OthersOnly'
      BY SameTopic
    <2>1. OthersOnly /\ Settled /\ [Next /\ OneByOne]_vars
      BY SerialStep DEF Serial
    <2>2. CASE UNCHANGED vars
      BY <2>1, <2>2, FewerNews DEF vars, newsVars
    <2>3. CASE Next /\ OneByOne
      BY <2>1, <2>3, OthersOnlyStep
    <2> QED BY <2>1, <2>2, <2>3
  <1>3. Inv => NewsOfOthers
    BY DEF OthersOnly, NewsOfOthers
  <1> HIDE DEF Inv
  <1> QED BY <1>1, <1>2, <1>3, SerialHolds, MCTyped, PTL DEF MCSpec, allVars

------------------------------------------------------------------------------
(* Pilots of flights *)

(* The flights after a step that replaces each by one with the same id. *)
LEMMA ReplacedPilots ==
  ASSUME FlightsTyped, NEW new, \A f \in flights : new[f].id = f.id,
         flights' = {new[f] : f \in flights},
         \A f \in flights : /\ f.pilot # NoUser => new[f].pilot # NoUser
                            /\ f.co_pilot # NoUser => new[f].co_pilot # NoUser
  PROVE  PilotsKept
  BY DEF PilotsKept, FlightsTyped

LEMMA SamePilots ==
  ASSUME FlightsTyped, flights' \subseteq flights
  PROVE  PilotsKept
  BY DEF PilotsKept, FlightsTyped

LEMMA CommitUploadPilots ==
  ASSUME Typed, NEW r \in Requests, CommitUpload(r)
  PROVE  PilotsKept
  <1> DEFINE q == req[r]
             f(id) == [id |-> id, owner |-> q.user, pilot |-> q.pilot, co_pilot |-> NoUser, club |-> q.club]
  <1>1. PICK id \in Flights \ {g.id : g \in flights} : flights' = flights \union {f(id)}
    BY DEF CommitUpload
  <1>2. f(id).id = id
    OBVIOUS
  <1> HIDE DEF f
  <1> QED BY <1>1, <1>2 DEF PilotsKept, Typed, FlightsTyped

LEMMA CommitPilotsPilots ==
  ASSUME Typed, NEW r \in Requests, CommitPilots(r)
  PROVE  PilotsKept
  <1> DEFINE before == req[r].before  after == req[r].after
  <1>1. PICK f \in flights :
          f.id = before.id /\ flights' = (flights \ {f}) \union {Written(f, before, after)}
    BY DEF CommitPilots
  <1>2. req[r].op = "change_pilot" /\ req'[r] = Idle
    BY DEF CommitPilots, End, Typed, RequestsTyped
  <1>3. Entered(f.id)
    BY <1>1, <1>2 DEF Entered
  <1>4. before \in Flight /\ after \in Flight /\ before.id = after.id /\ before.owner = after.owner
    BY <1>2 DEF Typed, RequestsTyped, Request, Idle
  <1>5. Written(f, before, after).id = f.id
    BY <1>4, WrittenFlight DEF Typed, FlightsTyped
  <1> HIDE DEF before, after
  <1> QED BY <1>1, <1>3, <1>5 DEF PilotsKept, Typed, FlightsTyped

LEMMA MergeMovePilots ==
  ASSUME Typed, NEW r \in Requests, NEW new \in Accounts, NEW old \in Accounts, MergeMove(r, new, old)
  PROVE  PilotsKept
  <1> DEFINE moved == [f \in flights |-> Moved(f, old, new)]
  <1>1. flights' = {moved[f] : f \in flights}
    BY DEF MergeMove
  <1>2. new \in Users /\ old \in Users /\ new # NoUser
    BY NullAssumption DEF Accounts
  <1>3. ASSUME NEW f \in flights
        PROVE  /\ moved[f].id = f.id
               /\ f.pilot # NoUser => moved[f].pilot # NoUser
               /\ f.co_pilot # NoUser => moved[f].co_pilot # NoUser
    BY <1>2, MovedFlight DEF Typed, FlightsTyped
  <1> HIDE DEF moved
  <1> QED BY <1>1, <1>3, ReplacedPilots DEF Typed

LEMMA MergeDeletePilots ==
  ASSUME Typed, Settled, NEW r \in Requests, MergeDelete(r)
  PROVE  PilotsKept
  <1> DEFINE old == req[r].old
             Who(u) == IF u = old THEN NoUser ELSE u
             left == [f \in flights |-> [f EXCEPT !.pilot = Who(@), !.co_pilot = Who(@)]]
  <1>1. flights' = {left[f] : f \in flights}
    BY DEF MergeDelete
  <1>2. \A f \in flights : f.pilot # old /\ f.co_pilot # old
    <2>1. req[r].op = "merge"
      BY DEF MergeDelete
    <2>2. r = r1
      BY <2>1, RequestHere DEF Idle
    <2> QED BY <2>1, <2>2 DEF Settled
  <1>3. ASSUME NEW f \in flights
        PROVE  left[f].id = f.id /\ left[f].pilot = f.pilot /\ left[f].co_pilot = f.co_pilot
    BY <1>2 DEF Typed, FlightsTyped, Flight
  <1> HIDE DEF left
  <1> QED BY <1>1, <1>3, ReplacedPilots DEF Typed

LEMMA CommitClubChangePilots ==
  ASSUME Typed, NEW r \in Requests, CommitClubChange(r)
  PROVE  PilotsKept
  <1> DEFINE u == req[r].user  c == req[r].club
             new == [f \in flights |->
                       [f EXCEPT !.club = IF @ = NoClub /\ u \in {f.pilot, f.owner} THEN c ELSE @]]
  <1>1. flights' = {new[f] : f \in flights}
    BY DEF CommitClubChange, Swept
  <1>2. ASSUME NEW f \in flights
        PROVE  new[f].id = f.id /\ new[f].pilot = f.pilot /\ new[f].co_pilot = f.co_pilot
    BY DEF Typed, FlightsTyped, Flight
  <1> HIDE DEF new
  <1> QED BY <1>1, <1>2, ReplacedPilots DEF Typed

LEMMA PilotsKeptStep ==
  ASSUME Typed, Settled, Next
  PROVE  PilotsKept
  <1>0. FlightsTyped
    BY DEF Typed
  <1>1. ASSUME NEW r \in Requests,
               \/ Fail(r) \/ CommitFollow(r) \/ CommitUpload(r) \/ CommitComment(r)
               \/ CommitPilots(r) \/ CommitClubChange(r) \/ MergeDelete(r)
        PROVE  PilotsKept
    <2>1. CASE Fail(r) \/ CommitFollow(r) \/ CommitComment(r)
      BY <1>0, <2>1, SamePilots DEF Fail, CommitFollow, CommitComment
    <2> QED BY <1>1, <2>1, CommitUploadPilots, CommitPilotsPilots, CommitClubChangePilots, MergeDeletePilots
  <1>2. ASSUME NEW r \in Requests, NEW u \in Accounts,
               \/ LoadUpload(r, u) \/ LoadClubChange(r, u)
               \/ \E v \in Accounts : LoadFollow(r, u, v) \/ MergeMove(r, u, v)
               \/ \E f \in flights : LoadComment(r, u, f) \/ LoadPilots(r, u, f)
        PROVE  PilotsKept
    <2>1. CASE \/ LoadUpload(r, u) \/ LoadClubChange(r, u)
               \/ \E v \in Accounts : LoadFollow(r, u, v)
               \/ \E f \in flights : LoadComment(r, u, f) \/ LoadPilots(r, u, f)
      BY <1>0, <2>1, SamePilots DEF LoadUpload, LoadClubChange, LoadFollow, LoadComment, LoadPilots
    <2> QED BY <1>2, <2>1, MergeMovePilots
  <1>3. ASSUME NEW u \in Accounts,
               \/ ClearNotifications(u)
               \/ \E v \in Accounts : CreateClub(u, v) \/ Unfollow(u, v) \/ ViewUser(u, v)
               \/ \E f \in flights : ViewFlight(u, f)
        PROVE  PilotsKept
    BY <1>0, <1>3, SamePilots DEF CreateClub, ClearNotifications, Unfollow, ViewUser, ViewFlight, MarkRead
  <1>4. ASSUME NEW u \in Users, NewUser(u) PROVE PilotsKept
    BY <1>0, <1>4, SamePilots DEF NewUser
  <1>5. ASSUME NEW f \in flights, DeleteFlight(f) PROVE PilotsKept
    BY <1>0, <1>5, SamePilots DEF DeleteFlight
  <1>6. ASSUME MarkAllUnread PROVE PilotsKept
    BY <1>0, <1>6, SamePilots DEF MarkAllUnread
  <1> QED BY <1>1, <1>2, <1>3, <1>4, <1>5, <1>6 DEF Next

(* One request at a time: no flight loses its pilot or co-pilot unless      *)
(* somebody enters that, although the foreign keys of Flight set them to    *)
(* null when merge deletes an account.                                      *)
THEOREM PilotsStayWithFlights == MCSpec => MergesKeepPilots
  <1>1. Typed /\ Serial /\ [MCNext]_allVars => [topic # "overlap" => PilotsKept]_vars
    <2> SUFFICES ASSUME Typed, Serial, [MCNext]_allVars, topic # "overlap", vars' # vars PROVE PilotsKept
      OBVIOUS
    <2>1. Settled /\ [Next /\ OneByOne]_vars
      BY SerialStep DEF Serial
    <2> QED BY <2>1, PilotsKeptStep
  <1> QED BY <1>1, MCTyped, SerialHolds, PTL DEF MCSpec, MergesKeepPilots, allVars
==============================================================================
