------------------------------ MODULE Tracking -------------------------------
(***************************************************************************)
(* The two ways a live position reaches the tracking_fixes table: UDP      *)
(* datagrams to the tracking server, which may be lost, doubled and        *)
(* delayed, and the HTTP requests of LiveTrack24 clients, whose answers    *)
(* may be lost.  Both know a pilot by a tracking key that the pilot may    *)
(* replace at any time; a LiveTrack24 session has an identifier that the   *)
(* client chooses and whose right three bytes repeat the key.  The server   *)
(* answers requests for the traffic around from the same table.            *)
(*                                                                         *)
(* A key is the n-th that was drawn for a pilot: the 32 random bits are    *)
(* assumed not to meet another pilot's in their right three bytes.         *)
(***************************************************************************)
EXTENDS FixTime, FiniteSets, SequencesExt

CONSTANTS
  Pilots,      \* user ids
  Devices,     \* phones and flight computers
  Skew,        \* for each device, how far its clock is ahead of the server's
  Follows,     \* the pairs <<source, destination>> of followers
  Club,        \* the club of each pilot, or NoClub
  NoClub,
  Highs,       \* what a client may put in front of the three bytes
  Recent,      \* age of the oldest fix in a traffic response, two hours
  Limit,       \* number of pilots in a traffic response, 32
  Start, End,  \* the clock runs from Start to End
  MaxKeys,     \* keys drawn per pilot
  MaxFixes,    \* positions that devices record
  MaxSessions, \* open sessions in the table
  MaxLost      \* HTTP answers that are lost

ASSUME PilotsAssumption == Pilots \subseteq Nat
ASSUME SkewAssumption == IsFiniteSet(Devices) /\ Skew \in [Devices -> Int]
ASSUME FollowsAssumption == Follows \subseteq Pilots \X Pilots
ASSUME ClubAssumption == DOMAIN Club = Pilots
(* Time counts from a moment long before the server starts. *)
ASSUME ClockAssumption == Start \in Nat /\ End \in Nat /\ Recent \in 0 .. Start

VARIABLES
  now,      \* the clock of the server
  key,      \* tracking_key of each user
  held,     \* the key that a device is configured with
  net,      \* FIX datagrams under way
  fixes,    \* the rows of tracking_fixes
  sessions, \* the open rows of tracking_sessions in the order of their creation
  client,   \* the LiveTrack24 client of each device
  lost,     \* requests to open a session that were repeated
  recorded, \* number of positions recorded
  shown     \* time of the position of one pilot that another was sent last

vars == <<now, key, held, net, fixes, sessions, client, lost, recorded, shown>>

Key == [pilot: Pilots, n: 1 .. MaxKeys]
SessionId == [high: Highs, low: Key]
Datagram == [key: Key, stamp: Int]

(* A row; user, stamp and seen are not stored: whose key the device used,   *)
(* the time on the device and the time of arrival.                          *)
Fix == [pilot: Pilots, time: Int, user: Pilots, stamp: Int, seen: Nat, udp: BOOLEAN]

(* Rows without time_finished: no other is ever read.                       *)
Session == [pilot: Pilots, lt24_id: SessionId]

(* sid.low is the user id that the client got at its last login.            *)
Client == [state: {"idle", "opening", "flying", "finishing"}, sid: SessionId]

(* User.by_tracking_key *)
ByKey(k) == {p \in Pilots : key[p] = k}

FirstKey(p) == [pilot |-> p, n |-> 1]
Unset == CHOOSE h \in Highs : TRUE

Init ==
  /\ now = Start
  /\ key = [p \in Pilots |-> FirstKey(p)]
  /\ held \in [Devices -> {FirstKey(p) : p \in Pilots}]
  /\ net = {} /\ fixes = {} /\ sessions = <<>>
  /\ client = [d \in Devices |->
                 [state |-> "idle", sid |-> [high |-> Unset, low |-> held[d]]]]
  /\ lost = 0
  /\ recorded = 0
  /\ shown = [p \in Pilots |-> [q \in Pilots |-> 0]]

Tick ==
  /\ now < End /\ now' = now + 1
  /\ UNCHANGED <<key, held, net, fixes, sessions, client, lost, recorded, shown>>

------------------------------------------------------------------------------
(* Settings of a pilot *)

(* tracking_generate_key: the old key is forgotten, its sessions are not.   *)
GenerateKey(p) ==
  /\ key[p].n < MaxKeys
  /\ key' = [key EXCEPT ![p].n = @ + 1]
  /\ UNCHANGED <<now, held, net, fixes, sessions, client, lost, recorded, shown>>

(* Somebody types a pilot's key into a device that is not in a session; the *)
(* LiveTrack24 client may still have the answer to an earlier login.        *)
Configure(d) ==
  /\ client[d].state = "idle"
  /\ \E p \in Pilots : held[d] # key[p] /\ held' = [held EXCEPT ![d] = key[p]]
  /\ UNCHANGED <<now, key, net, fixes, sessions, client, lost, recorded, shown>>

(* The command that deletes all fixes of a pilot. *)
Clear(p) ==
  /\ \E f \in fixes : f.pilot = p
  /\ fixes' = {f \in fixes : f.pilot # p}
  /\ shown' = [q \in Pilots |-> [shown[q] EXCEPT ![p] = 0]]
  /\ UNCHANGED <<now, key, held, net, sessions, client, lost, recorded>>

------------------------------------------------------------------------------
(* The tracking server *)

Stamp(d) == now + Skew[d]

(* A device records a position and sends it. *)
Send(d) ==
  /\ recorded < MaxFixes /\ recorded' = recorded + 1
  /\ net' = net \union {[key |-> held[d], stamp |-> Stamp(d)]}
  /\ UNCHANGED <<now, key, held, fixes, sessions, client, lost, shown>>

(* fixReceived.  The datagram may arrive again. *)
FixReceived(m) ==
  /\ net' \in {net, net \ {m}}
  /\ fixes' = fixes \union
       {[pilot |-> p, time |-> FixTime(now, TimeOfDay(m.stamp)),
         user |-> m.key.pilot, stamp |-> m.stamp, seen |-> now, udp |-> TRUE] : p \in ByKey(m.key)}
  /\ fixes' # fixes \/ net' # net
  /\ UNCHANGED <<now, key, held, sessions, client, lost, recorded, shown>>

(* Lost on the way, malformed, or the commit failed. *)
Lose(m) ==
  /\ net' = net \ {m}
  /\ UNCHANGED <<now, key, held, fixes, sessions, client, lost, recorded, shown>>

(* Rows of the query in trafficRequestReceived, of pilots other than p who  *)
(* are followed or, both without a club included, of the same club.         *)
Friends(p, followees, club) ==
  {q \in Pilots \ {p} : (followees /\ <<p, q>> \in Follows) \/ (club /\ Club[q] = Club[p])}
Candidates(p, friends) ==
  {f \in fixes : f.time >= now - Recent /\ f.pilot \in friends}

(* Mutant: the fix that came last. *)
LastOf(q, rows) ==
  (CHOOSE f \in rows : f.pilot = q /\ \A g \in rows : g.pilot = q => g.seen <= f.seen).time

(* DISTINCT ON the pilot, ordered by descending time. *)
TimeOf(q, rows) ==
  (CHOOSE f \in rows : f.pilot = q /\ \A g \in rows : g.pilot = q => g.time <= f.time).time

(* ORDER BY pilot_id ... LIMIT 32 *)
Responded(rows) ==
  LET found == {f.pilot : f \in rows} IN
  {q \in found : Cardinality({r \in found : r < q}) < Limit}

TrafficRequest(d) ==
  \E p \in ByKey(held[d]), followees, club \in BOOLEAN :
    LET rows == Candidates(p, Friends(p, followees, club)) IN
    /\ rows # {}
    /\ shown' = [shown EXCEPT ![p] =
                   [q \in Pilots |-> IF q \in Responded(rows) THEN TimeOf(q, rows) ELSE @[q]]]
    /\ UNCHANGED <<now, key, held, net, fixes, sessions, client, lost, recorded>>

------------------------------------------------------------------------------
(* The LiveTrack24 interface.  A client repeats a request whose answer it   *)
(* did not get.                                                             *)

Becomes(d, state) ==
  client' = [client EXCEPT ![d].state = state,
                           ![d].sid.high = IF state = "idle" THEN Unset ELSE @]

(* client.php: the key comes back as the user id. *)
Login(d) ==
  /\ client[d].state = "idle" /\ ByKey(held[d]) # {}
  /\ client[d].sid.low # held[d]
  /\ client' = [client EXCEPT ![d].sid.low = held[d]]
  /\ UNCHANGED <<now, key, held, net, fixes, sessions, lost, recorded, shown>>

(* A session begins with an id of the client's choice. *)
BeginSession(d) ==
  /\ client[d].state = "idle"
  /\ \E h \in Highs :
       client' = [client EXCEPT ![d].state = "opening", ![d].sid.high = h]
  /\ UNCHANGED <<now, key, held, net, fixes, sessions, lost, recorded, shown>>

(* Mutant: the right three bytes are not compared. *)
CreateUnchecked(d) ==
  /\ client[d].state = "opening"
  /\ LET sid == client[d].sid  pilots == ByKey(held[d]) IN
       IF pilots = {}
       THEN Becomes(d, "idle") /\ UNCHANGED <<sessions, lost>>
       ELSE /\ Len(sessions) < MaxSessions
            /\ \E p \in pilots :
                 sessions' = Append(sessions, [pilot |-> p, lt24_id |-> sid])
            /\ \/ Becomes(d, "flying") /\ UNCHANGED lost
               \/ lost < MaxLost /\ lost' = lost + 1 /\ UNCHANGED client
  /\ UNCHANGED <<now, key, held, net, fixes, recorded, shown>>

(* _create_session: refused unless the key is known and the id repeats it;  *)
(* a repeated request makes another session of the same id.                 *)
CreateSession(d) ==
  /\ client[d].state = "opening"
  /\ LET sid == client[d].sid  pilots == ByKey(held[d]) IN
       IF pilots = {} \/ sid.low # held[d]
       THEN Becomes(d, "idle") /\ UNCHANGED <<sessions, lost>>
       ELSE /\ Len(sessions) < MaxSessions
            /\ \E p \in pilots :
                 sessions' = Append(sessions, [pilot |-> p, lt24_id |-> sid])
            /\ \/ Becomes(d, "flying") /\ UNCHANGED lost
               \/ lost < MaxLost /\ lost' = lost + 1 /\ UNCHANGED client
  /\ UNCHANGED <<now, key, held, net, fixes, recorded, shown>>

(* TrackingSession.by_lt24_id: the newest open session of that id. *)
ById(sid) ==
  LET same == {i \in DOMAIN sessions : sessions[i].lt24_id = sid} IN
  {i \in same : \A j \in same : j <= i}

Position(p, d, user) ==
  [pilot |-> p, time |-> Stamp(d), user |-> user, stamp |-> Stamp(d), seen |-> now, udp |-> FALSE]

(* _session_fix: the time is the client's, the pilot the session's. *)
SessionFix(d) ==
  /\ client[d].state = "flying"
  /\ recorded < MaxFixes /\ recorded' = recorded + 1
  /\ fixes' = fixes \union {Position(sessions[i].pilot, d, client[d].sid.low.pilot) :
                             i \in ById(client[d].sid)}
  /\ UNCHANGED <<now, key, held, net, sessions, client, lost, shown>>

(* _sessionless_fix *)
SessionlessFix(d) ==
  /\ recorded < MaxFixes /\ recorded' = recorded + 1
  /\ fixes' = fixes \union {Position(p, d, held[d].pilot) : p \in ByKey(held[d])}
  /\ UNCHANGED <<now, key, held, net, sessions, client, lost, shown>>

(* Mutant: the end of the session is not committed. *)
FinishUncommitted(d) ==
  /\ client[d].state \in {"flying", "finishing"}
  /\ \/ Becomes(d, "idle")
     \/ client[d].state = "flying" /\ Becomes(d, "finishing")
  /\ UNCHANGED <<now, key, held, net, fixes, sessions, lost, recorded, shown>>

(* _finish_session ends the newest one; without an open session it answers  *)
(* 404, which the client takes for the end too.                             *)
FinishSession(d) ==
  /\ client[d].state \in {"flying", "finishing"}
  /\ sessions' = IF ById(client[d].sid) = {} THEN sessions
                 ELSE RemoveAt(sessions, CHOOSE i \in ById(client[d].sid) : TRUE)
  /\ \/ Becomes(d, "idle")
     \/ client[d].state = "flying" /\ Becomes(d, "finishing")
  /\ UNCHANGED <<now, key, held, net, fixes, lost, recorded, shown>>

------------------------------------------------------------------------------
Next ==
  \/ Tick
  \/ \E p \in Pilots : GenerateKey(p) \/ Clear(p)
  \/ \E m \in net : FixReceived(m) \/ Lose(m)
  \/ \E d \in Devices :
       \/ Configure(d) \/ Send(d) \/ TrafficRequest(d) \/ Login(d)
       \/ BeginSession(d) \/ CreateSession(d) \/ SessionFix(d)
       \/ SessionlessFix(d) \/ FinishSession(d)

Spec == Init /\ [][Next]_vars

------------------------------------------------------------------------------
(* A fix that comes within the half hour from a device that is not ahead    *)
(* has the time of the device, also when midnight has passed since; with a  *)
(* device that is a little ahead the difference stays below three minutes;  *)
(* and whatever a datagram says, no fix gets a time further in the future   *)
(* than that or older than what the two branches of fixReceived allow.      *)
TimesKept ==
  \A f \in fixes : f.udp =>
    /\ f.stamp \in (f.seen - Late + 1) .. f.seen => f.time = f.stamp
    /\ f.stamp \in (f.seen - Late + 1) .. (f.seen + Early - 1) =>
         f.time - f.stamp \in (1 - Early) .. (Early - 1)
    /\ f.time \in (f.seen - Late - (Day - Evening) + 1) .. (f.seen + Early - 1)

(* However keys are replaced and devices handed on, a position is stored    *)
(* for the pilot whose key the device or its session was set up with.       *)
OwnFixesOnly == \A f \in fixes : f.pilot = f.user

(* Clients that are done leave no session open, except one for each time    *)
(* that a request to open one was repeated because its answer was lost;     *)
(* two devices whose ids meet may end each other's session, but no more.    *)
LeftOpen ==
  Len(sessions) <= Cardinality({d \in Devices : client[d].state # "idle"}) + lost

(* The position of another pilot in the traffic responses never goes back   *)
(* in time, in whatever order the fixes arrive, until they are cleared.     *)
TrafficForward ==
  [][\A p, q \in Pilots : shown'[p][q] >= shown[p][q] \/ \A f \in fixes' : f.pilot # q]_vars

==============================================================================
