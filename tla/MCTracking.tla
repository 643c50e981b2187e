----------------------------- MODULE MCTracking ------------------------------
(* Small instances of Tracking and TrackSessions for TLC. *)
EXTENDS Tracking, TrackSessions

CONSTANTS d1, d2

(* One device keeps the server's time, the other is ahead. *)
MCSkew == [d \in Devices |-> IF d = d1 THEN 0 ELSE 1]
MCFollows == {<<1, 2>>}
MCClub == [p \in Pilots |-> NoClub]

(* Tracks of up to five fixes, from two times of day, with times between    *)
(* them on both sides of the gap.                                           *)
TracksFrom[n \in 1 .. 5] ==
  IF n = 1 THEN {<<0>>, <<Day - 2>>}
  ELSE LET shorter == TracksFrom[n - 1] IN
       shorter \union {Append(t, t[Len(t)] + dt) : t \in shorter, dt \in {0, 1, Gap, Gap + 1}}
MCTracks == {<<>>} \union TracksFrom[5]

(* Sessions do not depend on the clock, nor datagrams on sessions: a        *)
(* behaviour has datagrams and traffic requests while the clock runs, or    *)
(* sessions, logins, new keys for pilot 1 and one position at one moment,   *)
(* or an export of positions that are in the table.                         *)
VARIABLE mode

Datagrams == UNCHANGED <<sessions, client, lost, key, held>> /\ \A f \in fixes' : f.udp
Sessions ==
  /\ now' = Start /\ net' = {} /\ UNCHANGED <<shown, key[2]>>
  /\ recorded' <= 1 /\ \A f \in fixes' : ~f.udp

MCInit ==
  /\ Init /\ ExportInit
  /\ \/ mode \in {"datagrams", "sessions"} /\ track = <<>>
     \/ mode = "export" /\ \A d \in Devices : held[d] = FirstKey(1)

MCNext ==
  /\ UNCHANGED mode
  /\ \/ mode = "datagrams" /\ Next /\ Datagrams /\ UNCHANGED exportVars
     \/ mode = "sessions" /\ Next /\ Sessions /\ UNCHANGED exportVars
     \/ mode = "export" /\ ExportNext /\ UNCHANGED vars

MCSpec == MCInit /\ [][MCNext]_<<vars, exportVars, mode>>
==============================================================================
