---------------------------- MODULE TrackSessions ----------------------------
(***************************************************************************)
(* How the commands "tracking export" and "tracking stats" cut the fixes   *)
(* of a pilot, in the order of their times, into sessions wherever more    *)
(* than three hours pass without a fix.  Both run the same loop; one       *)
(* writes a file for each session, the other counts.                       *)
(***************************************************************************)
EXTENDS Days, SequencesExt

CONSTANTS
  Tracks,  \* the pilot's fixes, sequences of times that never decrease
  Gap,     \* three hours
  Far      \* 999999, the first bound for min_dt

ASSUME TracksAssumption ==
  \A t \in Tracks : t \in Seq(Nat) /\ \A k, l \in DOMAIN t : k <= l => t[k] <= t[l]
ASSUME GapAssumption == Gap \in Nat /\ Far \in Nat /\ Gap < Far

VARIABLES
  track,    \* the rows of the query
  passed,   \* fixes that the loop has been through
  files,    \* the files of the export: their names and fixes
  flights,  \* the export's counter for each date of a fix
  session,  \* the session that the statistics count
  finished  \* those that have ended

exportVars == <<track, passed, files, flights, session, finished>>

ExportInit ==
  /\ track \in Tracks
  /\ passed = 0
  /\ files = <<>>
  /\ flights = [d \in {Midnight(t) : t \in Range(track)} |-> 0]
  /\ session = [start |-> 0, num_fixes |-> 0, min_dt |-> Far, max_dt |-> 0]
  /\ finished = <<>>

(* fix, when there is one *)
ThisFix == track[passed + 1]
Dt == ThisFix - track[passed]

(* Mutant: also a gap of exactly three hours ends a session. *)
NewSessionAtGap == passed < Len(track) /\ (passed > 0 => Dt >= Gap)

(* is_start or is_new_session *)
NewSession == passed < Len(track) /\ (passed > 0 => Dt > Gap)

(* get_filename: the number counts the sessions that begin on a date. *)
Name(fix) == <<Midnight(fix), flights[Midnight(fix)] + 1>>

(* write_fix, and the counters of the session *)
ContinueSession ==
  /\ passed < Len(track) /\ ~NewSession
  /\ files' = [files EXCEPT ![Len(files)].fixes = Append(@, ThisFix)]
  /\ session' = [session EXCEPT !.num_fixes = @ + 1,
                                !.min_dt = IF Dt < @ THEN Dt ELSE @,
                                !.max_dt = IF Dt > @ THEN Dt ELSE @]
  /\ passed' = passed + 1
  /\ UNCHANGED <<track, flights, finished>>

(* The session as it is at its last fix. *)
Ended == [start |-> session.start, end |-> track[passed], num_fixes |-> session.num_fixes,
          min_dt |-> session.min_dt, max_dt |-> session.max_dt]

(* Mutant: the bounds of the previous session are not forgotten. *)
StartCounting ==
  /\ NewSession
  /\ finished' = IF passed = 0 THEN finished ELSE Append(finished, Ended)
  /\ files' = Append(files, [name |-> Name(ThisFix), fixes |-> <<ThisFix>>])
  /\ flights' = [flights EXCEPT ![Midnight(ThisFix)] = @ + 1]
  /\ session' = [session EXCEPT !.start = ThisFix, !.num_fixes = 1]
  /\ passed' = passed + 1
  /\ UNCHANGED track

StartSession ==
  /\ NewSession
  /\ finished' = IF passed = 0 THEN finished ELSE Append(finished, Ended)
  /\ files' = Append(files, [name |-> Name(ThisFix), fixes |-> <<ThisFix>>])
  /\ flights' = [flights EXCEPT ![Midnight(ThisFix)] = @ + 1]
  /\ session' = [start |-> ThisFix, num_fixes |-> 1, min_dt |-> Far, max_dt |-> 0]
  /\ passed' = passed + 1
  /\ UNCHANGED track

(* The None at the end of the chain. *)
EndOfTrack ==
  /\ passed = Len(track) /\ passed > 0 /\ Len(finished) < Len(files)
  /\ finished' = Append(finished, Ended)
  /\ UNCHANGED <<track, passed, files, flights, session>>

ExportNext == ContinueSession \/ StartSession \/ EndOfTrack
ExportSpec == ExportInit /\ [][ExportNext]_exportVars

------------------------------------------------------------------------------
(* The first fix, and each that comes more than three hours after another.  *)
Beginnings == {k \in 1 .. passed : k > 1 => track[k] - track[k - 1] > Gap}

(* The n-th file of the export holds the fixes from the n-th beginning up   *)
(* to the next: each fix that has been read is in one file, in order; and   *)
(* no file overwrites another.                                              *)
FilesSplit ==
  /\ Len(files) = Cardinality(Beginnings)
  /\ \A k \in Beginnings : \A l \in k .. passed :
       Beginnings \intersect k + 1 .. l = {} /\ (l < passed => l + 1 \in Beginnings) =>
         files[Cardinality(Beginnings \intersect 1 .. k)].fixes = SubSeq(track, k, l)
  /\ \A m, n \in DOMAIN files : files[m].name = files[n].name => m = n

(* The statistics agree with the files of the export: start, end, number of *)
(* fixes, the shortest and the longest time between two fixes, and with     *)
(* them the average between the two and a quality of at most 100%.          *)
StatsMatchFiles ==
  \A n \in DOMAIN finished : LET s == finished[n]  f == files[n].fixes IN
    /\ s.start = f[1] /\ s.end = Last(f) /\ s.num_fixes = Len(f)
    /\ LET dts == {f[k + 1] - f[k] : k \in 1 .. Len(f) - 1} IN
         dts # {} =>
           /\ {s.min_dt, s.max_dt} \subseteq dts
           /\ \A dt \in dts : s.min_dt <= dt /\ dt <= s.max_dt
           /\ (s.end - s.start) \in s.min_dt * (Len(f) - 1) .. s.max_dt * (Len(f) - 1)

==============================================================================
