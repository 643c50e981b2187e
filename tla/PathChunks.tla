----------------------------- MODULE PathChunks ------------------------------
(***************************************************************************)
(* Flight.update_flight_path cuts the detailed path of a flight into the   *)
(* rows of flight_path_chunks, on which the search for near flights works. *)
(* A chunk is the interval [from, to] of the fixes it holds; fixes are     *)
(* numbered from 0.  The coordinates are left out.                         *)
(***************************************************************************)
EXTENDS Naturals

CONSTANTS
  NumPoints,  \* number of points in each chunk, 100 in the code
  Lengths,    \* lengths of the path that flight_path returns
  Previous    \* what a flight's rows may be before, sets of chunks

PathChunk == [from: Nat, to: Nat]

ASSUME NumPointsAssumption == NumPoints \in Nat /\ NumPoints >= 2
ASSUME LengthsAssumption == Lengths \subseteq Nat
ASSUME PreviousAssumption == Previous \subseteq SUBSET PathChunk

VARIABLES
  fixes,   \* len(path_detailed)
  i, j,    \* the current chunk
  chunks,  \* the rows of the flight
  result   \* "call", "cutting", or what the method has returned

cutVars == <<fixes, i, j, chunks, result>>

CutInit ==
  /\ fixes \in Lengths
  /\ chunks \in Previous
  /\ i = 0 /\ j = 0
  /\ result = "call"

(* The end of a chunk that would stop at fix k: not beyond the last fix, and *)
(* at the last fix if only that one would be left over.                      *)
ChunkEnd(k) == IF k < fixes - 2 THEN k ELSE fixes - 1

(* A path of less than two fixes is refused. *)
Refuse ==
  /\ result = "call" /\ fixes < 2
  /\ result' = "False"
  /\ UNCHANGED <<fixes, i, j, chunks>>

(* Mutant: the rows of the previous path are not deleted. *)
BeginKeepingRows ==
  /\ result = "call" /\ fixes >= 2
  /\ j' = ChunkEnd(NumPoints - 1)
  /\ result' = "cutting"
  /\ UNCHANGED <<fixes, i, chunks>>

(* The previous rows of the flight are deleted and the first chunk begins. *)
BeginCut ==
  /\ result = "call" /\ fixes >= 2
  /\ j' = ChunkEnd(NumPoints - 1)
  /\ chunks' = {}
  /\ result' = "cutting"
  /\ UNCHANGED <<fixes, i>>

(* One row of the table, and the next chunk if fixes are left. *)
Cut ==
  /\ result = "cutting"
  /\ chunks' = chunks \union {[from |-> i, to |-> j]}
  /\ IF j = fixes - 1
     THEN result' = "True" /\ UNCHANGED <<i, j>>
     ELSE i' = j + 1 /\ j' = ChunkEnd(j + NumPoints) /\ UNCHANGED result
  /\ UNCHANGED fixes

CutNext == Refuse \/ BeginCut \/ Cut

CutSpec == CutInit /\ [][CutNext]_cutVars

------------------------------------------------------------------------------
(* Every variable stays within its type, and the loop never indexes a fix   *)
(* beyond the end of the path.                                              *)
CutTypeOK ==
  /\ fixes \in Nat /\ i \in Nat /\ j \in Nat
  /\ chunks \in SUBSET PathChunk
  /\ result \in {"call", "cutting", "True", "False"}
  /\ result = "cutting" => j < fixes

Holds(chunk, k) == chunk.from <= k /\ k <= chunk.to

(* Every fix of the path is in exactly one row, and no row reaches beyond   *)
(* the path or is left from a previous one: a fix in no row would make the  *)
(* search miss a meeting, a fix in two rows would count it twice.           *)
Partition ==
  result = "True" =>
    /\ \A k \in 0 .. fixes - 1 : \E c \in chunks : Holds(c, k)
    /\ \A c, d \in chunks : \A k \in 0 .. fixes - 1 : Holds(c, k) /\ Holds(d, k) => c = d
    /\ \A c \in chunks : c.to <= fixes - 1

(* "Ensure that the last chunk contains at least two fixes": no row is too  *)
(* short for a LineString, and none exceeds NumPoints by more than one fix. *)
ChunkSizes ==
  result = "True" =>
    \A c \in chunks : c.from < c.to /\ c.to - c.from <= NumPoints

(* The search for near flights, which compares the rows of two flights,     *)
(* misses no fix and counts none twice, and no row is too short for it.     *)
ChunksOfPath == Partition /\ ChunkSizes
==============================================================================
