----------------------------- MODULE FlightStore -----------------------------
(***************************************************************************)
(* What the flight database promises to the rest of SkyLines: a request    *)
(* publishes all of its flights in one atomic step, at most once, no two   *)
(* stored IGC files ever have the same MD5, and a flight leaves the store  *)
(* only by being deleted.  Upload implements this specification.           *)
(***************************************************************************)
EXTENDS Naturals

CONSTANTS
  Uploads,  \* upload requests
  Digest,   \* MD5 digests
  Names     \* names in SKYLINES_FILES_PATH

VARIABLES
  store,    \* the stored flights, each with its IGC file
  served    \* the upload requests whose transaction has committed

storeVars == <<store, served>>

(* A row of flights joined with its row of igc_files.  The id <<r, i>> says  *)
(* which item of which request created it.                                  *)
Row == [id: Uploads \X Nat, md5: Digest, file: Names]

OneRowPerDigest(rows) == \A a, b \in rows : a.md5 = b.md5 => a = b

StoreInit ==
  /\ store = {}
  /\ served = {}

(* Request r publishes its flights, possibly none. *)
Publish(r) ==
  /\ r \in Uploads \ served
  /\ served' = served \union {r}
  /\ store \subseteq store'
  /\ \A row \in store' \ store : row \in Row /\ row.id[1] = r
  /\ OneRowPerDigest(store')

(* Somebody deletes the flight of one row. *)
Remove ==
  /\ \E row \in store : store' = store \ {row}
  /\ UNCHANGED served

StoreNext == Remove \/ \E r \in Uploads : Publish(r)

StoreSpec == StoreInit /\ [][StoreNext]_storeVars

==============================================================================
