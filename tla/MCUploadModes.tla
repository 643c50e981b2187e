---------------------------- MODULE MCUploadModes -----------------------------
(* Upload for TLC, once with requests one after the other and every archive *)
(* of up to two files, once with requests in parallel and a few archives    *)
(* that race for a name and a digest.                                       *)
EXTENDS MCUpload

VARIABLE parallel

MCInit == Init /\ parallel \in BOOLEAN
MCNext ==
  /\ Next /\ UNCHANGED parallel
  /\ IF parallel THEN \A r \in Uploads : batch'[r] \in RacingBatches \union {<<>>}
     ELSE Cardinality({r \in Requests : pc'[r] \in Active}) <= 1
MCSpec == MCInit /\ [][MCNext]_<<vars, parallel>>

(* Stated of one request at a time: see FilesIntact. *)
SerialFilesIntact == ~parallel => FilesIntact

(* Stated of one request at a time: see GoodFlightsStored. *)
SerialGoodFlightsStored == ~parallel => GoodFlightsStored

(* Stated of one request at a time: see RepeatsNeverFail. *)
SerialRepeatsNeverFail == ~parallel => RepeatsNeverFail
==============================================================================
