------------------------------ MODULE MCUpload -------------------------------
(* Small instances of Upload for TLC. *)
EXTENDS Upload

CONSTANTS u1, u2, u3, d1, d2

MCData == {"good", "fine", "dateless", "fixless", "pathless"}
MCVerdict ==
  [d \in MCData |-> CASE d = "dateless" -> "MISSING_DATE"
                      [] d = "fixless"  -> "PARSER_ERROR"
                      [] d = "pathless" -> "NO_FLIGHT"
                      [] OTHER          -> "SUCCESS"]

Named(data, name) == [data |-> data, name |-> name]

(* Every archive of one or two files, all called alike, and one file whose  *)
(* own name is the one that next_filename makes of the first.               *)
MCItems == {Named(d, 0) : d \in MCData} \union {Named("good", 1)}
SerialBatches == {<<i>> : i \in MCItems} \union {<<i, j>> : i, j \in MCItems}

(* Archives that race: for a digest, for a name, and one whose file is      *)
(* rejected after it has been stored.                                       *)
RacingBatches ==
  {<<Named("good", 0), Named("fine", 0)>>, <<Named("fine", 0)>>, <<Named("dateless", 0)>>}
==============================================================================
