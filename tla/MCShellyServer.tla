--------------------------- MODULE MCShellyServer ---------------------------
(* Instances of ShellyServer for TLC: a plug answers with an error, or     *)
(* with a result some field of which does not convert.                     *)
EXTENDS ShellyServer, TLC

CONSTANTS failure, partial

MCResult ==
  failure :> None @@
  partial :> [f \in {Field[i] : i \in DOMAIN Field} \cup {"errors"} |->
                IF f \in {"output", "apower", "aenergy"} THEN 1
                ELSE IF f = "ret_aenergy" THEN Bad
                ELSE IF f = "errors" THEN {"overtemp"} ELSE None]

Symmetry == Permutations(Scrape) \cup Permutations(Conn)
=============================================================================
