--------------------------- MODULE MCConfigServer ---------------------------
(* Instances of ConfigServer for TLC.  Devices share no state but the      *)
(* process, so one device and many requests on it is the hard case.        *)
EXTENDS ConfigServer, TLC

CONSTANTS d1, i1, i2, bad, raw, c1, c2

Req(op, ip, conf) == [op |-> op, dev |-> d1, body |-> [ip |-> ip, conf |-> conf]]

MCCalls ==
  { Req("POST", i1, c1), Req("POST", bad, c1),
    Req("PUT", i2, c1), Req("PUT", Omitted, c2), Req("PUT", bad, c1),
    Req("PATCH", i2, Omitted), Req("PATCH", Omitted, c2), Req("PATCH", bad, c2),
    Req("PATCH_DEVICE", i1, Omitted),
    Req("DELETE", Omitted, Omitted), Req("GET", Omitted, Omitted) }

(* SEED_DEVICES is not validated: its entry may have a restricted address. *)
MCSeed == d1 :> [ip |-> raw, conf |-> c1]

Symmetry == Permutations(Request)
=============================================================================
