----------------------------- MODULE Collectors -----------------------------
(***************************************************************************)
(* get_collector (exporter/collectors/__init__.py) and the collectors it   *)
(* makes that keep something while a scrape runs or from one scrape to the *)
(* next: EdgeServer its readings, Jetson its processes.                    *)
(*                                                                         *)
(* The collectors of raspberry_pi, orange_pi and lattepanda only raise     *)
(* NotImplementedError, the one of stub computes numbers from the time,    *)
(* and the one of shelly asks the Shelly server (module ShellyServer).     *)
(***************************************************************************)
EXTENDS EdgeServer, Jetson

VARIABLE device  \* device_type

BoardOf ==
  [jetson_orin |-> "orin", jetson |-> "orin",
   jetson_orin_nano |-> "orin_nano", orin_nano |-> "orin_nano",
   jetson_xavier |-> "xavier", jetson_nano |-> "nano"]

collectorsVars == <<vars, jetsonVars, device>>

(* One collector is made; the part of the other is at rest.                *)
CollectorsInit ==
  /\ Init /\ JetsonInit
  /\ \/ /\ device = "edge_server"
        /\ board = "orin" /\ root
     \/ /\ device \in DOMAIN BoardOf
        /\ board = BoardOf[device]
        /\ register = 0 /\ range = 0

CollectorsNext ==
  /\ \/ device = "edge_server" /\ Next /\ UNCHANGED jetsonVars
     \/ device \in DOMAIN BoardOf /\ JetsonNext /\ UNCHANGED vars
  /\ UNCHANGED device

CollectorsSpec == CollectorsInit /\ [][CollectorsNext]_collectorsVars
=============================================================================
