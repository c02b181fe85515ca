---------------------------- MODULE ConfigServer ----------------------------
(***************************************************************************)
(* The HTTP handlers of the config server that read and write the device   *)
(* table (server/handlers/config_handlers.go, device_handlers.go) over the *)
(* SQLite store (server/repository/device_repository.go), and the boot of   *)
(* the process (server/main.go).                                            *)
(*                                                                         *)
(* gin runs every request in its own goroutine and the store opens no      *)
(* transaction, so what is atomic is one SQL statement: each action below  *)
(* is one statement together with the code up to the next one.             *)
(*                                                                         *)
(* A row keeps two parts: `ip' (ip_address) and `conf', which stands for   *)
(* device_type, port, reload_port, enabled_metrics and extra_config taken  *)
(* together.  A request body gives a value to each part or omits it.       *)
(***************************************************************************)
EXTENDS Naturals, FiniteSets

CONSTANTS
  Device,       \* device ids that pass ValidateDeviceID
  Request,      \* HTTP requests
  GoodIP,       \* addresses isValidIP and isSSRFSafe both accept
  BadIP,        \* malformed or restricted addresses
  NoIP,         \* the empty string, "no address known"
  Conf,         \* values of the rest of a row
  Omitted,      \* the request body does not mention the field
  NoRow,        \* no row under this device id
  NoCall,       \* the request has not arrived
  Calls,        \* the requests clients make
  Seed,         \* SEED_DEVICES: a function from some devices to their rows
  MaxInFlight,  \* bound: requests handled at the same time
  MaxBoots,     \* bound: starts of the server process
  DbErrors      \* whether a SQL statement may fail (locked, disk full, ...)

SeedIP == {Seed[d].ip : d \in DOMAIN Seed}
(* The addresses a row can have been given by a handler or by the seed. *)
VettedIP == GoodIP \cup {NoIP} \cup SeedIP
AnyIP == GoodIP \cup BadIP \cup {NoIP}
Row == [ip : AnyIP, conf : Conf]

Op == {"POST", "PUT", "PATCH", "PATCH_DEVICE", "DELETE", "GET"}
Body == [ip : AnyIP \cup {Omitted}, conf : Conf \cup {Omitted}]
Call == [op : Op, dev : Device, body : Body]

ASSUME ServerConstants ==
  /\ DOMAIN Seed \subseteq Device
  /\ \A d \in DOMAIN Seed : Seed[d] \in Row
  /\ NoRow \notin Row
  /\ NoCall \notin Call
  /\ Calls \subseteq Call
  /\ Omitted \notin AnyIP \cup Conf
  /\ GoodIP \cap (BadIP \cup {NoIP}) = {}
  /\ MaxInFlight \in Nat \ {0}
  /\ MaxBoots \in Nat \ {0}
  /\ DbErrors \in BOOLEAN
  /\ IsFiniteSet(Request)

(* The statement a handler runs next; "reload" is the POST /reload it      *)
(* sends to the device before it answers.                                  *)
Statement == {"post_exists", "post_insert", "put_get", "upsert_exists",
              "upsert_insert", "update_get", "update_write", "patch_get",
              "delete_row", "get_row"}
Pc == Statement \cup {"new", "reload", "answered", "lost"}
Open == Statement \cup {"reload"}

Verdict == {"none", "created", "registered", "updated", "patched", "deleted",
            "found", "bad_request", "not_found", "conflict", "error"}

VARIABLES
  rows,      \* the devices table: [Device -> Row or NoRow]
  server,    \* "down", "seeding" or "serving"
  unseeded,  \* the entries of SEED_DEVICES seedDevices has not reached
  boots,     \* starts of the process so far
  pc,        \* [Request -> Pc]
  call,      \* [Request -> Call or NoCall]
  image,     \* [Request -> Row or NoRow]: the config value the handler builds
  verdict    \* [Request -> Verdict]: the answer, fixed with its last statement

vars == <<rows, server, unseeded, boots, pc, call, image, verdict>>
process == <<server, unseeded, boots>>

-----------------------------------------------------------------------------
(* Requests                                                                *)

Present(d) == rows[d] # NoRow

Answer(r, v) ==
  /\ pc' = [pc EXCEPT ![r] = "answered"]
  /\ verdict' = [verdict EXCEPT ![r] = v]

Goto(r, label) ==
  /\ pc' = [pc EXCEPT ![r] = label]
  /\ UNCHANGED verdict

(* PUT without an address looks the stored one up first; with one it       *)
(* validates it before it touches the store.                               *)
FirstStatement(c) ==
  CASE c.op = "POST" -> "post_exists"
    [] c.op \in {"PATCH", "PATCH_DEVICE"} -> "patch_get"
    [] c.op = "DELETE" -> "delete_row"
    [] c.op = "GET" -> "get_row"
    [] c.op = "PUT" -> IF c.body.ip \in {Omitted, NoIP}
                       THEN "put_get" ELSE "upsert_exists"

RejectedAtOnce(c) ==
  /\ c.op = "PUT"
  /\ \/ c.body.conf = Omitted
     \/ c.body.ip \notin GoodIP \cup {Omitted, NoIP}

Given(c) == [ip |-> IF c.body.ip = Omitted THEN NoIP ELSE c.body.ip,
             conf |-> c.body.conf]

Receive(r, c) ==
  /\ server = "serving"
  /\ pc[r] = "new"
  /\ Cardinality({q \in Request : pc[q] \in Open}) < MaxInFlight
  /\ call' = [call EXCEPT ![r] = c]
  /\ IF RejectedAtOnce(c)
     THEN Answer(r, "bad_request") /\ UNCHANGED image
     ELSE /\ Goto(r, FirstStatement(c))
          /\ image' = IF c.op = "PUT" THEN [image EXCEPT ![r] = Given(c)]
                      ELSE image
  /\ UNCHANGED <<rows, process>>

(* CreateConfig: Exists, then the checks of the body, then Create.         *)
PostExists(r) ==
  LET c == call[r] IN
  /\ pc[r] = "post_exists"
  /\ \/ /\ Present(c.dev)
        /\ Answer(r, "conflict")
        /\ UNCHANGED image
     \/ /\ ~Present(c.dev)
        /\ c.body.conf = Omitted \/ c.body.ip \notin GoodIP
        /\ Answer(r, "bad_request")
        /\ UNCHANGED image
     \/ /\ ~Present(c.dev)
        /\ c.body.conf # Omitted /\ c.body.ip \in GoodIP
        /\ Goto(r, "post_insert")
        /\ image' = [image EXCEPT ![r] = Given(c)]
  /\ UNCHANGED <<rows, process, call>>

(* Variant: the INSERT replaces a row that is already there.                *)
InsertOrReplace(r) ==
  rows' = [rows EXCEPT ![call[r].dev] = image[r]]

(* The INSERT of Store.Create: the primary key refuses a second row.       *)
Insert(r) ==
  /\ ~Present(call[r].dev)
  /\ rows' = [rows EXCEPT ![call[r].dev] = image[r]]

PostInsert(r) ==
  /\ pc[r] = "post_insert"
  /\ \/ Insert(r) /\ Answer(r, "created")
     \/ Present(call[r].dev) /\ Answer(r, "error") /\ UNCHANGED rows
  /\ UNCHANGED <<process, call, image>>

(* UpdateConfig without an address: take the stored one, if there is any;  *)
(* an error of this Get is ignored and leaves the address empty.           *)
PutGet(r) ==
  LET d == call[r].dev IN
  /\ pc[r] = "put_get"
  /\ image' = [image EXCEPT ![r].ip = IF Present(d) THEN rows[d].ip ELSE NoIP]
  /\ Goto(r, "upsert_exists")
  /\ UNCHANGED <<rows, process, call>>

PutGetFails(r) ==
  /\ DbErrors
  /\ pc[r] = "put_get"
  /\ Goto(r, "upsert_exists")
  /\ UNCHANGED <<rows, process, call, image>>

UpsertExists(r) ==
  /\ pc[r] = "upsert_exists"
  /\ Goto(r, IF Present(call[r].dev) THEN "update_get" ELSE "upsert_insert")
  /\ UNCHANGED <<rows, process, call, image>>

(* After a write PUT and PATCH /config call the device's /reload, unless   *)
(* the config they wrote has no address; PATCH /devices never does.        *)
AnswerOrReload(r, v) ==
  /\ pc' = [pc EXCEPT ![r] = IF image[r].ip # NoIP /\ call[r].op # "PATCH_DEVICE"
                             THEN "reload" ELSE "answered"]
  /\ verdict' = [verdict EXCEPT ![r] = v]

UpsertInsert(r) ==
  /\ pc[r] = "upsert_insert"
  /\ \/ Insert(r) /\ AnswerOrReload(r, "registered")
     \/ Present(call[r].dev) /\ Answer(r, "error") /\ UNCHANGED rows
  /\ UNCHANGED <<process, call, image>>

(* Store.Update: a Get, whose missing row is an error, then the UPDATE.    *)
UpdateGet(r) ==
  /\ pc[r] = "update_get"
  /\ IF Present(call[r].dev) THEN Goto(r, "update_write") ELSE Answer(r, "error")
  /\ UNCHANGED <<rows, process, call, image>>

(* Variant: an UPDATE that matches no row inserts it.                       *)
WriteOrInsert(r) ==
  /\ pc[r] = "update_write"
  /\ rows' = [rows EXCEPT ![call[r].dev] = image[r]]
  /\ AnswerOrReload(r, IF call[r].op = "PATCH" THEN "patched" ELSE "updated")
  /\ UNCHANGED <<process, call, image>>

(* The UPDATE writes every column; that it matched no row is not noticed.  *)
UpdateWrite(r) ==
  LET d == call[r].dev IN
  /\ pc[r] = "update_write"
  /\ rows' = IF Present(d) THEN [rows EXCEPT ![d] = image[r]] ELSE rows
  /\ AnswerOrReload(r, IF call[r].op = "PATCH" THEN "patched" ELSE "updated")
  /\ UNCHANGED <<process, call, image>>

(* Variant: omitted fields are stored as omitted.                          *)
MergeRaw(row, body) == body

(* PatchConfig and PatchDevice: Get, check the address, merge the body     *)
(* into the row just read.                                                 *)
Merge(row, body) ==
  [ip |-> IF body.ip = Omitted THEN row.ip ELSE body.ip,
   conf |-> IF body.conf = Omitted THEN row.conf ELSE body.conf]

(* Variant: the address of the body is not validated.                       *)
PatchGetUnchecked(r) ==
  LET c == call[r] IN
  /\ pc[r] = "patch_get"
  /\ Present(c.dev)
  /\ Goto(r, "update_get")
  /\ image' = [image EXCEPT ![r] = Merge(rows[c.dev], c.body)]
  /\ UNCHANGED <<rows, process, call>>

PatchGet(r) ==
  LET c == call[r] IN
  /\ pc[r] = "patch_get"
  /\ \/ ~Present(c.dev) /\ Answer(r, "not_found") /\ UNCHANGED image
     \/ /\ Present(c.dev)
        /\ c.body.ip \notin GoodIP \cup {Omitted}
        /\ Answer(r, "bad_request")
        /\ UNCHANGED image
     \/ /\ Present(c.dev)
        /\ c.body.ip \in GoodIP \cup {Omitted}
        /\ Goto(r, "update_get")
        /\ image' = [image EXCEPT ![r] = Merge(rows[c.dev], c.body)]
  /\ UNCHANGED <<rows, process, call>>

DeleteRow(r) ==
  LET d == call[r].dev IN
  /\ pc[r] = "delete_row"
  /\ \/ Present(d) /\ rows' = [rows EXCEPT ![d] = NoRow] /\ Answer(r, "deleted")
     \/ ~Present(d) /\ Answer(r, "not_found") /\ UNCHANGED rows
  /\ UNCHANGED <<process, call, image>>

GetRow(r) ==
  /\ pc[r] = "get_row"
  /\ Answer(r, IF Present(call[r].dev) THEN "found" ELSE "not_found")
  /\ UNCHANGED <<rows, process, call, image>>

(* A statement fails and the handler answers 500.                          *)
DbError(r) ==
  /\ DbErrors
  /\ pc[r] \in Statement \ {"put_get"}
  /\ Answer(r, "error")
  /\ UNCHANGED <<rows, process, call, image>>

(* TriggerDeviceReload: at most two seconds, then the answer either way.   *)
Reload(r) ==
  /\ pc[r] = "reload"
  /\ Goto(r, "answered")
  /\ UNCHANGED <<rows, process, call, image>>

-----------------------------------------------------------------------------
(* The process                                                             *)

Boot ==
  /\ server = "down"
  /\ boots < MaxBoots
  /\ server' = "seeding"
  /\ unseeded' = DOMAIN Seed
  /\ boots' = boots + 1
  /\ UNCHANGED <<rows, pc, call, image, verdict>>

(* seedDevices: Exists (an error of which counts as "absent"), then Create *)
(* (an error of which skips the entry).                                    *)
SeedDevice(d) ==
  /\ server = "seeding"
  /\ d \in unseeded
  /\ unseeded' = unseeded \ {d}
  /\ \/ ~Present(d) /\ rows' = [rows EXCEPT ![d] = Seed[d]]
     \/ (Present(d) \/ DbErrors) /\ UNCHANGED rows
  /\ UNCHANGED <<server, boots, pc, call, image, verdict>>

Serve ==
  /\ server = "seeding"
  /\ unseeded = {}
  /\ server' = "serving"
  /\ UNCHANGED <<rows, unseeded, boots, pc, call, image, verdict>>

(* The process ends, killed or by a Shutdown whose ten seconds ran out:    *)
(* committed statements stay, the handlers are gone.                       *)
Stop ==
  /\ server # "down"
  /\ server' = "down"
  /\ unseeded' = {}
  /\ pc' = [r \in Request |-> IF pc[r] \in Open THEN "lost" ELSE pc[r]]
  /\ UNCHANGED <<rows, boots, call, image, verdict>>

-----------------------------------------------------------------------------
(* The table of an earlier run of the server: rows its handlers wrote.     *)
Init ==
  /\ rows \in [Device -> [ip : VettedIP, conf : Conf] \cup {NoRow}]
  /\ server = "down"
  /\ unseeded = {}
  /\ boots = 0
  /\ pc = [r \in Request |-> "new"]
  /\ call = [r \in Request |-> NoCall]
  /\ image = [r \in Request |-> NoRow]
  /\ verdict = [r \in Request |-> "none"]

Handle(r) ==
  \/ PostExists(r) \/ PostInsert(r)
  \/ PutGet(r) \/ PutGetFails(r)
  \/ UpsertExists(r) \/ UpsertInsert(r)
  \/ UpdateGet(r) \/ UpdateWrite(r)
  \/ PatchGet(r)
  \/ DeleteRow(r)
  \/ GetRow(r)
  \/ DbError(r)
  \/ Reload(r)

Next ==
  \/ \E r \in Request : (\E c \in Calls : Receive(r, c)) \/ Handle(r)
  \/ Boot
  \/ \E d \in Device : SeedDevice(d)
  \/ Serve
  \/ Stop

Spec == Init /\ [][Next]_vars
-----------------------------------------------------------------------------
(* Properties                                                              *)

TypeOK ==
  /\ rows \in [Device -> Row \cup {NoRow}]
  /\ server \in {"down", "seeding", "serving"}
  /\ unseeded \subseteq DOMAIN Seed
  /\ boots \in 0..MaxBoots
  /\ pc \in [Request -> Pc]
  /\ call \in [Request -> Call \cup {NoCall}]
  /\ image \in [Request -> Row \cup {NoRow}]
  /\ verdict \in [Request -> Verdict]

(* No interleaving of handlers stores an address that was not validated:   *)
(* every stored address passed isValidIP and isSSRFSafe, is empty, or came *)
(* from SEED_DEVICES, also when PUT and PATCH copy it from an older row.   *)
AddressesVetted ==
  \A d \in Device : Present(d) => rows[d].ip \in VettedIP

With(d, vs) ==
  {r \in Request : call[r] # NoCall /\ call[r].dev = d /\ verdict[r] \in vs}

Creators(d) == With(d, {"created", "registered"})
Removers(d) == With(d, {"deleted"})

(* Two clients are never both told that they registered a device unless    *)
(* one was told in between that it deleted it: of the creators of a device *)
(* at most one is not paid for by a deletion, and none if it is gone.      *)
CreatorsPaidFor ==
  \A d \in Device :
    Cardinality(Creators(d)) <=
      Cardinality(Removers(d)) + (IF Present(d) THEN 1 ELSE 0)

(* The handlers implement the atomic registry of module Registry: a        *)
(* request is open from its arrival to its answer, and its effect is the   *)
(* one its answer reports.                                                 *)
PhaseOf(label) ==
  CASE label = "new" -> "new"
    [] label = "answered" -> "closed"
    [] label = "lost" -> "lost"
    [] OTHER -> "open"

EffectOf(v) ==
  CASE v \in {"created", "registered"} -> "created"
    [] v \in {"updated", "patched"} -> "updated"
    [] v = "deleted" -> "deleted"
    [] OTHER -> "none"

phaseBar == [r \in Request |-> PhaseOf(pc[r])]
effectBar == [r \in Request |-> EffectOf(verdict[r])]

R == INSTANCE Registry WITH table <- rows, phase <- phaseBar, effect <- effectBar

ImplementsRegistry == R!Spec

(* What server/API.md promises of PATCH: "Only provided fields are         *)
(* changed", said of the step in which the UPDATE of a PATCH takes place.  *)
PatchChangesOnlyProvided ==
  [][\A r \in Request :
       LET d == call[r].dev IN
       /\ pc[r] = "update_write" /\ pc'[r] # "update_write"
       /\ call[r].op \in {"PATCH", "PATCH_DEVICE"}
       /\ Present(d) /\ rows'[d] # NoRow
       => /\ call[r].body.ip = Omitted => rows'[d].ip = rows[d].ip
          /\ call[r].body.conf = Omitted => rows'[d].conf = rows[d].conf]_vars

(* What server/API.md promises of PUT: it keeps the existing address when  *)
(* the body has none.                                                      *)
PutKeepsAddress ==
  [][\A r \in Request :
       LET d == call[r].dev IN
       /\ pc[r] = "update_write" /\ pc'[r] # "update_write"
       /\ call[r].op = "PUT" /\ call[r].body.ip \in {Omitted, NoIP}
       /\ Present(d) /\ rows'[d] # NoRow
       => rows'[d].ip = rows[d].ip]_vars
=============================================================================
