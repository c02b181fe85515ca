---------------------------- MODULE ShellyServer ----------------------------
(***************************************************************************)
(* exporter/shelly_server.py: smart plugs hold WebSocket connections to    *)
(* this process, and GET /metrics asks a plug over its connection by an    *)
(* RPC and waits for the answer.  Everything runs on one asyncio loop, so  *)
(* an action is what happens between two awaits.  The requests come from   *)
(* the exporter's ShellyCollector (exporter/collectors/shelly.py), which   *)
(* waits two seconds where the server waits five: the server goes on with  *)
(* a request nobody waits for any more.                                    *)
(*                                                                         *)
(* Plugs send a notification when they connect and now and then; every     *)
(* message names its plug ("src").  A connection may be cut long before    *)
(* the server notices, and the plug reconnects meanwhile.                  *)
(***************************************************************************)
EXTENDS Naturals, Sequences, FiniteSets

CONSTANTS
  Plug,      \* device ids of the plugs
  Conn,      \* WebSocket connections; bounds how often plugs connect
  Scrape,    \* GET /metrics requests; each has an RPC id of its own (uuid4)
  Reply,     \* what a plug may answer
  Result,    \* [Reply -> the result of Switch.GetStatus, or None for an error]
  Bad,       \* a field that float() or int() refuses
  None

(* The fields of a result in the order they are converted; None stands for *)
(* a field that is missing, or null where null is looked for.              *)
Field == <<"output", "apower", "voltage", "current", "pf", "freq",
           "aenergy", "minute_0", "minute_1", "minute_2", "minute_ts",
           "ret_aenergy", "ret_minute_0", "ret_minute_1", "ret_minute_2", "ret_minute_ts",
           "tC", "tF">>
ErrorKind == {"overtemp", "overpower", "overvoltage", "undervoltage"}

ASSUME ShellyConstants ==
  /\ None \notin Plug \cup Conn \cup Scrape \cup [rpc : Scrape, plug : Plug]
  /\ "notify" \notin Scrape
  /\ DOMAIN Result = Reply
  /\ \A s \in Reply : Result[s] # None =>
       /\ \A i \in DOMAIN Field : Field[i] \in DOMAIN Result[s]
       /\ "errors" \in DOMAIN Result[s]

(* A message is the answer to an RPC, named by its id, or a notification.  *)
Message == Scrape \cup {"notify"}

VARIABLES
  link,      \* of a connection: "unused", "up", "cut" (unknown to the server),
             \* "closed" (known), "ended" (handle_connection has returned)
  owner,     \* [Conn -> Plug or None]: the plug at the other end
  ident,     \* [Conn -> Plug or None]: device_id of handle_connection
  inbox,     \* [Conn -> SUBSET Message]: arrived, not yet processed
  asked,     \* [Conn -> SUBSET Scrape]: RPC requests on their way to the plug
  registry,  \* ShellyConnectionRegistry.connections: [Plug -> Conn or None]
  pc,        \* of a scrape: "new", "waiting" or its HTTP status
  target,    \* of a scrape: the plug it chose
  pending,   \* the keys of pending_requests
  reading,   \* of a scrape: [rpc, plug] of the response in its Future, or None
  metrics    \* of a scrape: the metrics in its HTTP answer

net == <<link, owner, inbox, asked>>
http == <<pc, target, pending, reading, metrics>>
vars == <<net, ident, registry, http>>

Status == {"ok", "invalid", "no_plug", "send_failed", "timeout"}

-----------------------------------------------------------------------------
(* Plugs and the network                                                   *)

(* A plug connects again only when it has given up its last connection.    *)
Connect(p, c) ==
  /\ link[c] = "unused"
  /\ \A x \in Conn : owner[x] = p => link[x] # "up"
  /\ link' = [link EXCEPT ![c] = "up"]
  /\ owner' = [owner EXCEPT ![c] = p]
  /\ inbox' = [inbox EXCEPT ![c] = {"notify"}]
  /\ UNCHANGED <<asked, ident, registry, http>>

Notify(c) ==
  /\ link[c] = "up"
  /\ inbox' = [inbox EXCEPT ![c] = @ \cup {"notify"}]
  /\ UNCHANGED <<link, owner, asked, ident, registry, http>>

Respond(c, r) ==
  /\ link[c] = "up"
  /\ r \in asked[c]
  /\ asked' = [asked EXCEPT ![c] = @ \ {r}]
  /\ inbox' = [inbox EXCEPT ![c] = @ \cup {r}]
  /\ UNCHANGED <<link, owner, ident, registry, http>>

Cut(c) ==
  /\ link[c] = "up"
  /\ link' = [link EXCEPT ![c] = "cut"]
  /\ UNCHANGED <<owner, inbox, asked, ident, registry, http>>

(* A close frame, a reset, or no pong within ten seconds of a ping.        *)
NoticeNever(c) == FALSE  \* variant: pings are switched off

Notice(c) ==
  /\ link[c] = "cut"
  /\ link' = [link EXCEPT ![c] = "closed"]
  /\ UNCHANGED <<owner, inbox, asked, ident, registry, http>>

-----------------------------------------------------------------------------
(* handle_connection                                                       *)

(* register, on the first message of a connection only.                    *)
Identify(c) ==
  IF ident[c] = None
  THEN /\ ident' = [ident EXCEPT ![c] = owner[c]]
       /\ registry' = [registry EXCEPT ![owner[c]] = c]
  ELSE UNCHANGED <<ident, registry>>

(* dispatch_rpc_response: a response nobody waits for any more is ignored. *)
DispatchUnchecked(c, m) ==  \* variant: the id is not looked up first
  reading' = [r \in Scrape \cup {m} |->
                IF m = r THEN [rpc |-> m, plug |-> owner[c]] ELSE reading[r]]

DispatchToAny(c, m) ==  \* variant: it goes to whoever waits
  reading' = [r \in Scrape |->
                IF m # "notify" /\ r \in pending /\ reading[r] = None
                THEN [rpc |-> m, plug |-> owner[c]] ELSE reading[r]]

Dispatch(c, m) ==
  reading' = [r \in Scrape |->
                IF m = r /\ r \in pending /\ reading[r] = None
                THEN [rpc |-> m, plug |-> owner[c]] ELSE reading[r]]

(* Messages that had arrived are still processed after the connection went *)
(* down.                                                                   *)
Receive(c, m) ==
  /\ link[c] \in {"up", "cut", "closed"}
  /\ m \in inbox[c]
  /\ inbox' = [inbox EXCEPT ![c] = @ \ {m}]
  /\ Identify(c)
  /\ Dispatch(c, m)
  /\ UNCHANGED <<link, owner, asked, pc, target, pending, metrics>>

(* The finally block: unregister by device id, whichever connection the    *)
(* registry holds for it.                                                  *)
HandlerEndsSilently(c) ==  \* variant: a lost connection is not unregistered
  /\ link[c] = "closed"
  /\ inbox[c] = {}
  /\ link' = [link EXCEPT ![c] = "ended"]
  /\ UNCHANGED <<owner, inbox, asked, ident, registry, http>>

HandlerEnds(c) ==
  /\ link[c] = "closed"
  /\ inbox[c] = {}
  /\ link' = [link EXCEPT ![c] = "ended"]
  /\ registry' = IF ident[c] = None THEN registry
                 ELSE [registry EXCEPT ![ident[c]] = None]
  /\ UNCHANGED <<owner, inbox, asked, ident, http>>

-----------------------------------------------------------------------------
(* handle_metrics and send_rpc_request                                     *)

Listed == {p \in Plug : registry[p] # None}

ScrapeNothing(r) ==
  /\ pc[r] = "new"
  /\ Listed = {}
  /\ pc' = [pc EXCEPT ![r] = "no_plug"]
  /\ UNCHANGED <<net, ident, registry, target, pending, reading, metrics>>

(* Up to the first real suspension: the Future is in pending_requests and  *)
(* the request is written, which only fails on a connection known to be    *)
(* closed.  The code takes the plug that was listed first; any listed one  *)
(* is allowed here.                                                        *)
ScrapePlug(r, p) ==
  LET c == registry[p] IN
  /\ pc[r] = "new"
  /\ p \in Listed
  /\ link[c] \in {"up", "cut"}
  /\ target' = [target EXCEPT ![r] = p]
  /\ pending' = pending \cup {r}
  /\ asked' = [asked EXCEPT ![c] = @ \cup {r}]
  /\ pc' = [pc EXCEPT ![r] = "waiting"]
  /\ UNCHANGED <<link, owner, inbox, ident, registry, reading, metrics>>

ScrapeFails(r, p) ==
  /\ pc[r] = "new"
  /\ p \in Listed
  /\ link[registry[p]] \notin {"up", "cut"}
  /\ target' = [target EXCEPT ![r] = p]
  /\ pc' = [pc EXCEPT ![r] = "send_failed"]
  /\ UNCHANGED <<net, ident, registry, pending, reading, metrics>>

(* _extract_metrics_from_rpc_result: an exception ends the conversion but  *)
(* not the answer, which has what was converted before it.                 *)
Converted(result) ==
  {i \in DOMAIN Field : \A j \in 1..i : result[Field[j]] # Bad}

Readings(result) ==
  {[name |-> Field[i], value |-> result[Field[i]]] :
     i \in {j \in Converted(result) : result[Field[j]] # None}}

ErrorFlags(errors) ==
  {[name |-> "errors_count", value |-> Cardinality(errors)]} \cup
  {[name |-> k, value |-> IF k \in errors THEN 1 ELSE 0] : k \in ErrorKind}

Extracted(result) ==
  Readings(result) \cup
  IF Converted(result) # DOMAIN Field \/ result.errors = None THEN {}
  ELSE ErrorFlags(result.errors)

(* wait_for returns what the plug said (a result, or an RPC error), or     *)
(* gives up after five seconds; the finally block removes the Future       *)
(* either way.  A response may be there when the time is up and be lost.   *)
(* (The timeout reaches handle_metrics as a plain Exception, so that the   *)
(* HTTP status is 500 as after any failure, and never 504.)                *)
ReturnReading(r, s) ==
  /\ pc[r] = "waiting"
  /\ reading[r] # None
  /\ IF Result[s] = None
     THEN pc' = [pc EXCEPT ![r] = "invalid"] /\ UNCHANGED metrics
     ELSE /\ pc' = [pc EXCEPT ![r] = "ok"]
          /\ metrics' = [metrics EXCEPT ![r] = Extracted(Result[s])]
  /\ pending' = pending \ {r}
  /\ UNCHANGED <<net, ident, registry, target, reading>>

TimeoutLeaks(r) ==  \* variant: only the good path removes the Future
  /\ pc[r] = "waiting"
  /\ pc' = [pc EXCEPT ![r] = "timeout"]
  /\ UNCHANGED <<net, ident, registry, target, pending, reading, metrics>>

TimeoutOnlyWhenUp(r) ==  \* variant: a request on a dead connection waits on
  /\ pc[r] = "waiting"
  /\ \E c \in Conn : owner[c] = target[r] /\ link[c] = "up"
  /\ pc' = [pc EXCEPT ![r] = "timeout"]
  /\ pending' = pending \ {r}
  /\ UNCHANGED <<net, ident, registry, target, reading, metrics>>

Timeout(r) ==
  /\ pc[r] = "waiting"
  /\ pc' = [pc EXCEPT ![r] = "timeout"]
  /\ pending' = pending \ {r}
  /\ UNCHANGED <<net, ident, registry, target, reading, metrics>>

(* ShellyCollector.get_metrics, unless it has given up: only 200 brings    *)
(* metrics.                                                                *)
Collected(r) == IF pc[r] = "ok" THEN metrics[r] ELSE {}

-----------------------------------------------------------------------------
Init ==
  /\ link = [c \in Conn |-> "unused"]
  /\ owner = [c \in Conn |-> None]
  /\ ident = [c \in Conn |-> None]
  /\ inbox = [c \in Conn |-> {}]
  /\ asked = [c \in Conn |-> {}]
  /\ registry = [p \in Plug |-> None]
  /\ pc = [r \in Scrape |-> "new"]
  /\ target = [r \in Scrape |-> None]
  /\ pending = {}
  /\ reading = [r \in Scrape |-> None]
  /\ metrics = [r \in Scrape |-> {}]

Serve(c) == (\E m \in Message : Receive(c, m)) \/ Notice(c) \/ HandlerEnds(c)
Finish(r) == (\E s \in Reply : ReturnReading(r, s)) \/ Timeout(r)

Next ==
  \/ \E c \in Conn :
       \/ \E p \in Plug : Connect(p, c)
       \/ Notify(c) \/ Cut(c)
       \/ \E r \in Scrape : Respond(c, r)
       \/ Serve(c)
  \/ \E r \in Scrape :
       \/ ScrapeNothing(r)
       \/ \E p \in Plug : ScrapePlug(r, p) \/ ScrapeFails(r, p)
       \/ Finish(r)

Spec == Init /\ [][Next]_vars

(* The event loop runs what is ready and its timers fire (pings, the five  *)
(* seconds); nothing is assumed of plugs, network or clients.              *)
FairSpec ==
  /\ Spec
  /\ \A c \in Conn : WF_vars(Serve(c))
  /\ \A r \in Scrape : WF_vars(Finish(r))

-----------------------------------------------------------------------------
(* Properties                                                              *)

TypeOK ==
  /\ link \in [Conn -> {"unused", "up", "cut", "closed", "ended"}]
  /\ owner \in [Conn -> Plug \cup {None}]
  /\ ident \in [Conn -> Plug \cup {None}]
  /\ inbox \in [Conn -> SUBSET Message]
  /\ asked \in [Conn -> SUBSET Scrape]
  /\ registry \in [Plug -> Conn \cup {None}]
  /\ pc \in [Scrape -> Status \cup {"new", "waiting"}]
  /\ target \in [Scrape -> Plug \cup {None}]
  /\ pending \subseteq Scrape
  /\ reading \in [Scrape -> [rpc : Scrape, plug : Plug] \cup {None}]
  /\ metrics \in [Scrape -> {{}} \cup
                      {Extracted(Result[s]) : s \in {x \in Reply : Result[x] # None}}]

(* The registry never names a connection whose handler has returned, nor   *)
(* one of another plug: get_connection hands out a connection someone      *)
(* still reads from.                                                       *)
RegistryNamesHandlers ==
  \A p \in Plug :
    registry[p] # None =>
      ident[registry[p]] = p /\ link[registry[p]] \in {"up", "cut", "closed"}

(* The metrics a collector returns were read by the plug its request chose,*)
(* and for this very request, however many of them overlap, time out or    *)
(* are given up, and over whichever connection the response came.          *)
OwnReading ==
  \A r \in Scrape :
    Collected(r) # {} => reading[r] = [rpc |-> r, plug |-> target[r]]

(* pending_requests does not grow: on every way out the Future is removed. *)
NoLeakedFuture == pending = {r \in Scrape : pc[r] = "waiting"}

(* Every scrape that asks a plug is answered, whatever becomes of the plug *)
(* and its connection.                                                     *)
ScrapeReturns == \A r \in Scrape : pc[r] = "waiting" ~> pc[r] # "waiting"

(* A dead connection does not stay in the registry for ever.               *)
DeadIsForgotten ==
  \A p \in Plug, c \in Conn :
    registry[p] = c /\ link[c] # "up" ~> registry[p] # c

(* exporter/API.md of GET /devices: "List all connected devices": a plug   *)
(* that is connected and has been identified is listed.                    *)
ConnectedIsListed ==
  \A c \in Conn : link[c] = "up" /\ ident[c] # None => ident[c] \in Listed
=============================================================================
