------------------------ MODULE ShellyServer_proofs ------------------------
(***************************************************************************)
(* Theorems about ShellyServer, for any number of plugs, connections and   *)
(* overlapping scrapes.                                                    *)
(***************************************************************************)
EXTENDS ShellyServer, TLAPS

(* A connection in use belongs to one plug, and a handler names no other.  *)
ConnInv(c) ==
  /\ owner[c] = None <=> link[c] = "unused"
  /\ link[c] = "unused" => asked[c] = {}
  /\ ident[c] \in {None, owner[c]}

(* A request is sent only after its scrape has chosen a plug, and only to  *)
(* connections of that plug; so does the answer arrive.                    *)
RouteInv ==
  \A c \in Conn, r \in Scrape :
    r \in asked[c] \cup inbox[c] => pc[r] # "new" /\ target[r] = owner[c]

ReadingInv(r) ==
  /\ reading[r] # None => pc[r] # "new" /\ reading[r] = [rpc |-> r, plug |-> target[r]]
  /\ pc[r] = "ok" => reading[r] # None

IInv ==
  /\ TypeOK
  /\ \A c \in Conn : ConnInv(c)
  /\ RegistryNamesHandlers
  /\ RouteInv
  /\ \A r \in Scrape : ReadingInv(r)
  /\ NoLeakedFuture

LEMMA InitInv == Init => IInv
  BY ShellyConstants
  DEF Init, IInv, TypeOK, ConnInv, RegistryNamesHandlers, RouteInv, ReadingInv, NoLeakedFuture

-----------------------------------------------------------------------------
(* Plugs and the network                                                   *)

LEMMA ConnectInv ==
  ASSUME IInv, NEW c \in Conn, NEW p \in Plug, Connect(p, c) PROVE IInv'
<1> USE ShellyConstants DEF Connect, IInv, TypeOK, http
<1>1. TypeOK'
  BY DEF Message
<1>2. \A r \in Scrape : r \notin asked'[c] \cup inbox'[c]
  BY DEF ConnInv
<1>3. \A x \in Conn : ConnInv(x)'
  BY DEF ConnInv
<1>4. RegistryNamesHandlers'
  BY DEF RegistryNamesHandlers
<1>5. RouteInv'
  BY <1>2 DEF RouteInv
<1>6. QED
  BY <1>1, <1>3, <1>4, <1>5 DEF ReadingInv, NoLeakedFuture

LEMMA NetworkInv ==
  ASSUME IInv, NEW c \in Conn,
         Notify(c) \/ Cut(c) \/ Notice(c) \/ (\E r \in Scrape : Respond(c, r))
  PROVE  IInv'
<1> USE ShellyConstants DEF IInv, TypeOK
<1>1. /\ UNCHANGED <<owner, ident, registry, http>>
      /\ link' = link \/ \E x \in {"cut", "closed"} : link' = [link EXCEPT ![c] = x]
      /\ link' # link => link[c] \in {"up", "cut"}
      /\ inbox' \in [Conn -> SUBSET Message]
      /\ asked' \in [Conn -> SUBSET Scrape]
      /\ \A x \in Conn : asked'[x] \subseteq asked[x]
      /\ \A x \in Conn, r \in Scrape :
           r \in asked'[x] \cup inbox'[x] => r \in asked[x] \cup inbox[x]
  BY DEF Notify, Cut, Notice, Respond, Message
<1>2. TypeOK'
  BY <1>1 DEF http
<1>3. \A x \in Conn : ConnInv(x)'
  BY <1>1 DEF ConnInv
<1>4. RegistryNamesHandlers'
  BY <1>1 DEF RegistryNamesHandlers
<1>5. RouteInv'
  BY <1>1 DEF RouteInv, http
<1>6. QED
  BY <1>1, <1>2, <1>3, <1>4, <1>5 DEF ReadingInv, NoLeakedFuture, http

-----------------------------------------------------------------------------
(* handle_connection                                                       *)

LEMMA ReceiveInv ==
  ASSUME IInv, NEW c \in Conn, NEW m \in Message, Receive(c, m) PROVE IInv'
<1> USE ShellyConstants DEF IInv, TypeOK
<1>1. owner[c] \in Plug /\ link[c] \in {"up", "cut", "closed"}
  BY DEF Receive, ConnInv
<1>2. /\ UNCHANGED <<link, owner, asked, pc, target, pending, metrics>>
      /\ inbox' = [inbox EXCEPT ![c] = @ \ {m}]
      /\ m \in inbox[c]
  BY DEF Receive
<1>3. \/ UNCHANGED <<ident, registry>>
      \/ /\ ident[c] = None
         /\ ident' = [ident EXCEPT ![c] = owner[c]]
         /\ registry' = [registry EXCEPT ![owner[c]] = c]
  BY DEF Receive, Identify
<1>4. \A r \in Scrape : \/ reading'[r] = reading[r]
                        \/ m = r /\ reading'[r] = [rpc |-> r, plug |-> owner[c]]
  BY DEF Receive, Dispatch
<1>5. reading' \in [Scrape -> [rpc : Scrape, plug : Plug] \cup {None}]
  <2>1. DOMAIN reading' = Scrape /\ reading' = [r \in Scrape |-> reading'[r]]
    BY DEF Receive, Dispatch
  <2>2. QED
    BY <1>1, <1>4, <2>1
<1>6. TypeOK'
  BY <1>1, <1>2, <1>3, <1>5
<1>7. \A x \in Conn : ConnInv(x)'
  BY <1>1, <1>2, <1>3 DEF ConnInv
<1>8. RegistryNamesHandlers'
  BY <1>1, <1>2, <1>3 DEF RegistryNamesHandlers, ConnInv
<1>9. RouteInv'
  BY <1>2 DEF RouteInv
<1>10. ASSUME NEW r \in Scrape PROVE ReadingInv(r)'
  <2>1. CASE reading'[r] = reading[r]
    BY <1>2, <2>1 DEF ReadingInv
  <2>2. CASE m = r /\ reading'[r] = [rpc |-> r, plug |-> owner[c]]
    <3>1. pc[r] # "new" /\ target[r] = owner[c]
      BY <1>2, <2>2 DEF RouteInv
    <3>2. reading'[r] # None
      BY <1>1, <1>5, <2>2
    <3>3. QED
      BY <1>2, <2>2, <3>1, <3>2 DEF ReadingInv
  <2>3. QED
    BY <1>4, <2>1, <2>2
<1>11. QED
  BY <1>2, <1>6, <1>7, <1>8, <1>9, <1>10 DEF NoLeakedFuture

LEMMA HandlerEndsInv ==
  ASSUME IInv, NEW c \in Conn, HandlerEnds(c) PROVE IInv'
<1> USE ShellyConstants DEF IInv, TypeOK, HandlerEnds, http
<1>1. TypeOK'
  OBVIOUS
<1>2. \A x \in Conn : ConnInv(x)'
  BY DEF ConnInv
<1>3. RegistryNamesHandlers'
  BY DEF RegistryNamesHandlers
<1>4. QED
  BY <1>1, <1>2, <1>3 DEF RouteInv, ReadingInv, NoLeakedFuture

-----------------------------------------------------------------------------
(* handle_metrics and send_rpc_request                                     *)

LEMMA ScrapeInv ==
  ASSUME IInv, NEW r \in Scrape,
         ScrapeNothing(r) \/ (\E p \in Plug : ScrapePlug(r, p) \/ ScrapeFails(r, p))
  PROVE  IInv'
<1> USE ShellyConstants DEF IInv, TypeOK
<1>1. CASE ScrapeNothing(r)
  BY <1>1 DEF ScrapeNothing, net, Status, ConnInv, RegistryNamesHandlers, RouteInv,
     ReadingInv, NoLeakedFuture
<1>2. ASSUME NEW p \in Plug, ScrapeFails(r, p) PROVE IInv'
  <2>1. reading[r] = None /\ \A c \in Conn : r \notin asked[c] \cup inbox[c]
    BY <1>2 DEF ScrapeFails, ReadingInv, RouteInv
  <2>2. RouteInv'
    BY <1>2, <2>1 DEF ScrapeFails, net, RouteInv
  <2>3. QED
    BY <1>2, <2>1, <2>2 DEF ScrapeFails, net, Status, ConnInv, RegistryNamesHandlers,
       ReadingInv, NoLeakedFuture
<1>3. ASSUME NEW p \in Plug, ScrapePlug(r, p) PROVE IInv'
  <2>1. reading[r] = None /\ \A c \in Conn : r \notin asked[c] \cup inbox[c]
    BY <1>3 DEF ScrapePlug, ReadingInv, RouteInv
  <2>2. registry[p] \in Conn /\ owner[registry[p]] = p
    BY <1>3 DEF ScrapePlug, Listed, RegistryNamesHandlers, ConnInv
  <2>3. RouteInv'
    BY <1>3, <2>1, <2>2 DEF ScrapePlug, RouteInv
  <2>4. TypeOK'
    BY <1>3 DEF ScrapePlug
  <2>5. QED
    BY <1>3, <2>1, <2>3, <2>4 DEF ScrapePlug, ConnInv, RegistryNamesHandlers,
       ReadingInv, NoLeakedFuture
<1>4. QED
  BY <1>1, <1>2, <1>3

LEMMA FinishInv ==
  ASSUME IInv, NEW r \in Scrape, Finish(r) PROVE IInv'
<1> USE ShellyConstants DEF IInv, TypeOK
<1>1. /\ pc[r] = "waiting" /\ pending' = pending \ {r}
      /\ \E x \in Status : pc' = [pc EXCEPT ![r] = x]
      /\ pc'[r] = "ok" => reading[r] # None
      /\ UNCHANGED <<net, ident, registry, target, reading>>
  BY DEF Finish, ReturnReading, Timeout, Status
<1>2. metrics' \in [Scrape -> {{}} \cup
                      {Extracted(Result[s]) : s \in {x \in Reply : Result[x] # None}}]
  BY DEF Finish, ReturnReading, Timeout
<1>3. TypeOK'
  <2>1. pc' \in [Scrape -> Status \cup {"new", "waiting"}]
    BY <1>1
  <2>2. QED
    BY <1>1, <1>2, <2>1 DEF net
<1>4. pc'[r] \notin {"new", "waiting"}
  BY <1>1 DEF Status
<1>5. QED
  BY <1>1, <1>3, <1>4 DEF net, ConnInv, RegistryNamesHandlers, RouteInv, ReadingInv,
     NoLeakedFuture

-----------------------------------------------------------------------------
LEMMA NextInv == IInv /\ [Next]_vars => IInv'
<1> SUFFICES ASSUME IInv, [Next]_vars PROVE IInv'
  OBVIOUS
<1>1. CASE UNCHANGED vars
  BY <1>1 DEF vars, net, http, IInv, TypeOK, ConnInv, RegistryNamesHandlers, RouteInv,
     ReadingInv, NoLeakedFuture
<1>2. CASE Next
  BY <1>2, ConnectInv, NetworkInv, ReceiveInv, HandlerEndsInv, ScrapeInv, FinishInv
  DEF Next, Serve
<1>3. QED
  BY <1>1, <1>2

LEMMA Inductive == Spec => []IInv
  BY InitInv, NextInv, PTL DEF Spec

(* The state of the server keeps its types.                                *)
THEOREM TypeCorrect == Spec => []TypeOK
  BY Inductive, PTL DEF IInv

(* get_connection hands out only connections somebody still reads from,    *)
(* whatever plugs reconnect and connections die unnoticed.                 *)
THEOREM RegistryIsLive == Spec => []RegistryNamesHandlers
  BY Inductive, PTL DEF IInv

(* No interleaving of scrapes, answers, timeouts and reconnects gives a    *)
(* collector the reading of another plug or of another scrape.             *)
THEOREM ReadingsAreOwn == Spec => []OwnReading
<1>1. IInv => OwnReading
  BY DEF IInv, ReadingInv, OwnReading, Collected
<1>2. QED
  BY <1>1, Inductive, PTL

(* pending_requests holds the requests of waiting scrapes and no others.   *)
THEOREM NoFutureLeaks == Spec => []NoLeakedFuture
  BY Inductive, PTL DEF IInv

-----------------------------------------------------------------------------
(* A plug that comes back is accepted only when nothing of it is left: its *)
(* last handle_connection has returned.                                    *)
Patient ==
  \A p \in Plug, c \in Conn :
    Connect(p, c) => \A x \in Conn : owner[x] = p => link[x] = "ended"

Alive(c) == link[c] \in {"up", "cut", "closed"}

(* A plug then has one connection at a time, and the registry follows it.  *)
OneEach ==
  \A c, x \in Conn : c # x /\ Alive(c) /\ Alive(x) => owner[c] # owner[x]

Registered == \A c \in Conn : Alive(c) /\ ident[c] # None => registry[ident[c]] = c

CalmInv == IInv /\ OneEach /\ Registered

LEMMA CalmStep == ASSUME CalmInv, [Next]_vars, Patient PROVE CalmInv'
<1> USE ShellyConstants
<1>0. IInv /\ IInv' /\ TypeOK /\ OneEach /\ Registered /\ \A c \in Conn : ConnInv(c)
  BY NextInv DEF CalmInv, IInv
<1>1. ASSUME NEW c \in Conn, NEW p \in Plug, Connect(p, c) PROVE CalmInv'
  <2>1. \A x \in Conn : owner[x] = p => ~Alive(x)
    BY <1>1 DEF Patient, Alive
  <2>2. /\ link' = [link EXCEPT ![c] = "up"] /\ owner' = [owner EXCEPT ![c] = p]
        /\ UNCHANGED <<ident, registry>> /\ ident[c] = None
    BY <1>0, <1>1 DEF Connect, ConnInv
  <2>3. OneEach'
    BY <1>0, <2>1, <2>2 DEF OneEach, Alive, TypeOK
  <2>4. Registered'
    BY <1>0, <2>2 DEF Registered, Alive, TypeOK
  <2>5. QED
    BY <1>0, <2>3, <2>4 DEF CalmInv
<1>2. ASSUME UNCHANGED <<owner, ident, registry>>,
             \A c \in Conn : Alive(c)' => Alive(c)
      PROVE  CalmInv'
  BY <1>0, <1>2 DEF CalmInv, OneEach, Registered
<1>3. ASSUME NEW c \in Conn,
             Notify(c) \/ Cut(c) \/ Notice(c) \/ (\E r \in Scrape : Respond(c, r))
      PROVE  CalmInv'
  <2>1. UNCHANGED <<owner, ident, registry>>
    BY <1>3 DEF Notify, Cut, Notice, Respond
  <2>2. \/ link' = link
        \/ link[c] \in {"up", "cut"} /\ \E l \in {"cut", "closed"} : link' = [link EXCEPT ![c] = l]
    BY <1>3 DEF Notify, Cut, Notice, Respond
  <2>3. \A x \in Conn : Alive(x)' => Alive(x)
    BY <1>0, <2>2 DEF Alive, TypeOK
  <2>4. QED
    BY <1>2, <2>1, <2>3
<1>4. ASSUME NEW c \in Conn, NEW m \in Message, Receive(c, m) PROVE CalmInv'
  <2>1. UNCHANGED <<link, owner>> /\ Alive(c) /\ owner[c] \in Plug
    BY <1>0, <1>4 DEF Receive, Alive, ConnInv, TypeOK
  <2>2. \/ UNCHANGED <<ident, registry>>
        \/ /\ ident' = [ident EXCEPT ![c] = owner[c]]
           /\ registry' = [registry EXCEPT ![owner[c]] = c]
    BY <1>4 DEF Receive, Identify
  <2>3. OneEach'
    BY <1>0, <2>1 DEF OneEach, Alive
  <2>4. Registered'
    BY <1>0, <2>1, <2>2 DEF Registered, OneEach, Alive, ConnInv, TypeOK
  <2>5. QED
    BY <1>0, <2>3, <2>4 DEF CalmInv
<1>5. ASSUME NEW c \in Conn, HandlerEnds(c) PROVE CalmInv'
  <2>1. /\ link' = [link EXCEPT ![c] = "ended"] /\ Alive(c) /\ UNCHANGED <<owner, ident>>
        /\ registry' = IF ident[c] = None THEN registry
                       ELSE [registry EXCEPT ![ident[c]] = None]
    BY <1>5 DEF HandlerEnds, Alive
  <2>2. OneEach'
    BY <1>0, <2>1 DEF OneEach, Alive, TypeOK
  <2>3. \A x \in Conn : x # c /\ Alive(x) /\ ident[x] # None => ident[x] # ident[c]
    BY <1>0, <2>1 DEF OneEach, ConnInv
  <2>4. Registered'
    BY <1>0, <2>1, <2>3 DEF Registered, Alive, TypeOK
  <2>5. QED
    BY <1>0, <2>2, <2>4 DEF CalmInv
<1>6. ASSUME UNCHANGED <<owner, ident, registry, link>> PROVE CalmInv'
  BY <1>0, <1>6 DEF CalmInv, OneEach, Registered, Alive
<1>7. ASSUME NEW r \in Scrape,
             \/ ScrapeNothing(r) \/ Finish(r)
             \/ \E p \in Plug : ScrapePlug(r, p) \/ ScrapeFails(r, p)
      PROVE  CalmInv'
  BY <1>6, <1>7 DEF ScrapeNothing, ScrapePlug, ScrapeFails, Finish, ReturnReading, Timeout,
                    net
<1>8. CASE UNCHANGED vars
  BY <1>6, <1>8 DEF vars, net
<1>9. QED
  BY <1>1, <1>3, <1>4, <1>5, <1>7, <1>8 DEF Next, Serve

(* ConnectedIsListed, which a plug that reconnects early breaks, holds as  *)
(* long as no plug does: the code relies on noticing the end of a          *)
(* connection before the plug comes back.                                  *)
THEOREM ConnectedIsListedIfPatient ==
  Init /\ [][Next /\ Patient]_vars => []ConnectedIsListed
<1>1. Init => CalmInv
  BY InitInv DEF Init, CalmInv, OneEach, Registered, Alive
<1>2. CalmInv /\ [Next /\ Patient]_vars => CalmInv'
  <2> SUFFICES ASSUME CalmInv, [Next /\ Patient]_vars PROVE CalmInv'
    OBVIOUS
  <2>1. CASE Next /\ Patient
    BY <2>1, CalmStep
  <2>2. CASE UNCHANGED vars
    <3>1. IInv'
      BY <2>2, NextInv DEF CalmInv
    <3>2. QED
      BY <2>2, <3>1 DEF CalmInv, OneEach, Registered, Alive, vars, net
  <2>3. QED
    BY <2>1, <2>2
<1>3. CalmInv => ConnectedIsListed
  BY ShellyConstants DEF CalmInv, Registered, ConnectedIsListed, Listed, Alive, IInv, TypeOK
<1>4. QED
  BY <1>1, <1>2, <1>3, PTL
=============================================================================
