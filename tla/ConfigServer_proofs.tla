------------------------ MODULE ConfigServer_proofs ------------------------
(***************************************************************************)
(* What holds of the config server for every set of devices, requests,     *)
(* addresses and seeds: its types, the vetting of addresses, and that its  *)
(* interleaved handlers implement the atomic registry.                     *)
(***************************************************************************)
EXTENDS ConfigServer, FiniteSetTheorems, TLAPS

(* The handlers that hold a config value, and what it must be.             *)
Building == {"post_insert", "put_get", "upsert_exists", "upsert_insert",
             "update_get", "update_write"}

VettedRow == [ip : VettedIP, conf : Conf]

(* The invariant of one request: a request that is being handled has a     *)
(* body and no answer before its last statement; a value on its way to the *)
(* table is a vetted row.                                                  *)
RequestInv(r) ==
  /\ pc[r] \in Open => call[r] \in Call
  /\ pc[r] \in Statement \cup {"new"} => verdict[r] = "none"
  /\ pc[r] \in Building => image[r] \in VettedRow
  /\ pc[r] = "put_get" => call[r].body.ip \in {Omitted, NoIP}
  /\ pc[r] \in Open => server = "serving"

RowsInv == rows \in [Device -> VettedRow \cup {NoRow}]

IInv == TypeOK /\ RowsInv /\ \A r \in Request : RequestInv(r)

-----------------------------------------------------------------------------
LEMMA VettedRowIsRow == VettedRow \subseteq Row
<1>1. SeedIP \subseteq AnyIP
  BY ServerConstants DEF SeedIP, Row
<1>2. QED
  BY <1>1 DEF VettedRow, Row, VettedIP, AnyIP

LEMMA SeedIsVetted ==
  ASSUME NEW d \in DOMAIN Seed
  PROVE  Seed[d] \in VettedRow
<1>1. Seed[d] \in Row
  BY ServerConstants
<1>2. Seed[d].ip \in SeedIP
  BY DEF SeedIP
<1>3. QED
  BY <1>1, <1>2 DEF Row, VettedRow, VettedIP

(* A PUT that is not rejected at once builds a vetted row, and so does a   *)
(* POST whose body passed its checks.                                      *)
LEMMA GivenIsVetted ==
  ASSUME NEW c \in Call, c.body.conf # Omitted,
         c.body.ip \in GoodIP \cup {Omitted, NoIP}
  PROVE  Given(c) \in VettedRow
<1>1. c.body.conf \in Conf
  BY DEF Call, Body
<1>2. (IF c.body.ip = Omitted THEN NoIP ELSE c.body.ip) \in VettedIP
  BY DEF VettedIP
<1>3. QED
  BY <1>1, <1>2 DEF Given, VettedRow

LEMMA MergeIsVetted ==
  ASSUME NEW row \in VettedRow, NEW c \in Call,
         c.body.ip \in GoodIP \cup {Omitted}
  PROVE  Merge(row, c.body) \in VettedRow
<1>1. row.ip \in VettedIP /\ row.conf \in Conf
  BY DEF VettedRow
<1>2. c.body.conf \in Conf \cup {Omitted}
  BY DEF Call, Body
<1>3. QED
  BY <1>1, <1>2 DEF Merge, VettedRow, VettedIP

-----------------------------------------------------------------------------
LEMMA InitInv == Init => IInv
<1> SUFFICES ASSUME Init PROVE IInv
  OBVIOUS
<1>1. rows \in [Device -> VettedRow \cup {NoRow}]
  BY DEF Init, VettedRow
<1>2. TypeOK
  BY <1>1, VettedRowIsRow, ServerConstants
  DEF Init, TypeOK, Pc, Verdict
<1>3. ASSUME NEW r \in Request PROVE RequestInv(r)
  BY <1>3 DEF Init, RequestInv, Open, Statement, Building
<1>4. QED
  BY <1>1, <1>2, <1>3 DEF IInv, RowsInv

(* What a step of the handlers has to respect for the invariant to hold    *)
(* of every request: the others keep their invariant.                      *)
LEMMA OthersKeepInv ==
  ASSUME IInv, NEW r \in Request, UNCHANGED process,
         \A q \in Request \ {r} :
           /\ pc'[q] = pc[q] /\ call'[q] = call[q]
           /\ image'[q] = image[q] /\ verdict'[q] = verdict[q],
         RequestInv(r)'
  PROVE  \A q \in Request : RequestInv(q)'
  BY DEF IInv, RequestInv, process

LEMMA ReceiveInv ==
  ASSUME IInv, NEW r \in Request, NEW c \in Calls, Receive(r, c)
  PROVE  IInv'
<1>0. c \in Call
  BY ServerConstants
<1>1. pc[r] = "new" /\ verdict[r] = "none" /\ server = "serving"
  BY DEF IInv, RequestInv, Receive
<1>2. CASE RejectedAtOnce(c)
  <2>1. /\ pc' = [pc EXCEPT ![r] = "answered"]
        /\ verdict' = [verdict EXCEPT ![r] = "bad_request"]
        /\ call' = [call EXCEPT ![r] = c]
        /\ UNCHANGED <<rows, process, image>>
    BY <1>2 DEF Receive, Answer
  <2>2. TypeOK' /\ RowsInv'
    BY <1>0, <2>1 DEF IInv, TypeOK, RowsInv, process, Pc, Verdict
  <2>3. RequestInv(r)'
    BY <1>0, <2>1 DEF IInv, TypeOK, RequestInv, Open, Statement, Building
  <2>4. \A q \in Request : RequestInv(q)'
    BY <2>1, <2>3, OthersKeepInv DEF IInv, TypeOK
  <2>5. QED
    BY <2>2, <2>4 DEF IInv
<1>3. CASE ~RejectedAtOnce(c)
  <2>1. /\ pc' = [pc EXCEPT ![r] = FirstStatement(c)]
        /\ image' = IF c.op = "PUT" THEN [image EXCEPT ![r] = Given(c)] ELSE image
        /\ call' = [call EXCEPT ![r] = c]
        /\ UNCHANGED <<rows, process, verdict>>
    BY <1>3 DEF Receive, Goto
  <2>2. /\ FirstStatement(c) \in Statement
        /\ FirstStatement(c) \in Building => c.op = "PUT"
        /\ FirstStatement(c) = "put_get" => c.body.ip \in {Omitted, NoIP}
    BY <1>0 DEF FirstStatement, Statement, Building, Call, Op
  <2>3. c.op = "PUT" => Given(c) \in VettedRow
    BY <1>0, <1>3, GivenIsVetted DEF RejectedAtOnce
  <2>4. TypeOK' /\ RowsInv'
    BY <1>0, <2>1, <2>2, <2>3, VettedRowIsRow
    DEF IInv, TypeOK, RowsInv, process, Pc
  <2>5. RequestInv(r)'
    <3>1. pc'[r] = FirstStatement(c) /\ call'[r] = c /\ verdict'[r] = "none"
      BY <1>1, <2>1 DEF IInv, TypeOK
    <3>2. server' = "serving"
      BY <1>1, <2>1 DEF process
    <3>3. c.op = "PUT" => image'[r] \in VettedRow
      BY <2>1, <2>3 DEF IInv, TypeOK
    <3>4. QED
      BY <1>0, <2>2, <3>1, <3>2, <3>3 DEF RequestInv
  <2>6. \A q \in Request : RequestInv(q)'
    BY <2>1, <2>5, OthersKeepInv DEF IInv, TypeOK
  <2>7. QED
    BY <2>4, <2>6 DEF IInv
<1>4. QED
  BY <1>2, <1>3

(* A step of a handler changes the pc, the answer and the config value of  *)
(* its own request only, and puts at most vetted rows in the table.        *)
LEMMA HandlerStep ==
  ASSUME IInv, NEW r \in Request, NEW p \in Pc, NEW v \in Verdict,
         NEW row \in Row \cup {NoRow},
         pc[r] \in Open,
         pc' = [pc EXCEPT ![r] = p],
         verdict' = [verdict EXCEPT ![r] = v],
         image' = [image EXCEPT ![r] = row],
         UNCHANGED <<process, call>>,
         rows' \in [Device -> VettedRow \cup {NoRow}],
         p \in Statement \cup {"new"} => v = "none",
         p \in Building => row \in VettedRow,
         p # "put_get"
  PROVE  IInv'
<1>1. RequestInv(r)'
  BY DEF IInv, TypeOK, RequestInv, process
<1>2. \A q \in Request : RequestInv(q)'
  BY <1>1, OthersKeepInv DEF IInv, TypeOK
<1>3. TypeOK' /\ RowsInv'
  BY VettedRowIsRow DEF IInv, TypeOK, RowsInv, process
<1>4. QED
  BY <1>2, <1>3 DEF IInv

LEMMA LabelFacts ==
  /\ Building \subseteq Statement
  /\ Statement \subseteq Open
  /\ Open \subseteq Pc
  /\ {"answered", "reload", "new", "lost"} \cap Statement = {}
  /\ {"answered", "reload"} \subseteq Pc
  BY DEF Building, Statement, Open, Pc

LEMMA HandleInv ==
  ASSUME IInv, NEW r \in Request, Handle(r)
  PROVE  IInv'
<1> USE LabelFacts DEF IInv, TypeOK, RowsInv
<1>a. image[r] \in Row \cup {NoRow} /\ verdict[r] \in Verdict
  OBVIOUS
<1>b. image = [image EXCEPT ![r] = image[r]]
  OBVIOUS
<1>c. verdict = [verdict EXCEPT ![r] = verdict[r]]
  OBVIOUS
<1>d. ASSUME pc[r] \in Building
      PROVE  /\ call[r] \in Call /\ verdict[r] = "none"
             /\ image[r] \in VettedRow /\ image[r] \in Row
  BY <1>d, VettedRowIsRow DEF RequestInv
<1>1. CASE PostExists(r)
  <2>1. call[r] \in Call /\ verdict[r] = "none" /\ pc[r] \in Open
    BY <1>1 DEF PostExists, RequestInv, Statement, Open
  <2>2. CASE Answer(r, "conflict") /\ UNCHANGED image
    BY <1>1, <1>a, <1>b, <2>1, <2>2, HandlerStep
    DEF PostExists, Answer, Verdict, Building
  <2>3. CASE Answer(r, "bad_request") /\ UNCHANGED image
    BY <1>1, <1>a, <1>b, <2>1, <2>3, HandlerStep
    DEF PostExists, Answer, Verdict, Building
  <2>4. CASE /\ call[r].body.conf # Omitted /\ call[r].body.ip \in GoodIP
             /\ Goto(r, "post_insert")
             /\ image' = [image EXCEPT ![r] = Given(call[r])]
    <3>1. Given(call[r]) \in VettedRow /\ Given(call[r]) \in Row
      BY <2>1, <2>4, GivenIsVetted, VettedRowIsRow
    <3>2. "post_insert" \in Statement
      BY DEF Statement
    <3>3. QED
      BY <1>1, <1>a, <1>c, <2>1, <2>4, <3>1, <3>2, HandlerStep
      DEF PostExists, Goto
  <2>5. QED
    BY <1>1, <2>2, <2>3, <2>4 DEF PostExists
<1>2. CASE PostInsert(r) \/ UpsertInsert(r)
  <2>1. pc[r] \in Building
    BY <1>2 DEF PostInsert, UpsertInsert, Building
  <2>2. rows' \in [Device -> VettedRow \cup {NoRow}]
    BY <1>2, <1>d, <2>1 DEF PostInsert, UpsertInsert, Insert
  <2>3. PICK p \in {"answered", "reload"},
             v \in {"created", "registered", "error"} :
          /\ pc' = [pc EXCEPT ![r] = p]
          /\ verdict' = [verdict EXCEPT ![r] = v]
          /\ UNCHANGED <<process, call, image>>
    BY <1>2 DEF PostInsert, UpsertInsert, Answer, AnswerOrReload
  <2>4. QED
    BY <1>a, <1>b, <2>1, <2>2, <2>3, HandlerStep DEF Verdict
<1>3. CASE PutGet(r) \/ PutGetFails(r)
  <2>1. pc[r] \in Building /\ pc[r] = "put_get"
    BY <1>3 DEF PutGet, PutGetFails, Building
  <2>2. PICK row \in VettedRow :
          /\ pc' = [pc EXCEPT ![r] = "upsert_exists"]
          /\ image' = [image EXCEPT ![r] = row]
          /\ UNCHANGED <<rows, process, call, verdict>>
    <3>1. CASE PutGetFails(r)
      BY <3>1, <2>1, <1>b, <1>d DEF PutGetFails, Goto
    <3>2. CASE PutGet(r)
      <4> DEFINE ip == IF Present(call[r].dev) THEN rows[call[r].dev].ip ELSE NoIP
      <4>1. call[r].dev \in Device
        BY <2>1, <1>d DEF Call
      <4>2. ip \in VettedIP
        BY <4>1 DEF Present, VettedRow, VettedIP
      <4>3. [image[r] EXCEPT !.ip = ip] \in VettedRow
        BY <4>2, <2>1, <1>d DEF VettedRow
      <4>4. image' = [image EXCEPT ![r] = [image[r] EXCEPT !.ip = ip]]
        BY <3>2 DEF PutGet
      <4>5. QED
        BY <3>2, <4>3, <4>4 DEF PutGet, Goto
    <3>3. QED
      BY <1>3, <3>1, <3>2
  <2>3. row \in Row
    BY <2>2, VettedRowIsRow
  <2>4. "upsert_exists" \in Statement
    BY DEF Statement
  <2>5. QED
    BY <1>a, <1>c, <1>d, <2>1, <2>2, <2>3, <2>4, HandlerStep
<1>4. CASE UpsertExists(r) \/ UpdateGet(r)
  <2>1. pc[r] \in Building
    BY <1>4 DEF UpsertExists, UpdateGet, Building
  <2>2. PICK p \in {"update_get", "upsert_insert", "update_write", "answered"},
             v \in {"none", "error"} :
          /\ pc' = [pc EXCEPT ![r] = p]
          /\ verdict' = [verdict EXCEPT ![r] = v]
          /\ p # "answered" => v = "none"
          /\ UNCHANGED <<rows, process, call, image>>
    BY <1>4, <1>c, <1>d, <2>1 DEF UpsertExists, UpdateGet, Goto, Answer
  <2>3. p \in Pc
    BY DEF Pc, Statement
  <2>4. QED
    BY <1>a, <1>b, <1>d, <2>1, <2>2, <2>3, HandlerStep DEF Verdict
<1>5. CASE UpdateWrite(r)
  <2>1. pc[r] \in Building
    BY <1>5 DEF UpdateWrite, Building
  <2>2. rows' \in [Device -> VettedRow \cup {NoRow}]
    BY <1>5, <1>d, <2>1 DEF UpdateWrite
  <2>3. PICK p \in {"answered", "reload"}, v \in {"patched", "updated"} :
          /\ pc' = [pc EXCEPT ![r] = p]
          /\ verdict' = [verdict EXCEPT ![r] = v]
          /\ UNCHANGED <<process, call, image>>
    BY <1>5 DEF UpdateWrite, AnswerOrReload
  <2>4. QED
    BY <1>a, <1>b, <2>1, <2>2, <2>3, HandlerStep DEF Verdict
<1>6. CASE PatchGet(r)
  <2>1. call[r] \in Call /\ verdict[r] = "none" /\ pc[r] \in Open
    BY <1>6 DEF PatchGet, RequestInv, Statement, Open
  <2>2. ASSUME NEW v \in {"not_found", "bad_request"},
               Answer(r, v) /\ UNCHANGED image
        PROVE  IInv'
    BY <1>6, <1>a, <1>b, <2>1, <2>2, HandlerStep
    DEF PatchGet, Answer, Verdict, Building
  <2>3. CASE /\ Present(call[r].dev) /\ call[r].body.ip \in GoodIP \cup {Omitted}
             /\ Goto(r, "update_get")
             /\ image' = [image EXCEPT ![r] = Merge(rows[call[r].dev], call[r].body)]
    <3>1. rows[call[r].dev] \in VettedRow
      BY <2>1, <2>3 DEF Present, Call
    <3>2. /\ Merge(rows[call[r].dev], call[r].body) \in VettedRow
          /\ Merge(rows[call[r].dev], call[r].body) \in Row
      BY <2>1, <2>3, <3>1, MergeIsVetted, VettedRowIsRow
    <3>3. "update_get" \in Statement
      BY DEF Statement
    <3>4. QED
      BY <1>6, <1>a, <1>c, <2>1, <2>3, <3>2, <3>3, HandlerStep
      DEF PatchGet, Goto
  <2>4. QED
    BY <1>6, <2>2, <2>3 DEF PatchGet
<1>7. CASE DeleteRow(r) \/ GetRow(r) \/ DbError(r)
  <2>1. pc[r] \in Open
    BY <1>7 DEF DeleteRow, GetRow, DbError, Statement, Open
  <2>2. rows' \in [Device -> VettedRow \cup {NoRow}]
    BY <1>7 DEF DeleteRow, GetRow, DbError
  <2>3. PICK v \in {"deleted", "not_found", "found", "error"} :
          /\ pc' = [pc EXCEPT ![r] = "answered"]
          /\ verdict' = [verdict EXCEPT ![r] = v]
          /\ UNCHANGED <<process, call, image>>
    BY <1>7 DEF DeleteRow, GetRow, DbError, Answer
  <2>4. QED
    BY <1>a, <1>b, <2>1, <2>2, <2>3, HandlerStep DEF Verdict
<1>8. CASE Reload(r)
  BY <1>8, <1>a, <1>b, <1>c, HandlerStep DEF Reload, Goto, Open, process
<1>9. QED
  BY <1>1, <1>2, <1>3, <1>4, <1>5, <1>6, <1>7, <1>8 DEF Handle

LEMMA ProcessInv ==
  ASSUME IInv, Boot \/ (\E d \in Device : SeedDevice(d)) \/ Serve \/ Stop
  PROVE  IInv'
<1> USE DEF IInv, TypeOK, RowsInv
<1>1. CASE Boot
  BY <1>1, ServerConstants DEF Boot, RequestInv
<1>2. ASSUME NEW d \in Device, SeedDevice(d) PROVE IInv'
  <2>1. rows' \in [Device -> VettedRow \cup {NoRow}]
    BY <1>2, SeedIsVetted DEF SeedDevice
  <2>2. QED
    BY <1>2, <2>1, VettedRowIsRow DEF SeedDevice, RequestInv
<1>3. CASE Serve
  BY <1>3 DEF Serve, RequestInv
<1>4. CASE Stop
  <2>1. TypeOK' /\ RowsInv'
    BY <1>4 DEF Stop, Pc
  <2>2. ASSUME NEW r \in Request PROVE RequestInv(r)'
    BY <1>4 DEF Stop, RequestInv, Open, Statement, Building
  <2>3. QED
    BY <2>1, <2>2
<1>5. QED
  BY <1>1, <1>2, <1>3, <1>4

LEMMA NextInv == IInv /\ [Next]_vars => IInv'
<1>1. ASSUME IInv, UNCHANGED vars PROVE IInv'
  BY <1>1 DEF IInv, TypeOK, RowsInv, RequestInv, vars
<1>2. QED
  BY <1>1, ReceiveInv, HandleInv, ProcessInv DEF Next

-----------------------------------------------------------------------------
(* Every variable of the server keeps its type.                            *)
THEOREM TypeCorrect == Spec => []TypeOK
<1>1. IInv => TypeOK
  BY DEF IInv
<1>2. QED
  BY <1>1, InitInv, NextInv, PTL DEF Spec

(* However the handlers interleave, and whatever SEED_DEVICES holds, an    *)
(* address that was neither validated nor seeded is never stored.          *)
THEOREM AddressesAreVetted == Spec => []AddressesVetted
<1>1. IInv => AddressesVetted
  BY DEF IInv, RowsInv, AddressesVetted, Present, VettedRow
<1>2. QED
  BY <1>1, InitInv, NextInv, PTL DEF Spec

-----------------------------------------------------------------------------
(* The answers, seen from the registry.                                    *)

Quiet == {"none", "found", "bad_request", "not_found", "conflict", "error"}

(* What a handler step is for the registry: it leaves the table alone and  *)
(* gives an answer that reports no effect, or it is the one effect of its  *)
(* request and the answer reports it.                                      *)
Silent(r) ==
  \E p \in Open \cup {"answered"}, v \in Quiet :
    /\ pc' = [pc EXCEPT ![r] = p]
    /\ verdict' = [verdict EXCEPT ![r] = v]
    /\ EffectOf(verdict[r]) = "none"
    /\ UNCHANGED rows

Acts(r, vs) ==
  \E p \in {"reload", "answered"}, v \in vs :
    /\ pc' = [pc EXCEPT ![r] = p]
    /\ verdict' = [verdict EXCEPT ![r] = v]
    /\ verdict[r] = "none"

Creates(r) ==
  /\ Acts(r, {"created", "registered"})
  /\ ~Present(call[r].dev)
  /\ rows' = [rows EXCEPT ![call[r].dev] = image[r]]
  /\ image[r] \in VettedRow

Updates(r) ==
  /\ Acts(r, {"updated", "patched"})
  /\ rows' = IF Present(call[r].dev)
             THEN [rows EXCEPT ![call[r].dev] = image[r]] ELSE rows
  /\ image[r] \in VettedRow

Deletes(r) ==
  /\ Acts(r, {"deleted"})
  /\ Present(call[r].dev)
  /\ rows' = [rows EXCEPT ![call[r].dev] = NoRow]

LEMMA HandlerKinds ==
  ASSUME IInv, NEW r \in Request, Handle(r)
  PROVE  /\ pc[r] \in Open /\ call[r] \in Call /\ UNCHANGED call
         /\ \/ Silent(r) \/ Creates(r) \/ Updates(r) \/ Deletes(r)
            \/ Reload(r)
<1>0. pc[r] \in Open /\ UNCHANGED call
  BY DEF Handle, PostExists, PostInsert, PutGet, PutGetFails, UpsertExists,
         UpsertInsert, UpdateGet, UpdateWrite, PatchGet, DeleteRow, GetRow,
         DbError, Reload, Open, Statement
<1>1. call[r] \in Call
  BY <1>0 DEF IInv, RequestInv
<1>2. pc[r] \in Statement => verdict[r] = "none"
  BY DEF IInv, RequestInv
<1>3. pc[r] \in Building => image[r] \in VettedRow
  BY DEF IInv, RequestInv
<1>4. EffectOf("none") = "none"
  BY DEF EffectOf
<1>5. verdict = [verdict EXCEPT ![r] = verdict[r]]
  BY DEF IInv, TypeOK
<1>6. CASE PostExists(r)
  BY <1>2, <1>4, <1>5, <1>6, <1>0, <1>1
  DEF PostExists, Silent, Answer, Goto, Statement, Open, Quiet
<1>7. CASE PostInsert(r)
  BY <1>2, <1>3, <1>4, <1>7, <1>0, <1>1
  DEF PostInsert, Insert, Silent, Creates, Acts, Answer, Statement, Quiet, Building
<1>8. CASE PutGet(r) \/ PutGetFails(r) \/ UpsertExists(r) \/ UpdateGet(r)
  BY <1>2, <1>4, <1>5, <1>8, <1>0, <1>1
  DEF PutGet, PutGetFails, UpsertExists, UpdateGet, Silent, Answer, Goto,
      Statement, Open, Quiet
<1>9. CASE UpsertInsert(r)
  BY <1>2, <1>3, <1>4, <1>9, <1>0, <1>1
  DEF UpsertInsert, Insert, Silent, Creates, Acts, Answer, AnswerOrReload,
      Statement, Quiet, Building
<1>10. CASE UpdateWrite(r)
  BY <1>2, <1>3, <1>10, <1>0, <1>1
  DEF UpdateWrite, Updates, Acts, AnswerOrReload, Statement, Building
<1>11. CASE PatchGet(r)
  BY <1>2, <1>4, <1>5, <1>11, <1>0, <1>1
  DEF PatchGet, Silent, Answer, Goto, Statement, Open, Quiet
<1>12. CASE DeleteRow(r)
  BY <1>2, <1>4, <1>12, <1>0, <1>1
  DEF DeleteRow, Silent, Deletes, Acts, Answer, Statement, Quiet
<1>13. CASE GetRow(r) \/ DbError(r)
  BY <1>2, <1>4, <1>13, <1>0, <1>1
  DEF GetRow, DbError, Silent, Answer, Statement, Quiet
<1>14. QED
  BY <1>0, <1>1, <1>6, <1>7, <1>8, <1>9, <1>10, <1>11, <1>12, <1>13 DEF Handle

(* The registry's view of a step that changes the pc and the answer of one *)
(* request.                                                                *)
LEMMA BarStep ==
  ASSUME IInv, NEW r \in Request, NEW p, NEW v,
         pc' = [pc EXCEPT ![r] = p], verdict' = [verdict EXCEPT ![r] = v]
  PROVE  /\ phaseBar' = [phaseBar EXCEPT ![r] = PhaseOf(p)]
         /\ effectBar' = [effectBar EXCEPT ![r] = EffectOf(v)]
         /\ phaseBar[r] = PhaseOf(pc[r])
         /\ effectBar[r] = EffectOf(verdict[r])
  BY DEF phaseBar, effectBar, IInv, TypeOK

LEMMA PhaseFacts ==
  /\ \A p \in Open : PhaseOf(p) = "open"
  /\ PhaseOf("answered") = "closed" /\ PhaseOf("new") = "new"
  /\ PhaseOf("lost") = "lost"
  /\ \A v \in Quiet : EffectOf(v) = "none"
  /\ EffectOf("created") = "created" /\ EffectOf("registered") = "created"
  /\ EffectOf("updated") = "updated" /\ EffectOf("patched") = "updated"
  /\ EffectOf("deleted") = "deleted"
  BY DEF PhaseOf, EffectOf, Open, Statement, Quiet

LEMMA HandlerRefines ==
  ASSUME IInv, NEW r \in Request, Handle(r)
  PROVE  [R!Next]_R!vars
<1>0. pc[r] \in Open /\ call[r].dev \in Device /\ "reload" \in Open
  BY HandlerKinds DEF Call, Open
<1>1. CASE Silent(r)
  <2>1. PICK p \in Open \cup {"answered"}, v \in Quiet :
          /\ pc' = [pc EXCEPT ![r] = p]
          /\ verdict' = [verdict EXCEPT ![r] = v]
          /\ EffectOf(verdict[r]) = "none"
          /\ UNCHANGED rows
    BY <1>1 DEF Silent
  <2>2. /\ phaseBar' = [phaseBar EXCEPT ![r] = PhaseOf(p)]
        /\ effectBar' = [effectBar EXCEPT ![r] = "none"]
        /\ phaseBar[r] = "open" /\ effectBar[r] = "none"
    <3>1. /\ phaseBar' = [phaseBar EXCEPT ![r] = PhaseOf(p)]
          /\ effectBar' = [effectBar EXCEPT ![r] = EffectOf(v)]
          /\ phaseBar[r] = PhaseOf(pc[r]) /\ effectBar[r] = EffectOf(verdict[r])
      BY <2>1, BarStep
    <3>2. EffectOf(v) = "none" /\ PhaseOf(pc[r]) = "open"
      BY <1>0, <2>1, PhaseFacts
    <3>3. QED
      BY <2>1, <3>1, <3>2
  <2>3. effectBar' = effectBar
    BY <2>2 DEF effectBar
  <2>4. CASE p \in Open
    BY <2>1, <2>2, <2>3, <2>4, PhaseFacts DEF R!vars, phaseBar
  <2>5. CASE p = "answered"
    BY <2>1, <2>2, <2>3, <2>5, PhaseFacts DEF R!Next, R!Close
  <2>6. QED
    BY <2>4, <2>5
<1>2. ASSUME NEW vs \in {{"created", "registered"}, {"updated", "patched"}, {"deleted"}},
             NEW e, \A v \in vs : EffectOf(v) = e, Acts(r, vs)
      PROVE  R!TakesEffect(r, e)
  <2>1. PICK p \in {"reload", "answered"}, v \in vs :
          /\ pc' = [pc EXCEPT ![r] = p]
          /\ verdict' = [verdict EXCEPT ![r] = v]
          /\ verdict[r] = "none"
    BY <1>2 DEF Acts
  <2>2. PhaseOf(p) \in {"open", "closed"} /\ EffectOf(v) = e
    BY <1>0, <1>2, <2>1, PhaseFacts
  <2>3. EffectOf("none") = "none"
    BY DEF EffectOf
  <2>4. /\ phaseBar' = [phaseBar EXCEPT ![r] = PhaseOf(p)]
        /\ effectBar' = [effectBar EXCEPT ![r] = e]
        /\ phaseBar[r] = "open" /\ effectBar[r] = "none"
    <3>1. /\ phaseBar' = [phaseBar EXCEPT ![r] = PhaseOf(p)]
          /\ effectBar' = [effectBar EXCEPT ![r] = EffectOf(v)]
          /\ phaseBar[r] = PhaseOf(pc[r]) /\ effectBar[r] = EffectOf(verdict[r])
      BY <2>1, BarStep
    <3>2. PhaseOf(pc[r]) = "open"
      BY <1>0, PhaseFacts
    <3>3. QED
      BY <2>1, <2>2, <2>3, <3>1, <3>2
  <2>5. QED
    BY <2>2, <2>4 DEF R!TakesEffect
<1>3. CASE Creates(r)
  BY <1>0, <1>2, <1>3, PhaseFacts, VettedRowIsRow
  DEF Creates, R!Next, R!Create, Present
<1>4. CASE Updates(r)
  BY <1>0, <1>2, <1>4, PhaseFacts, VettedRowIsRow
  DEF Updates, R!Next, R!Update, Present
<1>5. CASE Deletes(r)
  BY <1>0, <1>2, <1>5, PhaseFacts DEF Deletes, R!Next, R!Delete, Present
<1>6. CASE Reload(r)
  <2>1. /\ phaseBar' = [phaseBar EXCEPT ![r] = "closed"]
        /\ effectBar' = effectBar /\ phaseBar[r] = "open" /\ rows' = rows
    BY <1>0, <1>6, PhaseFacts DEF Reload, Goto, phaseBar, effectBar, IInv, TypeOK
  <2>2. QED
    BY <2>1 DEF R!Next, R!Close
<1>7. QED
  BY <1>1, <1>3, <1>4, <1>5, <1>6, HandlerKinds

LEMMA NextRefines == IInv /\ [Next]_vars => [R!Next]_R!vars
<1> SUFFICES ASSUME IInv, [Next]_vars PROVE [R!Next]_R!vars
  OBVIOUS
<1>1. ASSUME NEW r \in Request, NEW c \in Calls, Receive(r, c)
      PROVE  [R!Next]_R!vars
  <2>1. PICK p \in Open \cup {"answered"}, v \in Quiet :
          /\ pc' = [pc EXCEPT ![r] = p]
          /\ verdict' = [verdict EXCEPT ![r] = v]
          /\ pc[r] = "new" /\ verdict[r] = "none" /\ UNCHANGED rows
    <3>1. pc[r] = "new" /\ verdict[r] = "none"
      BY <1>1 DEF Receive, IInv, RequestInv
    <3>2. verdict = [verdict EXCEPT ![r] = "none"]
      BY <3>1 DEF IInv, TypeOK
    <3>3. FirstStatement(c) \in Open
      BY ServerConstants DEF FirstStatement, Open, Statement, Call, Op
    <3>4. QED
      BY <1>1, <3>1, <3>2, <3>3 DEF Receive, Answer, Goto, Quiet
  <2>2. EffectOf("none") = "none" /\ PhaseOf(p) \in {"open", "closed"}
    BY PhaseFacts DEF EffectOf
  <2>3. /\ phaseBar' = [phaseBar EXCEPT ![r] = PhaseOf(p)]
        /\ effectBar' = [effectBar EXCEPT ![r] = "none"]
        /\ phaseBar[r] = "new" /\ effectBar[r] = "none"
    <3>1. /\ phaseBar' = [phaseBar EXCEPT ![r] = PhaseOf(p)]
          /\ effectBar' = [effectBar EXCEPT ![r] = EffectOf(v)]
          /\ phaseBar[r] = PhaseOf(pc[r]) /\ effectBar[r] = EffectOf(verdict[r])
      BY <2>1, BarStep
    <3>2. EffectOf(v) = "none" /\ PhaseOf("new") = "new"
      BY <2>1, PhaseFacts
    <3>3. QED
      BY <2>1, <2>2, <3>1, <3>2
  <2>4. effectBar' = effectBar
    BY <2>3 DEF effectBar
  <2>5. QED
    BY <2>1, <2>2, <2>3, <2>4 DEF R!Next, R!Open
<1>2. CASE Boot \/ Serve
  BY <1>2 DEF Boot, Serve, R!vars, phaseBar, effectBar
<1>3. ASSUME NEW d \in Device, SeedDevice(d) PROVE [R!Next]_R!vars
  <2>1. \A r \in Request : phaseBar[r] # "open"
    <3>1. SUFFICES ASSUME NEW r \in Request PROVE PhaseOf(pc[r]) # "open"
      BY DEF phaseBar
    <3>2. pc[r] \in Pc /\ pc[r] \notin Open
      BY <1>3 DEF SeedDevice, IInv, TypeOK, RequestInv
    <3>3. QED
      BY <3>2 DEF PhaseOf, Pc, Open
  <2>2. UNCHANGED <<phaseBar, effectBar>>
    BY <1>3 DEF SeedDevice, phaseBar, effectBar
  <2>3. CASE UNCHANGED rows
    BY <2>2, <2>3 DEF R!vars
  <2>4. CASE ~Present(d) /\ rows' = [rows EXCEPT ![d] = Seed[d]]
    <3>1. Seed[d] \in Row
      BY <1>3, ServerConstants DEF SeedDevice, IInv, TypeOK
    <3>2. QED
      BY <2>1, <2>2, <2>4, <3>1 DEF R!Next, R!Provision, Present
  <2>5. QED
    BY <1>3, <2>3, <2>4 DEF SeedDevice
<1>4. CASE Stop
  <2>1. /\ phaseBar' = [r \in Request |->
                          IF phaseBar[r] = "open" THEN "lost" ELSE phaseBar[r]]
    <3>1. ASSUME NEW r \in Request
          PROVE  PhaseOf(pc'[r]) =
                   IF PhaseOf(pc[r]) = "open" THEN "lost" ELSE PhaseOf(pc[r])
      <4>1. pc[r] \in Pc
        BY DEF IInv, TypeOK
      <4>2. pc'[r] = IF pc[r] \in Open THEN "lost" ELSE pc[r]
        BY <1>4 DEF Stop
      <4>3. PhaseOf(pc[r]) = "open" <=> pc[r] \in Open
        BY <4>1 DEF PhaseOf, Pc, Open, Statement
      <4>4. QED
        BY <4>2, <4>3, PhaseFacts
    <3>2. QED
      BY <3>1 DEF phaseBar
  <2>2. UNCHANGED <<rows, effectBar>>
    BY <1>4 DEF Stop, effectBar
  <2>3. QED
    BY <2>1, <2>2 DEF R!Next, R!Lose
<1>5. CASE UNCHANGED vars
  BY <1>5 DEF vars, R!vars, phaseBar, effectBar
<1>6. QED
  BY <1>1, <1>2, <1>3, <1>4, <1>5, HandlerRefines DEF Next

LEMMA InitRefines == Init => R!Init
<1> SUFFICES ASSUME Init PROVE R!Init
  OBVIOUS
<1>1. rows \in [Device -> Row \cup {NoRow}]
  BY InitInv DEF IInv, TypeOK
<1>2. phaseBar = [r \in Request |-> "new"] /\ effectBar = [r \in Request |-> "none"]
  BY DEF Init, phaseBar, effectBar, PhaseOf, EffectOf
<1>3. QED
  BY <1>1, <1>2 DEF R!Init

(* Counting creators and removers.                                         *)
CountInv == IInv /\ CreatorsPaidFor

LEMMA WithSame ==
  ASSUME IInv, NEW r \in Request, NEW v, NEW vs, NEW d,
         verdict' = [verdict EXCEPT ![r] = v], UNCHANGED call,
         verdict[r] \notin vs, v \notin vs \/ call[r].dev # d
  PROVE  With(d, vs)' = With(d, vs)
  BY DEF With, IInv, TypeOK

LEMMA WithAdd ==
  ASSUME IInv, NEW r \in Request, NEW v, NEW vs, v \in vs,
         verdict' = [verdict EXCEPT ![r] = v], UNCHANGED call,
         call[r] # NoCall, verdict[r] \notin vs
  PROVE  /\ With(call[r].dev, vs)' = With(call[r].dev, vs) \cup {r}
         /\ r \notin With(call[r].dev, vs)
  BY DEF With, IInv, TypeOK

LEMMA WithFinite ==
  ASSUME NEW d, NEW vs
  PROVE  /\ IsFiniteSet(With(d, vs))
         /\ Cardinality(With(d, vs)) \in Nat
<1>1. With(d, vs) \subseteq Request
  BY DEF With
<1>2. IsFiniteSet(With(d, vs))
  BY <1>1, ServerConstants, FS_Subset
<1>3. QED
  BY <1>2, FS_CardinalityType

LEMMA CountHandle ==
  ASSUME CountInv, NEW r \in Request, Handle(r)
  PROVE  CreatorsPaidFor'
<1> DEFINE C == {"created", "registered"}
           D == {"deleted"}
<1>0. /\ IInv /\ call[r] \in Call /\ call[r] # NoCall /\ UNCHANGED call
  BY HandlerKinds, ServerConstants DEF CountInv
<1> SUFFICES ASSUME NEW d \in Device
             PROVE  Cardinality(With(d, C)') <=
                      Cardinality(With(d, D)') + (IF rows'[d] # NoRow THEN 1 ELSE 0)
  BY DEF CreatorsPaidFor, Creators, Removers, Present
<1>1. /\ Cardinality(With(d, C)) <=
           Cardinality(With(d, D)) + (IF rows[d] # NoRow THEN 1 ELSE 0)
      /\ Cardinality(With(d, C)) \in Nat /\ Cardinality(With(d, D)) \in Nat
  BY WithFinite DEF CountInv, CreatorsPaidFor, Creators, Removers, Present
<1>2. rows \in [Device -> VettedRow \cup {NoRow}] /\ NoRow \notin VettedRow
  BY <1>0, VettedRowIsRow, ServerConstants DEF IInv, RowsInv
<1>3. ASSUME With(d, C)' = With(d, C), With(d, D)' = With(d, D),
             rows[d] # NoRow => rows'[d] # NoRow
      PROVE  Cardinality(With(d, C)') <=
               Cardinality(With(d, D)') + (IF rows'[d] # NoRow THEN 1 ELSE 0)
  BY <1>1, <1>3
<1>4. CASE Silent(r)
  <2>1. PICK v \in Quiet : /\ verdict' = [verdict EXCEPT ![r] = v]
                           /\ EffectOf(verdict[r]) = "none" /\ UNCHANGED rows
    BY <1>4 DEF Silent
  <2>2. verdict[r] \notin C \cup D /\ v \notin C \cup D
    BY <2>1, PhaseFacts DEF Quiet
  <2>3. With(d, C)' = With(d, C)
    BY <1>0, <2>1, <2>2, WithSame
  <2>4. With(d, D)' = With(d, D)
    BY <1>0, <2>1, <2>2, WithSame
  <2>5. QED
    BY <1>3, <2>1, <2>3, <2>4
<1>5. CASE Reload(r)
  <2>1. UNCHANGED <<rows, verdict>>
    BY <1>5 DEF Reload, Goto
  <2>2. With(d, C)' = With(d, C) /\ With(d, D)' = With(d, D)
    BY <1>0, <2>1 DEF With
  <2>3. QED
    BY <1>3, <2>1, <2>2
<1>6. CASE Updates(r)
  <2>1. PICK v \in {"updated", "patched"} :
          verdict' = [verdict EXCEPT ![r] = v] /\ verdict[r] = "none"
    BY <1>6 DEF Updates, Acts
  <2>2. With(d, C)' = With(d, C)
    BY <1>0, <2>1, WithSame
  <2>3. With(d, D)' = With(d, D)
    BY <1>0, <2>1, WithSame
  <2>4. rows[d] # NoRow => rows'[d] # NoRow
    BY <1>2, <1>6 DEF Updates, Present
  <2>5. QED
    BY <1>3, <2>2, <2>3, <2>4
<1>7. CASE Creates(r)
  <2>1. PICK v \in C :
          verdict' = [verdict EXCEPT ![r] = v] /\ verdict[r] = "none"
    BY <1>7 DEF Creates, Acts
  <2>2. With(d, D)' = With(d, D)
    BY <1>0, <2>1, WithSame
  <2>3. CASE call[r].dev = d
    <3>1. With(d, C)' = With(d, C) \cup {r}
      BY <1>0, <2>1, <2>3, WithAdd
    <3>0. r \notin With(d, C) /\ IsFiniteSet(With(d, C))
      BY <1>0, <2>1, <2>3, WithAdd, WithFinite
    <3>2. Cardinality(With(d, C)') = Cardinality(With(d, C)) + 1
      BY <3>0, <3>1, FS_AddElement
    <3>4. rows[d] = NoRow /\ rows'[d] # NoRow
      BY <1>2, <1>7, <2>3 DEF Creates, Present
    <3>5. QED
      BY <1>1, <2>2, <3>2, <3>4
  <2>4. CASE call[r].dev # d
    <3>1. With(d, C)' = With(d, C)
      BY <1>0, <2>1, <2>4, WithSame
    <3>2. rows'[d] = rows[d]
      BY <1>2, <1>7, <2>4 DEF Creates
    <3>3. QED
      BY <1>3, <2>2, <3>1, <3>2
  <2>5. QED
    BY <2>3, <2>4
<1>8. CASE Deletes(r)
  <2>1. verdict' = [verdict EXCEPT ![r] = "deleted"] /\ verdict[r] = "none"
    BY <1>8 DEF Deletes, Acts
  <2>2. With(d, C)' = With(d, C)
    BY <1>0, <2>1, WithSame
  <2>3. CASE call[r].dev = d
    <3>1. With(d, D)' = With(d, D) \cup {r} /\ r \notin With(d, D)
      BY <1>0, <2>1, <2>3, WithAdd
    <3>2. Cardinality(With(d, D)') = Cardinality(With(d, D)) + 1
      BY <3>1, WithFinite, FS_AddElement
    <3>3. QED
      BY <1>1, <2>2, <3>2
  <2>4. CASE call[r].dev # d
    <3>1. With(d, D)' = With(d, D)
      BY <1>0, <2>1, <2>4, WithSame
    <3>2. rows'[d] = rows[d]
      BY <1>2, <1>8, <2>4 DEF Deletes
    <3>3. QED
      BY <1>3, <2>2, <3>1, <3>2
  <2>5. QED
    BY <2>3, <2>4
<1>9. QED
  BY <1>0, <1>4, <1>5, <1>6, <1>7, <1>8, HandlerKinds

LEMMA CountNext == CountInv /\ [Next]_vars => CountInv'
<1> SUFFICES ASSUME CountInv, [Next]_vars PROVE CountInv'
  OBVIOUS
<1>1. IInv /\ IInv'
  BY NextInv DEF CountInv
<1>2. ASSUME \A d \in Device : Creators(d)' = Creators(d),
             \A d \in Device : Removers(d)' = Removers(d),
             \A d \in Device : rows[d] # NoRow => rows'[d] # NoRow
      PROVE  CreatorsPaidFor'
  <2>1. ASSUME NEW d \in Device
        PROVE  Cardinality(Creators(d)') <=
                 Cardinality(Removers(d)') + (IF rows'[d] # NoRow THEN 1 ELSE 0)
    <3>1. /\ Cardinality(Creators(d)) <=
               Cardinality(Removers(d)) + (IF rows[d] # NoRow THEN 1 ELSE 0)
          /\ Cardinality(Creators(d)) \in Nat /\ Cardinality(Removers(d)) \in Nat
      BY WithFinite DEF CountInv, CreatorsPaidFor, Creators, Removers, Present
    <3>2. QED
      BY <1>2, <3>1
  <2>2. QED
    BY <2>1 DEF CreatorsPaidFor, Present
<1>3. ASSUME NEW r \in Request, NEW c \in Calls, Receive(r, c)
      PROVE  CreatorsPaidFor'
  <2>1. /\ verdict[r] = "none" /\ verdict'[r] \in {"none", "bad_request"}
        /\ UNCHANGED rows
        /\ \A q \in Request \ {r} : call'[q] = call[q] /\ verdict'[q] = verdict[q]
    BY <1>1, <1>3 DEF Receive, Answer, Goto, IInv, TypeOK, RequestInv
  <2>2. \A d \in Device : Creators(d)' = Creators(d)
    BY <2>1 DEF Creators, With
  <2>3. \A d \in Device : Removers(d)' = Removers(d)
    BY <2>1 DEF Removers, With
  <2>4. QED
    BY <1>2, <2>1, <2>2, <2>3
<1>4. ASSUME \/ Boot \/ (\E d \in Device : SeedDevice(d)) \/ Serve \/ Stop
             \/ UNCHANGED vars
      PROVE  CreatorsPaidFor'
  <2>1. UNCHANGED <<call, verdict>>
    BY <1>4 DEF Boot, SeedDevice, Serve, Stop, vars
  <2>2. \A d \in Device : Creators(d)' = Creators(d)
    BY <2>1 DEF Creators, With
  <2>4. \A d \in Device : Removers(d)' = Removers(d)
    BY <2>1 DEF Removers, With
  <2>3. \A d \in Device : rows[d] # NoRow => rows'[d] # NoRow
    BY <1>1, <1>4 DEF Boot, SeedDevice, Serve, Stop, vars, Present, IInv, TypeOK
  <2>5. QED
    BY <1>2, <2>2, <2>4, <2>3
<1>5. CreatorsPaidFor'
  <2>1. CASE \E r \in Request : Handle(r)
    BY <2>1, CountHandle
  <2>2. QED
    BY <1>3, <1>4, <2>1 DEF Next
<1>6. QED
  BY <1>1, <1>5 DEF CountInv

(* Of the clients told that they registered a device, all but one are      *)
(* matched by a client told that it deleted it.                            *)
THEOREM CreatorsArePaidFor == Spec => []CreatorsPaidFor
<1>1. Init => CountInv
  <2>1. ASSUME Init, NEW d \in Device PROVE Creators(d) = {}
    BY <2>1 DEF Init, Creators, With
  <2>2. ASSUME Init, NEW d \in Device
        PROVE  Cardinality(Creators(d)) = 0 /\ Cardinality(Removers(d)) \in Nat
    BY <2>1, <2>2, FS_EmptySet, WithFinite DEF Removers
  <2>3. QED
    BY <2>2, InitInv DEF CountInv, CreatorsPaidFor
<1>2. CountInv => CreatorsPaidFor
  BY DEF CountInv
<1>3. QED
  BY <1>1, <1>2, CountNext, PTL DEF Spec

(* The statement-by-statement handlers implement the atomic registry: each *)
(* request takes effect at most once, in one step, and is answered with    *)
(* the effect it had.                                                      *)
THEOREM HandlersImplementRegistry == Spec => ImplementsRegistry
  BY InitInv, NextInv, InitRefines, NextRefines, PTL
  DEF Spec, ImplementsRegistry, R!Spec

-----------------------------------------------------------------------------
(* Clients that wait for each other: with one request at a time, what a    *)
(* handler has read of its row is still true when it writes it back.       *)

(* A PATCH on its way to the UPDATE holds its row with the body merged in. *)
Merged(r) ==
  /\ pc[r] \in {"update_get", "update_write"}
  /\ call[r].op \in {"PATCH", "PATCH_DEVICE"}
  => Present(call[r].dev) /\ image[r] = Merge(rows[call[r].dev], call[r].body)

(* A PUT without an address holds the stored one from PutGet on.           *)
Kept(r) ==
  /\ pc[r] \in {"upsert_exists", "update_get", "update_write"}
  /\ call[r].op = "PUT" /\ call[r].body.ip \in {Omitted, NoIP}
  /\ Present(call[r].dev)
  => image[r].ip = rows[call[r].dev].ip

(* The lookups before the writes belong to one route each.                 *)
OfRoute(r) ==
  /\ pc[r] \in {"put_get", "upsert_exists"} => call[r].op = "PUT"
  /\ pc[r] = "patch_get" => call[r].op # "PUT"

SerialInv ==
  /\ IInv
  /\ \A r \in Request : OfRoute(r)
  /\ \A q, r \in Request : pc[q] \in Open /\ pc[r] \in Open => q = r
  /\ \A r \in Request : Merged(r)
  /\ ~DbErrors => \A r \in Request : Kept(r)

LEMMA SerialInit == Init => SerialInv
  BY InitInv DEF Init, SerialInv, Open, Statement, OfRoute, Merged, Kept

LEMMA WritersAreOpen ==
  /\ {"put_get", "patch_get", "upsert_exists", "update_get", "update_write"} \subseteq Open
  /\ {"new", "answered", "lost"} \cap Open = {}
  BY DEF Open, Statement

LEMMA SerialReceive ==
  ASSUME MaxInFlight = 1, SerialInv, NEW r \in Request, NEW c \in Calls, Receive(r, c)
  PROVE  SerialInv'
<1> DEFINE busy == {q \in Request : pc[q] \in Open}
<1>1. IInv'
  BY ReceiveInv DEF SerialInv
<1>2. \A q \in Request : pc[q] \notin Open
  <2>1. IsFiniteSet(busy) /\ Cardinality(busy) \in Nat
    BY ServerConstants, FS_Subset, FS_CardinalityType
  <2>2. Cardinality(busy) = 0
    BY <2>1 DEF Receive
  <2>3. busy = {}
    BY <2>1, <2>2, FS_EmptySet
  <2>4. QED
    BY <2>3
<1>3. /\ \A q \in Request \ {r} : pc'[q] = pc[q]
      /\ call'[r] = c
      /\ pc'[r] \in {"answered", FirstStatement(c)}
  BY DEF Receive, Answer, Goto, SerialInv, IInv, TypeOK
<1>4. c \in Call
  BY ServerConstants
<1>5. /\ FirstStatement(c) \notin {"update_get", "update_write"}
      /\ FirstStatement(c) = "upsert_exists" => c.body.ip \notin {Omitted, NoIP}
      /\ FirstStatement(c) \in {"put_get", "upsert_exists"} => c.op = "PUT"
      /\ FirstStatement(c) = "patch_get" => c.op # "PUT"
  BY <1>4 DEF FirstStatement, Call, Op
<1>6. \A q \in Request : Merged(q)'
  BY <1>2, <1>3, <1>5, WritersAreOpen DEF Merged
<1>7. \A q \in Request : Kept(q)'
  BY <1>2, <1>3, <1>5, WritersAreOpen DEF Kept
<1>8. \A q \in Request : OfRoute(q)'
  BY <1>2, <1>3, <1>5, WritersAreOpen DEF OfRoute
<1>9. QED
  BY <1>1, <1>2, <1>3, <1>6, <1>7, <1>8 DEF SerialInv

LEMMA SerialHandle ==
  ASSUME SerialInv, NEW r \in Request, Handle(r)
  PROVE  SerialInv'
<1>1. IInv'
  BY HandleInv DEF SerialInv
<1>2. pc[r] \in Open /\ call[r] \in Call /\ UNCHANGED call
  BY HandlerKinds DEF SerialInv
<1>3. \A q \in Request \ {r} : pc[q] \notin Open /\ pc'[q] = pc[q]
  BY <1>2 DEF SerialInv, IInv, TypeOK, Handle, PostExists, PostInsert, PutGet, PutGetFails,
     UpsertExists, UpsertInsert, UpdateGet, UpdateWrite, PatchGet, DeleteRow, GetRow,
     DbError, Reload, Answer, AnswerOrReload, Goto
<1>4. Merged(r)'
  <2>1. CASE UpdateGet(r)
    BY <1>2, <2>1 DEF UpdateGet, Merged, SerialInv, Goto, Answer, Present
  <2>2. CASE PatchGet(r)
    BY <1>2, <2>2 DEF PatchGet, Merged, SerialInv, IInv, TypeOK, Goto, Answer, Present
  <2>3. CASE UpsertExists(r)
    <3>1. call[r].op = "PUT"
      BY <1>2, <2>3 DEF UpsertExists, SerialInv, OfRoute
    <3>2. QED
      BY <1>2, <3>1, <2>3 DEF UpsertExists, Merged
  <2>4. CASE ~(UpdateGet(r) \/ PatchGet(r) \/ UpsertExists(r))
    <3>1. pc'[r] \notin {"update_get", "update_write"}
      BY <2>4 DEF SerialInv, IInv, TypeOK, Handle, PostExists, PostInsert, PutGet,
         PutGetFails, UpsertInsert, UpdateWrite, DeleteRow, GetRow,
         DbError, Reload, Answer, AnswerOrReload, Goto
    <3>2. QED
      BY <3>1 DEF Merged
  <2>5. QED
    BY <2>1, <2>2, <2>3, <2>4
<1>5. ASSUME ~DbErrors PROVE Kept(r)'
  <2>1. CASE PutGet(r)
    BY <1>2, <2>1 DEF PutGet, Kept, SerialInv, IInv, TypeOK, Goto, Present
  <2>2. CASE UpsertExists(r) \/ UpdateGet(r)
    BY <1>2, <1>5, <2>2 DEF UpsertExists, UpdateGet, Kept, SerialInv, Goto, Answer, Present
  <2>3. CASE PatchGet(r)
    <3>1. call[r].op # "PUT"
      BY <1>2, <2>3 DEF PatchGet, SerialInv, OfRoute
    <3>2. QED
      BY <1>2, <3>1 DEF Kept
  <2>4. CASE ~(UpdateGet(r) \/ PatchGet(r) \/ UpsertExists(r) \/ PutGet(r))
    <3>1. pc'[r] \notin {"upsert_exists", "update_get", "update_write"}
      BY <1>5, <2>4 DEF SerialInv, IInv, TypeOK, Handle, PostExists, PostInsert,
         PutGetFails, UpsertInsert, UpdateWrite, DeleteRow, GetRow,
         DbError, Reload, Answer, AnswerOrReload, Goto
    <3>2. QED
      BY <3>1 DEF Kept
  <2>5. QED
    BY <2>1, <2>2, <2>3, <2>4
<1>6. \A q \in Request \ {r} : Merged(q)' /\ Kept(q)' /\ OfRoute(q)'
  BY <1>3, WritersAreOpen DEF Merged, Kept, OfRoute
<1>7. OfRoute(r)'
  <2>1. OfRoute(r)
    BY DEF SerialInv
  <2>2. CASE PutGet(r) \/ PutGetFails(r)
    BY <1>2, <2>1, <2>2 DEF PutGet, PutGetFails, OfRoute, SerialInv, IInv, TypeOK, Goto
  <2>3. CASE ~(PutGet(r) \/ PutGetFails(r))
    <3>1. pc'[r] \notin {"put_get", "upsert_exists", "patch_get"}
      BY <2>3 DEF SerialInv, IInv, TypeOK, Handle, PostExists, PostInsert, UpsertExists,
         UpsertInsert, UpdateGet, UpdateWrite, PatchGet, DeleteRow, GetRow,
         DbError, Reload, Answer, AnswerOrReload, Goto
    <3>2. QED
      BY <3>1 DEF OfRoute
  <2>4. QED
    BY <2>2, <2>3
<1>8. QED
  BY <1>1, <1>3, <1>4, <1>5, <1>6, <1>7 DEF SerialInv

LEMMA SerialProcess ==
  ASSUME SerialInv,
         \/ Boot \/ (\E d \in Device : SeedDevice(d)) \/ Serve \/ Stop
         \/ UNCHANGED vars
  PROVE  SerialInv'
<1>1. IInv'
  BY ProcessInv, NextInv DEF SerialInv
<1>2. UNCHANGED <<call, image>>
  BY DEF Boot, SeedDevice, Serve, Stop, vars
<1>3. CASE UNCHANGED <<rows, pc>>
  BY <1>1, <1>2, <1>3 DEF SerialInv, OfRoute, Merged, Kept, Present
<1>4. CASE ~UNCHANGED <<rows, pc>>
  <2>1. \A r \in Request : pc'[r] \notin Open
    <3>1. CASE Stop
      BY <3>1, WritersAreOpen DEF Stop, SerialInv, IInv, TypeOK
    <3>2. CASE \E d \in Device : SeedDevice(d)
      BY <3>2 DEF SeedDevice, SerialInv, IInv, RequestInv
    <3>3. QED
      BY <1>4, <3>1, <3>2 DEF Boot, Serve, vars
  <2>2. QED
    BY <1>1, <2>1, WritersAreOpen DEF SerialInv, OfRoute, Merged, Kept
<1>5. QED
  BY <1>3, <1>4

LEMMA SerialNext == ASSUME MaxInFlight = 1 PROVE SerialInv /\ [Next]_vars => SerialInv'
  BY SerialReceive, SerialHandle, SerialProcess DEF Next

(* Only UpdateWrite of the one open request takes it out of update_write   *)
(* and touches the table.                                                  *)
LEMMA WriteStep ==
  ASSUME SerialInv, [Next]_vars, NEW r \in Request,
         pc[r] = "update_write", pc'[r] # "update_write",
         Present(call[r].dev)
  PROVE  rows'[call[r].dev] \in {rows[call[r].dev], image[r]}
<1>1. pc[r] \in Open /\ call[r].dev \in Device /\ server = "serving"
  BY WritersAreOpen DEF SerialInv, IInv, RequestInv, Call
<1>2. CASE UpdateWrite(r)
  BY <1>1, <1>2 DEF UpdateWrite, SerialInv, IInv, TypeOK
<1>3. CASE UNCHANGED rows
  BY <1>3
<1>4. ASSUME NEW q \in Request, Handle(q), ~UpdateWrite(r) PROVE UNCHANGED rows
  <2>1. q = r
    BY <1>1, <1>4, HandlerKinds DEF SerialInv
  <2>2. QED
    BY <1>4, <2>1 DEF Handle, PostExists, PostInsert, PutGet, PutGetFails, UpsertExists,
       UpsertInsert, UpdateGet, PatchGet, DeleteRow, GetRow, DbError, Reload
<1>5. QED
  BY <1>1, <1>2, <1>3, <1>4
  DEF Next, Receive, Boot, SeedDevice, Serve, Stop, vars, process

(* As long as clients take turns a PATCH changes nothing it is not given:  *)
(* the race that breaks this needs two requests in flight.                 *)
THEOREM PatchIsPartialInTurns ==
  ASSUME MaxInFlight = 1 PROVE Spec => PatchChangesOnlyProvided
<1>1. ASSUME SerialInv, [Next]_vars, NEW r \in Request,
             pc[r] = "update_write", pc'[r] # "update_write",
             call[r].op \in {"PATCH", "PATCH_DEVICE"}, Present(call[r].dev)
      PROVE  /\ call[r].body.ip = Omitted =>
                  rows'[call[r].dev].ip = rows[call[r].dev].ip
             /\ call[r].body.conf = Omitted =>
                  rows'[call[r].dev].conf = rows[call[r].dev].conf
  <2>1. Merged(r)
    BY <1>1 DEF SerialInv
  <2>2. image[r] = Merge(rows[call[r].dev], call[r].body)
    BY <1>1, <2>1 DEF Merged
  <2>3. rows'[call[r].dev] \in {rows[call[r].dev], image[r]}
    BY <1>1, WriteStep
  <2>4. CASE rows'[call[r].dev] = rows[call[r].dev]
    BY <2>4
  <2>5. CASE rows'[call[r].dev] = image[r]
    BY <2>2, <2>5 DEF Merge
  <2>6. QED
    BY <2>3, <2>4, <2>5
<1>2. SerialInv /\ [Next]_vars => [\A r \in Request :
       LET d == call[r].dev IN
       /\ pc[r] = "update_write" /\ pc'[r] # "update_write"
       /\ call[r].op \in {"PATCH", "PATCH_DEVICE"}
       /\ Present(d) /\ rows'[d] # NoRow
       => /\ call[r].body.ip = Omitted => rows'[d].ip = rows[d].ip
          /\ call[r].body.conf = Omitted => rows'[d].conf = rows[d].conf]_vars
  BY <1>1
<1>3. QED
  BY <1>2, SerialInit, SerialNext, PTL DEF Spec, PatchChangesOnlyProvided

(* As long as clients take turns and no statement fails, a PUT without an  *)
(* address keeps the one that is stored.                                   *)
THEOREM PutKeepsAddressInTurns ==
  ASSUME MaxInFlight = 1, ~DbErrors PROVE Spec => PutKeepsAddress
<1>1. ASSUME SerialInv, [Next]_vars, NEW r \in Request,
             pc[r] = "update_write", pc'[r] # "update_write",
             call[r].op = "PUT", call[r].body.ip \in {Omitted, NoIP},
             Present(call[r].dev)
      PROVE  rows'[call[r].dev].ip = rows[call[r].dev].ip
  BY <1>1, WriteStep DEF SerialInv, Kept
<1>2. SerialInv /\ [Next]_vars => [\A r \in Request :
       LET d == call[r].dev IN
       /\ pc[r] = "update_write" /\ pc'[r] # "update_write"
       /\ call[r].op = "PUT" /\ call[r].body.ip \in {Omitted, NoIP}
       /\ Present(d) /\ rows'[d] # NoRow
       => rows'[d].ip = rows[d].ip]_vars
  BY <1>1
<1>3. QED
  BY <1>2, SerialInit, SerialNext, PTL DEF Spec, PutKeepsAddress

=============================================================================
