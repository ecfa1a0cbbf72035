--------------------------- MODULE RelayedCallProofs ---------------------------
(***************************************************************************)
(* Over one peripheral SplitRelay implements RelayedCall for every call,   *)
(* however many wait at once, and an answer is from the half it is said to *)
(* be of.                                                                  *)
(***************************************************************************)
EXTENDS SplitRelayProofs

-----------------------------------------------------------------------------
(* What a call is given, and by whom.                                      *)

OfCentral(c) == [source |-> Central, of |-> c, by |-> Central]

(* A call has no number before it is handled, and nothing before its reply *)
(* but what the reply will carry.                                          *)
ServeInv ==
  \A c \in Call :
    /\ call[c] \in {"idle", "calling"} => answer[c] = {} /\ request_id[c] = 0
    /\ call[c] = "handled" => answer[c] = IF kind[c] = "relayed" THEN {} ELSE {OfCentral(c)}
    /\ call[c] = "waiting" => kind[c] = "relayed" /\ answer[c] = {}
    /\ call[c] = "collecting" => kind[c] = "all"

(* Responses that are under way come from a peripheral, and so does what   *)
(* the buffer says of the one it holds.                                    *)
SourceInv ==
  /\ \A p \in Peripheral : \A i \in DOMAIN to_central[p] : to_central[p][i].by \in Peripheral
  /\ relay_response_work \/ response_handler # "idle"
       => relay_response_work_source \in Peripheral /\ relay_response_work_payload.by \in Peripheral
  /\ response_handler = "ready" => relay_resp.by \in Peripheral

CallInv == ServeInv /\ SourceInv /\ CorrectlyTagged

LEMMA ServeStep ==
  ASSUME TypeOK, ServeInv, [Next]_vars
  PROVE  ServeInv'
<1>1. ASSUME UNCHANGED <<kind, request_id, answer>>,
             \A c \in Call : call'[c] \in {call[c], "done", "failed"}
      PROVE  ServeInv'
  BY <1>1 DEF ServeInv, OfCentral
<1>2. ASSUME NEW c \in Call, Client(c)
      PROVE  ServeInv'
  <2>1. ASSUME NEW k \in Kind, CallRpc(c, k)
        PROVE  ServeInv'
    BY <2>1 DEF CallRpc, ServeInv, OfCentral, TypeOK
  <2>2. CASE RpcHandleRequest(c)
    BY <2>2 DEF RpcHandleRequest, SendRelayRequest, ServeInv, OfCentral, TypeOK
  <2>3. CASE RpcReply(c)
    BY <2>3 DEF RpcReply, ServeInv, OfCentral, TypeOK, Kind
  <2>4. CASE GiveUp(c) \/ EndCollect(c)
    BY <1>1, <2>4 DEF GiveUp, EndCollect, TypeOK
  <2> QED BY <1>2, <2>1, <2>2, <2>3, <2>4 DEF Client
<1>3. ASSUME NEW p \in Peripheral, Execute(p)
      PROVE  ServeInv'
  BY <1>1, <1>3 DEF Execute, Decode, OnRelayRequest, RequestWorkStart, DecodeRequestId,
                    DecodeRequestBody, DecodeRequestFails, ExecRequest, client
<1>4. CASE Pass
  <2>1. CASE RaiseNotification
    <3>1. UNCHANGED <<kind, request_id>>
      BY <2>1 DEF RaiseNotification
    <3>2. ASSUME NEW c \in Call
          PROVE  \/ call'[c] = call[c] /\ answer'[c] = answer[c]
                 \/ call'[c] = "done"
                 \/ call'[c] = call[c] /\ call[c] = "collecting"
      BY <2>1 DEF RaiseNotification, Resolve
    <3> QED BY <3>1, <3>2 DEF ServeInv, OfCentral
  <2>2. CASE ~RaiseNotification
    BY <1>1, <1>4, <2>2 DEF Pass, OnRelayResponse, ResponseWorkStart, DecodeResponseId,
                            DecodeResponseBody, DecodeResponseFails, NotificationFails, client
  <2> QED BY <2>1, <2>2
<1>5. CASE Fault
  BY <1>1, <1>5 DEF Fault, CentralRestart, LinkLost, PeripheralRestart, client, TypeOK
<1>6. CASE UNCHANGED vars
  BY <1>1, <1>6 DEF vars, client
<1> QED BY <1>2, <1>3, <1>4, <1>5, <1>6 DEF Next

(* Messages that were under way before are from peripherals still. *)
LEMMA SourceKept ==
  ASSUME SourceInv, UNCHANGED <<response, to_central>>
  PROVE  SourceInv'
  BY DEF SourceInv, response

LEMMA SourceStep ==
  ASSUME TypeOK, SourceInv, [Next]_vars
  PROVE  SourceInv'
<1> DEFINE FromPeripherals(q) == \A i \in DOMAIN q : q[i].by \in Peripheral
<1>1. \A p \in Peripheral : FromPeripherals(to_central[p]) /\ to_central[p] \in Seq(Response)
  BY DEF SourceInv, TypeOK
<1>2. ASSUME NEW c \in Call, Client(c)
      PROVE  SourceInv'
  BY <1>2, SourceKept DEF Client, CallRpc, RpcHandleRequest, RpcReply, GiveUp, EndCollect, link
<1>3. ASSUME NEW p \in Peripheral, Execute(p)
      PROVE  SourceInv'
  <2>1. CASE ExecRequest(p)
    <3> DEFINE m == [id |-> relay_req[p].id, of |-> relay_req[p].of, by |-> p]
    <3>1. to_central' = [to_central EXCEPT ![p] = Append(@, m)] /\ UNCHANGED response
      BY <2>1 DEF ExecRequest
    <3>2. FromPeripherals(Append(to_central[p], m))
      BY <1>1
    <3>3. \A q \in Peripheral : FromPeripherals(to_central'[q])
      BY <1>1, <3>1, <3>2 DEF TypeOK
    <3> QED BY <3>1, <3>3 DEF SourceInv, response
  <2>2. CASE ~ExecRequest(p)
    BY <1>3, <2>2, SourceKept DEF Execute, Decode, OnRelayRequest, RequestWorkStart,
       DecodeRequestId, DecodeRequestBody, DecodeRequestFails, link
  <2> QED BY <2>1, <2>2
<1>4. CASE Pass
  <2>1. ASSUME NEW p \in Peripheral, OnRelayResponse(p)
        PROVE  SourceInv'
    <3>1. /\ to_central[p] # <<>> /\ to_central' = [to_central EXCEPT ![p] = Tail(@)]
          /\ relay_response_work_payload' = Head(to_central[p])
          /\ relay_response_work_source' = p
          /\ UNCHANGED <<response_handler, relay_resp>>
      BY <2>1 DEF OnRelayResponse
    <3>2. /\ FromPeripherals(Tail(to_central[p]))
          /\ Head(to_central[p]).by \in Peripheral
      BY <1>1, <3>1
    <3>3. \A q \in Peripheral : FromPeripherals(to_central'[q])
      BY <1>1, <3>1, <3>2 DEF TypeOK
    <3> QED BY <3>1, <3>2, <3>3 DEF SourceInv
  <2>2. CASE ResponseWorkStart \/ DecodeResponseId \/ DecodeResponseBody \/ DecodeResponseFails
    BY <2>2 DEF ResponseWorkStart, DecodeResponseId, DecodeResponseBody, DecodeResponseFails,
                SourceInv, TypeOK, Response, link
  <2>3. CASE RaiseNotification \/ NotificationFails
    BY <2>3 DEF RaiseNotification, NotificationFails, SourceInv, link
  <2> QED BY <1>4, <2>1, <2>2, <2>3 DEF Pass
<1>5. CASE Fault
  <2>1. CASE CentralRestart
    BY <2>1 DEF CentralRestart, SourceInv
  <2>2. ASSUME NEW p \in Peripheral, LinkLost(p) \/ PeripheralRestart(p)
        PROVE  SourceInv'
    <3>1. to_central' = [to_central EXCEPT ![p] = <<>>] /\ UNCHANGED response
      BY <2>2 DEF LinkLost, PeripheralRestart
    <3>2. \A q \in Peripheral : FromPeripherals(to_central'[q])
      BY <1>1, <3>1 DEF TypeOK
    <3> QED BY <3>1, <3>2 DEF SourceInv, response
  <2> QED BY <1>5, <2>1, <2>2 DEF Fault
<1>6. CASE UNCHANGED vars
  BY <1>6, SourceKept DEF vars, link
<1> QED BY <1>2, <1>3, <1>4, <1>5, <1>6 DEF Next

(* Only the notification gives a call anything but the central's own part. *)
LEMMA AnswersStep ==
  ASSUME TypeOK, [Next]_vars, NEW c \in Call
  PROVE  \/ answer'[c] = answer[c]
         \/ answer'[c] = {OfCentral(c)}
         \/ RaiseNotification
<1>1. ASSUME NEW d \in Call, Client(d)
      PROVE  answer'[c] = answer[c] \/ answer'[c] = {OfCentral(c)}
  <2>1. CASE RpcHandleRequest(d)
    BY <2>1 DEF RpcHandleRequest, OfCentral, TypeOK
  <2>2. CASE ~RpcHandleRequest(d)
    BY <1>1, <2>2 DEF Client, CallRpc, RpcReply, GiveUp, EndCollect
  <2> QED BY <2>1, <2>2
<1>2. ASSUME NEW p \in Peripheral, Execute(p)
      PROVE  answer'[c] = answer[c]
  BY <1>2 DEF Execute, Decode, OnRelayRequest, RequestWorkStart, DecodeRequestId,
              DecodeRequestBody, DecodeRequestFails, ExecRequest, client
<1>3. CASE Pass
  BY <1>3 DEF Pass, OnRelayResponse, ResponseWorkStart, DecodeResponseId, DecodeResponseBody,
              DecodeResponseFails, NotificationFails, client
<1>4. CASE Fault
  BY <1>4 DEF Fault, CentralRestart, LinkLost, PeripheralRestart, client
<1>5. CASE UNCHANGED vars
  BY <1>5 DEF vars, client
<1> QED BY <1>1, <1>2, <1>3, <1>4, <1>5 DEF Next

(* The notification as it is raised, of the source that is in the buffer.  *)
Raised == [source |-> relay_response_work_source, of |-> relay_resp.of, by |-> relay_resp.by]

LEMMA RaisedIsTagged ==
  ASSUME OnePeripheral, TypeOK, SourceInv, RaiseNotification
  PROVE  Raised \in Answer /\ Raised.source = Raised.by
<1>1. Raised \in Answer
  BY DEF TypeOK, Response, Answer, Raised
<1>2. relay_response_work_source \in Peripheral /\ relay_resp.by \in Peripheral
  BY DEF SourceInv, RaiseNotification
<1> QED BY <1>1, <1>2 DEF OnePeripheral, Raised

LEMMA TaggedStep ==
  ASSUME OnePeripheral, TypeOK, SourceInv, CorrectlyTagged, [Next]_vars
  PROVE  CorrectlyTagged'
<1> SUFFICES ASSUME NEW c \in Call, NEW a \in answer'[c]
             PROVE  a.source = a.by
  BY DEF CorrectlyTagged
<1>1. CASE answer'[c] = answer[c]
  BY <1>1 DEF CorrectlyTagged
<1>2. CASE answer'[c] = {OfCentral(c)}
  BY <1>2 DEF OfCentral
<1>3. CASE RaiseNotification
  <2>1. a \in answer[c] \cup {Raised}
    BY <1>3 DEF RaiseNotification, Raised
  <2> QED BY <1>3, <2>1, RaisedIsTagged DEF CorrectlyTagged
<1> QED BY <1>1, <1>2, <1>3, AnswersStep

LEMMA RelayCallInv ==
  ASSUME OnePeripheral
  PROVE  Spec => []CallInv
<1>1. Init => CallInv
  <2> SUFFICES ASSUME Init PROVE CallInv
    OBVIOUS
  <2>1. SourceInv
    BY DEF Init, SourceInv
  <2>2. ServeInv /\ CorrectlyTagged
    BY DEF Init, ServeInv, CorrectlyTagged
  <2> QED BY <2>1, <2>2 DEF CallInv
<1>2. TypeInv /\ CallInv /\ [Next]_vars => CallInv'
  BY ServeStep, SourceStep, TaggedStep DEF TypeInv, CallInv
<1> QED BY <1>1, <1>2, RelayTypes, PTL DEF Spec

(* With one peripheral every answer is from the half it is said to be of,  *)
(* whatever is overwritten or torn; with two, relay_sources shows a wrong  *)
(* one (pmw3610_relay.c, relay_response_work_handler).                     *)
THEOREM AnswersAreTagged ==
  ASSUME OnePeripheral
  PROVE  Spec => []CorrectlyTagged
<1>1. CallInv => CorrectlyTagged
  BY DEF CallInv
<1> QED BY <1>1, RelayCallInv, PTL

-----------------------------------------------------------------------------
(* The steps of RelayedCall, as seen from one call.                        *)

StepOf(c) == [Relayed(c)!Next]_(Relayed(c)!vars)

Exposed(c) == restarts > 0 \/ Overtaken(c)

(* What a call may be given: its own, or any once it is exposed.           *)
May(c, a) == a \in Answer /\ a.source = a.by /\ (a.of = c \/ Exposed(c))

LEMMA MayIsEligible ==
  ASSUME NEW c \in Call, NEW a, May(c, a)
  PROVE  a \in Relayed(c)!Eligible
<1>1. a.of \in Call \cup {NoCall}
  BY DEF May, Answer
<1>2. a \in AnswersTo(a.of)
  BY DEF May, AnswersTo
<1> QED BY <1>1, <1>2 DEF May, Exposed, Relayed!Eligible

LEMMA CallStutters ==
  ASSUME NEW c \in Call, UNCHANGED <<PhaseOf(c), GivenTo(c), Exposed(c)>>
  PROVE  StepOf(c)
  BY DEF StepOf, Relayed!vars, Exposed

LEMMA CallIsGiven ==
  ASSUME NEW c \in Call, NEW a, May(c, a), UNCHANGED Exposed(c),
         \/ PhaseOf(c) = "waiting" /\ PhaseOf(c)' = "done" /\ GivenTo(c)' = {a}
         \/ PhaseOf(c) = "collecting" /\ PhaseOf(c)' = "collecting"
              /\ GivenTo(c)' = GivenTo(c) \cup {a}
  PROVE  StepOf(c)
<1>1. Relayed(c)!Resolve(a) \/ Relayed(c)!Collect(a)
  BY DEF Relayed!Resolve, Relayed!Collect, Exposed
<1>2. Relayed(c)!Next
  BY <1>1, MayIsEligible DEF Relayed!Next
<1> QED BY <1>2 DEF StepOf

LEMMA ClientCalls ==
  ASSUME TypeOK, CallInv, NEW d \in Call, Client(d), NEW c \in Call
  PROVE  StepOf(c)
<1>1. \/ UNCHANGED Exposed(c)
      \/ RpcHandleRequest(d) /\ Exposed(c)' /\ c # d
  <2>1. CASE RpcHandleRequest(d) /\ kind[d] # "local"
    <3>1. /\ next_relay_request_id' = next_relay_request_id + 1
          /\ request_id' = [request_id EXCEPT ![d] = next_relay_request_id]
          /\ UNCHANGED restarts
      BY <2>1 DEF RpcHandleRequest, SendRelayRequest
    <3>2. /\ call[d] = "calling" /\ request_id[d] \in Nat /\ next_relay_request_id \in Nat
          /\ request_id[c] \in Nat
      BY <2>1, IdsAreNumbers DEF RpcHandleRequest
    <3>3. CASE c = d
      <4>1. ~Overtaken(c) /\ ~Overtaken(c)'
        BY <3>1, <3>2, <3>3 DEF CallInv, ServeInv, Overtaken, TypeOK
      <4> QED BY <3>1, <4>1 DEF Exposed
    <3>4. CASE c # d
      <4>1. request_id'[c] = request_id[c]
        BY <3>1, <3>4 DEF TypeOK
      <4>2. Overtaken(c) => Overtaken(c)'
        BY <3>1, <3>2, <4>1 DEF Overtaken
      <4>3. Exposed(c) => Exposed(c)'
        BY <3>1, <4>2 DEF Exposed
      <4>4. Exposed(c) \in BOOLEAN /\ Exposed(c)' \in BOOLEAN
        BY DEF Exposed, Overtaken
      <4> QED BY <2>1, <3>4, <4>3, <4>4
    <3> QED BY <3>3, <3>4
  <2>2. CASE ~(RpcHandleRequest(d) /\ kind[d] # "local")
    <3>1. UNCHANGED <<request_id, next_relay_request_id, restarts>>
      BY <2>2 DEF Client, CallRpc, RpcHandleRequest, RpcReply, GiveUp, EndCollect
    <3> QED BY <3>1 DEF Exposed, Overtaken
  <2> QED BY <2>1, <2>2
<1>2. CASE c # d
  <2>1. call'[c] = call[c] /\ kind'[c] = kind[c] /\ answer'[c] = answer[c]
    BY <1>2 DEF Client, CallRpc, RpcHandleRequest, RpcReply, GiveUp, EndCollect, TypeOK
  <2>2. UNCHANGED <<PhaseOf(c), GivenTo(c)>>
    BY <2>1 DEF PhaseOf, GivenTo
  <2>3. CASE UNCHANGED Exposed(c)
    BY <2>2, <2>3, CallStutters
  <2>4. CASE Exposed(c)'
    <3>1. Relayed(c)!Overtake
      BY <2>2, <2>4 DEF Relayed!Overtake, Exposed
    <3> QED BY <3>1 DEF StepOf, Relayed!Next
  <2> QED BY <1>1, <2>3, <2>4
<1>3. CASE c = d
  <2>0. UNCHANGED Exposed(c)
    BY <1>1, <1>3
  <2>1. ASSUME NEW k \in Kind, CallRpc(c, k)
        PROVE  StepOf(c)
    <3>1. call[c] = "idle" /\ call'[c] = "calling"
      BY <2>1 DEF CallRpc, TypeOK
    <3>2. Relayed(c)!Make
      BY <2>0, <3>1 DEF PhaseOf, GivenTo, Exposed, Relayed!Make
    <3> QED BY <3>2 DEF StepOf, Relayed!Next
  <2>2. CASE RpcHandleRequest(c)
    <3>1. call[c] = "calling" /\ call'[c] = "handled" /\ kind'[c] = kind[c]
      BY <2>2 DEF RpcHandleRequest, TypeOK
    <3> QED BY <2>0, <3>1, CallStutters DEF PhaseOf, GivenTo
  <2>3. CASE RpcReply(c)
    <3>1. /\ call[c] = "handled" /\ UNCHANGED <<kind, answer>> /\ kind[c] \in Kind
          /\ call'[c] = CASE kind[c] = "local"   -> "done"
                          [] kind[c] = "relayed" -> "waiting"
                          [] kind[c] = "all"     -> "collecting"
      BY <2>3 DEF RpcReply, TypeOK
    <3>2. CASE kind[c] = "relayed"
      <4>1. call'[c] = "waiting"
        BY <3>1, <3>2
      <4> QED BY <2>0, <3>1, <3>2, <4>1, CallStutters DEF PhaseOf, GivenTo
    <3>3. CASE kind[c] # "relayed"
      <4>1. answer[c] = {OfCentral(c)}
        BY <3>1, <3>3 DEF CallInv, ServeInv
      <4>2. May(c, OfCentral(c))
        BY DEF May, OfCentral, Answer, Source
      <4>3. \/ kind[c] = "local" /\ call'[c] = "done"
            \/ kind[c] = "all" /\ call'[c] = "collecting"
        BY <3>1, <3>3 DEF Kind
      <4>4. \/ /\ PhaseOf(c) = "waiting" /\ PhaseOf(c)' = "done"
               /\ GivenTo(c)' = {OfCentral(c)}
            \/ /\ PhaseOf(c) = "collecting" /\ PhaseOf(c)' = "collecting"
               /\ GivenTo(c)' = GivenTo(c) \cup {OfCentral(c)}
        BY <3>1, <4>1, <4>3 DEF PhaseOf, GivenTo
      <4> QED BY <2>0, <4>2, <4>4, CallIsGiven
    <3> QED BY <3>2, <3>3
  <2>4. CASE GiveUp(c)
    <3>1. call[c] = "waiting" /\ call'[c] = "failed" /\ kind[c] = "relayed"
      BY <2>4 DEF GiveUp, TypeOK, CallInv, ServeInv
    <3>2. Relayed(c)!Reject
      BY <2>0, <3>1 DEF PhaseOf, GivenTo, Exposed, Relayed!Reject
    <3> QED BY <3>2 DEF StepOf, Relayed!Next
  <2>5. CASE EndCollect(c)
    <3>1. call[c] = "collecting" /\ call'[c] = "done" /\ kind[c] = "all" /\ UNCHANGED answer
      BY <2>5 DEF EndCollect, TypeOK, CallInv, ServeInv
    <3>2. Relayed(c)!EndCollect
      BY <2>0, <3>1 DEF PhaseOf, GivenTo, Exposed, Relayed!EndCollect
    <3> QED BY <3>2 DEF StepOf, Relayed!Next
  <2> QED BY <1>3, <2>1, <2>2, <2>3, <2>4, <2>5 DEF Client
<1> QED BY <1>2, <1>3

LEMMA NotifiedCalls ==
  ASSUME OnePeripheral, TypeOK, CallInv, OrderInv, AnswersOwnCall', RaiseNotification,
         NEW c \in Call
  PROVE  StepOf(c)
<1>1. UNCHANGED <<kind, request_id, next_relay_request_id, restarts>> /\ UNCHANGED Exposed(c)
  BY DEF RaiseNotification, Exposed, Overtaken
<1>2. CASE ~Resolve(c)
  <2>1. call'[c] = call[c] /\ answer'[c] = answer[c]
    BY <1>2 DEF RaiseNotification
  <2> QED BY <1>1, <2>1, CallStutters DEF PhaseOf, GivenTo
<1>3. CASE Resolve(c)
  <2>1. /\ answer'[c] = answer[c] \cup {Raised}
        /\ call'[c] = IF call[c] = "waiting" THEN "done" ELSE call[c]
        /\ call[c] \in {"waiting", "collecting"}
    BY <1>3 DEF RaiseNotification, Resolve, Raised
  <2>2. May(c, Raised)
    <3>1. ASSUME restarts = 0, Raised.of # c
          PROVE  Overtaken(c)
      <4>1. Raised.of \in Call /\ request_id[Raised.of] > request_id[c]
        BY <1>1, <2>1, <3>1 DEF AnswersOwnCall
      <4>2. /\ request_id[Raised.of] < next_relay_request_id
            /\ Awaits(c) => request_id[c] # 0
        BY <3>1, <4>1 DEF OrderInv, Order, CallOrder
      <4>3. request_id[c] # 0
        BY <2>1, <4>2 DEF Awaits
      <4> QED BY <4>1, <4>2, <4>3, IdsAreNumbers DEF Overtaken
    <3>2. restarts = 0 \/ restarts > 0
      BY RestartAssumption DEF TypeOK
    <3> QED BY <3>1, <3>2, RaisedIsTagged DEF May, Exposed, CallInv
  <2>3. /\ call[c] = "waiting" => kind[c] = "relayed" /\ answer[c] = {}
        /\ call[c] = "collecting" => kind[c] = "all"
    BY DEF CallInv, ServeInv
  <2>4. \/ PhaseOf(c) = "waiting" /\ PhaseOf(c)' = "done" /\ GivenTo(c)' = {Raised}
        \/ /\ PhaseOf(c) = "collecting" /\ PhaseOf(c)' = "collecting"
           /\ GivenTo(c)' = GivenTo(c) \cup {Raised}
    BY <1>1, <2>1, <2>3 DEF PhaseOf, GivenTo
  <2> QED BY <1>1, <2>2, <2>4, CallIsGiven
<1> QED BY <1>2, <1>3

(* Only calls that wait are rejected, and broadcasts without an answer.    *)
LEMMA RestartedCalls ==
  ASSUME TypeOK, CallInv, CentralRestart, NEW c \in Call
  PROVE  StepOf(c)
<1>1. /\ restarts' > 0 /\ UNCHANGED <<kind, answer>>
      /\ call'[c] = IF call[c] \in {"calling", "handled", "waiting"} THEN "failed" ELSE call[c]
  BY RestartAssumption DEF CentralRestart, TypeOK
<1>2. call[c] = "waiting" => kind[c] = "relayed"
  BY DEF CallInv, ServeInv
<1>3. call[c] = "collecting" => kind[c] = "all"
  BY DEF CallInv, ServeInv
<1>4. call[c] \in CallState
  BY DEF TypeOK
<1>5. Relayed(c)!Reset
  <2>1. CASE call[c] \in {"calling", "handled", "waiting"}
    <3>1. PhaseOf(c)' = "failed" /\ GivenTo(c)' = {} /\ GivenTo(c) = {}
      BY <1>1, <2>1 DEF PhaseOf, GivenTo
    <3>2. PhaseOf(c) \in {"waiting", "collecting"}
      BY <2>1 DEF PhaseOf
    <3> QED BY <1>1, <3>1, <3>2 DEF Relayed!Reset, Exposed
  <2>2. CASE call[c] \in {"idle", "collecting", "done", "failed"}
    <3>1. PhaseOf(c)' = PhaseOf(c) /\ GivenTo(c)' = GivenTo(c) /\ PhaseOf(c) # "waiting"
      BY <1>1, <1>3, <2>2 DEF PhaseOf, GivenTo
    <3> QED BY <1>1, <3>1 DEF Relayed!Reset, Exposed
  <2> QED BY <1>4, <2>1, <2>2 DEF CallState
<1> QED BY <1>5 DEF StepOf, Relayed!Next

(* Over one peripheral every call is settled once, with an answer that is  *)
(* correctly tagged and its own unless a later one overtook it, and is not *)
(* touched afterwards (relay.ts; pmw3610_relay.c).                         *)
THEOREM RelayImplementsCall ==
  ASSUME OnePeripheral
  PROVE  Spec => ImplementsRelayedCall
<1>1. Init => \A c \in Call : Relayed(c)!Init
  BY DEF Init, Relayed!Init, PhaseOf, GivenTo, Overtaken
<1>2. TypeOK /\ CallInv /\ OrderInv /\ AnswersOwnCall' /\ [Next]_vars
        => \A c \in Call : StepOf(c)
  <2> SUFFICES ASSUME TypeOK, CallInv, OrderInv, AnswersOwnCall', [Next]_vars, NEW c \in Call
               PROVE  StepOf(c)
    OBVIOUS
  <2>1. CASE RaiseNotification
    BY <2>1, NotifiedCalls
  <2>2. CASE CentralRestart
    BY <2>2, RestartedCalls
  <2>3. ASSUME NEW d \in Call, Client(d)
        PROVE  StepOf(c)
    BY <2>3, ClientCalls
  <2>4. ASSUME UNCHANGED <<client, next_relay_request_id, restarts>>
        PROVE  StepOf(c)
    BY <2>4, CallStutters DEF client, PhaseOf, GivenTo, Exposed, Overtaken
  <2>5. CASE \E p \in Peripheral : Execute(p)
    BY <2>4, <2>5 DEF Execute, Decode, OnRelayRequest, RequestWorkStart, DecodeRequestId,
                      DecodeRequestBody, DecodeRequestFails, ExecRequest
  <2>6. CASE Pass /\ ~RaiseNotification
    BY <2>4, <2>6 DEF Pass, OnRelayResponse, ResponseWorkStart, DecodeResponseId,
                      DecodeResponseBody, DecodeResponseFails, NotificationFails
  <2>7. CASE Fault /\ ~CentralRestart
    BY <2>4, <2>7 DEF Fault, LinkLost, PeripheralRestart
  <2>8. CASE UNCHANGED vars
    BY <2>4, <2>8 DEF vars
  <2> QED BY <2>1, <2>2, <2>3, <2>5, <2>6, <2>7, <2>8 DEF Next
<1>3. (\A c \in Call : StepOf(c)) => \A c \in Call : [Relayed(c)!Next]_(Relayed(c)!vars)
  BY DEF StepOf
<1>4. TypeOK /\ CallInv /\ OrderInv /\ AnswersOwnCall' /\ [Next]_vars
        => [\A c \in Call : [Relayed(c)!Next]_(Relayed(c)!vars)]_vars
  BY <1>2, <1>3
<1>5. Spec => \A c \in Call : Relayed(c)!Init
  BY <1>1 DEF Spec
<1>6. (Spec => []AnswersOwnCall) /\ (Spec => []OrderInv)
  BY AnswersAreOwn, RelayOrder
<1>7. Spec => []CallInv
  BY RelayCallInv
<1>8. Spec => [][\A c \in Call : [Relayed(c)!Next]_(Relayed(c)!vars)]_vars
  BY <1>4, <1>6, <1>7, RelayTypeCorrect, PTL DEF Spec
<1> QED BY <1>5, <1>8 DEF ImplementsRelayedCall
=============================================================================
