--------------------------- MODULE SplitRelayProofs ---------------------------
(***************************************************************************)
(* Theorems about SplitRelay, whatever fails and restarts and however the  *)
(* calls of the client overlap: types for every number of calls and        *)
(* peripherals; that the answer of a call that was not overtaken is on its *)
(* way while it waits; and, with one peripheral, that no call is given the *)
(* answer of an earlier one, nor that of a later one that did not overtake *)
(* it.                                                                     *)
(***************************************************************************)
EXTENDS SplitRelay, FiniteSetTheorems, SequenceTheorems, TLAPS

-----------------------------------------------------------------------------
(* Types.  An id is at most the number of calls, because the counter is    *)
(* not ahead of the calls that have been numbered.                         *)

Numbered == {c \in Call : call[c] \notin {"idle", "calling"}}

CounterBound == next_relay_request_id <= Cardinality(Numbered) + 1

LEMMA CallsAreFinite ==
  /\ Cardinality(Call) \in Nat
  /\ \A S \in SUBSET Call : IsFiniteSet(S) /\ Cardinality(S) \in Nat
                            /\ Cardinality(S) <= Cardinality(Call)
  BY CallAssumption, FS_Subset, FS_CardinalityType

LEMMA NumberedGrows ==
  ASSUME Numbered \subseteq Numbered'
  PROVE  Cardinality(Numbered) <= Cardinality(Numbered')
<1>1. IsFiniteSet(Numbered')
  BY CallsAreFinite DEF Numbered
<1> QED BY <1>1, FS_Subset

LEMMA NumberedGainsOne ==
  ASSUME NEW c \in Call, call[c] = "calling", Numbered' = Numbered \cup {c}
  PROVE  /\ Cardinality(Numbered') = Cardinality(Numbered) + 1
         /\ Cardinality(Numbered) + 1 <= Cardinality(Call)
<1>1. IsFiniteSet(Numbered) /\ c \notin Numbered /\ Numbered \cup {c} \in SUBSET Call
  BY CallsAreFinite DEF Numbered
<1>2. Cardinality(Numbered \cup {c}) = Cardinality(Numbered) + 1
  BY <1>1, FS_AddElement
<1> QED BY <1>1, <1>2, CallsAreFinite

TypeInv == TypeOK /\ CounterBound

LEMMA InitTypes == Init => TypeInv
<1> SUFFICES ASSUME Init PROVE TypeInv
  OBVIOUS
<1>1. Numbered = {}
  BY DEF Init, Numbered
<1>2. CounterBound
  BY <1>1, FS_EmptySet DEF Init, CounterBound
<1>3. 0 \in RequestId /\ Central \in Source
  BY CallsAreFinite DEF RequestId, Source
<1>4. NoRequest \in Request /\ NoResponse \in Response
  BY <1>3 DEF NoRequest, NoResponse, Request, Response
<1>5. /\ to_peripheral \in [Peripheral -> Seq(Request)]
      /\ to_central \in [Peripheral -> Seq(Response)]
  BY DEF Init
<1>6. /\ kind \in [Call -> Kind] /\ call \in [Call -> CallState]
      /\ request_id \in [Call -> RequestId] /\ answer \in [Call -> SUBSET Answer]
      /\ next_relay_request_id \in 1..Cardinality(Call) + 1
      /\ restarts \in 0..MaxRestarts /\ lost \subseteq Call
  BY <1>3, CallsAreFinite, RestartAssumption DEF Init, Kind, CallState
<1>7. /\ relay_response_work_source \in Source /\ relay_response_work_payload \in Response
      /\ relay_response_work \in BOOLEAN /\ response_handler \in HandlerState
      /\ relay_resp \in Response
  BY <1>3, <1>4 DEF Init, HandlerState
<1>8. /\ relay_request_work_payload \in [Peripheral -> Request]
      /\ relay_request_work \in [Peripheral -> BOOLEAN]
      /\ request_handler \in [Peripheral -> HandlerState]
      /\ relay_req \in [Peripheral -> Request]
  BY <1>4 DEF Init, HandlerState
<1> QED BY <1>2, <1>5, <1>6, <1>7, <1>8 DEF TypeInv, TypeOK

(* A step of a component that leaves the calls and the counter alone. *)
LEMMA CounterKept ==
  ASSUME CounterBound, TypeOK, Numbered \subseteq Numbered',
         next_relay_request_id' = next_relay_request_id
  PROVE  CounterBound'
<1>1. Cardinality(Numbered) \in Nat /\ Cardinality(Numbered') \in Nat
  BY CallsAreFinite DEF Numbered
<1> QED BY <1>1, NumberedGrows DEF CounterBound, TypeOK

LEMMA NumberedKept ==
  ASSUME UNCHANGED call
  PROVE  Numbered \subseteq Numbered'
  BY DEF Numbered

(* Requests and responses on their way keep their types. *)
LEMMA ExecTypes ==
  ASSUME TypeOK, NEW p \in Peripheral, ExecRequest(p)
  PROVE  to_central' \in [Peripheral -> Seq(Response)]
<1>1. [id |-> relay_req[p].id, of |-> relay_req[p].of, by |-> p] \in Response
  BY DEF TypeOK, Request, Response, Source
<1>2. Append(to_central[p], [id |-> relay_req[p].id, of |-> relay_req[p].of, by |-> p])
        \in Seq(Response)
  BY <1>1 DEF TypeOK
<1> QED BY <1>2 DEF ExecRequest, TypeOK

LEMMA SendTypes ==
  ASSUME TypeOK, next_relay_request_id \in RequestId, NEW c \in Call, SendRelayRequest(c)
  PROVE  /\ request_id' \in [Call -> RequestId]
         /\ to_peripheral' \in [Peripheral -> Seq(Request)]
<1>1. [id |-> next_relay_request_id, of |-> c] \in Request
  BY DEF Request
<1>2. ASSUME NEW p \in Peripheral
      PROVE  Append(to_peripheral[p], [id |-> next_relay_request_id, of |-> c]) \in Seq(Request)
  BY <1>1 DEF TypeOK
<1> QED BY <1>2 DEF SendRelayRequest, TypeOK

LEMMA RaiseTypes ==
  ASSUME TypeOK, RaiseNotification
  PROVE  answer' \in [Call -> SUBSET Answer] /\ call' \in [Call -> CallState]
                                             /\ Numbered \subseteq Numbered'
<1>1. [source |-> relay_response_work_source, of |-> relay_resp.of, by |-> relay_resp.by] \in Answer
  BY DEF TypeOK, Response, Answer
<1> QED BY <1>1 DEF RaiseNotification, TypeOK, CallState, Numbered

LEMMA ClientTypes ==
  ASSUME TypeInv, NEW c \in Call, Client(c)
  PROVE  TypeInv'
<1> USE DEF TypeInv
<1>1. ASSUME NEW k \in Kind, CallRpc(c, k)
      PROVE  TypeInv'
  <2>1. TypeOK'
    BY <1>1 DEF CallRpc, TypeOK, CallState, response, peripheral, link
  <2>2. Numbered \subseteq Numbered'
    BY <1>1 DEF CallRpc, TypeOK, Numbered
  <2> QED BY <1>1, <2>1, <2>2, CounterKept DEF CallRpc
<1>2. ASSUME RpcHandleRequest(c)
      PROVE  TypeInv'
  <2>1. Numbered' = Numbered \cup {c} /\ call[c] = "calling"
    BY <1>2 DEF RpcHandleRequest, TypeOK, Numbered
  <2>2. /\ Cardinality(Numbered') = Cardinality(Numbered) + 1
        /\ Cardinality(Numbered) + 1 <= Cardinality(Call)
        /\ Cardinality(Numbered) \in Nat /\ Cardinality(Call) \in Nat
    BY <2>1, NumberedGainsOne, CallsAreFinite DEF Numbered
  <2>3. next_relay_request_id \in RequestId /\ next_relay_request_id \in Nat
    BY <2>2 DEF CounterBound, TypeOK, RequestId
  <2>4. /\ request_id' \in [Call -> RequestId]
        /\ to_peripheral' \in [Peripheral -> Seq(Request)]
        /\ next_relay_request_id' \in {next_relay_request_id, next_relay_request_id + 1}
    <3>1. CASE kind[c] = "local"
      BY <1>2, <3>1 DEF RpcHandleRequest, TypeOK
    <3>2. CASE kind[c] # "local"
      BY <1>2, <3>2, <2>3, SendTypes DEF RpcHandleRequest, SendRelayRequest
    <3> QED BY <3>1, <3>2
  <2>5. CounterBound' /\ next_relay_request_id' \in 1..Cardinality(Call) + 1
    BY <2>2, <2>3, <2>4 DEF CounterBound, TypeOK
  <2>6. answer' \in [Call -> SUBSET Answer] /\ call' \in [Call -> CallState]
    <3>1. [source |-> Central, of |-> c, by |-> Central] \in Answer
      BY DEF Answer, Source
    <3> QED BY <1>2, <3>1 DEF RpcHandleRequest, TypeOK, CallState
  <2>7. UNCHANGED <<kind, response, peripheral, to_central, restarts, lost>>
    BY <1>2 DEF RpcHandleRequest
  <2> QED BY <2>4, <2>5, <2>6, <2>7 DEF TypeOK, response, peripheral
<1>3. ASSUME RpcReply(c) \/ GiveUp(c) \/ EndCollect(c)
      PROVE  TypeInv'
  <2>1. /\ call' \in [Call -> CallState]
        /\ Numbered \subseteq Numbered'
    BY <1>3 DEF RpcReply, GiveUp, EndCollect, TypeOK, Kind, CallState, Numbered
  <2>2. UNCHANGED <<kind, request_id, answer, next_relay_request_id, response, peripheral, link,
                    restarts, lost>>
    BY <1>3 DEF RpcReply, GiveUp, EndCollect
  <2>3. TypeOK'
    BY <2>1, <2>2 DEF TypeOK, response, peripheral, link
  <2> QED BY <2>1, <2>2, <2>3, CounterKept
<1> QED BY <1>1, <1>2, <1>3 DEF Client

LEMMA ExecuteTypes ==
  ASSUME TypeInv, NEW p \in Peripheral, Execute(p)
  PROVE  TypeInv'
<1> USE DEF TypeInv
<1>1. ASSUME OnRelayRequest(p)
      PROVE  TypeOK'
  <2>1. Head(to_peripheral[p]) \in Request /\ Tail(to_peripheral[p]) \in Seq(Request)
    BY <1>1 DEF OnRelayRequest, TypeOK
  <2> QED BY <1>1, <2>1 DEF OnRelayRequest, TypeOK, client, response
<1>2. ASSUME RequestWorkStart(p)
      PROVE  TypeOK'
  BY <1>2 DEF RequestWorkStart, TypeOK, HandlerState, client, response, link
<1>3. ASSUME DecodeRequestId(p)
      PROVE  TypeOK'
  <2>1. [relay_req[p] EXCEPT !.id = relay_request_work_payload[p].id] \in Request
    BY DEF TypeOK, Request
  <2> QED BY <1>3, <2>1 DEF DecodeRequestId, TypeOK, HandlerState, client, response, link
<1>4. ASSUME DecodeRequestBody(p)
      PROVE  TypeOK'
  <2>1. [relay_req[p] EXCEPT !.of = relay_request_work_payload[p].of] \in Request
    BY DEF TypeOK, Request
  <2> QED BY <1>4, <2>1 DEF DecodeRequestBody, TypeOK, HandlerState, client, response, link
<1>5. ASSUME DecodeRequestFails(p)
      PROVE  TypeOK'
  BY <1>5 DEF DecodeRequestFails, TypeOK, HandlerState, client, response, link
<1>6. ASSUME ExecRequest(p)
      PROVE  TypeOK'
  <2>1. to_central' \in [Peripheral -> Seq(Response)]
    BY <1>6, ExecTypes
  <2>2. request_handler' \in [Peripheral -> HandlerState]
    BY <1>6 DEF ExecRequest, TypeOK, HandlerState
  <2>3. UNCHANGED <<client, next_relay_request_id, response, relay_request_work_payload,
                    relay_request_work, relay_req, to_peripheral, restarts, lost>>
    BY <1>6 DEF ExecRequest
  <2> QED BY <2>1, <2>2, <2>3 DEF TypeOK, client, response
<1>7. UNCHANGED <<call, next_relay_request_id>>
  BY DEF Execute, Decode, OnRelayRequest, RequestWorkStart, DecodeRequestId, DecodeRequestBody,
         DecodeRequestFails, ExecRequest, client
<1>8. CounterBound'
  BY <1>7, NumberedKept, CounterKept
<1> QED BY <1>1, <1>2, <1>3, <1>4, <1>5, <1>6, <1>8 DEF Execute, Decode

LEMMA PassTypes ==
  ASSUME TypeInv, Pass
  PROVE  TypeInv'
<1> USE DEF TypeInv
<1>1. ASSUME NEW p \in Peripheral, OnRelayResponse(p)
      PROVE  TypeOK' /\ UNCHANGED <<call, next_relay_request_id>>
  <2>1. Head(to_central[p]) \in Response /\ Tail(to_central[p]) \in Seq(Response)
    BY <1>1 DEF OnRelayResponse, TypeOK
  <2> QED BY <1>1, <2>1 DEF OnRelayResponse, TypeOK, Source, client, peripheral
<1>2. ASSUME ResponseWorkStart \/ DecodeResponseFails
      PROVE  TypeOK' /\ UNCHANGED <<call, next_relay_request_id>>
  BY <1>2 DEF ResponseWorkStart, DecodeResponseFails, TypeOK, HandlerState, client, peripheral, link
<1>3. ASSUME DecodeResponseId \/ DecodeResponseBody
      PROVE  TypeOK' /\ UNCHANGED <<call, next_relay_request_id>>
  <2>1. /\ [relay_resp EXCEPT !.id = relay_response_work_payload.id] \in Response
        /\ [relay_response_work_payload EXCEPT !.id = relay_resp.id] \in Response
    BY DEF TypeOK, Response
  <2> QED BY <1>3, <2>1
          DEF DecodeResponseId, DecodeResponseBody, TypeOK, HandlerState, client, peripheral, link
<1>4. ASSUME RaiseNotification
      PROVE  TypeOK' /\ Numbered \subseteq Numbered' /\ UNCHANGED next_relay_request_id
  BY <1>4, RaiseTypes DEF RaiseNotification, TypeOK, HandlerState, peripheral, link
<1>5. ASSUME NotificationFails
      PROVE  TypeOK' /\ UNCHANGED <<call, next_relay_request_id>>
  BY <1>5 DEF NotificationFails, Lose, TypeOK, HandlerState, client, peripheral, link
<1> QED BY <1>1, <1>2, <1>3, <1>4, <1>5, NumberedKept, CounterKept DEF Pass

LEMMA FaultTypes ==
  ASSUME TypeInv, Fault
  PROVE  TypeInv'
<1> USE DEF TypeInv
<1>1. ASSUME NEW p \in Peripheral, LinkLost(p)
      PROVE  TypeInv'
  <2>1. TypeOK'
    BY <1>1 DEF LinkLost, Lose, TypeOK, client, response, peripheral
  <2> QED BY <1>1, <2>1, NumberedKept, CounterKept DEF LinkLost, client
<1>2. ASSUME NEW p \in Peripheral, PeripheralRestart(p)
      PROVE  TypeInv'
  <2>1. NoRequest \in Request
    BY CallsAreFinite DEF NoRequest, Request, RequestId
  <2>2. TypeOK'
    BY <1>2, <2>1 DEF PeripheralRestart, Lose, TypeOK, HandlerState, client, response
  <2> QED BY <1>2, <2>2, NumberedKept, CounterKept DEF PeripheralRestart, client
<1>3. ASSUME CentralRestart
      PROVE  TypeInv'
  <2>1. NoResponse \in Response /\ Central \in Source
    BY CallsAreFinite DEF NoResponse, Response, RequestId, Source
  <2>2. /\ call' \in [Call -> CallState]
        /\ next_relay_request_id' \in 1..Cardinality(Call) + 1
        /\ restarts' \in 0..MaxRestarts
    BY <1>3, CallsAreFinite, RestartAssumption DEF CentralRestart, TypeOK, CallState
  <2>3. /\ to_peripheral' \in [Peripheral -> Seq(Request)]
        /\ to_central' \in [Peripheral -> Seq(Response)]
    BY <1>3 DEF CentralRestart
  <2>4. TypeOK'
    BY <1>3, <2>1, <2>2, <2>3 DEF CentralRestart, TypeOK, HandlerState, peripheral
  <2>5. CounterBound'
    <3>1. Cardinality(Numbered') \in Nat
      BY CallsAreFinite DEF Numbered
    <3> QED BY <1>3, <3>1 DEF CentralRestart, CounterBound
  <2> QED BY <2>4, <2>5
<1> QED BY <1>1, <1>2, <1>3 DEF Fault

LEMMA RelayTypes == Spec => []TypeInv
<1>1. ASSUME TypeInv, [Next]_vars
      PROVE  TypeInv'
  <2>1. ASSUME UNCHANGED vars
        PROVE  TypeInv'
    BY <1>1, <2>1 DEF TypeInv, TypeOK, CounterBound, Numbered, vars, client, response, peripheral,
                      link
  <2> QED BY <1>1, <2>1, ClientTypes, ExecuteTypes, PassTypes, FaultTypes DEF Next
<1> QED BY <1>1, InitTypes, PTL DEF Spec

(* Types are kept by every step: whatever is lost, repeated, overwritten   *)
(* or restarted, an id is 0 or one that a call was numbered with.          *)
THEOREM RelayTypeCorrect == Spec => []TypeOK
<1>1. TypeInv => TypeOK
  BY DEF TypeInv
<1> QED BY <1>1, RelayTypes, PTL

-----------------------------------------------------------------------------
(* Answers.  What tells calls apart is order: requests are sent in the     *)
(* order of the counter, and with one peripheral nothing can put an older  *)
(* message behind a newer one.  So whatever a buffer is overwritten with   *)
(* between the decoding of an id and of a body, the body is not one of an  *)
(* earlier call.                                                           *)

IsPast(m) == m.id < next_relay_request_id

(* The body is that of the call that was given this id, or of a later one. *)
Follows(m) == m.id # 0 => m.of \in Call /\ m.id <= request_id[m.of]

Awaits(c) == call[c] \in {"waiting", "collecting"} \/ (call[c] = "handled" /\ kind[c] # "local")

CallOrder ==
  /\ \A c \in Call : request_id[c] < next_relay_request_id
  /\ \A c, d \in Call : request_id[c] = request_id[d] /\ request_id[c] # 0 => c = d
  /\ \A c \in Call : Awaits(c) => request_id[c] # 0

RequestOrder(p) ==
  /\ \A i \in DOMAIN to_peripheral[p] :
       /\ IsPast(to_peripheral[p][i])
       /\ Follows(to_peripheral[p][i])
       /\ relay_request_work_payload[p].id <= to_peripheral[p][i].id
       /\ \A j \in DOMAIN to_peripheral[p] :
            i <= j => to_peripheral[p][i].id <= to_peripheral[p][j].id
  /\ IsPast(relay_request_work_payload[p])
  /\ Follows(relay_request_work_payload[p])
  /\ relay_req[p].id <= relay_request_work_payload[p].id
  /\ request_handler[p] = "ready" => Follows(relay_req[p])

(* What p still has to answer is no older than the request n.              *)
NotBefore(p, n) ==
  /\ \A i \in DOMAIN to_peripheral[p] : n <= to_peripheral[p][i].id
  /\ relay_request_work[p] \/ request_handler[p] = "id" => n <= relay_request_work_payload[p].id
  /\ request_handler[p] \in {"body", "ready"} => n <= relay_req[p].id

ResponseOrder(p) ==
  /\ \A i \in DOMAIN to_central[p] :
       /\ IsPast(to_central[p][i])
       /\ Follows(to_central[p][i])
       /\ NotBefore(p, to_central[p][i].id)
       /\ relay_response_work_payload.id <= to_central[p][i].id
       /\ \A j \in DOMAIN to_central[p] : i <= j => to_central[p][i].id <= to_central[p][j].id
  /\ NotBefore(p, relay_response_work_payload.id)

CentralOrder ==
  /\ IsPast(relay_response_work_payload)
  /\ Follows(relay_response_work_payload)
  /\ relay_resp.id <= relay_response_work_payload.id
  /\ response_handler = "ready" => Follows(relay_resp)

(* A call has no answer before it is handled, and none of an earlier one.  *)
OwnAnswers ==
  \A c \in Call :
    /\ call[c] \in {"idle", "calling"} => answer[c] = {}
    /\ \A a \in answer[c] : a.of = c \/ (a.of \in Call /\ request_id[a.of] > request_id[c])

Order == CallOrder /\ CentralOrder /\ \A p \in Peripheral : RequestOrder(p) /\ ResponseOrder(p)

OrderInv == restarts = 0 => Order /\ OwnAnswers

LEMMA InitOrder == Init => Order /\ OwnAnswers
  BY DEF Init, Order, OwnAnswers, CallOrder, CentralOrder, RequestOrder, ResponseOrder, NotBefore,
         Awaits, IsPast, Follows, NoRequest, NoResponse

LEMMA IdsAreNumbers ==
  ASSUME TypeOK
  PROVE  /\ next_relay_request_id \in Nat /\ next_relay_request_id > 0
         /\ \A c \in Call : request_id[c] \in Nat
         /\ relay_response_work_payload.id \in Nat /\ relay_resp.id \in Nat
         /\ \A p \in Peripheral :
              /\ relay_request_work_payload[p].id \in Nat /\ relay_req[p].id \in Nat
              /\ \A i \in DOMAIN to_peripheral[p] : to_peripheral[p][i].id \in Nat
              /\ \A i \in DOMAIN to_central[p] : to_central[p][i].id \in Nat
<1>1. RequestId \subseteq Nat
  BY CallsAreFinite DEF RequestId
<1>2. ASSUME NEW p \in Peripheral
      PROVE  /\ \A i \in DOMAIN to_peripheral[p] : to_peripheral[p][i] \in Request
             /\ \A i \in DOMAIN to_central[p] : to_central[p][i] \in Response
  BY DEF TypeOK
<1>3. /\ next_relay_request_id \in Nat /\ next_relay_request_id > 0
      /\ \A c \in Call : request_id[c] \in Nat
      /\ relay_response_work_payload.id \in Nat /\ relay_resp.id \in Nat
  <2>1. next_relay_request_id \in Nat /\ next_relay_request_id > 0
    BY CallsAreFinite DEF TypeOK
  <2>2. \A c \in Call : request_id[c] \in Nat
    BY <1>1 DEF TypeOK
  <2>3. relay_response_work_payload.id \in Nat /\ relay_resp.id \in Nat
    BY <1>1 DEF TypeOK, Response
  <2> QED BY <2>1, <2>2, <2>3
<1>4. ASSUME NEW p \in Peripheral
      PROVE  relay_request_work_payload[p].id \in Nat /\ relay_req[p].id \in Nat
  BY <1>1 DEF TypeOK, Request
<1>5. ASSUME NEW p \in Peripheral
      PROVE  /\ \A i \in DOMAIN to_peripheral[p] : to_peripheral[p][i].id \in Nat
             /\ \A i \in DOMAIN to_central[p] : to_central[p][i].id \in Nat
  BY <1>1, <1>2 DEF Request, Response
<1> QED BY <1>3, <1>4, <1>5

(* The steps of a peripheral and of the central leave what orders messages *)
(* alone.                                                                  *)
Numbering == <<request_id, next_relay_request_id>>

LEMMA CallOrderKept ==
  ASSUME CallOrder, UNCHANGED Numbering, UNCHANGED kind,
         \A c \in Call : call'[c] = call[c] \/ call'[c] \in {"done", "failed"}
  PROVE  CallOrder'
  BY DEF CallOrder, Numbering, Awaits

(* What is left of a queue when its first message is taken. *)
LEMMA TailElements ==
  ASSUME NEW S, NEW s \in Seq(S), s # <<>>
  PROVE  /\ Head(s) = s[1] /\ 1 \in DOMAIN s
         /\ \A i \in DOMAIN Tail(s) : i + 1 \in DOMAIN s /\ Tail(s)[i] = s[i + 1]
         /\ Len(s) \in Nat /\ Len(Tail(s)) = Len(s) - 1
         /\ Len(s) = 1 => Tail(s) = <<>>
<1>1. Len(s) \in Nat \ {0} /\ DOMAIN s = 1..Len(s)
  BY EmptySeq, LenProperties
<1>2. /\ Tail(s) \in Seq(S) /\ Len(Tail(s)) = Len(s) - 1
      /\ \A i \in 1..Len(Tail(s)) : Tail(s)[i] = s[i + 1]
  BY HeadTailProperties
<1>3. DOMAIN Tail(s) = 1..Len(s) - 1
  BY <1>1, <1>2, LenProperties
<1>4. Len(s) = 1 => Tail(s) = <<>>
  <2>1. Tail(s) # <<>> => Len(Tail(s)) # 0
    BY <1>2, EmptySeq
  <2> QED BY <1>1, <1>2, <2>1
<1>5. Head(s) = s[1]
  OBVIOUS
<1> QED BY <1>1, <1>2, <1>3, <1>4, <1>5

LEMMA TailRear ==
  ASSUME NEW S, NEW s \in Seq(S), s # <<>>
  PROVE  /\ Tail(s) # <<>> => Tail(s)[Len(Tail(s))] = s[Len(s)]
         /\ Tail(s) = <<>> => Head(s) = s[Len(s)]
<1>1. PICK t, n : t = Tail(s) /\ n = Len(s)
  OBVIOUS
<1>2. /\ t \in Seq(S) /\ Len(t) = n - 1 /\ n \in Nat
      /\ \A i \in 1..Len(t) : t[i] = s[i + 1]
  BY <1>1, HeadTailProperties, LenProperties
<1>3. ASSUME t # <<>>
      PROVE  t[Len(t)] = s[n]
  <2>1. Len(t) \in Nat \ {0}
    BY <1>2, <1>3, EmptySeq
  <2> QED BY <1>2, <2>1
<1>4. ASSUME t = <<>>
      PROVE  Head(s) = s[n]
  <2>1. Len(t) = 0
    BY <1>4
  <2>2. n = 1
    BY <1>2, <2>1
  <2> QED BY <2>2, TailElements
<1> QED BY <1>1, <1>3, <1>4

(* The system workqueue of a peripheral takes a request out of the link.   *)
LEMMA ReceiveOrder ==
  ASSUME TypeOK, Order, NEW p \in Peripheral, OnRelayRequest(p)
  PROVE  RequestOrder(p)' /\ ResponseOrder(p)'
<1>0. PICK s \in Seq(Request) : s = to_peripheral[p] /\ s # <<>>
  BY DEF OnRelayRequest, TypeOK
<1>1. /\ RequestOrder(p) /\ ResponseOrder(p)
      /\ to_peripheral'[p] = Tail(s)
      /\ relay_request_work_payload'[p] = s[1]
      /\ relay_request_work'[p]
      /\ UNCHANGED <<request_id, next_relay_request_id, relay_response_work_payload,
                     request_handler, relay_req, to_central>>
  BY <1>0, TailElements DEF OnRelayRequest, TypeOK, Order, client, response
<1>2. /\ 1 \in DOMAIN s /\ \A i \in DOMAIN s : 1 <= i
      /\ \A i \in DOMAIN Tail(s) : i + 1 \in DOMAIN s /\ Tail(s)[i] = s[i + 1]
      /\ \A i, j \in DOMAIN Tail(s) : i <= j => i + 1 <= j + 1
  <2>1. DOMAIN s = 1..Len(s) /\ DOMAIN Tail(s) \in SUBSET Nat
    BY <1>0, LenProperties, HeadTailProperties
  <2> QED BY <1>0, <2>1, TailElements
<1>3. /\ relay_request_work_payload[p].id \in Nat /\ relay_req[p].id \in Nat
      /\ \A i \in DOMAIN s : s[i].id \in Nat
  BY <1>0, IdsAreNumbers
<1>4. /\ \A i \in DOMAIN s :
           /\ s[i].id < next_relay_request_id /\ Follows(s[i])
           /\ relay_request_work_payload[p].id <= s[i].id
           /\ \A j \in DOMAIN s : i <= j => s[i].id <= s[j].id
      /\ relay_req[p].id <= relay_request_work_payload[p].id
      /\ request_handler[p] = "ready" => Follows(relay_req[p])
  BY <1>0, <1>1 DEF RequestOrder, IsPast
<1>5. RequestOrder(p)'
  <2>1. \A i \in DOMAIN s : s[1].id <= s[i].id
    BY <1>2, <1>4
  <2>2. relay_req[p].id <= s[1].id
    BY <1>2, <1>3, <1>4
  <2> QED BY <1>1, <1>2, <1>4, <2>1, <2>2 DEF RequestOrder, IsPast, Follows
<1>6. ASSUME NEW n, NotBefore(p, n)
      PROVE  NotBefore(p, n)'
  BY <1>0, <1>1, <1>2, <1>6 DEF NotBefore
<1>7. ResponseOrder(p)'
  <2>1. UNCHANGED <<relay_response_work_payload, to_central>>
    BY <1>1
  <2> QED BY <1>1, <1>6, <2>1 DEF ResponseOrder, IsPast, Follows
<1> QED BY <1>5, <1>7

(* The handler of a peripheral starts, decodes or gives up.                *)
LEMMA HandlerOrder ==
  ASSUME TypeOK, Order, NEW p \in Peripheral, RequestWorkStart(p) \/ Decode(p)
  PROVE  RequestOrder(p)' /\ ResponseOrder(p)'
<1>1. /\ RequestOrder(p) /\ ResponseOrder(p)
      /\ UNCHANGED <<request_id, next_relay_request_id, relay_response_work_payload,
                     relay_request_work_payload, to_peripheral, to_central>>
  BY DEF RequestWorkStart, Decode, DecodeRequestId, DecodeRequestBody, DecodeRequestFails, Order,
         client, response, link
<1>2. ASSUME NEW n, NotBefore(p, n)
      PROVE  NotBefore(p, n)'
  BY <1>1, <1>2 DEF RequestWorkStart, Decode, DecodeRequestId, DecodeRequestBody,
                    DecodeRequestFails, TypeOK, Request, NotBefore
<1>3. ResponseOrder(p)'
  BY <1>1, <1>2 DEF ResponseOrder, IsPast, Follows
<1>4. CASE RequestWorkStart(p) \/ DecodeRequestFails(p)
  <2>1. /\ request_handler'[p] # "ready"
        /\ UNCHANGED relay_req
    BY <1>4 DEF RequestWorkStart, DecodeRequestFails, TypeOK
  <2>2. RequestOrder(p)'
    BY <1>1, <2>1 DEF RequestOrder, IsPast, Follows
  <2> QED BY <1>3, <2>2
<1>5. CASE DecodeRequestId(p)
  <2>1. /\ request_handler'[p] = "body"
        /\ relay_req'[p].id = relay_request_work_payload[p].id
        /\ relay_request_work_payload[p].id \in Nat
    BY <1>5, IdsAreNumbers DEF DecodeRequestId, TypeOK, Request
  <2>2. RequestOrder(p)'
    BY <1>1, <2>1 DEF RequestOrder, IsPast, Follows
  <2> QED BY <1>3, <2>2
<1>6. CASE DecodeRequestBody(p)
  <2>1. /\ relay_req'[p].id = relay_req[p].id
        /\ relay_req'[p].of = relay_request_work_payload[p].of
    BY <1>6 DEF DecodeRequestBody, TypeOK, Request
  <2>2. Follows(relay_req'[p])
    <3>1. /\ relay_req[p].id \in Nat /\ relay_request_work_payload[p].id \in Nat
          /\ \A c \in Call : request_id[c] \in Nat
      BY IdsAreNumbers
    <3> QED BY <1>1, <2>1, <3>1 DEF RequestOrder, Follows
  <2>3. RequestOrder(p)'
    BY <1>1, <2>1, <2>2 DEF RequestOrder, IsPast, Follows
  <2> QED BY <1>3, <2>3
<1> QED BY <1>4, <1>5, <1>6 DEF Decode

(* A peripheral answers: its answer is no older than those before it, nor  *)
(* newer than what it has still to answer.                                 *)
LEMMA ExecOrder ==
  ASSUME TypeOK, Order, NEW p \in Peripheral, ExecRequest(p)
  PROVE  RequestOrder(p)' /\ ResponseOrder(p)'
<1>0. PICK s \in Seq(Response), r \in Response :
        s = to_central[p] /\ r = [id |-> relay_req[p].id, of |-> relay_req[p].of, by |-> p]
  BY DEF TypeOK, Request, Response, Source
<1>1. /\ RequestOrder(p) /\ ResponseOrder(p)
      /\ request_handler[p] = "ready" /\ request_handler'[p] = "idle"
      /\ to_central'[p] = Append(s, r)
      /\ UNCHANGED <<request_id, next_relay_request_id, relay_response_work_payload,
                     relay_request_work_payload, relay_request_work, relay_req, to_peripheral>>
  BY <1>0 DEF ExecRequest, TypeOK, Order, client, response
<1>2. /\ \A i \in DOMAIN Append(s, r) :
           IF i = Len(s) + 1 THEN Append(s, r)[i] = r
                             ELSE i \in DOMAIN s /\ Append(s, r)[i] = s[i]
      /\ \A i \in DOMAIN s : i < Len(s) + 1 /\ i \in Nat
      /\ Len(s) \in Nat
  OBVIOUS
<1>3. RequestOrder(p)'
  BY <1>1 DEF RequestOrder, IsPast, Follows
<1>4. /\ r.id \in Nat /\ relay_req[p].id = r.id /\ relay_request_work_payload[p].id \in Nat
      /\ next_relay_request_id \in Nat
      /\ \A i \in DOMAIN to_peripheral[p] : to_peripheral[p][i].id \in Nat
  BY <1>0, IdsAreNumbers
<1>5. ASSUME NEW n, NotBefore(p, n)
      PROVE  n <= r.id /\ NotBefore(p, n)'
  BY <1>1, <1>4, <1>5 DEF NotBefore
<1>6. NotBefore(p, r.id)'
  BY <1>1, <1>4 DEF RequestOrder, NotBefore
<1>7. r.id < next_relay_request_id /\ Follows(r)
  BY <1>0, <1>1, <1>4 DEF RequestOrder, IsPast, Follows
<1>8. /\ \A i \in DOMAIN s :
           /\ s[i].id < next_relay_request_id /\ Follows(s[i]) /\ NotBefore(p, s[i].id)
           /\ relay_response_work_payload.id <= s[i].id
           /\ \A j \in DOMAIN s : i <= j => s[i].id <= s[j].id
      /\ NotBefore(p, relay_response_work_payload.id)
  BY <1>0, <1>1 DEF ResponseOrder, IsPast
<1>9. ResponseOrder(p)'
  <2>1. PICK t : t = Append(s, r)
    OBVIOUS
  <2>2. ASSUME NEW i \in DOMAIN t
        PROVE  /\ t[i].id < next_relay_request_id /\ Follows(t[i]) /\ NotBefore(p, t[i].id)'
               /\ relay_response_work_payload.id <= t[i].id
               /\ \A j \in DOMAIN t : i <= j => t[i].id <= t[j].id
    <3>1. CASE i = Len(s) + 1
      <4>1. t[i] = r /\ \A j \in DOMAIN t : i <= j => j = i
        BY <1>2, <2>1, <3>1
      <4> QED BY <1>4, <1>5, <1>6, <1>7, <1>8, <4>1
    <3>2. CASE i # Len(s) + 1
      <4>1. i \in DOMAIN s /\ t[i] = s[i]
        BY <1>2, <2>1, <3>2
      <4>2. \A j \in DOMAIN t : t[j] = r \/ (j \in DOMAIN s /\ t[j] = s[j])
        BY <1>2, <2>1
      <4> QED BY <1>5, <1>8, <4>1, <4>2
    <3> QED BY <3>1, <3>2
  <2>3. relay_response_work_payload' = relay_response_work_payload /\ to_central'[p] = t
    BY <1>1, <2>1
  <2>4. NotBefore(p, relay_response_work_payload.id)'
    <3>1. PICK n : n = relay_response_work_payload.id
      OBVIOUS
    <3>2. NotBefore(p, n)'
      BY <1>5, <1>8, <3>1
    <3> QED BY <1>1, <3>1, <3>2
  <2>5. \A m : Follows(m)' = Follows(m) /\ IsPast(m)' = (m.id < next_relay_request_id)
    BY <1>1 DEF Follows, IsPast
  <2> QED BY <2>2, <2>3, <2>4, <2>5 DEF ResponseOrder
<1> QED BY <1>3, <1>9

(* From here on there is one peripheral. *)
OnePeripheral == \A p, q \in Peripheral : p = q

LEMMA ExecuteOrder ==
  ASSUME TypeOK, Order, OnePeripheral, NEW p \in Peripheral, Execute(p)
  PROVE  Order'
<1>1. RequestOrder(p)' /\ ResponseOrder(p)'
  BY ReceiveOrder, HandlerOrder, ExecOrder DEF Execute
<1>2. UNCHANGED <<client, next_relay_request_id, response>>
  BY DEF Execute, Decode, OnRelayRequest, RequestWorkStart, DecodeRequestId, DecodeRequestBody,
         DecodeRequestFails, ExecRequest
<1>3. CallOrder'
  BY <1>2, CallOrderKept DEF Order, Numbering, client
<1>4. CentralOrder'
  BY <1>2 DEF Order, CentralOrder, client, response, IsPast, Follows
<1> QED BY <1>1, <1>3, <1>4 DEF Order, OnePeripheral

(* The system workqueue of the central takes a response out of the link.   *)
LEMMA AcceptOrder ==
  ASSUME TypeOK, Order, OnePeripheral, NEW p \in Peripheral, OnRelayResponse(p)
  PROVE  Order'
<1>0. PICK s \in Seq(Response) : s = to_central[p] /\ s # <<>>
  BY DEF OnRelayResponse, TypeOK
<1>1. /\ RequestOrder(p) /\ ResponseOrder(p) /\ CentralOrder
      /\ to_central'[p] = Tail(s)
      /\ relay_response_work_payload' = s[1]
      /\ UNCHANGED <<request_id, next_relay_request_id, response_handler, relay_resp,
                     relay_request_work_payload, relay_request_work, request_handler, relay_req,
                     to_peripheral>>
  BY <1>0, TailElements DEF OnRelayResponse, TypeOK, Order, client, peripheral
<1>2. /\ 1 \in DOMAIN s /\ \A i \in DOMAIN s : 1 <= i
      /\ \A i \in DOMAIN Tail(s) : i + 1 \in DOMAIN s /\ Tail(s)[i] = s[i + 1]
      /\ \A i, j \in DOMAIN Tail(s) : i <= j => i + 1 <= j + 1
  <2>1. DOMAIN s = 1..Len(s) /\ DOMAIN Tail(s) \in SUBSET Nat
    BY <1>0, LenProperties, HeadTailProperties
  <2> QED BY <1>0, <2>1, TailElements
<1>3. \A m : IsPast(m)' = IsPast(m) /\ Follows(m)' = Follows(m)
  BY <1>1 DEF IsPast, Follows
<1>4. \A n : NotBefore(p, n)' = NotBefore(p, n)
  BY <1>1 DEF NotBefore
<1>5. RequestOrder(p)'
  BY <1>1 DEF RequestOrder, IsPast, Follows
<1>6. \A i \in DOMAIN s :
        /\ IsPast(s[i]) /\ Follows(s[i]) /\ NotBefore(p, s[i].id)
        /\ relay_response_work_payload.id <= s[i].id
        /\ \A j \in DOMAIN s : i <= j => s[i].id <= s[j].id
  BY <1>0, <1>1 DEF ResponseOrder
<1>7. ResponseOrder(p)'
  <2>1. PICK t, m : t = Tail(s) /\ m = s[1]
    OBVIOUS
  <2>2. relay_response_work_payload' = m /\ to_central'[p] = t
    BY <1>1, <2>1
  <2> QED BY <1>2, <1>3, <1>4, <1>6, <2>1, <2>2 DEF ResponseOrder
<1>8. CentralOrder'
  <2>1. PICK m : m = s[1]
    OBVIOUS
  <2>2. IsPast(m) /\ Follows(m) /\ relay_response_work_payload.id <= m.id /\ m.id \in Nat
    BY <1>0, <1>2, <1>6, <2>1, IdsAreNumbers
  <2>3. relay_resp.id <= m.id
    BY <1>1, <2>2, IdsAreNumbers DEF CentralOrder
  <2> QED BY <1>1, <2>1, <2>2, <2>3 DEF CentralOrder, IsPast, Follows
<1>9. CallOrder'
  BY CallOrderKept DEF OnRelayResponse, Order, Numbering, client
<1> QED BY <1>5, <1>7, <1>8, <1>9 DEF Order, OnePeripheral

(* The handler of the central starts, decodes, gives up or notifies.       *)
LEMMA NotifyOrder ==
  ASSUME TypeOK, Order,
         \/ ResponseWorkStart \/ DecodeResponseId \/ DecodeResponseBody \/ DecodeResponseFails
         \/ RaiseNotification \/ NotificationFails
  PROVE  Order'
<1>1. UNCHANGED <<kind, request_id, next_relay_request_id, relay_response_work_payload,
                  peripheral, link>>
  BY DEF ResponseWorkStart, DecodeResponseId, DecodeResponseBody, DecodeResponseFails,
         RaiseNotification, NotificationFails, client
<1>2. ASSUME NEW p \in Peripheral
      PROVE  RequestOrder(p)' /\ ResponseOrder(p)'
  <2>1. \A n : NotBefore(p, n)' = NotBefore(p, n)
    BY <1>1 DEF NotBefore, peripheral, link
  <2> QED BY <1>1, <2>1 DEF Order, RequestOrder, ResponseOrder, IsPast, Follows, peripheral, link
<1>3. CallOrder'
  <2>1. \A c \in Call : call'[c] = call[c] \/ call'[c] \in {"done", "failed"}
    BY DEF ResponseWorkStart, DecodeResponseId, DecodeResponseBody, DecodeResponseFails,
           RaiseNotification, NotificationFails, client, TypeOK
  <2> QED BY <1>1, <2>1, CallOrderKept DEF Order, Numbering
<1>4. CentralOrder'
  <2> USE <1>1 DEF Order, CentralOrder, IsPast, Follows
  <2>1. CASE ResponseWorkStart \/ DecodeResponseFails \/ RaiseNotification \/ NotificationFails
    BY <2>1 DEF ResponseWorkStart, DecodeResponseFails, RaiseNotification, NotificationFails
  <2>2. CASE DecodeResponseId
    <3>1. /\ response_handler' = "body" /\ relay_resp'.id = relay_response_work_payload.id
          /\ relay_response_work_payload.id \in Nat
      BY <2>2, IdsAreNumbers DEF DecodeResponseId, TypeOK, Response
    <3> QED BY <3>1
  <2>3. CASE DecodeResponseBody
    <3>1. relay_resp'.id = relay_resp.id /\ relay_resp'.of = relay_response_work_payload.of
      BY <2>3 DEF DecodeResponseBody, TypeOK, Response
    <3> QED BY <3>1, IdsAreNumbers
  <2> QED BY <2>1, <2>2, <2>3
<1> QED BY <1>2, <1>3, <1>4 DEF Order

(* The link to a peripheral drops, or the peripheral restarts.             *)
LEMMA LossOrder ==
  ASSUME TypeOK, Order, OnePeripheral, NEW p \in Peripheral, LinkLost(p) \/ PeripheralRestart(p)
  PROVE  Order'
<1>1. /\ RequestOrder(p) /\ ResponseOrder(p) /\ CentralOrder /\ CallOrder
      /\ to_peripheral'[p] = <<>> /\ to_central'[p] = <<>>
      /\ UNCHANGED <<client, next_relay_request_id, response>>
      /\ \/ UNCHANGED peripheral
         \/ /\ request_handler'[p] = "idle" /\ ~relay_request_work'[p]
            /\ relay_request_work_payload'[p] = NoRequest /\ relay_req'[p] = NoRequest
  BY DEF LinkLost, PeripheralRestart, Order, TypeOK
<1>2. CallOrder' /\ CentralOrder'
  BY <1>1, CallOrderKept DEF CentralOrder, Numbering, client, response, IsPast, Follows
<1>3. \A n : NotBefore(p, n) => NotBefore(p, n)'
  BY <1>1 DEF NotBefore, peripheral
<1>4. ResponseOrder(p)'
  BY <1>1, <1>3 DEF ResponseOrder, client, response
<1>5. RequestOrder(p)'
  BY <1>1, IdsAreNumbers
  DEF RequestOrder, NoRequest, TypeOK, IsPast, Follows, client, peripheral
<1> QED BY <1>2, <1>4, <1>5 DEF Order, OnePeripheral

(* A new request is behind everything: its id is larger than any other.    *)
LEMMA SendOrder ==
  ASSUME TypeOK, Order, NEW c \in Call, SendRelayRequest(c), UNCHANGED <<response, peripheral>>,
         UNCHANGED to_central, NEW p \in Peripheral
  PROVE  RequestOrder(p)' /\ ResponseOrder(p)'
<1>0. PICK n, s, r, q : /\ n = next_relay_request_id /\ s = to_peripheral[p]
                       /\ r = [id |-> n, of |-> c] /\ q = Append(s, r)
  OBVIOUS
<1>1. /\ RequestOrder(p) /\ ResponseOrder(p) /\ CentralOrder
      /\ to_peripheral'[p] = q
      /\ next_relay_request_id' = n + 1 /\ n \in Nat
      /\ \A d \in Call : request_id'[d] = IF d = c THEN n ELSE request_id[d]
      /\ \A d \in Call : request_id[d] \in Nat /\ request_id[d] < n
  BY <1>0, IdsAreNumbers DEF SendRelayRequest, TypeOK, Order, CallOrder
<1>2. /\ \A i \in DOMAIN q :
           IF i = Len(s) + 1 THEN q[i] = r ELSE i \in DOMAIN s /\ q[i] = s[i]
      /\ \A i \in DOMAIN s : i < Len(s) + 1 /\ i \in Nat
      /\ Len(s) \in Nat /\ r.id = n /\ r.of = c
  <2>1. s \in Seq(Request)
    BY <1>0 DEF TypeOK
  <2> QED BY <1>0, <2>1
<1>3. ASSUME NEW m, m.id \in Nat, IsPast(m)
      PROVE  IsPast(m)' /\ m.id <= n /\ (Follows(m) => Follows(m)')
  <2>1. m.id < n /\ m.id < n + 1
    BY <1>0, <1>1, <1>3 DEF IsPast
  <2>2. \A d \in Call : m.id <= request_id[d] => m.id <= request_id'[d]
    BY <1>1, <1>3, <2>1
  <2>3. Follows(m) => Follows(m)'
    BY <2>2 DEF Follows
  <2> QED BY <1>1, <1>3, <2>1, <2>3 DEF IsPast
<1>4. IsPast(r)' /\ Follows(r)'
  BY <1>1, <1>2 DEF IsPast, Follows
<1>5. /\ \A i \in DOMAIN s : s[i].id \in Nat
      /\ \A i \in DOMAIN to_central[p] : to_central[p][i].id \in Nat
      /\ relay_request_work_payload[p].id \in Nat /\ relay_req[p].id \in Nat
      /\ relay_response_work_payload.id \in Nat
  BY <1>0, IdsAreNumbers
<1>6. UNCHANGED <<relay_response_work_payload, relay_request_work_payload, relay_request_work,
                  request_handler, relay_req, to_central>>
  BY DEF response, peripheral
<1>7. RequestOrder(p)'
  <2>0. PICK w, v : w = relay_request_work_payload[p] /\ v = relay_req[p]
    OBVIOUS
  <2>1. /\ \A j \in DOMAIN s : /\ IsPast(s[j]) /\ Follows(s[j]) /\ w.id <= s[j].id
                               /\ \A k \in DOMAIN s : j <= k => s[j].id <= s[k].id
        /\ IsPast(w) /\ Follows(w) /\ v.id <= w.id
        /\ request_handler[p] = "ready" => Follows(v)
        /\ w.id \in Nat /\ v.id \in Nat
    BY <1>0, <1>1, <1>5, <2>0 DEF RequestOrder
  <2>2. IsPast(v)
    BY <2>1, <1>0, <1>1 DEF IsPast
  <2>3. ASSUME NEW i \in DOMAIN q
        PROVE  /\ IsPast(q[i])' /\ Follows(q[i])' /\ w.id <= q[i].id
               /\ \A j \in DOMAIN q : i <= j => q[i].id <= q[j].id
    <3>1. CASE i = Len(s) + 1
      <4>1. q[i] = r /\ \A j \in DOMAIN q : i <= j => j = i
        BY <1>2, <3>1
      <4> QED BY <1>1, <1>2, <1>3, <1>4, <2>1, <4>1
    <3>2. CASE i # Len(s) + 1
      <4>1. i \in DOMAIN s /\ q[i] = s[i]
        BY <1>2, <3>2
      <4>2. \A j \in DOMAIN q : q[j] = r \/ (j \in DOMAIN s /\ q[j] = s[j])
        BY <1>2
      <4> QED BY <1>2, <1>3, <1>5, <2>1, <4>1, <4>2
    <3> QED BY <3>1, <3>2
  <2>4. relay_request_work_payload'[p] = w /\ relay_req'[p] = v
    BY <1>6, <2>0
  <2> QED BY <1>1, <1>3, <1>6, <2>1, <2>2, <2>3, <2>4 DEF RequestOrder
<1>8. ASSUME NEW m, m.id \in Nat, IsPast(m), NotBefore(p, m.id)
      PROVE  NotBefore(p, m.id)'
  <2>1. \A i \in DOMAIN q : m.id <= q[i].id
    BY <1>0, <1>2, <1>3, <1>8 DEF NotBefore
  <2> QED BY <1>1, <1>6, <1>8, <2>1 DEF NotBefore
<1>9. ResponseOrder(p)'
  <2>1. PICK t, m : t = to_central[p] /\ m = relay_response_work_payload
    OBVIOUS
  <2>2. /\ \A i \in DOMAIN t :
             /\ t[i].id \in Nat /\ IsPast(t[i]) /\ Follows(t[i]) /\ NotBefore(p, t[i].id)
             /\ m.id <= t[i].id
             /\ \A j \in DOMAIN t : i <= j => t[i].id <= t[j].id
        /\ m.id \in Nat /\ IsPast(m) /\ NotBefore(p, m.id)
    BY <1>1, <1>5, <2>1 DEF ResponseOrder, CentralOrder
  <2>3. to_central'[p] = t /\ relay_response_work_payload' = m
    BY <1>6, <2>1
  <2> QED BY <1>3, <1>8, <2>2, <2>3 DEF ResponseOrder
<1> QED BY <1>7, <1>9

LEMMA ClientOrder ==
  ASSUME TypeOK, Order, NEW c \in Call, Client(c)
  PROVE  Order'
<1>1. UNCHANGED <<response, peripheral, to_central>>
  BY DEF Client, CallRpc, RpcHandleRequest, RpcReply, GiveUp, EndCollect, link
<1>2. ASSUME UNCHANGED <<request_id, next_relay_request_id, to_peripheral>>
      PROVE  CentralOrder' /\ \A p \in Peripheral : RequestOrder(p)' /\ ResponseOrder(p)'
  <2>1. \A p \in Peripheral : \A n : NotBefore(p, n)' = NotBefore(p, n)
    BY <1>1, <1>2 DEF NotBefore, peripheral
  <2> QED BY <1>1, <1>2, <2>1 DEF Order, RequestOrder, ResponseOrder, CentralOrder, IsPast,
                                  Follows, response, peripheral
<1>3. CASE RpcHandleRequest(c)
  <2>1. /\ call[c] = "calling" /\ call' = [call EXCEPT ![c] = "handled"] /\ UNCHANGED kind
        /\ CallOrder /\ CentralOrder
    BY <1>3 DEF RpcHandleRequest, Order
  <2>2. CASE kind[c] = "local"
    <3>1. UNCHANGED <<request_id, next_relay_request_id, to_peripheral>>
      BY <1>3, <2>2 DEF RpcHandleRequest
    <3>2. CallOrder'
      BY <2>1, <2>2, <3>1 DEF CallOrder, Awaits, TypeOK
    <3> QED BY <1>2, <3>1, <3>2 DEF Order
  <2>3. CASE kind[c] # "local"
    <3>1. SendRelayRequest(c)
      BY <1>3, <2>3 DEF RpcHandleRequest
    <3>2. PICK n : n = next_relay_request_id
      OBVIOUS
    <3>3. /\ n \in Nat /\ n > 0 /\ next_relay_request_id' = n + 1
          /\ \A d \in Call : request_id'[d] = IF d = c THEN n ELSE request_id[d]
          /\ \A d \in Call : request_id[d] \in Nat /\ request_id[d] < n
      BY <2>1, <3>1, <3>2, IdsAreNumbers DEF SendRelayRequest, CallOrder, TypeOK
    <3>4. CallOrder'
      <4>1. \A d \in Call : request_id'[d] < n + 1
        BY <3>3
      <4>2. \A d, e \in Call : request_id'[d] = request_id'[e] /\ request_id'[d] # 0 => d = e
        BY <2>1, <3>3 DEF CallOrder
      <4>3. \A d \in Call : Awaits(d)' => request_id'[d] # 0
        BY <2>1, <3>3 DEF CallOrder, Awaits, TypeOK
      <4> QED BY <3>3, <4>1, <4>2, <4>3 DEF CallOrder
    <3>5. CentralOrder'
      <4>1. PICK m, w : m = relay_response_work_payload /\ w = relay_resp
        OBVIOUS
      <4>2. /\ m.id \in Nat /\ w.id \in Nat /\ m.id < n /\ Follows(m) /\ w.id <= m.id
            /\ response_handler = "ready" => Follows(w)
        BY <2>1, <3>2, <4>1, IdsAreNumbers DEF CentralOrder, IsPast
      <4>3. \A d \in Call : request_id'[d] = request_id[d] \/ request_id'[d] = n
        BY <3>3
      <4>4. /\ relay_response_work_payload' = m /\ relay_resp' = w
            /\ UNCHANGED response_handler
        BY <1>1, <4>1 DEF response
      <4>5. m.id < n + 1 /\ (Follows(m) => Follows(m)') /\ (Follows(w) => Follows(w)')
        BY <3>3, <4>2, <4>3 DEF Follows
      <4> QED BY <3>3, <4>2, <4>4, <4>5 DEF CentralOrder, IsPast
    <3> QED BY <1>1, <3>1, <3>4, <3>5, SendOrder DEF Order
  <2> QED BY <2>2, <2>3
<1>4. CASE \/ \E k \in Kind : CallRpc(c, k)
           \/ RpcReply(c) \/ GiveUp(c) \/ EndCollect(c)
  <2>1. UNCHANGED <<request_id, next_relay_request_id, to_peripheral>>
    BY <1>4 DEF CallRpc, RpcReply, GiveUp, EndCollect, link
  <2>2. \A d \in Call : Awaits(d)' => Awaits(d)
    BY <1>4 DEF CallRpc, RpcReply, GiveUp, EndCollect, Awaits, TypeOK, Kind
  <2>3. CallOrder'
    BY <2>1, <2>2 DEF Order, CallOrder
  <2> QED BY <1>2, <2>1, <2>3 DEF Order
<1> QED BY <1>3, <1>4 DEF Client

(* The client is given an answer only to what it waits for. *)
LEMMA AnswersKept ==
  ASSUME TypeOK, Order, OwnAnswers, [Next]_vars
  PROVE  OwnAnswers'
<1> DEFINE Own(c, a) == a.of = c \/ (a.of \in Call /\ request_id[a.of] > request_id[c])
<1>1. ASSUME UNCHANGED <<request_id, answer>>,
             \A c \in Call : call'[c] \in {"idle", "calling"} => call[c] \in {"idle", "calling"}
      PROVE  OwnAnswers'
  BY <1>1 DEF OwnAnswers
<1>2. CASE RaiseNotification
  <2>1. /\ UNCHANGED request_id /\ response_handler = "ready"
        /\ \A c \in Call : call'[c] = call[c] \/ call'[c] = "done"
        /\ \A c \in Call : ~Resolve(c) => answer'[c] = answer[c]
        /\ \A c \in Call : \A a \in answer'[c] : a \in answer[c] \/ a.of = relay_resp.of
    BY <1>2 DEF RaiseNotification
  <2>2. ASSUME NEW c \in Call, Resolve(c), NEW a, a.of = relay_resp.of
        PROVE  Own(c, a)
    <3>1. Awaits(c) /\ request_id[c] = relay_resp.id /\ CallOrder /\ CentralOrder
      BY <2>2 DEF Resolve, Awaits, Order
    <3>2. a.of \in Call /\ request_id[c] <= request_id[a.of] /\ request_id[c] # 0
      BY <2>1, <2>2, <3>1 DEF CallOrder, CentralOrder, Follows
    <3> QED BY <3>1, <3>2, IdsAreNumbers DEF CallOrder
  <2>3. \A c \in Call : Resolve(c) => call[c] \notin {"idle", "calling"}
    BY DEF Resolve
  <2> HIDE DEF Own
  <2>4. \A c \in Call : \A a \in answer[c] : Own(c, a)
    BY DEF OwnAnswers, Own
  <2>5. \A c \in Call : \A a \in answer'[c] : Own(c, a)
    BY <2>1, <2>2, <2>4
  <2>6. \A c \in Call : call'[c] \in {"idle", "calling"} => answer'[c] = {}
    BY <2>1, <2>3 DEF OwnAnswers
  <2> QED BY <2>1, <2>5, <2>6 DEF OwnAnswers, Own
<1>3. ASSUME NEW c \in Call, RpcHandleRequest(c)
      PROVE  OwnAnswers'
  <2>1. /\ call[c] = "calling" /\ call' = [call EXCEPT ![c] = "handled"]
        /\ \A d \in Call : d # c => answer'[d] = answer[d]
        /\ \A a \in answer'[c] : a \in answer[c] \/ a.of = c
    BY <1>3 DEF RpcHandleRequest, TypeOK
  <2>2. answer[c] = {}
    BY <2>1 DEF OwnAnswers
  <2>3. /\ \A d \in Call : d # c => request_id'[d] = request_id[d]
        /\ \A d \in Call : request_id'[c] = request_id[c] \/ request_id'[c] > request_id[d]
    <3>1. CASE kind[c] = "local"
      BY <1>3, <3>1 DEF RpcHandleRequest
    <3>2. CASE kind[c] # "local"
      BY <1>3, <3>2, IdsAreNumbers DEF RpcHandleRequest, SendRelayRequest, Order, CallOrder, TypeOK
    <3> QED BY <3>1, <3>2
  <2>4. ASSUME NEW d \in Call, d # c
        PROVE  /\ \A a \in answer'[d] : Own(d, a)'
               /\ call'[d] \in {"idle", "calling"} => answer'[d] = {}
    BY <2>1, <2>3, <2>4 DEF OwnAnswers, TypeOK
  <2>5. \A a \in answer'[c] : a.of = c
    BY <2>1, <2>2
  <2> QED BY <2>1, <2>4, <2>5 DEF OwnAnswers, TypeOK
<1>4. CASE UNCHANGED vars
  BY <1>1, <1>4 DEF vars, client
<1>5. ASSUME NEW c \in Call, Client(c)
      PROVE  OwnAnswers'
  <2>1. CASE RpcHandleRequest(c)
    BY <1>3, <2>1
  <2>2. CASE ~RpcHandleRequest(c)
    BY <1>1, <1>5, <2>2 DEF Client, CallRpc, RpcReply, GiveUp, EndCollect, TypeOK, Kind
  <2> QED BY <2>1, <2>2
<1>6. ASSUME NEW p \in Peripheral, Execute(p)
      PROVE  UNCHANGED client
  BY <1>6 DEF Execute, Decode, OnRelayRequest, RequestWorkStart, DecodeRequestId,
              DecodeRequestBody, DecodeRequestFails, ExecRequest
<1>7. CASE Pass
  BY <1>1, <1>2, <1>7 DEF Pass, OnRelayResponse, ResponseWorkStart, DecodeResponseId,
                          DecodeResponseBody, DecodeResponseFails, NotificationFails, client
<1>8. CASE Fault
  BY <1>1, <1>8 DEF Fault, CentralRestart, LinkLost, PeripheralRestart, client, TypeOK
<1>9. UNCHANGED client => OwnAnswers'
  BY <1>1 DEF client
<1> QED BY <1>4, <1>5, <1>6, <1>7, <1>8, <1>9 DEF Next

LEMMA OrderStep ==
  ASSUME TypeOK, OrderInv, OnePeripheral, [Next]_vars
  PROVE  OrderInv'
<1>1. CASE CentralRestart
  <2>1. restarts' # 0
    BY <1>1 DEF CentralRestart, TypeOK
  <2> QED BY <2>1 DEF OrderInv
<1>2. CASE ~CentralRestart
  <2>1. UNCHANGED restarts
    <3>1. ASSUME NEW c \in Call, Client(c)
          PROVE  UNCHANGED restarts
      BY <3>1 DEF Client, CallRpc, RpcHandleRequest, RpcReply, GiveUp, EndCollect
    <3>2. ASSUME NEW p \in Peripheral, Execute(p)
          PROVE  UNCHANGED restarts
      BY <3>2 DEF Execute, Decode, OnRelayRequest, RequestWorkStart, DecodeRequestId,
                  DecodeRequestBody, DecodeRequestFails, ExecRequest
    <3>3. ASSUME Pass
          PROVE  UNCHANGED restarts
      BY <3>3 DEF Pass, OnRelayResponse, ResponseWorkStart, DecodeResponseId, DecodeResponseBody,
                  DecodeResponseFails, RaiseNotification, NotificationFails
    <3>4. ASSUME Fault
          PROVE  UNCHANGED restarts
      BY <1>2, <3>4 DEF Fault, LinkLost, PeripheralRestart
    <3> QED BY <3>1, <3>2, <3>3, <3>4 DEF Next, vars
  <2>2. CASE restarts # 0
    BY <2>1, <2>2 DEF OrderInv
  <2>3. CASE restarts = 0
    <3>1. Order /\ OwnAnswers
      BY <2>3 DEF OrderInv
    <3>2. CASE UNCHANGED vars
      <4> USE DEF vars, client, response, peripheral, link
      <4>1. CallOrder' /\ CentralOrder'
        BY <3>1, <3>2, CallOrderKept
        DEF Order, CentralOrder, Numbering, IsPast, Follows
      <4>2. ASSUME NEW p \in Peripheral
            PROVE  RequestOrder(p)' /\ ResponseOrder(p)'
        <5>1. \A n : NotBefore(p, n)' = NotBefore(p, n)
          BY <3>2 DEF NotBefore
        <5> QED BY <3>1, <3>2, <5>1
                DEF Order, RequestOrder, ResponseOrder, IsPast, Follows
      <4>3. Order'
        BY <4>1, <4>2 DEF Order
      <4> QED BY <3>1, <4>3, AnswersKept DEF OrderInv
    <3>3. CASE Next
      <4>1. Order'
        BY <1>2, <3>1, <3>3, ClientOrder, ExecuteOrder, AcceptOrder, NotifyOrder, LossOrder
        DEF Next, Pass, Fault
      <4> QED BY <3>1, <4>1, AnswersKept DEF OrderInv
    <3> QED BY <3>2, <3>3
  <2> QED BY <2>2, <2>3
<1> QED BY <1>1, <1>2

LEMMA RelayOrder ==
  ASSUME OnePeripheral
  PROVE  Spec => []OrderInv
<1>1. Init => OrderInv
  BY InitOrder DEF OrderInv
<1>2. TypeInv /\ OrderInv /\ [Next]_vars => OrderInv'
  BY OrderStep DEF TypeInv
<1> QED BY <1>1, <1>2, RelayTypes, PTL DEF Spec

(* No call is given the answer of an earlier one, or that of a later one   *)
(* that has not overtaken it, whatever is lost, late, executed twice or    *)
(* overwritten in the buffers of both halves, however many calls there     *)
(* have been and however many wait at once: as long as the central does    *)
(* not restart, over one peripheral (pmw3610_relay.c, relay.ts).           *)
THEOREM AnswersAreOwn ==
  ASSUME OnePeripheral
  PROVE  Spec => []AnswersOwnCall
<1>1. OrderInv => AnswersOwnCall
  BY DEF OrderInv, OwnAnswers, AnswersOwnCall
<1> QED BY <1>1, RelayOrder, PTL

-----------------------------------------------------------------------------
(* Answers on their way.  The message to look at is the rear one: what was *)
(* received last is what a work item still finds in its buffer, and an     *)
(* earlier message that it overwrote does not matter.                      *)

Needs(c) == call[c] = "waiting" \/ (call[c] = "handled" /\ kind[c] = "relayed")

(* The rear message of what p has to do has this id, if there is any.      *)
RearAt(p, id) ==
  /\ to_peripheral[p] # <<>> => to_peripheral[p][Len(to_peripheral[p])].id = id
  /\ to_peripheral[p] = <<>> /\ (relay_request_work[p] \/ request_handler[p] = "id")
       => relay_request_work_payload[p].id = id
  /\ to_peripheral[p] = <<>> /\ ~relay_request_work[p] /\ request_handler[p] \in {"body", "ready"}
       => relay_req[p].id = id
  /\ to_peripheral[p] = <<>> /\ ~relay_request_work[p] /\ request_handler[p] = "idle"
       /\ to_central[p] # <<>> => to_central[p][Len(to_central[p])].id = id

(* p has nothing to do. *)
Through(p) ==
  /\ to_peripheral[p] = <<>> /\ to_central[p] = <<>>
  /\ ~relay_request_work[p] /\ request_handler[p] = "idle"

(* The rear message of the central has this id. *)
CentralRearAt(id) ==
  /\ relay_response_work \/ response_handler # "idle"
  /\ relay_response_work \/ response_handler = "id" => relay_response_work_payload.id = id
  /\ ~relay_response_work /\ response_handler \in {"body", "ready"} => relay_resp.id = id

(* A buffer that is not overwritten while it is decoded decodes.           *)
Undisturbed ==
  /\ response_handler = "body" /\ ~relay_response_work
       => relay_response_work_payload.id = relay_resp.id
  /\ \A p \in Peripheral : request_handler[p] = "body" /\ ~relay_request_work[p]
       => relay_request_work_payload[p].id = relay_req[p].id

(* The ids of the calls that need an answer have been given out, which     *)
(* those of calls of an earlier life of the central need not have been.    *)
GivenOut ==
  \A c \in Call : Needs(c) => request_id[c] # 0 /\ request_id[c] < next_relay_request_id

RearInv ==
  \A c \in Call : Needs(c) /\ c \notin lost /\ ~Overtaken(c) =>
     /\ \A p \in Peripheral : RearAt(p, request_id[c])
     /\ (\A p \in Peripheral : Through(p)) => CentralRearAt(request_id[c])

WayInv == GivenOut /\ Undisturbed /\ RearInv

LEMMA GivenOutStep ==
  ASSUME TypeOK, GivenOut, [Next]_vars
  PROVE  GivenOut'
<1>1. ASSUME \A c \in Call : Needs(c)' => Needs(c), UNCHANGED <<request_id, next_relay_request_id>>
      PROVE  GivenOut'
  BY <1>1 DEF GivenOut
<1>2. ASSUME NEW c \in Call, Client(c)
      PROVE  GivenOut'
  <2>1. CASE RpcHandleRequest(c)
    <3>1. /\ call[c] = "calling" /\ call' = [call EXCEPT ![c] = "handled"] /\ UNCHANGED kind
      BY <2>1 DEF RpcHandleRequest
    <3>2. CASE kind[c] = "local"
      BY <1>1, <2>1, <3>1, <3>2 DEF RpcHandleRequest, Needs, TypeOK
    <3>3. CASE kind[c] # "local"
      <4>1. /\ next_relay_request_id' = next_relay_request_id + 1
            /\ \A d \in Call : request_id'[d] = IF d = c THEN next_relay_request_id
                                                        ELSE request_id[d]
        BY <2>1, <3>3 DEF RpcHandleRequest, SendRelayRequest, TypeOK
      <4>2. \A d \in Call : d # c /\ Needs(d)' => Needs(d)
        BY <3>1 DEF Needs, TypeOK
      <4> QED BY <4>1, <4>2, IdsAreNumbers DEF GivenOut
    <3> QED BY <3>2, <3>3
  <2>2. CASE ~RpcHandleRequest(c)
    BY <1>1, <1>2, <2>2 DEF Client, CallRpc, RpcReply, GiveUp, EndCollect, Needs, TypeOK, Kind
  <2> QED BY <2>1, <2>2
<1>3. ASSUME NEW p \in Peripheral, Execute(p)
      PROVE  GivenOut'
  BY <1>1, <1>3 DEF Execute, Decode, OnRelayRequest, RequestWorkStart, DecodeRequestId,
                    DecodeRequestBody, DecodeRequestFails, ExecRequest, client, Needs
<1>4. CASE Pass
  BY <1>1, <1>4 DEF Pass, OnRelayResponse, ResponseWorkStart, DecodeResponseId,
                    DecodeResponseBody, DecodeResponseFails, RaiseNotification, NotificationFails,
                    client, TypeOK, Needs
<1>5. CASE Fault
  <2>1. CASE CentralRestart
    BY <2>1 DEF CentralRestart, Needs, GivenOut, TypeOK
  <2>2. CASE ~CentralRestart
    BY <1>1, <1>5, <2>2 DEF Fault, LinkLost, PeripheralRestart, client, Needs
  <2> QED BY <2>1, <2>2
<1>6. CASE UNCHANGED vars
  BY <1>1, <1>6 DEF vars, client, Needs
<1> QED BY <1>2, <1>3, <1>4, <1>5, <1>6 DEF Next

LEMMA UndisturbedStep ==
  ASSUME TypeOK, Undisturbed, [Next]_vars
  PROVE  Undisturbed'
<1> DEFINE D(p) == request_handler[p] = "body" /\ ~relay_request_work[p]
                     => relay_request_work_payload[p].id = relay_req[p].id
           C == response_handler = "body" /\ ~relay_response_work
                  => relay_response_work_payload.id = relay_resp.id
<1>1. C /\ \A p \in Peripheral : D(p)
  BY DEF Undisturbed
<1>2. ASSUME UNCHANGED response
      PROVE  C'
  BY <1>1, <1>2 DEF response
<1>3. ASSUME UNCHANGED peripheral, NEW q \in Peripheral
      PROVE  D(q)'
  BY <1>1, <1>3 DEF peripheral
<1>4. ASSUME NEW c \in Call, Client(c)
      PROVE  UNCHANGED <<response, peripheral>>
  BY <1>4 DEF Client, CallRpc, RpcHandleRequest, RpcReply, GiveUp, EndCollect
<1>5. ASSUME NEW p \in Peripheral, Execute(p), NEW q \in Peripheral
      PROVE  D(q)' /\ UNCHANGED response
  <2>1. UNCHANGED response
    BY <1>5 DEF Execute, Decode, OnRelayRequest, RequestWorkStart, DecodeRequestId,
                DecodeRequestBody, DecodeRequestFails, ExecRequest
  <2>2. CASE q # p
    BY <1>1, <1>5, <2>2 DEF Execute, Decode, OnRelayRequest, RequestWorkStart, DecodeRequestId,
                            DecodeRequestBody, DecodeRequestFails, ExecRequest, TypeOK
  <2>3. CASE q = p
    <3>1. CASE DecodeRequestId(p)
      BY <2>3, <3>1 DEF DecodeRequestId, TypeOK, Request
    <3>2. CASE ~DecodeRequestId(p)
      BY <1>5, <2>3, <3>2 DEF Execute, Decode, OnRelayRequest, RequestWorkStart,
                              DecodeRequestBody, DecodeRequestFails, ExecRequest, TypeOK
    <3> QED BY <3>1, <3>2
  <2> QED BY <2>1, <2>2, <2>3
<1>6. ASSUME Pass
      PROVE  C' /\ UNCHANGED peripheral
  <2>1. UNCHANGED peripheral
    BY <1>6 DEF Pass, OnRelayResponse, ResponseWorkStart, DecodeResponseId, DecodeResponseBody,
                DecodeResponseFails, RaiseNotification, NotificationFails
  <2>2. CASE DecodeResponseId
    BY <2>2 DEF DecodeResponseId, TypeOK, Response
  <2>3. CASE ~DecodeResponseId
    BY <1>6, <2>3 DEF Pass, OnRelayResponse, ResponseWorkStart, DecodeResponseBody,
                      DecodeResponseFails, RaiseNotification, NotificationFails
  <2> QED BY <2>1, <2>2, <2>3
<1>7. ASSUME CentralRestart
      PROVE  C' /\ UNCHANGED peripheral
  BY <1>7 DEF CentralRestart
<1>8. ASSUME NEW p \in Peripheral, LinkLost(p) \/ PeripheralRestart(p), NEW q \in Peripheral
      PROVE  D(q)' /\ UNCHANGED response
  BY <1>1, <1>3, <1>8 DEF LinkLost, PeripheralRestart, TypeOK
<1>9. C' /\ \A q \in Peripheral : D(q)'
  <2>1. ASSUME UNCHANGED vars
        PROVE  UNCHANGED <<response, peripheral>>
    BY <2>1 DEF vars
  <2> HIDE DEF C, D
  <2> QED BY <1>2, <1>3, <1>4, <1>5, <1>6, <1>7, <1>8, <2>1 DEF Next, Fault
<1> QED BY <1>9 DEF Undisturbed

(* A step of the work of p keeps the rear message of p, the other          *)
(* peripherals and the central as they are.                                *)
LEMMA ExecuteRear ==
  ASSUME TypeOK, Undisturbed, RearInv, NEW p \in Peripheral, Execute(p)
  PROVE  RearInv'
<1>1. UNCHANGED <<client, next_relay_request_id, response, lost>>
  BY DEF Execute, Decode, OnRelayRequest, RequestWorkStart, DecodeRequestId, DecodeRequestBody,
         DecodeRequestFails, ExecRequest
<1>2. ASSUME NEW q \in Peripheral, q # p
      PROVE  /\ Through(q)' = Through(q)
             /\ \A id : RearAt(q, id) => RearAt(q, id)'
  BY <1>2 DEF Execute, Decode, OnRelayRequest, RequestWorkStart, DecodeRequestId,
              DecodeRequestBody, DecodeRequestFails, ExecRequest, Through, RearAt, TypeOK, link
<1>3. ~Through(p)'
  BY DEF Execute, Decode, OnRelayRequest, RequestWorkStart, DecodeRequestId, DecodeRequestBody,
         DecodeRequestFails, ExecRequest, Through, TypeOK, Undisturbed
<1>4. ASSUME NEW id, RearAt(p, id)
      PROVE  RearAt(p, id)'
  <2>1. CASE OnRelayRequest(p)
    <3>1. PICK s \in Seq(Request) : s = to_peripheral[p] /\ s # <<>>
      BY <2>1 DEF OnRelayRequest, TypeOK
    <3>2. /\ Tail(s) # <<>> => Tail(s)[Len(Tail(s))] = s[Len(s)]
          /\ Tail(s) = <<>> => Head(s) = s[Len(s)]
      BY <3>1, TailRear
    <3> QED BY <1>4, <2>1, <3>1, <3>2 DEF OnRelayRequest, TypeOK, RearAt
  <2>2. CASE RequestWorkStart(p) \/ DecodeRequestBody(p) \/ DecodeRequestId(p)
    BY <1>4, <2>2 DEF RequestWorkStart, DecodeRequestId, DecodeRequestBody, TypeOK, Request,
                      RearAt, link
  <2>3. CASE DecodeRequestFails(p)
    BY <1>4, <2>3 DEF DecodeRequestFails, TypeOK, RearAt, Undisturbed, link
  <2>4. CASE ExecRequest(p)
    <3> DEFINE r == [id |-> relay_req[p].id, of |-> relay_req[p].of, by |-> p]
    <3>1. Append(to_central[p], r)[Len(Append(to_central[p], r))] = r
      BY DEF TypeOK
    <3> QED BY <1>4, <2>4, <3>1 DEF ExecRequest, TypeOK, RearAt
  <2> QED BY <2>1, <2>2, <2>3, <2>4 DEF Execute, Decode
<1> QED BY <1>1, <1>2, <1>3, <1>4 DEF RearInv, Needs, Overtaken, client, response, CentralRearAt

(* The central takes a response out of the link of p, or its handler goes  *)
(* on: who takes the last one leaves the central with it.                  *)
LEMMA PassRear ==
  ASSUME TypeOK, GivenOut, Undisturbed, RearInv, Pass
  PROVE  RearInv'
<1>1. ASSUME NEW p \in Peripheral, OnRelayResponse(p)
      PROVE  RearInv'
  <2>1. UNCHANGED <<client, next_relay_request_id, lost, peripheral, to_peripheral>>
    BY <1>1 DEF OnRelayResponse
  <2>2. ASSUME NEW q \in Peripheral, q # p
        PROVE  /\ Through(q)' = Through(q)
               /\ \A id : RearAt(q, id) => RearAt(q, id)'
    BY <1>1, <2>2 DEF OnRelayResponse, Through, RearAt, TypeOK, peripheral
  <2>3. PICK s \in Seq(Response) : s = to_central[p] /\ s # <<>>
    BY <1>1 DEF OnRelayResponse, TypeOK
  <2>4. /\ to_central'[p] = Tail(s) /\ relay_response_work_payload' = Head(s)
        /\ relay_response_work'
    BY <1>1, <2>3 DEF OnRelayResponse, TypeOK
  <2>5. /\ Tail(s) # <<>> => Tail(s)[Len(Tail(s))] = s[Len(s)]
        /\ Tail(s) = <<>> => Head(s) = s[Len(s)]
    BY <2>3, TailRear
  <2>6. ASSUME NEW id, RearAt(p, id)
        PROVE  RearAt(p, id)' /\ (Through(p)' => CentralRearAt(id)')
    BY <2>1, <2>3, <2>4, <2>5, <2>6 DEF RearAt, Through, CentralRearAt, peripheral
  <2> QED BY <2>1, <2>6, <2>2 DEF RearInv, Needs, Overtaken, client
<1>2. ASSUME ResponseWorkStart \/ DecodeResponseId \/ DecodeResponseBody \/ DecodeResponseFails
      PROVE  RearInv'
  <2>1. UNCHANGED <<client, next_relay_request_id, lost, peripheral, link>>
    BY <1>2 DEF ResponseWorkStart, DecodeResponseId, DecodeResponseBody, DecodeResponseFails
  <2>2. ASSUME NEW id, CentralRearAt(id)
        PROVE  CentralRearAt(id)'
    BY <1>2, <2>2 DEF ResponseWorkStart, DecodeResponseId, DecodeResponseBody,
                      DecodeResponseFails, CentralRearAt, Undisturbed, TypeOK, Response
  <2>3. ASSUME NEW q \in Peripheral
        PROVE  /\ Through(q)' = Through(q)
               /\ \A id : RearAt(q, id) => RearAt(q, id)'
    BY <2>1 DEF Through, RearAt, peripheral, link
  <2> QED BY <2>1, <2>2, <2>3 DEF RearInv, Needs, Overtaken, client
<1>3. ASSUME RaiseNotification \/ NotificationFails
      PROVE  RearInv'
  <2>1. /\ UNCHANGED <<kind, request_id, next_relay_request_id, relay_response_work,
                       relay_response_work_payload, relay_resp, peripheral, link>>
        /\ response_handler = "ready" /\ response_handler' = "idle"
    BY <1>3 DEF RaiseNotification, NotificationFails, client
  <2>2. ASSUME NEW c \in Call, Needs(c)', c \notin lost'
        PROVE  Needs(c) /\ c \notin lost /\ request_id[c] # relay_resp.id
    BY <1>3, <2>1, <2>2 DEF RaiseNotification, NotificationFails, Resolve, Lose, Needs, TypeOK,
                            GivenOut, client
  <2>3. ASSUME NEW q \in Peripheral
        PROVE  /\ Through(q)' = Through(q)
               /\ \A id : RearAt(q, id) => RearAt(q, id)'
    BY <2>1 DEF Through, RearAt, peripheral, link
  <2>4. ASSUME NEW id, CentralRearAt(id), id # relay_resp.id
        PROVE  CentralRearAt(id)'
    BY <2>1, <2>4 DEF CentralRearAt
  <2> QED BY <2>1, <2>2, <2>3, <2>4 DEF RearInv, Overtaken
<1> QED BY <1>1, <1>2, <1>3 DEF Pass

(* What is lost in a link or with a peripheral is remembered; a restart of *)
(* the central ends the calls that wait.                                   *)
LEMMA FaultRear ==
  ASSUME TypeOK, GivenOut, RearInv, Fault
  PROVE  RearInv'
<1>1. ASSUME NEW p \in Peripheral, LinkLost(p) \/ PeripheralRestart(p)
      PROVE  RearInv'
  <2>1. /\ UNCHANGED <<client, next_relay_request_id, response>>
        /\ lost \subseteq lost'
        /\ to_peripheral'[p] = <<>> /\ to_central'[p] = <<>>
    BY <1>1 DEF LinkLost, PeripheralRestart, Lose, TypeOK
  <2>2. ASSUME NEW q \in Peripheral, q # p
        PROVE  /\ Through(q)' = Through(q)
               /\ \A id : RearAt(q, id) => RearAt(q, id)'
    BY <1>1, <2>2 DEF LinkLost, PeripheralRestart, Through, RearAt, TypeOK, peripheral
  <2>3. ASSUME NEW c \in Call, c \notin lost', request_id[c] # 0, RearAt(p, request_id[c])
        PROVE  RearAt(p, request_id[c])' /\ (Through(p)' => Through(p))
    <3> DEFINE id == request_id[c]
    <3>1. /\ to_peripheral[p] # <<>> => id \in Ids(to_peripheral[p])
          /\ to_peripheral[p] = <<>> /\ ~relay_request_work[p] /\ request_handler[p] = "idle"
               /\ to_central[p] # <<>> => id \in Ids(to_central[p])
      <4>1. ASSUME NEW S, NEW s \in Seq(S), s # <<>>
            PROVE  s[Len(s)].id \in Ids(s)
        <5>1. Len(s) \in DOMAIN s
          BY <4>1, EmptySeq, LenProperties
        <5> QED BY <5>1 DEF Ids
      <4> QED BY <2>3, <4>1 DEF RearAt, TypeOK
    <3>2. id \notin Ids(to_peripheral[p]) /\ id \notin Ids(to_central[p])
      BY <1>1, <2>3 DEF LinkLost, PeripheralRestart, Lose
    <3>3. to_peripheral[p] = <<>>
      BY <3>1, <3>2
    <3>4. CASE LinkLost(p)
      <4>1. UNCHANGED peripheral
        BY <3>4 DEF LinkLost
      <4>2. RearAt(p, id)'
        BY <2>1, <2>3, <3>3, <4>1 DEF RearAt, peripheral, client
      <4>3. Through(p)' => Through(p)
        BY <3>1, <3>2, <3>3, <4>1 DEF Through, peripheral
      <4> QED BY <4>2, <4>3
    <3>5. CASE PeripheralRestart(p)
      <4>1. /\ ~relay_request_work'[p] /\ request_handler'[p] = "idle"
            /\ id \notin Held(p)
        BY <2>3, <3>5 DEF PeripheralRestart, Lose, TypeOK
      <4>2. ~relay_request_work[p] /\ request_handler[p] = "idle"
        BY <2>3, <3>3, <4>1 DEF RearAt, Held, TypeOK, HandlerState
      <4> QED BY <2>1, <3>1, <3>2, <3>3, <4>1, <4>2 DEF RearAt, Through
    <3> QED BY <1>1, <3>4, <3>5
  <2>4. \A id : CentralRearAt(id)' = CentralRearAt(id)
    BY <2>1 DEF CentralRearAt, response
  <2> QED BY <2>1, <2>2, <2>3, <2>4 DEF RearInv, Needs, Overtaken, GivenOut, client
<1>2. ASSUME CentralRestart
      PROVE  RearInv'
  <2>1. \A c \in Call : ~Needs(c)'
    BY <1>2 DEF CentralRestart, Needs, TypeOK
  <2> QED BY <2>1 DEF RearInv
<1> QED BY <1>1, <1>2 DEF Fault

(* A request that is sent is the rear message of every peripheral.         *)
LEMMA ClientRear ==
  ASSUME TypeOK, GivenOut, RearInv, Peripheral # {}, NEW c \in Call, Client(c)
  PROVE  RearInv'
<1>1. UNCHANGED <<response, peripheral, to_central, lost>>
  BY DEF Client, CallRpc, RpcHandleRequest, RpcReply, GiveUp, EndCollect, link
<1>2. ASSUME UNCHANGED <<request_id, next_relay_request_id, to_peripheral>>,
             \A d \in Call : Needs(d)' => Needs(d)
      PROVE  RearInv'
  <2>1. ASSUME NEW p \in Peripheral
        PROVE  /\ Through(p)' = Through(p)
               /\ \A id : RearAt(p, id) => RearAt(p, id)'
    BY <1>1, <1>2 DEF Through, RearAt, peripheral
  <2>2. \A id : CentralRearAt(id)' = CentralRearAt(id)
    BY <1>1 DEF CentralRearAt, response
  <2> QED BY <1>1, <1>2, <2>1, <2>2 DEF RearInv, Overtaken
<1>3. CASE \/ \E k \in Kind : CallRpc(c, k)
           \/ RpcReply(c) \/ GiveUp(c) \/ EndCollect(c)
  <2>1. UNCHANGED <<request_id, next_relay_request_id, to_peripheral>>
    BY <1>3 DEF CallRpc, RpcReply, GiveUp, EndCollect, link
  <2>2. \A d \in Call : Needs(d)' => Needs(d)
    BY <1>3 DEF CallRpc, RpcReply, GiveUp, EndCollect, Needs, TypeOK, Kind
  <2> QED BY <1>2, <2>1, <2>2
<1>4. CASE RpcHandleRequest(c)
  <2>1. /\ call[c] = "calling" /\ call' = [call EXCEPT ![c] = "handled"] /\ UNCHANGED kind
    BY <1>4 DEF RpcHandleRequest
  <2>2. CASE kind[c] = "local"
    <3>1. UNCHANGED <<request_id, next_relay_request_id, to_peripheral>>
      BY <1>4, <2>2 DEF RpcHandleRequest
    <3>2. \A d \in Call : Needs(d)' => Needs(d)
      BY <2>1, <2>2 DEF Needs, TypeOK
    <3> QED BY <1>2, <3>1, <3>2
  <2>3. CASE kind[c] # "local"
    <3>1. SendRelayRequest(c)
      BY <1>4, <2>3 DEF RpcHandleRequest
    <3>2. PICK n : n = next_relay_request_id
      OBVIOUS
    <3>3. /\ request_id'[c] = n /\ n \in Nat /\ n > 0 /\ next_relay_request_id' = n + 1
          /\ \A d \in Call : d # c => request_id'[d] = request_id[d]
      BY <3>1, <3>2, IdsAreNumbers DEF SendRelayRequest, TypeOK
    <3>4. ASSUME NEW p \in Peripheral
          PROVE  ~Through(p)' /\ RearAt(p, n)'
      <4>1. PICK r, s : s = to_peripheral[p] /\ r = [id |-> n, of |-> c]
        OBVIOUS
      <4>2. to_peripheral'[p] = Append(s, r) /\ s \in Seq(Request)
        BY <3>1, <3>2, <4>1 DEF SendRelayRequest, TypeOK
      <4>3. Append(s, r)[Len(Append(s, r))] = r /\ Append(s, r) # <<>>
        BY <4>2
      <4> QED BY <4>1, <4>2, <4>3 DEF Through, RearAt
    <3>5. ASSUME NEW d \in Call, d # c, Needs(d)'
          PROVE  Overtaken(d)'
      <4>1. Needs(d)
        BY <2>1, <3>5 DEF Needs, TypeOK
      <4> QED BY <3>2, <3>3, <3>5, <4>1, IdsAreNumbers DEF GivenOut, Overtaken
    <3> QED BY <3>3, <3>4, <3>5 DEF RearInv
  <2> QED BY <2>2, <2>3
<1> QED BY <1>3, <1>4 DEF Client

LEMMA RearIsOnItsWay ==
  ASSUME TypeOK, RearInv, Peripheral # {}
  PROVE  AnswerOnItsWay
<1> SUFFICES ASSUME NEW c \in Call, call[c] = "waiting", c \notin lost, ~Overtaken(c)
             PROVE  OnItsWay(request_id[c])
  BY DEF AnswerOnItsWay
<1>1. /\ \A p \in Peripheral : RearAt(p, request_id[c])
      /\ (\A p \in Peripheral : Through(p)) => CentralRearAt(request_id[c])
  BY DEF RearInv, Needs
<1>2. ASSUME NEW p \in Peripheral, ~Through(p)
      PROVE  request_id[c] \in Ids(to_peripheral[p]) \cup Held(p) \cup Ids(to_central[p])
  <2>1. ASSUME NEW S, NEW s \in Seq(S), s # <<>>
        PROVE  s[Len(s)].id \in Ids(s)
    <3>1. Len(s) \in DOMAIN s
      BY <2>1, EmptySeq, LenProperties
    <3> QED BY <3>1 DEF Ids
  <2>2. RearAt(p, request_id[c])
    BY <1>1
  <2>3. CASE to_peripheral[p] # <<>>
    BY <2>1, <2>2, <2>3 DEF RearAt, TypeOK
  <2>4. CASE to_peripheral[p] = <<>> /\ (relay_request_work[p] \/ request_handler[p] # "idle")
    BY <2>2, <2>4 DEF RearAt, Held, TypeOK, HandlerState
  <2>5. CASE /\ to_peripheral[p] = <<>> /\ ~relay_request_work[p] /\ request_handler[p] = "idle"
             /\ to_central[p] # <<>>
    BY <2>1, <2>2, <2>5 DEF RearAt, TypeOK
  <2> QED BY <1>2, <2>3, <2>4, <2>5 DEF Through
<1>3. ASSUME \A p \in Peripheral : Through(p)
      PROVE  OnItsWay(request_id[c])
  BY <1>1, <1>3 DEF CentralRearAt, OnItsWay, TypeOK, HandlerState
<1> QED BY <1>2, <1>3 DEF OnItsWay

(* While a call waits, none of its messages was lost and it was not        *)
(* overtaken, its answer is on its way, for any number of peripherals      *)
(* whose late answers meet in the central's one buffer, however many other *)
(* calls wait, and across restarts of either half (pmw3610_relay.c).       *)
THEOREM AnswersAreOnTheirWay ==
  ASSUME Peripheral # {}
  PROVE  Spec => []AnswerOnItsWay
<1>1. Init => WayInv
  BY DEF Init, WayInv, GivenOut, Undisturbed, RearInv, Needs
<1>2. TypeInv /\ WayInv /\ [Next]_vars => WayInv'
  <2> SUFFICES ASSUME TypeInv, WayInv, [Next]_vars
               PROVE  WayInv'
    OBVIOUS
  <2>1. GivenOut' /\ Undisturbed'
    BY GivenOutStep, UndisturbedStep DEF TypeInv, WayInv
  <2>2. RearInv'
    <3>1. CASE UNCHANGED vars
      <4>1. ASSUME NEW p \in Peripheral
            PROVE  /\ Through(p)' = Through(p)
                   /\ \A id : RearAt(p, id) => RearAt(p, id)'
        BY <3>1 DEF Through, RearAt, vars, peripheral, link
      <4>2. \A id : CentralRearAt(id)' = CentralRearAt(id)
        BY <3>1 DEF CentralRearAt, vars, response
      <4> QED BY <3>1, <4>1, <4>2 DEF WayInv, RearInv, Needs, Overtaken, vars, client
    <3> QED BY <3>1, ClientRear, ExecuteRear, PassRear, FaultRear DEF TypeInv, WayInv, Next
  <2> QED BY <2>1, <2>2 DEF WayInv
<1>3. TypeInv /\ WayInv => AnswerOnItsWay
  BY RearIsOnItsWay DEF TypeInv, WayInv
<1> QED BY <1>1, <1>2, <1>3, RelayTypes, PTL DEF Spec
=============================================================================
