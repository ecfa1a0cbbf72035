------------------------------ MODULE SplitRelay ------------------------------
(***************************************************************************)
(* A request for another half of a split keyboard, from the web client     *)
(* through the central to the peripherals and back:                        *)
(* src/studio/pmw3610_handler.c, src/split/pmw3610_relay.c and the         *)
(* correlator of web/src/relay.ts.                                         *)
(*                                                                         *)
(* The central numbers the request, relays it to every connected           *)
(* peripheral and answers the client with the number only.  A peripheral   *)
(* executes it and relays a response, which the central turns into a       *)
(* notification, and by its number the client finds the call it belongs    *)
(* to.  Each half keeps what it received in one static buffer until a work *)
(* item of the low-priority workqueue gets to it; the thread that receives *)
(* the next message overwrites the buffer whenever it likes, also between  *)
(* two fields that the work item decodes.                                  *)
(*                                                                         *)
(* The client makes calls whenever it likes: several panels are mounted    *)
(* together (web/src/App.tsx) and SensorInfo.tsx polls every second,       *)
(* whether or not the call before has been answered.  A call has its       *)
(* registration to itself: no two ids are the same until the central       *)
(* restarts, and a panel's calls that wait are rejected then.  What a      *)
(* request does is in FrameStream; here it is known by the call that made  *)
(* it.                                                                     *)
(***************************************************************************)
EXTENDS Naturals, Sequences, FiniteSets

CONSTANTS
  Call,          \* the calls of the client, each made at most once
  NoCall,        \* none of them
  Central,       \* the half the client is connected to (source 0)
  Peripheral,    \* the other halves (source 1, 2, ...)
  MaxRestarts    \* bound on the restarts of the central

ASSUME CallAssumption == IsFiniteSet(Call) /\ NoCall \notin Call
ASSUME SourceAssumption == IsFiniteSet(Peripheral) /\ Central \notin Peripheral
ASSUME RestartAssumption == MaxRestarts \in Nat

VARIABLES
  (* the client: each call's kind and state, the request id it waits for,  *)
  (* the responses it was given                                            *)
  kind, call, request_id, answer,
  (* the central: the counter, the response buffer with its work item and  *)
  (* handler, the handler's decoded copy                                   *)
  next_relay_request_id,
  relay_response_work_source, relay_response_work_payload, relay_response_work,
  response_handler, relay_resp,
  (* each peripheral: the request buffer with its work item and handler,   *)
  (* the handler's decoded copy                                            *)
  relay_request_work_payload, relay_request_work, request_handler, relay_req,
  (* the split link of each peripheral, both ways                          *)
  to_peripheral, to_central,
  (* how often the central has restarted, and for the properties: the      *)
  (* calls of which a message was lost                                     *)
  restarts, lost

client     == <<kind, call, request_id, answer>>
response   == <<relay_response_work_source, relay_response_work_payload, relay_response_work,
                response_handler, relay_resp>>
peripheral == <<relay_request_work_payload, relay_request_work, request_handler, relay_req>>
link       == <<to_peripheral, to_central>>
vars       == <<client, next_relay_request_id, response, peripheral, link, restarts, lost>>

-----------------------------------------------------------------------------
Source == Peripheral \cup {Central}

RequestId == 0..Cardinality(Call)

(* RelayRequest: the body is that of a call. *)
Request == [id : RequestId, of : Call \cup {NoCall}]

(* RelayResponse: to the body of a call, of the devices of a half. *)
Response == [id : RequestId, of : Call \cup {NoCall}, by : Source]

(* What a call is given: a response and the source it is said to be from. *)
Answer == [source : Source, of : Call \cup {NoCall}, by : Source]

NoRequest == [id |-> 0, of |-> NoCall]

NoResponse == [id |-> 0, of |-> NoCall, by |-> Central]

Kind == {"local",    \* source = 0
         "relayed",  \* source is a peripheral
         "all"}      \* GetInfo with PMW3610_SOURCE_ALL

CallState ==
  {"idle",
   "calling",     \* in callRPC, the request is on its way to the handler
   "handled",     \* in callRPC, the handler has answered
   "waiting",     \* in waitFor
   "collecting",  \* in collectBroadcast
   "done", "failed"}

HandlerState ==
  {"idle",
   "id",     \* running, before the id is decoded
   "body",   \* before the body is decoded
   "ready"}  \* decoded

TypeOK ==
  /\ kind \in [Call -> Kind]
  /\ call \in [Call -> CallState]
  /\ request_id \in [Call -> RequestId]
  /\ answer \in [Call -> SUBSET Answer]
  /\ next_relay_request_id \in 1..Cardinality(Call) + 1
  /\ relay_response_work_source \in Source
  /\ relay_response_work_payload \in Response
  /\ relay_response_work \in BOOLEAN
  /\ response_handler \in HandlerState
  /\ relay_resp \in Response
  /\ relay_request_work_payload \in [Peripheral -> Request]
  /\ relay_request_work \in [Peripheral -> BOOLEAN]
  /\ request_handler \in [Peripheral -> HandlerState]
  /\ relay_req \in [Peripheral -> Request]
  /\ to_peripheral \in [Peripheral -> Seq(Request)]
  /\ to_central \in [Peripheral -> Seq(Response)]
  /\ restarts \in 0..MaxRestarts
  /\ lost \subseteq Call

Init ==
  /\ kind = [c \in Call |-> "local"]
  /\ call = [c \in Call |-> "idle"]
  /\ request_id = [c \in Call |-> 0]
  /\ answer = [c \in Call |-> {}]
  /\ next_relay_request_id = 1
  /\ relay_response_work_source = Central
  /\ relay_response_work_payload = NoResponse
  /\ relay_response_work = FALSE
  /\ response_handler = "idle"
  /\ relay_resp = NoResponse
  /\ relay_request_work_payload = [p \in Peripheral |-> NoRequest]
  /\ relay_request_work = [p \in Peripheral |-> FALSE]
  /\ request_handler = [p \in Peripheral |-> "idle"]
  /\ relay_req = [p \in Peripheral |-> NoRequest]
  /\ to_peripheral = [p \in Peripheral |-> <<>>]
  /\ to_central = [p \in Peripheral |-> <<>>]
  /\ restarts = 0
  /\ lost = {}

Ids(messages) == {messages[i].id : i \in DOMAIN messages}

(* Messages with these ids are gone: the calls they were for know nothing  *)
(* of it.                                                                  *)
Lose(ids) == lost' = lost \cup {c \in Call : request_id[c] \in ids \ {0}}

-----------------------------------------------------------------------------
(* The client makes a call.                                                *)

(* callPmw3610Request, up to the request reaching the RPC thread. *)
CallRpc(c, k) ==
  /\ call[c] = "idle"
  /\ call' = [call EXCEPT ![c] = "calling"]
  /\ kind' = [kind EXCEPT ![c] = k]
  /\ UNCHANGED <<request_id, answer, next_relay_request_id, response, peripheral, link,
                 restarts, lost>>

(* Variant with a slip: every request gets the same number.                *)
SendRelayRequestSameId(c) ==
  /\ request_id' = [request_id EXCEPT ![c] = next_relay_request_id]
  /\ to_peripheral' = [p \in Peripheral |->
       Append(to_peripheral[p], [id |-> next_relay_request_id, of |-> c])]
  /\ UNCHANGED next_relay_request_id

(* send_relay_request: the event is relayed to every peripheral, whichever *)
(* the request is for.                                                     *)
SendRelayRequest(c) ==
  /\ request_id' = [request_id EXCEPT ![c] = next_relay_request_id]
  /\ next_relay_request_id' = next_relay_request_id + 1
  /\ to_peripheral' = [p \in Peripheral |->
       Append(to_peripheral[p], [id |-> next_relay_request_id, of |-> c])]

(* pmw3610_rpc_handle_request: what is for the central (all of a "local"   *)
(* call and its part of an "all" call) is executed at once.                *)
RpcHandleRequest(c) ==
  /\ call[c] = "calling"
  /\ answer' = IF kind[c] = "relayed" THEN answer
               ELSE [answer EXCEPT ![c] = {[source |-> Central, of |-> c, by |-> Central]}]
  /\ IF kind[c] = "local"
       THEN UNCHANGED <<request_id, next_relay_request_id, to_peripheral>>
       ELSE SendRelayRequest(c)
  /\ call' = [call EXCEPT ![c] = "handled"]
  /\ UNCHANGED <<kind, response, peripheral, to_central, restarts, lost>>

(* The reply arrives: a call that was answered is over, the others are     *)
(* registered with the id in a DeferredResponse or in relay_request_id.    *)
RpcReply(c) ==
  /\ call[c] = "handled"
  /\ call' = [call EXCEPT ![c] = CASE kind[c] = "local"   -> "done"
                                   [] kind[c] = "relayed" -> "waiting"
                                   [] kind[c] = "all"     -> "collecting"]
  /\ UNCHANGED <<kind, request_id, answer, next_relay_request_id, response, peripheral, link,
                 restarts, lost>>

(* The 6 s timer of waitFor fires, or the panel is unmounted (clear).      *)
GiveUp(c) ==
  /\ call[c] = "waiting"
  /\ call' = [call EXCEPT ![c] = "failed"]
  /\ UNCHANGED <<kind, request_id, answer, next_relay_request_id, response, peripheral, link,
                 restarts, lost>>

(* The 2 s window of collectBroadcast ends.                                *)
EndCollect(c) ==
  /\ call[c] = "collecting"
  /\ call' = [call EXCEPT ![c] = "done"]
  /\ UNCHANGED <<kind, request_id, answer, next_relay_request_id, response, peripheral, link,
                 restarts, lost>>

-----------------------------------------------------------------------------
(* A peripheral executes it.                                               *)

(* Variant with a slip: a work item that is running is not queued again.   *)
OnRelayRequestWhileRunning(p) ==
  /\ to_peripheral[p] # <<>>
  /\ relay_request_work_payload' = [relay_request_work_payload EXCEPT ![p] = Head(to_peripheral[p])]
  /\ relay_request_work' = [relay_request_work EXCEPT ![p] = @ \/ request_handler[p] = "idle"]
  /\ to_peripheral' = [to_peripheral EXCEPT ![p] = Tail(@)]
  /\ UNCHANGED <<client, next_relay_request_id, response, request_handler, relay_req,
                 to_central, restarts, lost>>

(* on_pmw3610_relay_request, on the system workqueue.                      *)
OnRelayRequest(p) ==
  /\ to_peripheral[p] # <<>>
  /\ relay_request_work_payload' = [relay_request_work_payload EXCEPT ![p] = Head(to_peripheral[p])]
  /\ relay_request_work' = [relay_request_work EXCEPT ![p] = TRUE]
  /\ to_peripheral' = [to_peripheral EXCEPT ![p] = Tail(@)]
  /\ UNCHANGED <<client, next_relay_request_id, response, request_handler, relay_req,
                 to_central, restarts, lost>>

(* relay_request_work_handler *)
RequestWorkStart(p) ==
  /\ relay_request_work[p]
  /\ request_handler[p] = "idle"
  /\ relay_request_work' = [relay_request_work EXCEPT ![p] = FALSE]
  /\ request_handler' = [request_handler EXCEPT ![p] = "id"]
  /\ UNCHANGED <<client, next_relay_request_id, response, relay_request_work_payload, relay_req,
                 link, restarts, lost>>

DecodeRequestId(p) ==
  /\ request_handler[p] = "id"
  /\ relay_req' = [relay_req EXCEPT ![p].id = relay_request_work_payload[p].id]
  /\ request_handler' = [request_handler EXCEPT ![p] = "body"]
  /\ UNCHANGED <<client, next_relay_request_id, response, relay_request_work_payload,
                 relay_request_work, link, restarts, lost>>

DecodeRequestBody(p) ==
  /\ request_handler[p] = "body"
  /\ relay_req' = [relay_req EXCEPT ![p].of = relay_request_work_payload[p].of]
  /\ request_handler' = [request_handler EXCEPT ![p] = "ready"]
  /\ UNCHANGED <<client, next_relay_request_id, response, relay_request_work_payload,
                 relay_request_work, link, restarts, lost>>

(* A buffer that was overwritten since may not decode.                     *)
DecodeRequestFails(p) ==
  /\ request_handler[p] = "body"
  /\ relay_req[p].id # relay_request_work_payload[p].id
  /\ request_handler' = [request_handler EXCEPT ![p] = "idle"]
  /\ UNCHANGED <<client, next_relay_request_id, response, relay_request_work_payload,
                 relay_request_work, relay_req, link, restarts, lost>>

(* pmw3610_request_exec_handle and the relayed response.                   *)
ExecRequest(p) ==
  /\ request_handler[p] = "ready"
  /\ to_central' = [to_central EXCEPT ![p] =
       Append(@, [id |-> relay_req[p].id, of |-> relay_req[p].of, by |-> p])]
  /\ request_handler' = [request_handler EXCEPT ![p] = "idle"]
  /\ UNCHANGED <<client, next_relay_request_id, response, relay_request_work_payload,
                 relay_request_work, relay_req, to_peripheral, restarts, lost>>

-----------------------------------------------------------------------------
(* The central passes the response on.                                     *)

(* on_pmw3610_relay_response, on the system workqueue.                     *)
OnRelayResponse(p) ==
  /\ to_central[p] # <<>>
  /\ relay_response_work_source' = p
  /\ relay_response_work_payload' = Head(to_central[p])
  /\ relay_response_work' = TRUE
  /\ to_central' = [to_central EXCEPT ![p] = Tail(@)]
  /\ UNCHANGED <<client, next_relay_request_id, response_handler, relay_resp, peripheral,
                 to_peripheral, restarts, lost>>

(* relay_response_work_handler *)
ResponseWorkStart ==
  /\ relay_response_work
  /\ response_handler = "idle"
  /\ relay_response_work' = FALSE
  /\ response_handler' = "id"
  /\ UNCHANGED <<client, next_relay_request_id, relay_response_work_source,
                 relay_response_work_payload, relay_resp, peripheral, link, restarts, lost>>

DecodeResponseId ==
  /\ response_handler = "id"
  /\ relay_resp' = [relay_resp EXCEPT !.id = relay_response_work_payload.id]
  /\ response_handler' = "body"
  /\ UNCHANGED <<client, next_relay_request_id, relay_response_work_source,
                 relay_response_work_payload, relay_response_work, peripheral, link, restarts,
                 lost>>

DecodeResponseBody ==
  /\ response_handler = "body"
  /\ relay_resp' = [relay_response_work_payload EXCEPT !.id = relay_resp.id]
  /\ response_handler' = "ready"
  /\ UNCHANGED <<client, next_relay_request_id, relay_response_work_source,
                 relay_response_work_payload, relay_response_work, peripheral, link, restarts,
                 lost>>

DecodeResponseFails ==
  /\ response_handler = "body"
  /\ relay_resp.id # relay_response_work_payload.id
  /\ response_handler' = "idle"
  /\ UNCHANGED <<client, next_relay_request_id, relay_response_work_source,
                 relay_response_work_payload, relay_response_work, relay_resp, peripheral, link,
                 restarts, lost>>

(* Variant with a slip: the entry of a call that was answered is kept.     *)
ResolveAgain(c) ==
  call[c] \in {"waiting", "collecting", "done"} /\ request_id[c] = relay_resp.id

(* handleNotificationPayload: who has registered the id.                   *)
Resolve(c) == call[c] \in {"waiting", "collecting"} /\ request_id[c] = relay_resp.id

(* The PeripheralResponse notification, and what the client does with it.  *)
(* The source is read from the buffer only here.  Nobody waits yet for an  *)
(* answer that overtakes the reply of the RPC.                             *)
RaiseNotification ==
  /\ response_handler = "ready"
  /\ response_handler' = "idle"
  /\ LET pr == [source |-> relay_response_work_source, of |-> relay_resp.of, by |-> relay_resp.by]
     IN answer' = [c \in Call |-> IF Resolve(c) THEN answer[c] \cup {pr} ELSE answer[c]]
  /\ call' = [c \in Call |-> IF Resolve(c) /\ call[c] = "waiting" THEN "done" ELSE call[c]]
  /\ lost' = lost \cup {c \in Call : call[c] = "handled" /\ request_id[c] = relay_resp.id}
  /\ UNCHANGED <<kind, request_id, next_relay_request_id, relay_response_work_source,
                 relay_response_work_payload, relay_response_work, relay_resp, peripheral, link,
                 restarts>>

(* raise_pmw3610_notification returns an error: a line in the log.         *)
NotificationFails ==
  /\ response_handler = "ready"
  /\ response_handler' = "idle"
  /\ Lose({relay_resp.id})
  /\ UNCHANGED <<client, next_relay_request_id, relay_response_work_source,
                 relay_response_work_payload, relay_response_work, relay_resp, peripheral, link,
                 restarts>>

-----------------------------------------------------------------------------
(* What fails.                                                             *)

(* The split link to p drops, or a buffer of the split transport is full.  *)
LinkLost(p) ==
  /\ to_peripheral[p] # <<>> \/ to_central[p] # <<>>
  /\ to_peripheral' = [to_peripheral EXCEPT ![p] = <<>>]
  /\ to_central' = [to_central EXCEPT ![p] = <<>>]
  /\ Lose(Ids(to_peripheral[p]) \cup Ids(to_central[p]))
  /\ UNCHANGED <<client, next_relay_request_id, response, peripheral, restarts>>

(* Ids of the requests that p has received and not answered.               *)
Held(p) ==
  (IF relay_request_work[p] \/ request_handler[p] = "id"
     THEN {relay_request_work_payload[p].id} ELSE {})
    \cup (IF request_handler[p] \in {"body", "ready"} THEN {relay_req[p].id} ELSE {})

PeripheralRestart(p) ==
  /\ relay_request_work_payload' = [relay_request_work_payload EXCEPT ![p] = NoRequest]
  /\ relay_request_work' = [relay_request_work EXCEPT ![p] = FALSE]
  /\ request_handler' = [request_handler EXCEPT ![p] = "idle"]
  /\ relay_req' = [relay_req EXCEPT ![p] = NoRequest]
  /\ to_peripheral' = [to_peripheral EXCEPT ![p] = <<>>]
  /\ to_central' = [to_central EXCEPT ![p] = <<>>]
  /\ Lose(Held(p) \cup Ids(to_peripheral[p]) \cup Ids(to_central[p]))
  /\ UNCHANGED <<client, next_relay_request_id, response, restarts>>

(* Variant with a slip: the counter has no initial value.                  *)
CentralRestartAtZero ==
  /\ restarts < MaxRestarts
  /\ restarts' = restarts + 1
  /\ next_relay_request_id' = 0
  /\ relay_response_work_source' = Central
  /\ relay_response_work_payload' = NoResponse
  /\ relay_response_work' = FALSE
  /\ response_handler' = "idle"
  /\ relay_resp' = NoResponse
  /\ to_peripheral' = [p \in Peripheral |-> <<>>]
  /\ to_central' = [p \in Peripheral |-> <<>>]
  /\ call' = [c \in Call |-> IF call[c] \in {"calling", "handled", "waiting"}
                               THEN "failed" ELSE call[c]]
  /\ UNCHANGED <<kind, request_id, answer, peripheral, lost>>

(* The central starts over: ids begin at 1 again, the links are down for a *)
(* moment, peripherals go on with what they have.  The client's connection *)
(* closes, which rejects its calls but leaves the collecting ones to their *)
(* window.                                                                 *)
CentralRestart ==
  /\ restarts < MaxRestarts
  /\ restarts' = restarts + 1
  /\ next_relay_request_id' = 1
  /\ relay_response_work_source' = Central
  /\ relay_response_work_payload' = NoResponse
  /\ relay_response_work' = FALSE
  /\ response_handler' = "idle"
  /\ relay_resp' = NoResponse
  /\ to_peripheral' = [p \in Peripheral |-> <<>>]
  /\ to_central' = [p \in Peripheral |-> <<>>]
  /\ call' = [c \in Call |-> IF call[c] \in {"calling", "handled", "waiting"}
                               THEN "failed" ELSE call[c]]
  /\ UNCHANGED <<kind, request_id, answer, peripheral, lost>>

-----------------------------------------------------------------------------
Client(c) ==
  \/ \E k \in Kind : CallRpc(c, k)
  \/ RpcHandleRequest(c) \/ RpcReply(c) \/ GiveUp(c) \/ EndCollect(c)

Decode(p) == DecodeRequestId(p) \/ DecodeRequestBody(p) \/ DecodeRequestFails(p)

Execute(p) == OnRelayRequest(p) \/ RequestWorkStart(p) \/ Decode(p) \/ ExecRequest(p)

Pass ==
  \/ \E p \in Peripheral : OnRelayResponse(p)
  \/ ResponseWorkStart
  \/ DecodeResponseId \/ DecodeResponseBody \/ DecodeResponseFails
  \/ RaiseNotification \/ NotificationFails

Fault == CentralRestart \/ \E p \in Peripheral : LinkLost(p) \/ PeripheralRestart(p)

Next ==
  \/ \E c \in Call : Client(c)
  \/ \E p \in Peripheral : Execute(p)
  \/ Pass
  \/ Fault

Spec == Init /\ [][Next]_vars

(* Threads, workqueues and the link go on, and a window ends.  No timer is *)
(* needed for a call to end, so none is promised; nor are new calls.       *)
Fairness ==
  /\ \A c \in Call : WF_vars(RpcHandleRequest(c)) /\ WF_vars(RpcReply(c)) /\ WF_vars(EndCollect(c))
  /\ \A p \in Peripheral :
       /\ WF_vars(OnRelayRequest(p)) /\ WF_vars(RequestWorkStart(p))
       /\ WF_vars(Decode(p)) /\ WF_vars(ExecRequest(p))
       /\ WF_vars(OnRelayResponse(p))
  /\ WF_vars(ResponseWorkStart) /\ WF_vars(DecodeResponseId)
  /\ WF_vars(DecodeResponseBody \/ DecodeResponseFails)
  /\ WF_vars(RaiseNotification \/ NotificationFails)

FairSpec == Spec /\ Fairness

-----------------------------------------------------------------------------
(* Properties.                                                             *)

(* A later request has been relayed than that of c, which the single       *)
(* buffers may have lost or mixed with it.                                 *)
Overtaken(c) == request_id[c] # 0 /\ request_id[c] + 1 < next_relay_request_id

(* A call never gets the answer of an earlier one, however late answers    *)
(* are and whatever the buffers were overwritten with, and that of another *)
(* one at all only when that one overtook it: relay.ts relies on "a single *)
(* counter" for it.  (Once the central has restarted, the counter repeats  *)
(* itself and a peripheral may still be at an old request.)                *)
AnswersOwnCall ==
  restarts = 0 =>
    \A c \in Call : \A a \in answer[c] :
      a.of = c \/ (a.of \in Call /\ request_id[a.of] > request_id[c])

(* Where the answer of the request with this id may come from. *)
OnItsWay(id) ==
  \/ \E p \in Peripheral : id \in Ids(to_peripheral[p]) \cup Held(p) \cup Ids(to_central[p])
  \/ (relay_response_work \/ response_handler = "id") /\ relay_response_work_payload.id = id
  \/ response_handler \in {"body", "ready"} /\ relay_resp.id = id

(* While a call waits, no message of it was lost and no later request was  *)
(* relayed, its answer is on its way: neither the single buffers nor a     *)
(* work item that is submitted while it runs, or not at all because it is  *)
(* pending, drop the last request, however many others were under way.     *)
AnswerOnItsWay ==
  \A c \in Call :
    call[c] = "waiting" /\ c \notin lost /\ ~Overtaken(c) => OnItsWay(request_id[c])

(* A call that loses no message ends without its timer, or a later request *)
(* overtakes it: of a series of calls the last one is answered.            *)
CallsAreAnswered ==
  \A c \in Call :
    call[c] = "calling" ~> call[c] \in {"done", "failed"} \/ c \in lost \/ Overtaken(c)

(* pmw3610_relay.c: "every peripheral executes every relayed request (each *)
(* correctly tagged with its own source on the way back ...)".             *)
CorrectlyTagged == \A c \in Call : \A a \in answer[c] : a.source = a.by

(* With one peripheral each call is what RelayedCall promises: settled     *)
(* once, with an answer of its own that is correctly tagged, and not       *)
(* touched afterwards by late, repeated or torn responses, nor by those of *)
(* an earlier life of the central.  It is exposed to the answers of others *)
(* from when a later request is relayed, or the central restarts.          *)
AnswersTo(c) == {a \in Answer : a.of = c /\ a.source = a.by}

PhaseOf(c) == IF call[c] \in {"idle", "done", "failed"} THEN call[c]
              ELSE IF kind[c] = "all" THEN "collecting" ELSE "waiting"

(* What is in the reply of the RPC is given when it arrives. *)
GivenTo(c) == IF call[c] \in {"collecting", "done"} THEN answer[c] ELSE {}

Relayed(c) ==
  INSTANCE RelayedCall WITH
    Own <- AnswersTo(c),
    Other <- UNION {AnswersTo(d) : d \in (Call \cup {NoCall}) \ {c}},
    phase <- PhaseOf(c),
    answers <- GivenTo(c),
    exposed <- restarts > 0 \/ Overtaken(c)

ImplementsRelayedCall ==
  /\ \A c \in Call : Relayed(c)!Init
  /\ [][\A c \in Call : [Relayed(c)!Next]_(Relayed(c)!vars)]_vars
=============================================================================
