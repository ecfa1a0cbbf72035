----------------------------- MODULE FrameStream -----------------------------
(***************************************************************************)
(* Frame capture and frame streaming of one firmware image, as             *)
(* src/studio/pmw3610_request_exec.c does them.                            *)
(*                                                                         *)
(* Requests run on the Studio RPC thread of a central, and on the          *)
(* low-priority workqueue of a split peripheral; the streaming loop        *)
(* frame_stream_work always runs on the low-priority workqueue.  Both use  *)
(* the same frame buffer, and they meet only in static variables that no   *)
(* lock guards.  A third thread delivers the events that stop a stream:    *)
(* Studio locks (central), the split link drops (peripheral).              *)
(*                                                                         *)
(* Of the driver only what its capture functions show is kept: ready and   *)
(* capture_active of each device, and data->lock held by a read.           *)
(***************************************************************************)
EXTENDS Naturals, Sequences

CONSTANTS
  Device,           \* the PMW3610 instances of this half
  Chunks,           \* PMW3610_FRAME_CHUNK_SIZE pieces of a full frame (4)
  MaxRetries,       \* PMW3610_FRAME_STREAM_NOTIFY_MAX_RETRIES (50)
  SplitPeripheral,  \* PMW3610_IS_SPLIT_PERIPHERAL
  DisableBurstRead, \* 3-wire wiring: a read may come back short
  PatientHost       \* the host lets a capture drain before it starts another

ASSUME ChunksAssumption == Chunks \in Nat \ {0}
ASSUME RetriesAssumption == MaxRetries \in Nat \ {0}
ASSUME BuildAssumption ==
  /\ SplitPeripheral \in BOOLEAN
  /\ DisableBurstRead \in BOOLEAN
  /\ PatientHost \in BOOLEAN

VARIABLES
  (* the static variables of the file *)
  frame_stream_active, frame_stream_session_active, frame_stream_device_index, frame_buf,
  (* what is pending on the low-priority workqueue *)
  queue,
  (* frame_stream_work_handler: where it is, dev, chunk index, chunks of   *)
  (* the frame, attempt                                                    *)
  stream, stream_dev, pos, pixel_count, attempt,
  (* the request being executed: where it is, dev, chunk index, locals     *)
  rpc, rpc_dev, rpc_pos, already_active,
  (* Studio is locked (central), the split link is down (peripheral)       *)
  closed,
  (* the driver's flags, one per device                                    *)
  ready, capture_active

control == <<frame_stream_active, frame_stream_session_active, frame_stream_device_index>>
handler == <<stream, stream_dev, pos, pixel_count, attempt>>
request == <<rpc, rpc_dev, rpc_pos, already_active>>
driver  == <<ready, capture_active>>
vars    == <<control, frame_buf, queue, handler, request, closed, driver>>

-----------------------------------------------------------------------------
ChunkIndex == 0..Chunks - 1

(* frame_stream_work and, on a peripheral, relay_request_work.             *)
Work == {"stream", "relay"}

(* Whose bytes a chunk of frame_buf holds: those of the capture frame_id   *)
(* names, of a read that has not been given a frame_id, or of neither.     *)
Owner == {"frame", "stream", "rpc", "stale"}

StreamState ==
  {"idle",
   "defend",    \* no session: about to clear frame_stream_active
   "lock",      \* in frame_capture_read, before data->lock
   "read",      \* in frame_capture_read
   "notify",    \* at chunk pos of the chunk loop
   "finish",    \* before the last test of frame_stream_active
   "end",       \* in end_session_if_needed, before frame_capture_end
   "clear"}     \* in end_session_if_needed, after frame_capture_end

RpcState ==
  {"idle",
   "begin",     \* SetFrameStream: in frame_capture_begin
   "begun",     \* SetFrameStream: frame_capture_begin returned 0
   "assign",    \* SetFrameStream: before the parameters are stored
   "activate",  \* SetFrameStream: already_active has been read
   "capture",   \* CaptureFrame: in frame_capture_begin
   "lock",      \* CaptureFrame: in frame_capture_read, before data->lock
   "read",      \* CaptureFrame: in frame_capture_read
   "end",       \* CaptureFrame: before frame_capture_end, the read worked
   "fail"}      \* CaptureFrame: before frame_capture_end, the read failed

TypeOK ==
  /\ frame_stream_active \in BOOLEAN
  /\ frame_stream_session_active \in BOOLEAN
  /\ frame_stream_device_index \in Device
  /\ frame_buf \in [ChunkIndex -> Owner]
  /\ queue \in Seq(Work) /\ Len(queue) <= 2
  /\ stream \in StreamState
  /\ stream_dev \in Device
  /\ pos \in 0..Chunks
  /\ pixel_count \in 0..Chunks
  /\ attempt \in 0..MaxRetries - 1
  /\ rpc \in RpcState
  /\ rpc_dev \in Device
  /\ rpc_pos \in 0..Chunks
  /\ already_active \in BOOLEAN
  /\ closed \in BOOLEAN
  /\ ready \in [Device -> BOOLEAN]
  /\ capture_active \in [Device -> BOOLEAN]

Init ==
  /\ frame_stream_active = FALSE
  /\ frame_stream_session_active = FALSE
  /\ frame_stream_device_index \in Device
  /\ frame_buf = [i \in ChunkIndex |-> "stale"]
  /\ queue = <<>>
  /\ stream = "idle"
  /\ stream_dev = frame_stream_device_index
  /\ pos = 0
  /\ pixel_count = 0
  /\ attempt = 0
  /\ rpc = "idle"
  /\ rpc_dev = frame_stream_device_index
  /\ rpc_pos = 0
  /\ already_active = FALSE
  /\ closed = FALSE
  /\ ready = [d \in Device |-> FALSE]
  /\ capture_active = [d \in Device |-> FALSE]

-----------------------------------------------------------------------------
(* What the driver does with a call (modelled in full in Pmw3610Driver).   *)

(* data->lock of d is held by a read.                                      *)
Locked(d) == \/ stream = "read" /\ stream_dev = d
             \/ rpc = "read" /\ rpc_dev = d

(* pmw3610_frame_capture_begin, up to the first release of the lock.       *)
BeginAccepted(d) ==
  /\ ready[d]
  /\ capture_active' = [capture_active EXCEPT ![d] = TRUE]

(* pmw3610_frame_capture_end, and the clean-up of a begin() that failed.   *)
EndSession(d) ==
  /\ ~Locked(d)
  /\ ready' = [ready EXCEPT ![d] = FALSE]
  /\ capture_active' = [capture_active EXCEPT ![d] = FALSE]

(* Asynchronous initialisation completes.                                  *)
InitDone(d) ==
  /\ ~ready[d]
  /\ ready' = [ready EXCEPT ![d] = TRUE]
  /\ UNCHANGED <<control, frame_buf, queue, handler, request, closed, capture_active>>

(* A read starts over the buffer: what it left there before is abandoned.  *)
StartRead(who) ==
  frame_buf' = [i \in ChunkIndex |-> IF frame_buf[i] = who THEN "stale" ELSE frame_buf[i]]

(* A burst read is all or nothing; PIXEL_GRAB may stop anywhere.           *)
MayCollect(n) == DisableBurstRead \/ n = Chunks

(* frame_id++: of the chunks of the last read, the first n become the      *)
(* frame that the new frame_id names.                                      *)
PublishFrame(who, n) ==
  frame_buf' = [i \in ChunkIndex |->
    CASE frame_buf[i] = who -> IF i < n THEN "frame" ELSE "stale"
      [] frame_buf[i] = "frame" -> "stale"
      [] OTHER -> frame_buf[i]]

-----------------------------------------------------------------------------
(* frame_stream_work_handler.  On a peripheral it shares its queue with    *)
(* the requests.                                                           *)

(* A work item that is already queued keeps its place.                     *)
Pending(work) == \E i \in 1..Len(queue) : queue[i] = work

Submitted(work) == IF Pending(work) THEN queue ELSE Append(queue, work)

StreamStart ==
  /\ stream = "idle"
  /\ SplitPeripheral => rpc = "idle"
  /\ queue # <<>> /\ Head(queue) = "stream"
  /\ queue' = Tail(queue)
  /\ stream_dev' = frame_stream_device_index
  /\ stream' = CASE ~frame_stream_active -> "end"
                 [] frame_stream_active /\ ~frame_stream_session_active -> "defend"
                 [] OTHER -> "lock"
  /\ UNCHANGED <<control, frame_buf, pos, pixel_count, attempt, request, closed, driver>>

StreamDefend ==
  /\ stream = "defend"
  /\ frame_stream_active' = FALSE
  /\ stream' = "idle"
  /\ UNCHANGED <<frame_stream_session_active, frame_stream_device_index, frame_buf, queue,
                 stream_dev, pos, pixel_count, attempt, request, closed, driver>>

StreamRead ==
  /\ stream = "lock"
  /\ ~Locked(stream_dev)
  /\ StartRead("stream")
  /\ pos' = 0
  /\ stream' = "read"
  /\ UNCHANGED <<control, queue, stream_dev, pixel_count, attempt,
                 request, closed, driver>>

StreamReadChunk ==
  /\ stream = "read"
  /\ pos < Chunks
  /\ frame_buf' = [frame_buf EXCEPT ![pos] = "stream"]
  /\ pos' = pos + 1
  /\ UNCHANGED <<control, queue, stream, stream_dev, pixel_count,
                 attempt, request, closed, driver>>

StreamReadFail ==
  /\ stream = "read"
  /\ stream' = "finish"
  /\ UNCHANGED <<control, frame_buf, queue, stream_dev, pos, pixel_count, attempt, request,
                 closed, driver>>

(* Variant with a slip: the requested length is announced, not the length  *)
(* that was collected.                                                     *)
StreamReadOkFullLength ==
  /\ stream = "read"
  /\ MayCollect(pos)
  /\ PublishFrame("stream", Chunks)
  /\ pixel_count' = Chunks
  /\ pos' = 0
  /\ attempt' = 0
  /\ stream' = "notify"
  /\ UNCHANGED <<control, queue, stream_dev, request, closed, driver>>

StreamReadOk ==
  /\ stream = "read"
  /\ MayCollect(pos)
  /\ PublishFrame("stream", pos)
  /\ pixel_count' = pos
  /\ pos' = 0
  /\ attempt' = 0
  /\ stream' = IF pos = 0 THEN "finish" ELSE "notify"
  /\ UNCHANGED <<control, queue, stream_dev, request, closed, driver>>

(* notify_frame_stream_chunk copied frame_buf[pos] and got through.        *)
StreamNotify ==
  /\ stream = "notify"
  /\ pos' = pos + 1
  /\ attempt' = 0
  /\ stream' = IF pos + 1 < pixel_count THEN "notify" ELSE "finish"
  /\ UNCHANGED <<control, frame_buf, queue, stream_dev, pixel_count, request, closed, driver>>

(* Variant with a slip: the retry budget is tested after the increment.    *)
StreamNotifyFullOffByOne ==
  /\ stream = "notify"
  /\ ~SplitPeripheral
  /\ IF attempt < MaxRetries
       THEN attempt' = attempt + 1 /\ UNCHANGED stream
       ELSE stream' = "finish" /\ UNCHANGED attempt
  /\ UNCHANGED <<control, frame_buf, queue, stream_dev, pos, pixel_count, request, closed,
                 driver>>

(* -ENOMEM: wait 1 ms and raise the same chunk again, up to the budget.    *)
StreamNotifyFull ==
  /\ stream = "notify"
  /\ ~SplitPeripheral
  /\ IF attempt + 1 < MaxRetries
       THEN attempt' = attempt + 1 /\ UNCHANGED stream
       ELSE stream' = "finish" /\ UNCHANGED attempt
  /\ UNCHANGED <<control, frame_buf, queue, stream_dev, pos, pixel_count, request, closed,
                 driver>>

(* Any other error drops the rest of the frame.                            *)
StreamNotifyError ==
  /\ stream = "notify"
  /\ ~SplitPeripheral
  /\ stream' = "finish"
  /\ UNCHANGED <<control, frame_buf, queue, stream_dev, pos, pixel_count, attempt, request,
                 closed, driver>>

(* Variant with a slip: the loop does not reschedule itself.               *)
StreamFinishOnce ==
  /\ stream = "finish"
  /\ stream' = IF frame_stream_active THEN "idle" ELSE "end"
  /\ UNCHANGED <<control, frame_buf, queue, stream_dev, pos, pixel_count, attempt, request,
                 closed, driver>>

(* Variant with a slip: a stop seen here does not end the session.         *)
StreamFinishWithoutEnd ==
  /\ stream = "finish"
  /\ stream' = "idle"
  /\ queue' = IF frame_stream_active THEN Submitted("stream") ELSE queue
  /\ UNCHANGED <<control, frame_buf, stream_dev, pos, pixel_count, attempt, request, closed,
                 driver>>

StreamFinish ==
  /\ stream = "finish"
  /\ stream' = IF frame_stream_active THEN "idle" ELSE "end"
  /\ queue' = IF frame_stream_active THEN Submitted("stream") ELSE queue
  /\ UNCHANGED <<control, frame_buf, stream_dev, pos, pixel_count, attempt, request, closed,
                 driver>>

(* frame_stream_end_session_if_needed                                      *)
StreamEnd ==
  /\ stream = "end"
  /\ IF frame_stream_session_active
       THEN EndSession(frame_stream_device_index) /\ stream' = "clear"
       ELSE stream' = "idle" /\ UNCHANGED driver
  /\ UNCHANGED <<control, frame_buf, queue, stream_dev, pos, pixel_count, attempt, request,
                 closed>>

StreamClear ==
  /\ stream = "clear"
  /\ frame_stream_session_active' = FALSE
  /\ stream' = "idle"
  /\ UNCHANGED <<frame_stream_active, frame_stream_device_index, frame_buf, queue, stream_dev,
                 pos, pixel_count, attempt, request, closed, driver>>

-----------------------------------------------------------------------------
(* The requests.  A central executes one at a time, and none while Studio  *)
(* is locked; a peripheral executes the request it was relayed, which may  *)
(* have been queued before the link went down.  A request refused for its  *)
(* device index or frame_id changes nothing.                               *)

RelayRequest ==
  /\ SplitPeripheral
  /\ ~closed
  /\ ~Pending("relay")
  /\ queue' = Submitted("relay")
  /\ UNCHANGED <<control, frame_buf, handler, request, closed, driver>>

Accept ==
  /\ rpc = "idle"
  /\ IF SplitPeripheral
       THEN /\ stream = "idle"
            /\ queue # <<>> /\ Head(queue) = "relay"
            /\ queue' = Tail(queue)
       ELSE ~closed /\ UNCHANGED queue

(* The response goes out and the request is over. *)
Answer == rpc' = "idle"

(* The last capture, streamed or not, has left the firmware.  A host that  *)
(* is patient waits for it; the firmware gives it no sign of it and        *)
(* web/src/FrameViewer.tsx does not wait, but enables its buttons again as *)
(* soon as it has asked for the stop.                                      *)
Drained ==
  ~frame_stream_active /\ ~frame_stream_session_active /\ stream = "idle" /\ ~Pending("stream")

(* SetFrameStream for a running stream gives it new parameters.            *)
Retunes(d) == frame_stream_active /\ d = frame_stream_device_index

(* frame_stream_active is tested before begin() waits for the lock; nobody *)
(* but this thread sets it, so testing it again changes nothing.           *)
EnableStream(d) ==
  /\ Accept
  /\ PatientHost => Drained \/ Retunes(d)
  /\ rpc_dev' = d
  /\ \/ /\ frame_stream_active
        /\ rpc' = "assign"
        /\ UNCHANGED driver
     \/ /\ ~frame_stream_active
        /\ ~Locked(d)
        /\ BeginAccepted(d)
        /\ rpc' = "begin"
        /\ UNCHANGED ready
     \/ /\ ~frame_stream_active
        /\ ~Locked(d)
        /\ ~ready[d]
        /\ Answer
        /\ UNCHANGED driver
  /\ UNCHANGED <<control, frame_buf, handler, rpc_pos, already_active, closed>>

BeginOk ==
  /\ rpc = "begin"
  /\ rpc' = "begun"
  /\ UNCHANGED <<control, frame_buf, queue, handler, rpc_dev, rpc_pos, already_active,
                 closed, driver>>

(* Variant with a slip: the error is reported, and then not returned on.   *)
BeginFailIgnored ==
  /\ rpc = "begin"
  /\ EndSession(rpc_dev)
  /\ rpc' = "begun"
  /\ UNCHANGED <<control, frame_buf, queue, handler, rpc_dev, rpc_pos, already_active, closed>>

BeginFail ==
  /\ rpc = "begin"
  /\ EndSession(rpc_dev)
  /\ Answer
  /\ UNCHANGED <<control, frame_buf, queue, handler, rpc_dev, rpc_pos, already_active, closed>>

SessionBegun ==
  /\ rpc = "begun"
  /\ frame_stream_session_active' = TRUE
  /\ rpc' = "assign"
  /\ UNCHANGED <<frame_stream_active, frame_stream_device_index, frame_buf, queue, handler,
                 rpc_dev, rpc_pos, already_active, closed, driver>>

StreamAssign ==
  /\ rpc = "assign"
  /\ frame_stream_device_index' = rpc_dev
  /\ already_active' = frame_stream_active
  /\ rpc' = "activate"
  /\ UNCHANGED <<frame_stream_active, frame_stream_session_active, frame_buf, queue, handler,
                 rpc_dev, rpc_pos, closed, driver>>

StreamActivate ==
  /\ rpc = "activate"
  /\ frame_stream_active' = TRUE
  /\ queue' = IF already_active THEN queue ELSE Submitted("stream")
  /\ Answer
  /\ UNCHANGED <<frame_stream_session_active, frame_stream_device_index, frame_buf, handler,
                 rpc_dev, rpc_pos, already_active, closed, driver>>

DisableStream ==
  /\ Accept
  /\ frame_stream_active' = FALSE
  /\ Answer
  /\ UNCHANGED <<frame_stream_session_active, frame_stream_device_index, frame_buf, handler,
                 rpc_dev, rpc_pos, already_active, closed, driver>>

(* CaptureFrame is refused while a stream is active, or with -EBUSY.       *)
CaptureFrame(d) ==
  /\ Accept
  /\ PatientHost => Drained
  /\ rpc_dev' = d
  /\ \/ /\ ~frame_stream_active
        /\ ~Locked(d)
        /\ BeginAccepted(d)
        /\ rpc' = "capture"
        /\ UNCHANGED ready
     \/ /\ frame_stream_active \/ ~(Locked(d) \/ ready[d])
        /\ Answer
        /\ UNCHANGED driver
  /\ UNCHANGED <<control, frame_buf, handler, rpc_pos, already_active, closed>>

CaptureBeginOk ==
  /\ rpc = "capture"
  /\ rpc' = "lock"
  /\ UNCHANGED <<control, frame_buf, queue, handler, rpc_dev, rpc_pos, already_active,
                 closed, driver>>

(* A run mode that is not confirmed in time counts as an empty frame.      *)
CaptureBeginFail ==
  /\ rpc = "capture"
  /\ EndSession(rpc_dev)
  /\ \/ Answer /\ UNCHANGED frame_buf
     \/ Answer /\ PublishFrame("rpc", 0)
  /\ UNCHANGED <<control, queue, handler, rpc_dev, rpc_pos, already_active,
                 closed>>

CaptureRead ==
  /\ rpc = "lock"
  /\ ~Locked(rpc_dev)
  /\ StartRead("rpc")
  /\ rpc_pos' = 0
  /\ rpc' = "read"
  /\ UNCHANGED <<control, queue, handler, rpc_dev, already_active,
                 closed, driver>>

CaptureReadChunk ==
  /\ rpc = "read"
  /\ rpc_pos < Chunks
  /\ frame_buf' = [frame_buf EXCEPT ![rpc_pos] = "rpc"]
  /\ rpc_pos' = rpc_pos + 1
  /\ UNCHANGED <<control, queue, handler, rpc, rpc_dev,
                 already_active, closed, driver>>

CaptureReadReturn ==
  /\ rpc = "read"
  /\ \/ MayCollect(rpc_pos) /\ rpc' = "end"
     \/ rpc' = "fail"
  /\ UNCHANGED <<control, frame_buf, queue, handler, rpc_dev, rpc_pos, already_active,
                 closed, driver>>

(* Variant with a slip: a failed read returns without frame_capture_end.   *)
CaptureEndSkipped ==
  /\ \/ /\ rpc = "end"
        /\ EndSession(rpc_dev)
        /\ PublishFrame("rpc", rpc_pos)
        /\ Answer
     \/ /\ rpc = "fail"
        /\ Answer
        /\ UNCHANGED <<frame_buf, driver>>
  /\ UNCHANGED <<control, queue, handler, rpc_dev, rpc_pos, already_active,
                 closed>>

(* frame_capture_end runs on the way out of both outcomes.                 *)
CaptureEnd ==
  /\ rpc \in {"end", "fail"}
  /\ EndSession(rpc_dev)
  /\ \/ rpc = "end" /\ PublishFrame("rpc", rpc_pos) /\ Answer
     \/ rpc = "fail" /\ UNCHANGED frame_buf /\ Answer
  /\ UNCHANGED <<control, queue, handler, rpc_dev, rpc_pos, already_active,
                 closed>>

(* GetFrameChunk copies a part of frame_buf and changes nothing.  On a     *)
(* peripheral it has taken its turn on the workqueue, as have a request    *)
(* that only reads registers and one that is refused.                      *)
GetFrameChunk ==
  /\ SplitPeripheral
  /\ Accept
  /\ UNCHANGED <<control, frame_buf, handler, request, closed, driver>>

-----------------------------------------------------------------------------
(* on_studio_core_lock_state_changed, on_split_peripheral_status_changed   *)

Close ==
  /\ ~closed
  /\ closed' = TRUE
  /\ frame_stream_active' = FALSE
  /\ UNCHANGED <<frame_stream_session_active, frame_stream_device_index, frame_buf, queue,
                 handler, request, driver>>

Reopen ==
  /\ closed
  /\ closed' = FALSE
  /\ UNCHANGED <<control, frame_buf, queue, handler, request, driver>>

-----------------------------------------------------------------------------
StreamStep ==
  \/ StreamStart \/ StreamDefend \/ StreamRead \/ StreamReadChunk \/ StreamReadFail
  \/ StreamReadOk \/ StreamNotify \/ StreamNotifyFull \/ StreamNotifyError
  \/ StreamFinish \/ StreamEnd \/ StreamClear

Request ==
  \/ \E d \in Device : EnableStream(d) \/ CaptureFrame(d)
  \/ DisableStream
  \/ GetFrameChunk

RequestStep ==
  \/ BeginOk \/ BeginFail \/ SessionBegun \/ StreamAssign \/ StreamActivate
  \/ CaptureBeginOk \/ CaptureBeginFail \/ CaptureRead \/ CaptureReadChunk
  \/ CaptureReadReturn \/ CaptureEnd

Next ==
  \/ StreamStep
  \/ RelayRequest
  \/ Request
  \/ RequestStep
  \/ \E d \in Device : InitDone(d)
  \/ Close
  \/ Reopen

(* Every wait of a handler or of a request is bounded and the queue runs   *)
(* what is pending, so each returns; a lock is handed over when a read     *)
(* ends.  A relayed request that is queued is executed.  New requests,     *)
(* locks and link changes are never promised.                              *)
Fairness ==
  /\ SF_vars(StreamStart) /\ SF_vars(StreamRead) /\ SF_vars(StreamEnd)
  /\ WF_vars(StreamDefend) /\ WF_vars(StreamClear) /\ WF_vars(StreamFinish)
  /\ WF_vars(StreamReadChunk) /\ WF_vars(StreamReadOk \/ StreamReadFail)
  /\ WF_vars(StreamNotify \/ StreamNotifyFull \/ StreamNotifyError)
  /\ SF_vars(RequestStep)
  /\ SplitPeripheral => SF_vars(Request)

Spec == Init /\ [][Next]_vars

FairSpec == Spec /\ Fairness

-----------------------------------------------------------------------------
(* Properties.                                                             *)

(* The comment on the streaming state, which every stop path relies on:    *)
(* while frame_stream_active is set the work is scheduled or running, so   *)
(* clearing the flag is noticed by the next run.  "running" means a run    *)
(* that has yet to look at the flag, or that is about to clear it.         *)
WorkFollowsActive ==
  frame_stream_active =>
    Pending("stream") \/ stream \in {"lock", "read", "notify", "finish", "defend"}

(* frame_capture_read is only called between a successful begin() and the  *)
(* matching end() (pmw3610_api.h), whatever stops come in between.         *)
ReadsInSession ==
  /\ stream \in {"lock", "read"} => capture_active[stream_dev]
  /\ rpc \in {"lock", "read"} => capture_active[rpc_dev]

(* Every chunk that the streaming loop raises under a frame_id holds bytes *)
(* of the capture that frame_id was given to.                              *)
StreamedFrameIsWhole == stream = "notify" => frame_buf[pos] = "frame"

StreamHolds(d) ==
  \/ rpc \in {"begin", "begun"} /\ rpc_dev = d
  \/ /\ frame_stream_session_active
     /\ stream # "clear"
     /\ d = IF rpc = "assign" THEN rpc_dev ELSE frame_stream_device_index

RpcHolds(d) == rpc \in {"capture", "lock", "read", "end", "fail"} /\ rpc_dev = d

(* A device that was taken from navigation is held by the stream or by a   *)
(* CaptureFrame that is going to call frame_capture_end for it: no session *)
(* is begun and then forgotten.                                            *)
SessionsAreEnded == \A d \in Device : capture_active[d] => StreamHolds(d) \/ RpcHolds(d)

(* The stream and CaptureFrame together use each device the way            *)
(* CaptureSession asks for: one session at a time, each ended by who began *)
(* it.  This discharges the assumption DisjointSessions of Pmw3610Driver.  *)
Session(d) ==
  INSTANCE CaptureSession WITH
    Client <- {"stream", "rpc"},
    phase <- IF capture_active[d] THEN "session"
             ELSE IF ready[d] THEN "navigating" ELSE "starting",
    users <- {c \in {"stream", "rpc"} : IF c = "stream" THEN StreamHolds(d) ELSE RpcHolds(d)}

ImplementsCaptureSession ==
  /\ \A d \in Device : Session(d)!Init
  /\ [][\A d \in Device : [Session(d)!Next]_(Session(d)!vars)]_vars

(* A stop that finds a session is noticed, whatever requests race with the *)
(* loop: clearing frame_stream_active is all that any stop path does.      *)
StopIsNoticed ==
  frame_stream_session_active /\ ~frame_stream_active
    ~> ~frame_stream_session_active \/ frame_stream_active

(* A stop, a Studio lock and a failed capture give the sensor back: a      *)
(* device in a capture session is released unless a stream goes on.        *)
SensorIsReleased ==
  \A d \in Device : capture_active[d] ~> ~capture_active[d] \/ frame_stream_active
=============================================================================
