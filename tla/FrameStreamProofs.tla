-------------------------- MODULE FrameStreamProofs --------------------------
(***************************************************************************)
(* Theorems about FrameStream: types in every build; the stopping of a     *)
(* stream on a split peripheral, whatever the host sends; the frames and   *)
(* the sessions there, and on either half for a host that waits for the    *)
(* drain.  Such a host is an obligation, which the web client of the       *)
(* repository does not keep.                                               *)
(***************************************************************************)
EXTENDS FrameStream, SequenceTheorems, TLAPS

-----------------------------------------------------------------------------
(* The workqueue.                                                          *)

(* No work item is queued twice. *)
QueuedOnce ==
  /\ queue \in Seq(Work)
  /\ \A i, j \in 1..Len(queue) : queue[i] = queue[j] => i = j

LEMMA QueueIsShort ==
  ASSUME NEW q \in Seq(Work), \A i, j \in 1..Len(q) : q[i] = q[j] => i = j
  PROVE  Len(q) <= 2
<1>1. Len(q) \in Nat /\ \A i \in 1..Len(q) : q[i] \in {"stream", "relay"}
  BY DEF Work
<1>2. ASSUME Len(q) >= 3
      PROVE  FALSE
  <2>1. 1 \in 1..Len(q) /\ 2 \in 1..Len(q) /\ 3 \in 1..Len(q)
    BY <1>1, <1>2
  <2> QED BY <1>1, <2>1
<1> QED BY <1>1, <1>2

(* Taking the first item leaves the others where they are. *)
LEMMA QueueTaken ==
  ASSUME QueuedOnce, queue # <<>>, queue' = Tail(queue), NEW work \in Work
  PROVE  /\ QueuedOnce'
         /\ Head(queue) # work => (Pending(work)' <=> Pending(work))
         /\ Head(queue) = work => ~Pending(work)'
<1>1. PICK t, n : t = Tail(queue) /\ n = Len(queue)
  OBVIOUS
<1>2. /\ t \in Seq(Work) /\ Len(t) = n - 1 /\ n \in Nat \ {0}
      /\ \A i \in 1..Len(t) : t[i] = queue[i + 1]
      /\ Head(queue) = queue[1]
  BY <1>1, HeadTailProperties, LenProperties, EmptySeq DEF QueuedOnce
<1>3. \A i, j \in 1..Len(t) : t[i] = t[j] => i = j
  <2> SUFFICES ASSUME NEW i \in 1..Len(t), NEW j \in 1..Len(t), t[i] = t[j]
               PROVE  i = j
    OBVIOUS
  <2>1. /\ i + 1 \in 1..n /\ j + 1 \in 1..n /\ i \in Int /\ j \in Int
        /\ queue[i + 1] = queue[j + 1]
    BY <1>2
  <2>2. i + 1 = j + 1
    BY <1>1, <2>1 DEF QueuedOnce
  <2> QED BY <2>1, <2>2
<1>4. ASSUME Head(queue) # work
      PROVE  Pending(work)' <=> Pending(work)
  <2>1. ASSUME NEW i \in 1..Len(t), t[i] = work
        PROVE  Pending(work)
    <3>1. i + 1 \in 1..n /\ queue[i + 1] = work
      BY <1>2, <2>1
    <3> QED BY <1>1, <3>1 DEF Pending
  <2>2. ASSUME NEW i \in 1..n, queue[i] = work
        PROVE  \E j \in 1..Len(t) : t[j] = work
    <3>1. i # 1
      BY <1>2, <1>4, <2>2
    <3>2. i - 1 \in 1..Len(t) /\ t[i - 1] = queue[i]
      BY <1>2, <3>1
    <3> QED BY <2>2, <3>2
  <2>3. Pending(work)' <=> \E j \in 1..Len(t) : t[j] = work
    BY <1>1 DEF Pending
  <2> QED BY <1>1, <2>1, <2>2, <2>3 DEF Pending
<1>5. ASSUME Head(queue) = work, Pending(work)'
      PROVE  FALSE
  <2>1. PICK i \in 1..Len(t) : t[i] = work
    BY <1>1, <1>5 DEF Pending
  <2>2. i + 1 \in 1..n /\ i + 1 # 1 /\ 1 \in 1..n /\ queue[i + 1] = queue[1]
    BY <1>2, <1>5, <2>1
  <2> QED BY <1>1, <2>2 DEF QueuedOnce
<1> QED BY <1>1, <1>2, <1>3, <1>4, <1>5 DEF QueuedOnce

(* Submitting an item adds it, or leaves it where it is. *)
LEMMA QueueSubmitted ==
  ASSUME QueuedOnce, NEW work \in Work, queue' = Submitted(work)
  PROVE  QueuedOnce' /\ \A w \in Work : Pending(w)' <=> Pending(w) \/ w = work
<1>1. CASE Pending(work)
  <2>1. queue' = queue
    BY <1>1 DEF Submitted
  <2> QED BY <1>1, <2>1 DEF QueuedOnce, Pending
<1>2. CASE ~Pending(work)
  <2>1. PICK t, n : t = Append(queue, work) /\ n = Len(queue) /\ queue' = t
    BY <1>2 DEF Submitted
  <2>2. /\ t \in Seq(Work) /\ Len(t) = n + 1 /\ n \in Nat
        /\ \A i \in 1..n : t[i] = queue[i]
        /\ t[n + 1] = work
    BY <2>1, AppendProperties, LenProperties DEF QueuedOnce
  <2>3. \A i \in 1..n : queue[i] # work
    BY <1>2, <2>1 DEF Pending
  <2>4. \A i, j \in 1..n + 1 : t[i] = t[j] => i = j
    BY <2>1, <2>2, <2>3 DEF QueuedOnce
  <2>5. ASSUME NEW w \in Work
        PROVE  (\E i \in 1..n + 1 : t[i] = w) <=> Pending(w) \/ w = work
    <3>1. Pending(w) <=> \E i \in 1..n : t[i] = w
      BY <2>1, <2>2 DEF Pending
    <3> QED BY <2>2, <3>1
  <2> QED BY <2>1, <2>2, <2>4, <2>5 DEF QueuedOnce, Pending
<1> QED BY <1>1, <1>2

-----------------------------------------------------------------------------
(* Types.                                                                  *)

NotifyInFrame == stream = "notify" => pos < pixel_count

TypeInv == TypeOK /\ QueuedOnce /\ NotifyInFrame

LEMMA InitTypes == Init => TypeInv
<1> SUFFICES ASSUME Init PROVE TypeInv
  OBVIOUS
<1>1. frame_buf \in [ChunkIndex -> Owner]
  BY DEF Init, Owner
<1>2. queue \in Seq(Work) /\ Len(queue) = 0 /\ QueuedOnce
  BY DEF Init, QueuedOnce
<1>3. attempt \in 0..MaxRetries - 1 /\ pos \in 0..Chunks /\ pixel_count \in 0..Chunks
      /\ rpc_pos \in 0..Chunks
  BY ChunksAssumption, RetriesAssumption DEF Init
<1>4. /\ stream \in StreamState /\ stream # "notify" /\ rpc \in RpcState
      /\ ready \in [Device -> BOOLEAN] /\ capture_active \in [Device -> BOOLEAN]
  BY DEF Init, StreamState, RpcState
<1>5. /\ frame_stream_active \in BOOLEAN /\ frame_stream_session_active \in BOOLEAN
      /\ already_active \in BOOLEAN /\ closed \in BOOLEAN
      /\ frame_stream_device_index \in Device /\ stream_dev \in Device /\ rpc_dev \in Device
  BY DEF Init
<1>6. Len(queue) <= 2
  BY <1>2
<1> QED BY <1>1, <1>2, <1>3, <1>4, <1>5, <1>6 DEF TypeInv, TypeOK, NotifyInFrame

(* What a read and the numbering of a frame do to the buffer. *)
LEMMA BufferTypes ==
  ASSUME frame_buf \in [ChunkIndex -> Owner], NEW who \in Owner, NEW n
  PROVE  /\ StartRead(who) => frame_buf' \in [ChunkIndex -> Owner]
         /\ PublishFrame(who, n) => frame_buf' \in [ChunkIndex -> Owner]
         /\ \A i : [frame_buf EXCEPT ![i] = who] \in [ChunkIndex -> Owner]
<1>1. "stale" \in Owner /\ "frame" \in Owner
  BY DEF Owner
<1> QED BY <1>1 DEF StartRead, PublishFrame

LEMMA DriverTypes ==
  ASSUME TypeOK, NEW d \in Device
  PROVE  /\ EndSession(d) => ready' \in [Device -> BOOLEAN]
                             /\ capture_active' \in [Device -> BOOLEAN]
         /\ BeginAccepted(d) => capture_active' \in [Device -> BOOLEAN]
  BY DEF EndSession, BeginAccepted, TypeOK

LEMMA StreamTypes ==
  ASSUME TypeInv, StreamStep
  PROVE  TypeInv'
<1> USE DEF TypeInv, Work, Owner
<1>0. UNCHANGED <<request, closed>>
  BY DEF StreamStep, StreamStart, StreamDefend, StreamRead, StreamReadChunk, StreamReadFail,
         StreamReadOk, StreamNotify, StreamNotifyFull, StreamNotifyError, StreamFinish, StreamEnd,
         StreamClear
<1>1. QueuedOnce'
  <2>1. CASE StreamStart
    BY <2>1, QueueTaken DEF StreamStart
  <2>2. CASE StreamFinish
    BY <2>2, QueueSubmitted DEF StreamFinish, QueuedOnce
  <2>3. CASE ~StreamStart /\ ~StreamFinish
    BY <2>3 DEF StreamStep, StreamDefend, StreamRead, StreamReadChunk, StreamReadFail,
                StreamReadOk, StreamNotify, StreamNotifyFull, StreamNotifyError, StreamEnd,
                StreamClear, QueuedOnce
  <2> QED BY <2>1, <2>2, <2>3
<1>2. queue' \in Seq(Work) /\ Len(queue') <= 2
  BY <1>1, QueueIsShort DEF QueuedOnce
<1>3. frame_buf' \in [ChunkIndex -> Owner]
  BY BufferTypes DEF StreamStep, StreamStart, StreamDefend, StreamRead, StreamReadChunk,
         StreamReadFail, StreamReadOk, StreamNotify, StreamNotifyFull, StreamNotifyError,
         StreamFinish, StreamEnd, StreamClear, TypeOK
<1>4. /\ frame_stream_active' \in BOOLEAN /\ frame_stream_session_active' \in BOOLEAN
      /\ frame_stream_device_index' \in Device
  BY DEF StreamStep, StreamStart, StreamDefend, StreamRead, StreamReadChunk, StreamReadFail,
         StreamReadOk, StreamNotify, StreamNotifyFull, StreamNotifyError, StreamFinish, StreamEnd,
         StreamClear, TypeOK, control
<1>5. stream' \in StreamState /\ stream_dev' \in Device
  BY DEF StreamStep, StreamStart, StreamDefend, StreamRead, StreamReadChunk, StreamReadFail,
         StreamReadOk, StreamNotify, StreamNotifyFull, StreamNotifyError, StreamFinish, StreamEnd,
         StreamClear, TypeOK, StreamState
<1>6. /\ pos' \in 0..Chunks /\ pixel_count' \in 0..Chunks /\ attempt' \in 0..MaxRetries - 1
      /\ NotifyInFrame'
  <2> USE ChunksAssumption, RetriesAssumption DEF TypeOK, NotifyInFrame
  <2>1. CASE StreamRead \/ StreamReadChunk \/ StreamReadFail \/ StreamReadOk
    BY <2>1 DEF StreamRead, StreamReadChunk, StreamReadFail, StreamReadOk
  <2>2. CASE StreamNotify \/ StreamNotifyFull \/ StreamNotifyError
    BY <2>2 DEF StreamNotify, StreamNotifyFull, StreamNotifyError
  <2>3. CASE StreamStart \/ StreamDefend \/ StreamFinish \/ StreamEnd \/ StreamClear
    <3>1. stream' # "notify" /\ UNCHANGED <<pos, pixel_count, attempt>>
      BY <2>3 DEF StreamStart, StreamDefend, StreamFinish, StreamEnd, StreamClear
    <3> QED BY <3>1
  <2> QED BY <2>1, <2>2, <2>3 DEF StreamStep
<1>7. ready' \in [Device -> BOOLEAN] /\ capture_active' \in [Device -> BOOLEAN]
  <2>1. CASE StreamEnd
    BY <2>1, DriverTypes DEF StreamEnd, TypeOK, driver
  <2>2. CASE ~StreamEnd
    BY <2>2 DEF StreamStep, StreamStart, StreamDefend, StreamRead, StreamReadChunk,
         StreamReadFail, StreamReadOk, StreamNotify, StreamNotifyFull, StreamNotifyError,
         StreamFinish, StreamClear, TypeOK, driver
  <2> QED BY <2>1, <2>2
<1> QED BY <1>0, <1>1, <1>2, <1>3, <1>4, <1>5, <1>6, <1>7 DEF TypeOK, request

LEMMA RequestTypes ==
  ASSUME TypeInv, Request \/ RequestStep
  PROVE  TypeInv'
<1> USE DEF TypeInv, Work, Owner
<1>0. UNCHANGED <<handler, closed>>
  BY DEF Request, EnableStream, DisableStream, CaptureFrame, GetFrameChunk, RequestStep, BeginOk,
         BeginFail, SessionBegun, StreamAssign, StreamActivate, CaptureBeginOk, CaptureBeginFail,
         CaptureRead, CaptureReadChunk, CaptureReadReturn, CaptureEnd
<1>1. QueuedOnce'
  <2>1. CASE Request
    <3>1. Accept
      BY <2>1 DEF Request, EnableStream, DisableStream, CaptureFrame, GetFrameChunk
    <3>2. CASE SplitPeripheral
      BY <3>1, <3>2, QueueTaken DEF Accept
    <3>3. CASE ~SplitPeripheral
      BY <3>1, <3>3 DEF Accept, QueuedOnce
    <3> QED BY <3>2, <3>3
  <2>2. CASE StreamActivate
    BY <2>2, QueueSubmitted DEF StreamActivate, QueuedOnce
  <2>3. CASE RequestStep /\ ~StreamActivate
    BY <2>3 DEF RequestStep, BeginOk, BeginFail, SessionBegun, StreamAssign, CaptureBeginOk,
                CaptureBeginFail, CaptureRead, CaptureReadChunk, CaptureReadReturn, CaptureEnd,
                QueuedOnce
  <2> QED BY <2>1, <2>2, <2>3
<1>2. queue' \in Seq(Work) /\ Len(queue') <= 2
  BY <1>1, QueueIsShort DEF QueuedOnce
<1>3. frame_buf' \in [ChunkIndex -> Owner]
  BY BufferTypes DEF Request, EnableStream, DisableStream, CaptureFrame, GetFrameChunk,
         RequestStep, BeginOk, BeginFail, SessionBegun, StreamAssign, StreamActivate,
         CaptureBeginOk, CaptureBeginFail, CaptureRead, CaptureReadChunk, CaptureReadReturn,
         CaptureEnd, TypeOK
<1>4. /\ frame_stream_active' \in BOOLEAN /\ frame_stream_session_active' \in BOOLEAN
      /\ frame_stream_device_index' \in Device /\ already_active' \in BOOLEAN
  BY DEF Request, EnableStream, DisableStream, CaptureFrame, GetFrameChunk, RequestStep, BeginOk,
         BeginFail, SessionBegun, StreamAssign, StreamActivate, CaptureBeginOk, CaptureBeginFail,
         CaptureRead, CaptureReadChunk, CaptureReadReturn, CaptureEnd, TypeOK, control, request
<1>5. rpc' \in RpcState /\ rpc_dev' \in Device /\ rpc_pos' \in 0..Chunks
  BY ChunksAssumption
  DEF Request, EnableStream, DisableStream, CaptureFrame, GetFrameChunk, RequestStep, BeginOk,
         BeginFail, SessionBegun, StreamAssign, StreamActivate, CaptureBeginOk, CaptureBeginFail,
         CaptureRead, CaptureReadChunk, CaptureReadReturn, CaptureEnd, TypeOK, RpcState, Answer,
         request
<1>6. ready' \in [Device -> BOOLEAN] /\ capture_active' \in [Device -> BOOLEAN]
  <2>1. rpc_dev \in Device
    BY DEF TypeOK
  <2>2. ASSUME NEW d \in Device, EnableStream(d) \/ CaptureFrame(d)
        PROVE  ready' \in [Device -> BOOLEAN] /\ capture_active' \in [Device -> BOOLEAN]
    BY <2>2, DriverTypes DEF EnableStream, CaptureFrame, TypeOK, driver
  <2>3. CASE BeginFail \/ CaptureBeginFail \/ CaptureEnd
    BY <2>1, <2>3, DriverTypes DEF BeginFail, CaptureBeginFail, CaptureEnd
  <2>4. CASE \/ DisableStream \/ GetFrameChunk \/ BeginOk \/ SessionBegun \/ StreamAssign
             \/ StreamActivate \/ CaptureBeginOk \/ CaptureRead \/ CaptureReadChunk
             \/ CaptureReadReturn
    BY <2>4 DEF DisableStream, GetFrameChunk, BeginOk, SessionBegun, StreamAssign,
         StreamActivate, CaptureBeginOk, CaptureRead, CaptureReadChunk, CaptureReadReturn, TypeOK,
         driver
  <2> QED BY <2>2, <2>3, <2>4 DEF Request, RequestStep
<1> QED BY <1>0, <1>1, <1>2, <1>3, <1>4, <1>5, <1>6 DEF TypeOK, handler, NotifyInFrame

LEMMA OtherTypes ==
  ASSUME TypeInv,
         RelayRequest \/ (\E d \in Device : InitDone(d)) \/ Close \/ Reopen \/ UNCHANGED vars
  PROVE  TypeInv'
<1> USE DEF TypeInv, Work
<1>1. QueuedOnce'
  BY QueueSubmitted DEF RelayRequest, InitDone, Close, Reopen, vars, QueuedOnce
<1>2. queue' \in Seq(Work) /\ Len(queue') <= 2
  BY <1>1, QueueIsShort DEF QueuedOnce
<1>3. UNCHANGED <<frame_buf, handler, request>>
  BY DEF RelayRequest, InitDone, Close, Reopen, vars
<1>4. /\ frame_stream_active' \in BOOLEAN /\ frame_stream_session_active' \in BOOLEAN
      /\ frame_stream_device_index' \in Device /\ closed' \in BOOLEAN
      /\ ready' \in [Device -> BOOLEAN] /\ capture_active' \in [Device -> BOOLEAN]
  BY DEF RelayRequest, InitDone, Close, Reopen, vars, control, driver, TypeOK
<1> QED BY <1>1, <1>2, <1>3, <1>4 DEF TypeOK, handler, request, NotifyInFrame

LEMMA StreamTypeInv == Spec => []TypeInv
<1>1. TypeInv /\ [Next]_vars => TypeInv'
  BY StreamTypes, RequestTypes, OtherTypes DEF Next
<1> QED BY <1>1, InitTypes, PTL DEF Spec

(* Types are kept in every build and by every host: no chunk is raised     *)
(* beyond the end of a frame, the retry budget is not passed, and neither  *)
(* work item is queued twice.                                              *)
THEOREM StreamTypeCorrect == Spec => []TypeOK
<1>1. TypeInv => TypeOK
  BY DEF TypeInv
<1> QED BY <1>1, StreamTypeInv, PTL

-----------------------------------------------------------------------------
(* A split peripheral.  Both handlers run on one workqueue, so a request   *)
(* and a run of the loop never overlap; only the link's thread comes in    *)
(* between, and it does no more than clear frame_stream_active.            *)

Exclusive == stream = "idle" \/ rpc = "idle"

LEMMA ExclusiveStep ==
  ASSUME SplitPeripheral, TypeInv, Exclusive, [Next]_vars
  PROVE  Exclusive'
<1>1. CASE StreamStep
  <2>1. UNCHANGED rpc /\ (stream # "idle" \/ rpc = "idle")
    BY <1>1 DEF StreamStep, StreamStart, StreamDefend, StreamRead, StreamReadChunk,
         StreamReadFail, StreamReadOk, StreamNotify, StreamNotifyFull, StreamNotifyError,
         StreamFinish, StreamEnd, StreamClear, request
  <2> QED BY <2>1 DEF Exclusive
<1>2. CASE Request \/ RequestStep
  <2>1. UNCHANGED stream /\ (rpc # "idle" \/ stream = "idle")
    BY <1>2 DEF Request, EnableStream, DisableStream, CaptureFrame, GetFrameChunk, Accept,
         RequestStep, BeginOk, BeginFail, SessionBegun, StreamAssign, StreamActivate,
         CaptureBeginOk, CaptureBeginFail, CaptureRead, CaptureReadChunk, CaptureReadReturn,
         CaptureEnd, handler
  <2> QED BY <2>1 DEF Exclusive
<1>3. CASE RelayRequest \/ (\E d \in Device : InitDone(d)) \/ Close \/ Reopen \/ UNCHANGED vars
  BY <1>3 DEF Exclusive, RelayRequest, InitDone, Close, Reopen, vars, handler, request
<1> QED BY <1>1, <1>2, <1>3 DEF Next

(* The stream item is queued when a request that found the stream active   *)
(* is about to say so again.                                               *)
AlreadyQueued == rpc = "activate" /\ already_active => Pending("stream")

ScheduleInv == Exclusive /\ AlreadyQueued /\ WorkFollowsActive

LEMMA ScheduleStep ==
  ASSUME SplitPeripheral, TypeInv, ScheduleInv, [Next]_vars
  PROVE  AlreadyQueued' /\ WorkFollowsActive'
<1> USE DEF TypeInv, Work
<1>1. CASE StreamStart
  <2>1. /\ frame_stream_active => stream' \in {"defend", "lock"}
        /\ UNCHANGED <<frame_stream_active, rpc>> /\ rpc = "idle"
    BY <1>1 DEF StreamStart, control, request
  <2> QED BY <2>1 DEF AlreadyQueued, WorkFollowsActive
<1>2. CASE StreamFinish
  <2>1. /\ frame_stream_active => Pending("stream")'
        /\ UNCHANGED <<frame_stream_active, rpc>> /\ rpc = "idle"
    BY <1>2, QueueSubmitted DEF StreamFinish, ScheduleInv, Exclusive, control, request
  <2> QED BY <2>1 DEF AlreadyQueued, WorkFollowsActive
<1>3. CASE StreamStep /\ ~StreamStart /\ ~StreamFinish
  <2>1. /\ UNCHANGED <<queue, request>>
        /\ \/ ~frame_stream_active'
           \/ stream \in {"end", "clear"} /\ UNCHANGED frame_stream_active
           \/ stream' \in {"lock", "read", "notify", "finish", "defend"}
    BY <1>3 DEF StreamStep, StreamDefend, StreamRead, StreamReadChunk, StreamReadFail,
         StreamReadOk, StreamNotify, StreamNotifyFull, StreamNotifyError, StreamEnd, StreamClear,
         control
  <2> QED BY <2>1 DEF ScheduleInv, AlreadyQueued, WorkFollowsActive, Pending, request
<1>4. CASE Request
  <2>1. Accept /\ rpc = "idle" /\ UNCHANGED stream
    BY <1>4 DEF Request, EnableStream, DisableStream, CaptureFrame, GetFrameChunk, Accept, handler
  <2>2. Pending("stream")' <=> Pending("stream")
    BY <2>1, QueueTaken DEF Accept
  <2>3. rpc' # "activate" /\ (frame_stream_active' => frame_stream_active)
    BY <1>4, <2>1 DEF Request, EnableStream, DisableStream, CaptureFrame, GetFrameChunk, Answer,
                      control, request
  <2> QED BY <2>1, <2>2, <2>3 DEF ScheduleInv, AlreadyQueued, WorkFollowsActive
<1>5. CASE StreamAssign
  BY <1>5 DEF StreamAssign, ScheduleInv, Exclusive, AlreadyQueued, WorkFollowsActive, Pending,
              handler
<1>6. CASE StreamActivate
  <2>1. Pending("stream")'
    BY <1>6, QueueSubmitted DEF StreamActivate, ScheduleInv, AlreadyQueued, Pending
  <2> QED BY <1>6, <2>1 DEF StreamActivate, AlreadyQueued, WorkFollowsActive
<1>7. CASE RequestStep /\ ~StreamAssign /\ ~StreamActivate
  <2>1. UNCHANGED <<queue, stream, frame_stream_active>> /\ rpc' # "activate"
    BY <1>7 DEF RequestStep, BeginOk, BeginFail, SessionBegun, CaptureBeginOk, CaptureBeginFail,
         CaptureRead, CaptureReadChunk, CaptureReadReturn, CaptureEnd, Answer, handler, control
  <2> QED BY <2>1 DEF ScheduleInv, AlreadyQueued, WorkFollowsActive, Pending
<1>8. CASE RelayRequest
  <2>1. Pending("stream") => Pending("stream")'
    BY <1>8, QueueSubmitted DEF RelayRequest
  <2> QED BY <1>8, <2>1 DEF RelayRequest, ScheduleInv, AlreadyQueued, WorkFollowsActive, control,
                            handler, request
<1>9. CASE (\E d \in Device : InitDone(d)) \/ Close \/ Reopen \/ UNCHANGED vars
  BY <1>9 DEF InitDone, Close, Reopen, vars, ScheduleInv, AlreadyQueued, WorkFollowsActive,
              Pending, control, handler, request
<1> QED BY <1>1, <1>2, <1>3, <1>4, <1>5, <1>6, <1>7, <1>8, <1>9 DEF Next

LEMMA StreamScheduleInv == ASSUME SplitPeripheral PROVE Spec => []ScheduleInv
<1>1. Init => ScheduleInv
  BY DEF Init, ScheduleInv, Exclusive, AlreadyQueued, WorkFollowsActive
<1>2. TypeInv /\ ScheduleInv /\ [Next]_vars => ScheduleInv'
  BY ExclusiveStep, ScheduleStep DEF ScheduleInv
<1> QED BY <1>1, <1>2, StreamTypeInv, PTL DEF Spec

(* While frame_stream_active is set on a peripheral the streaming work is  *)
(* queued or running, so a flag that is cleared by the link, a request or  *)
(* the work itself is always looked at again (pmw3610_request_exec.c).     *)
THEOREM StreamIsScheduled == ASSUME SplitPeripheral PROVE Spec => []WorkFollowsActive
<1>1. ScheduleInv => WorkFollowsActive
  BY DEF ScheduleInv
<1> QED BY <1>1, StreamScheduleInv, PTL

-----------------------------------------------------------------------------
(* Frames: between the read of a frame and the last of its notifications   *)
(* nothing else writes to the buffer.  A peripheral's queue sees to that,  *)
(* or a patient host.                                                      *)

(* No request is between begin() and end() while the loop runs. *)
BufferIsFree == stream = "idle" \/ rpc \in {"idle", "assign", "activate"}

ReadSoFar == stream = "read" => \A i \in ChunkIndex : i < pos => frame_buf[i] = "stream"

FrameSoFar == stream = "notify" => \A i \in ChunkIndex : i < pixel_count => frame_buf[i] = "frame"

FrameInv == ReadSoFar /\ FrameSoFar

LEMMA FrameStep ==
  ASSUME TypeInv, BufferIsFree, FrameInv, [Next]_vars
  PROVE  FrameInv'
<1> USE DEF TypeInv, TypeOK, FrameInv, ReadSoFar, FrameSoFar
<1>1. CASE UNCHANGED <<stream, frame_buf, pos, pixel_count>>
  BY <1>1
<1>2. CASE stream' \notin {"read", "notify"}
  BY <1>2
<1>3. CASE StreamRead
  BY <1>3 DEF StreamRead, ChunkIndex
<1>4. CASE StreamReadChunk
  BY <1>4, ChunksAssumption DEF StreamReadChunk, ChunkIndex
<1>5. CASE StreamReadOk
  BY <1>5, ChunksAssumption DEF StreamReadOk, PublishFrame, ChunkIndex
<1>6. CASE StreamNotify \/ StreamNotifyFull
  BY <1>6 DEF StreamNotify, StreamNotifyFull
<1>7. CASE StreamStep
  BY <1>2, <1>3, <1>4, <1>5, <1>6, <1>7
  DEF StreamStep, StreamStart, StreamDefend, StreamReadFail, StreamNotifyError, StreamFinish,
      StreamEnd, StreamClear
<1>8. CASE Request \/ RequestStep
  <2>1. /\ UNCHANGED <<stream, pos, pixel_count>>
        /\ rpc \in {"idle", "assign", "activate"} => UNCHANGED frame_buf
    BY <1>8 DEF Request, EnableStream, DisableStream, CaptureFrame, GetFrameChunk,
         RequestStep, BeginOk, BeginFail, SessionBegun, StreamAssign, StreamActivate,
         CaptureBeginOk, CaptureBeginFail, CaptureRead, CaptureReadChunk, CaptureReadReturn,
         CaptureEnd, handler
  <2> QED BY <1>1, <1>2, <2>1 DEF BufferIsFree
<1>9. CASE RelayRequest \/ (\E d \in Device : InitDone(d)) \/ Close \/ Reopen \/ UNCHANGED vars
  BY <1>1, <1>9 DEF RelayRequest, InitDone, Close, Reopen, vars, handler
<1> QED BY <1>7, <1>8, <1>9 DEF Next

-----------------------------------------------------------------------------
(* Sessions of a peripheral, which has one device.                         *)

OneDevice == \A d, e \in Device : d = e

Captured == \A d \in Device : capture_active[d]

SessionInv ==
  (* an active stream is in its session *)
  /\ frame_stream_active => frame_stream_session_active /\ Captured
  (* so is a request that has begun one and is not done with it *)
  /\ rpc \in {"begin", "begun", "capture", "lock", "read", "end", "fail"}
       => ~frame_stream_active /\ Captured
  /\ rpc \in {"assign", "activate"} => frame_stream_session_active /\ Captured
  (* so is a loop that reads; it ends the session of a stopped stream only *)
  /\ stream \in {"lock", "read"} => Captured
  /\ stream \in {"end", "clear"} => ~frame_stream_active
  /\ stream # "defend"
  (* and nothing else is in a session *)
  /\ Captured => \/ rpc \in {"begin", "begun", "capture", "lock", "read", "end", "fail"}
                 \/ frame_stream_session_active /\ stream # "clear"

LEMMA CapturedFlips ==
  ASSUME TypeOK, OneDevice, NEW d \in Device
  PROVE  /\ EndSession(d) => ~Captured'
         /\ BeginAccepted(d) => Captured'
  BY DEF TypeOK, OneDevice, EndSession, BeginAccepted, Captured

LEMMA SessionStep ==
  ASSUME SplitPeripheral, OneDevice, TypeOK, Exclusive, SessionInv, [Next]_vars
  PROVE  SessionInv'
<1>1. CASE StreamStep
  <2>1. /\ rpc = "idle" /\ rpc' = "idle"
    BY <1>1 DEF StreamStep, StreamStart, StreamDefend, StreamRead, StreamReadChunk,
         StreamReadFail, StreamReadOk, StreamNotify, StreamNotifyFull, StreamNotifyError,
         StreamFinish, StreamEnd, StreamClear, request, Exclusive
  <2>2. CASE StreamStart
    BY <2>1, <2>2 DEF StreamStart, SessionInv, Captured, control, driver
  <2>3. CASE StreamEnd
    <3>1. CASE frame_stream_session_active
      <4>1. ~Captured' /\ stream' = "clear" /\ ~frame_stream_active'
        BY <2>3, <3>1, CapturedFlips DEF StreamEnd, SessionInv, TypeOK, control
      <4> QED BY <2>1, <4>1 DEF SessionInv
    <3>2. CASE ~frame_stream_session_active
      BY <2>1, <2>3, <3>2 DEF StreamEnd, SessionInv, Captured, control, driver
    <3> QED BY <3>1, <3>2
  <2>4. CASE StreamClear
    BY <2>1, <2>4 DEF StreamClear, SessionInv, Captured, driver
  <2>5. CASE StreamFinish
    BY <2>1, <2>5 DEF StreamFinish, SessionInv, Captured, control, driver
  <2>6. CASE StreamDefend
    BY <2>6 DEF StreamDefend, SessionInv
  <2>7. CASE \/ StreamRead \/ StreamReadChunk \/ StreamReadFail \/ StreamReadOk \/ StreamNotify
             \/ StreamNotifyFull \/ StreamNotifyError
    <3>1. /\ UNCHANGED <<control, driver>>
          /\ stream \in {"lock", "read", "notify"} /\ stream' \in {"read", "notify", "finish"}
          /\ stream' = "read" => stream \in {"lock", "read"}
      BY <2>7 DEF StreamRead, StreamReadChunk, StreamReadFail, StreamReadOk, StreamNotify,
                  StreamNotifyFull, StreamNotifyError
    <3> QED BY <2>1, <3>1 DEF SessionInv, Captured, control, driver
  <2> QED BY <1>1, <2>2, <2>3, <2>4, <2>5, <2>6, <2>7 DEF StreamStep
<1>2. CASE Request
  <2>1. /\ rpc = "idle" /\ stream = "idle" /\ stream' = "idle"
    BY <1>2 DEF Request, EnableStream, DisableStream, CaptureFrame, GetFrameChunk, Accept, handler
  <2>2. ASSUME NEW d \in Device, EnableStream(d)
        PROVE  SessionInv'
    <3>1. UNCHANGED control
      BY <2>2 DEF EnableStream
    <3>2. CASE BeginAccepted(d) /\ ~frame_stream_active /\ rpc' = "begin"
      BY <2>1, <3>1, <3>2, CapturedFlips DEF SessionInv, control
    <3>3. CASE UNCHANGED driver /\ (rpc' = "idle" \/ (frame_stream_active /\ rpc' = "assign"))
      BY <2>1, <3>1, <3>3 DEF SessionInv, Captured, control, driver
    <3> QED BY <2>2, <3>2, <3>3 DEF EnableStream, Answer
  <2>3. ASSUME NEW d \in Device, CaptureFrame(d)
        PROVE  SessionInv'
    <3>1. UNCHANGED control
      BY <2>3 DEF CaptureFrame
    <3>2. CASE BeginAccepted(d) /\ ~frame_stream_active /\ rpc' = "capture"
      BY <2>1, <3>1, <3>2, CapturedFlips DEF SessionInv, control
    <3>3. CASE UNCHANGED driver /\ rpc' = "idle"
      BY <2>1, <3>1, <3>3 DEF SessionInv, Captured, control, driver
    <3> QED BY <2>3, <3>2, <3>3 DEF CaptureFrame, Answer
  <2>4. CASE DisableStream \/ GetFrameChunk
    BY <2>1, <2>4 DEF DisableStream, GetFrameChunk, Answer, SessionInv, Captured, control, driver,
                      request
  <2> QED BY <1>2, <2>2, <2>3, <2>4 DEF Request
<1>3. CASE RequestStep
  <2>1. stream = "idle" /\ stream' = "idle"
    BY <1>3 DEF RequestStep, BeginOk, BeginFail, SessionBegun, StreamAssign, StreamActivate,
         CaptureBeginOk, CaptureBeginFail, CaptureRead, CaptureReadChunk, CaptureReadReturn,
         CaptureEnd, handler, Exclusive
  <2>2. CASE BeginFail \/ CaptureBeginFail \/ CaptureEnd
    <3>1. /\ ~Captured' /\ rpc' = "idle" /\ UNCHANGED control
          /\ rpc \in {"begin", "capture", "end", "fail"}
      BY <2>2, CapturedFlips DEF BeginFail, CaptureBeginFail, CaptureEnd, Answer, TypeOK
    <3> QED BY <2>1, <3>1 DEF SessionInv, control
  <2>3. CASE BeginOk \/ CaptureBeginOk \/ CaptureRead \/ CaptureReadChunk \/ CaptureReadReturn
    BY <2>1, <2>3 DEF BeginOk, CaptureBeginOk, CaptureRead, CaptureReadChunk, CaptureReadReturn,
                      SessionInv, Captured, control, driver
  <2>4. CASE SessionBegun \/ StreamAssign \/ StreamActivate
    BY <2>1, <2>4 DEF SessionBegun, StreamAssign, StreamActivate, Answer, SessionInv, Captured,
                      driver
  <2> QED BY <1>3, <2>2, <2>3, <2>4 DEF RequestStep
<1>4. CASE RelayRequest \/ (\E d \in Device : InitDone(d)) \/ Close \/ Reopen \/ UNCHANGED vars
  <2>1. /\ UNCHANGED <<stream, rpc, frame_stream_session_active, capture_active>>
        /\ frame_stream_active' => frame_stream_active
    BY <1>4 DEF RelayRequest, InitDone, Close, Reopen, vars, control, handler, request, driver
  <2> QED BY <2>1 DEF SessionInv, Captured
<1> QED BY <1>1, <1>2, <1>3, <1>4 DEF Next

LEMMA StreamSessionInv ==
  ASSUME SplitPeripheral, OneDevice
  PROVE  Spec => []SessionInv
<1>1. Init => SessionInv
  BY DEF Init, SessionInv, Captured
<1>2. TypeInv /\ ScheduleInv /\ SessionInv /\ [Next]_vars => SessionInv'
  BY SessionStep DEF TypeInv, ScheduleInv
<1> QED BY <1>1, <1>2, StreamTypeInv, StreamScheduleInv, PTL DEF Spec

-----------------------------------------------------------------------------
(* A host that lets a capture drain before it asks for another, on either  *)
(* half and for any number of sensors.                                     *)

(* The loop neither runs nor is about to, and nothing tells it to go on.   *)
Quiet == stream = "idle" /\ ~Pending("stream") /\ ~frame_stream_active

HostInv ==
  (* a request that takes a sensor has the loop out of its way *)
  /\ rpc \notin {"idle", "assign", "activate"} => Quiet /\ ~frame_stream_session_active
  (* a running stream is only given parameters for the sensor it has *)
  /\ rpc = "assign" => \/ rpc_dev = frame_stream_device_index
                       \/ Quiet /\ frame_stream_session_active

(* Exactly the devices that somebody holds are captured.                   *)
HeldInv == \A d \in Device : capture_active[d] <=> StreamHolds(d) \/ RpcHolds(d)

PatientInv == HostInv /\ HeldInv

(* The steps of CaptureSession, as seen from one device.                   *)

LEMMA SessionStutters ==
  ASSUME NEW d \in Device, capture_active'[d] = capture_active[d], ready'[d] = ready[d],
         StreamHolds(d)' <=> StreamHolds(d), RpcHolds(d)' <=> RpcHolds(d)
  PROVE  UNCHANGED Session(d)!vars
  BY DEF Session!vars

LEMMA SessionOpens ==
  ASSUME NEW d \in Device, NEW c \in {"stream", "rpc"},
         ready[d], ~capture_active[d], ~StreamHolds(d), ~RpcHolds(d),
         capture_active'[d], StreamHolds(d)' <=> c = "stream", RpcHolds(d)' <=> c = "rpc"
  PROVE  Session(d)!Next
<1>1. Session(d)!Open(c)
  BY DEF Session!Open
<1> QED BY <1>1 DEF Session!Next

LEMMA SessionCloses ==
  ASSUME NEW d \in Device, NEW c \in {"stream", "rpc"},
         capture_active[d], StreamHolds(d) <=> c = "stream", RpcHolds(d) <=> c = "rpc",
         ~ready'[d], ~capture_active'[d], ~StreamHolds(d)', ~RpcHolds(d)'
  PROVE  Session(d)!Next
<1>1. Session(d)!Close(c)
  BY DEF Session!Close
<1> QED BY <1>1 DEF Session!Next

LEMMA SessionComesUp ==
  ASSUME NEW d \in Device, ~ready[d], ready'[d], ~capture_active[d], ~capture_active'[d],
         StreamHolds(d)' <=> StreamHolds(d), RpcHolds(d)' <=> RpcHolds(d)
  PROVE  Session(d)!Next
<1>1. Session(d)!Up
  BY DEF Session!Up
<1> QED BY <1>1 DEF Session!Next

HeldAt(d) == capture_active[d] <=> StreamHolds(d) \/ RpcHolds(d)

(* What a step does to one device. *)
UseOf(d) == [Session(d)!Next]_(Session(d)!vars)

LEMMA PatientStream ==
  ASSUME TypeInv, PatientInv, StreamStep
  PROVE  HostInv' /\ \A d \in Device : HeldAt(d)' /\ UseOf(d)
<1> USE DEF TypeInv, Work
<1>1. /\ rpc \in {"idle", "assign", "activate"}
      /\ rpc = "assign" => rpc_dev = frame_stream_device_index
      /\ UNCHANGED <<rpc, rpc_dev, frame_stream_device_index>>
  <2>1. stream # "idle" \/ Pending("stream")
    <3>1. ASSUME StreamStart
          PROVE  Pending("stream")
      <4>1. 1 \in 1..Len(queue) /\ queue[1] = "stream"
        BY <3>1, EmptySeq DEF StreamStart, QueuedOnce
      <4> QED BY <4>1 DEF Pending
    <3> QED BY <3>1 DEF StreamStep, StreamDefend, StreamRead, StreamReadChunk, StreamReadFail,
         StreamReadOk, StreamNotify, StreamNotifyFull, StreamNotifyError, StreamFinish, StreamEnd,
         StreamClear
  <2>2. UNCHANGED <<request, frame_stream_device_index>>
    BY DEF StreamStep, StreamStart, StreamDefend, StreamRead, StreamReadChunk, StreamReadFail,
         StreamReadOk, StreamNotify, StreamNotifyFull, StreamNotifyError, StreamFinish, StreamEnd,
         StreamClear, control
  <2>3. rpc \in RpcState
    BY DEF TypeOK
  <2> QED BY <2>1, <2>2, <2>3 DEF PatientInv, HostInv, Quiet, RpcState, request
<1>2. HostInv'
  BY <1>1 DEF HostInv
<1>3. CASE StreamEnd /\ frame_stream_session_active
  <2>1. /\ EndSession(frame_stream_device_index) /\ stream = "end" /\ stream' = "clear"
        /\ UNCHANGED control
    BY <1>3 DEF StreamEnd
  <2> SUFFICES ASSUME NEW d \in Device
               PROVE  HeldAt(d)' /\ UseOf(d)
    BY <1>2
  <2>2. /\ ~StreamHolds(d)' /\ ~RpcHolds(d)' /\ ~RpcHolds(d)
        /\ StreamHolds(d) <=> d = frame_stream_device_index
    BY <1>1, <1>3, <2>1 DEF StreamHolds, RpcHolds
  <2>3. CASE d = frame_stream_device_index
    <3>1. StreamHolds(d) /\ capture_active[d] /\ ~capture_active'[d] /\ ~ready'[d]
      BY <2>1, <2>2, <2>3 DEF PatientInv, HeldInv, EndSession, TypeOK
    <3>2. (StreamHolds(d) <=> "stream" = "stream") /\ (RpcHolds(d) <=> "stream" = "rpc")
      BY <2>2, <3>1
    <3> QED BY <2>2, <3>1, <3>2, SessionCloses DEF HeldAt, UseOf
  <2>4. CASE d # frame_stream_device_index
    <3>1. ~StreamHolds(d) /\ ~capture_active[d] /\ capture_active'[d] = capture_active[d]
          /\ ready'[d] = ready[d]
      BY <2>1, <2>2, <2>4 DEF PatientInv, HeldInv, EndSession, TypeOK
    <3> QED BY <2>2, <3>1, SessionStutters DEF HeldAt, UseOf
  <2> QED BY <2>3, <2>4
<1>4. CASE StreamClear
  <2>1. stream = "clear" /\ ~frame_stream_session_active' /\ UNCHANGED driver
    BY <1>4 DEF StreamClear
  <2> SUFFICES ASSUME NEW d \in Device
               PROVE  HeldAt(d)' /\ UseOf(d)
    BY <1>2
  <2>2. ~StreamHolds(d)' /\ ~RpcHolds(d)' /\ ~RpcHolds(d) /\ ~StreamHolds(d)
    BY <1>1, <2>1 DEF StreamHolds, RpcHolds
  <2>3. ~capture_active[d] /\ capture_active'[d] = capture_active[d] /\ ready'[d] = ready[d]
    BY <2>1, <2>2 DEF PatientInv, HeldInv, driver
  <2> QED BY <2>2, <2>3, SessionStutters DEF HeldAt, UseOf
<1>5. CASE ~StreamClear /\ ~(StreamEnd /\ frame_stream_session_active)
  <2>1. /\ UNCHANGED <<driver, frame_stream_session_active>>
        /\ frame_stream_session_active => stream # "clear" /\ stream' # "clear"
    BY <1>5 DEF StreamStep, StreamStart, StreamDefend, StreamRead, StreamReadChunk,
         StreamReadFail, StreamReadOk, StreamNotify, StreamNotifyFull, StreamNotifyError,
         StreamFinish, StreamEnd, control
  <2> SUFFICES ASSUME NEW d \in Device
               PROVE  HeldAt(d)' /\ UseOf(d)
    BY <1>2
  <2>2. (StreamHolds(d)' <=> StreamHolds(d)) /\ (RpcHolds(d)' <=> RpcHolds(d))
    BY <1>1, <2>1 DEF StreamHolds, RpcHolds
  <2>3. capture_active'[d] = capture_active[d] /\ ready'[d] = ready[d]
    BY <2>1 DEF driver
  <2> QED BY <2>2, <2>3, SessionStutters DEF PatientInv, HeldInv, HeldAt, UseOf
<1> QED BY <1>3, <1>4, <1>5

LEMMA PatientRequest ==
  ASSUME PatientHost, TypeInv, PatientInv, Request
  PROVE  HostInv' /\ \A d \in Device : HeldAt(d)' /\ UseOf(d)
<1> USE DEF TypeInv, Work
<1>0. Accept /\ UNCHANGED <<handler, frame_stream_session_active, frame_stream_device_index>>
  BY DEF Request, EnableStream, DisableStream, CaptureFrame, GetFrameChunk, control
<1>1. /\ rpc = "idle" /\ UNCHANGED <<handler, frame_stream_session_active,
                                     frame_stream_device_index>>
      /\ Pending("stream")' <=> Pending("stream")
  <2>1. Head(queue) # "stream" \/ UNCHANGED queue
    BY <1>0 DEF Accept
  <2> QED BY <1>0, <2>1, QueueTaken DEF Accept, Pending
<1>2. ASSUME UNCHANGED driver,
             \/ rpc' = "idle"
             \/ rpc' = "assign" /\ rpc_dev' = frame_stream_device_index
      PROVE  HostInv' /\ \A d \in Device : HeldAt(d)' /\ UseOf(d)
  <2>1. HostInv'
    BY <1>1, <1>2 DEF HostInv
  <2>2. ASSUME NEW d \in Device
        PROVE  HeldAt(d)' /\ UseOf(d)
    <3>1. (StreamHolds(d)' <=> StreamHolds(d)) /\ (RpcHolds(d)' <=> RpcHolds(d))
      BY <1>1, <1>2 DEF StreamHolds, RpcHolds, handler
    <3>2. capture_active'[d] = capture_active[d] /\ ready'[d] = ready[d]
      BY <1>2 DEF driver
    <3> QED BY <3>1, <3>2, SessionStutters DEF PatientInv, HeldInv, HeldAt, UseOf
  <2> QED BY <2>1, <2>2
<1>3. ASSUME NEW e \in Device, BeginAccepted(e), UNCHANGED <<ready, frame_stream_active>>, Drained,
             rpc' \in {"begin", "capture"}, rpc_dev' = e
      PROVE  HostInv' /\ \A d \in Device : HeldAt(d)' /\ UseOf(d)
  <2>1. HostInv'
    BY <1>1, <1>3 DEF HostInv, Quiet, Drained, handler
  <2>2. ASSUME NEW d \in Device
        PROVE  HeldAt(d)' /\ UseOf(d)
    <3>1. /\ ~StreamHolds(d) /\ ~RpcHolds(d) /\ ~capture_active[d]
          /\ StreamHolds(d)' <=> rpc' = "begin" /\ d = e
          /\ RpcHolds(d)' <=> rpc' = "capture" /\ d = e
      BY <1>1, <1>3 DEF Drained, StreamHolds, RpcHolds, PatientInv, HeldInv
    <3>2. CASE d = e
      <4>1. ready[d] /\ capture_active'[d]
        BY <1>3, <3>2 DEF BeginAccepted, TypeOK
      <4>2. PICK c \in {"stream", "rpc"} : c = IF rpc' = "begin" THEN "stream" ELSE "rpc"
        OBVIOUS
      <4>3. (StreamHolds(d)' <=> c = "stream") /\ (RpcHolds(d)' <=> c = "rpc")
        BY <1>3, <3>1, <3>2, <4>2
      <4> QED BY <3>1, <4>1, <4>2, <4>3, SessionOpens DEF HeldAt, UseOf
    <3>3. CASE d # e
      <4>1. capture_active'[d] = capture_active[d] /\ ready'[d] = ready[d]
        BY <1>3, <3>3 DEF BeginAccepted, TypeOK
      <4> QED BY <3>1, <3>3, <4>1, SessionStutters DEF HeldAt, UseOf
    <3> QED BY <3>2, <3>3
  <2> QED BY <2>1, <2>2
<1>4. ASSUME NEW e \in Device, EnableStream(e) \/ CaptureFrame(e)
      PROVE  HostInv' /\ \A d \in Device : HeldAt(d)' /\ UseOf(d)
  <2>1. UNCHANGED frame_stream_active /\ rpc_dev' = e /\ (Drained \/ Retunes(e))
    BY <1>4 DEF EnableStream, CaptureFrame, control
  <2>2. \/ UNCHANGED driver /\ rpc' = "idle"
        \/ UNCHANGED driver /\ rpc' = "assign" /\ e = frame_stream_device_index
        \/ Drained /\ BeginAccepted(e) /\ UNCHANGED ready /\ rpc' \in {"begin", "capture"}
    BY <1>4, <2>1 DEF EnableStream, CaptureFrame, Answer, Drained, Retunes
  <2> QED BY <1>2, <1>3, <2>1, <2>2
<1>5. CASE DisableStream
  BY <1>2, <1>5 DEF DisableStream, Answer
<1>6. CASE GetFrameChunk
  BY <1>1, <1>2, <1>6 DEF GetFrameChunk, request
<1> QED BY <1>4, <1>5, <1>6 DEF Request

LEMMA PatientRequestStep ==
  ASSUME TypeInv, PatientInv, RequestStep
  PROVE  HostInv' /\ \A d \in Device : HeldAt(d)' /\ UseOf(d)
<1> USE DEF TypeInv, Work
<1>1. /\ rpc \in RpcState /\ rpc # "idle" /\ rpc_dev \in Device
      /\ UNCHANGED <<handler, rpc_dev>>
  BY DEF RequestStep, BeginOk, BeginFail, SessionBegun, StreamAssign, StreamActivate,
         CaptureBeginOk, CaptureBeginFail, CaptureRead, CaptureReadChunk, CaptureReadReturn,
         CaptureEnd, TypeOK
<1>2. CASE BeginFail \/ CaptureBeginFail \/ CaptureEnd
  <2>1. /\ EndSession(rpc_dev) /\ rpc' = "idle" /\ UNCHANGED control
        /\ rpc \in {"begin", "capture", "end", "fail"}
    BY <1>2 DEF BeginFail, CaptureBeginFail, CaptureEnd, Answer
  <2>2. HostInv' /\ ~frame_stream_session_active
    BY <2>1 DEF PatientInv, HostInv
  <2>3. ASSUME NEW d \in Device
        PROVE  HeldAt(d)' /\ UseOf(d)
    <3>1. /\ ~StreamHolds(d)' /\ ~RpcHolds(d)'
          /\ StreamHolds(d) <=> rpc = "begin" /\ d = rpc_dev
          /\ RpcHolds(d) <=> rpc # "begin" /\ d = rpc_dev
      BY <1>1, <2>1, <2>2 DEF StreamHolds, RpcHolds, control
    <3>2. CASE d = rpc_dev
      <4>1. capture_active[d] /\ ~capture_active'[d] /\ ~ready'[d]
        BY <2>1, <3>1, <3>2 DEF PatientInv, HeldInv, EndSession, TypeOK
      <4>2. PICK c \in {"stream", "rpc"} : c = IF rpc = "begin" THEN "stream" ELSE "rpc"
        OBVIOUS
      <4>3. (StreamHolds(d) <=> c = "stream") /\ (RpcHolds(d) <=> c = "rpc")
        BY <3>1, <3>2, <4>2
      <4> QED BY <3>1, <4>1, <4>2, <4>3, SessionCloses DEF HeldAt, UseOf
    <3>3. CASE d # rpc_dev
      <4>1. ~capture_active[d] /\ capture_active'[d] = capture_active[d] /\ ready'[d] = ready[d]
        BY <2>1, <3>1, <3>3 DEF PatientInv, HeldInv, EndSession, TypeOK
      <4> QED BY <3>1, <3>3, <4>1, SessionStutters DEF HeldAt, UseOf
    <3> QED BY <3>2, <3>3
  <2> QED BY <2>2, <2>3
<1>3. CASE ~BeginFail /\ ~CaptureBeginFail /\ ~CaptureEnd
  <2>1. UNCHANGED driver
    BY <1>3 DEF RequestStep, BeginOk, SessionBegun, StreamAssign, StreamActivate,
         CaptureBeginOk, CaptureRead, CaptureReadChunk, CaptureReadReturn
  <2>2. HostInv'
    <3>1. CASE SessionBegun
      BY <1>1, <3>1 DEF SessionBegun, PatientInv, HostInv, Quiet, Pending, handler
    <3>2. CASE StreamAssign \/ StreamActivate
      BY <3>2 DEF StreamAssign, StreamActivate, Answer, HostInv
    <3>3. CASE ~SessionBegun /\ ~StreamAssign /\ ~StreamActivate
      <4>1. /\ UNCHANGED <<control, queue>>
            /\ rpc \notin {"idle", "assign", "activate"} /\ rpc' # "assign"
        BY <1>3, <3>3 DEF RequestStep, BeginOk, CaptureBeginOk, CaptureRead, CaptureReadChunk,
             CaptureReadReturn
      <4> QED BY <1>1, <4>1 DEF PatientInv, HostInv, Quiet, Pending, handler, control
    <3> QED BY <3>1, <3>2, <3>3
  <2>3. ASSUME NEW d \in Device
        PROVE  HeldAt(d)' /\ UseOf(d)
    <3>1. (StreamHolds(d)' <=> StreamHolds(d)) /\ (RpcHolds(d)' <=> RpcHolds(d))
      <4>1. CASE SessionBegun
        BY <1>1, <4>1 DEF SessionBegun, StreamHolds, RpcHolds, PatientInv, HostInv, Quiet, handler
      <4>2. CASE StreamAssign \/ StreamActivate
        BY <1>1, <4>2 DEF StreamAssign, StreamActivate, Answer, StreamHolds, RpcHolds, handler
      <4>3. CASE ~SessionBegun /\ ~StreamAssign /\ ~StreamActivate
        BY <1>1, <1>3, <4>3 DEF RequestStep, BeginOk, CaptureBeginOk, CaptureRead,
           CaptureReadChunk, CaptureReadReturn, StreamHolds, RpcHolds, control, handler
      <4> QED BY <4>1, <4>2, <4>3
    <3>2. capture_active'[d] = capture_active[d] /\ ready'[d] = ready[d]
      BY <2>1 DEF driver
    <3> QED BY <3>1, <3>2, SessionStutters DEF PatientInv, HeldInv, HeldAt, UseOf
  <2> QED BY <2>2, <2>3
<1> QED BY <1>2, <1>3

LEMMA PatientOther ==
  ASSUME TypeInv, PatientInv,
         RelayRequest \/ (\E d \in Device : InitDone(d)) \/ Close \/ Reopen \/ UNCHANGED vars
  PROVE  HostInv' /\ \A d \in Device : HeldAt(d)' /\ UseOf(d)
<1> USE DEF TypeInv
<1>0. /\ UNCHANGED <<handler, request, frame_stream_session_active, frame_stream_device_index,
                     capture_active>>
      /\ frame_stream_active' => frame_stream_active
  BY DEF RelayRequest, InitDone, Close, Reopen, vars, control, driver
<1>1. /\ UNCHANGED <<handler, request, frame_stream_session_active, frame_stream_device_index,
                     capture_active>>
      /\ frame_stream_active' => frame_stream_active
      /\ Pending("stream")' <=> Pending("stream")
  <2>1. CASE RelayRequest
    BY <1>0, <2>1, QueueSubmitted DEF RelayRequest, Work
  <2>2. CASE UNCHANGED queue
    BY <1>0, <2>2 DEF Pending
  <2> QED BY <2>1, <2>2 DEF InitDone, Close, Reopen, vars
<1>2. HostInv'
  BY <1>1 DEF PatientInv, HostInv, Quiet, handler, request
<1>3. ASSUME NEW d \in Device
      PROVE  HeldAt(d)' /\ UseOf(d)
  <2>1. (StreamHolds(d)' <=> StreamHolds(d)) /\ (RpcHolds(d)' <=> RpcHolds(d))
    BY <1>1 DEF StreamHolds, RpcHolds, handler, request
  <2>2. HeldAt(d)'
    BY <1>1, <2>1 DEF PatientInv, HeldInv, HeldAt
  <2>3. \/ ready'[d] = ready[d]
        \/ ~ready[d] /\ ready'[d]
    BY DEF RelayRequest, InitDone, Close, Reopen, vars, driver, TypeOK
  <2>4. CASE ready'[d] = ready[d]
    BY <1>1, <2>1, <2>2, <2>4, SessionStutters DEF UseOf
  <2>5. CASE ~ready[d] /\ ready'[d] /\ ~capture_active[d]
    BY <1>1, <2>1, <2>2, <2>5, SessionComesUp DEF UseOf
  <2>6. CASE capture_active[d]
    <3>1. UNCHANGED Session(d)!vars
      BY <1>1, <2>1, <2>6 DEF Session!vars
    <3> QED BY <2>2, <3>1 DEF UseOf
  <2> QED BY <2>3, <2>4, <2>5, <2>6
<1> QED BY <1>2, <1>3

LEMMA PatientStep ==
  ASSUME PatientHost, TypeInv, PatientInv, [Next]_vars
  PROVE  PatientInv' /\ \A d \in Device : UseOf(d)
<1>1. HostInv' /\ \A d \in Device : HeldAt(d)' /\ UseOf(d)
  BY PatientStream, PatientRequest, PatientRequestStep, PatientOther DEF Next
<1> QED BY <1>1 DEF PatientInv, HeldInv, HeldAt

LEMMA PatientSessions ==
  ASSUME PatientHost
  PROVE  Spec => []PatientInv
<1>1. Init => PatientInv
  <2> SUFFICES ASSUME Init PROVE PatientInv
    OBVIOUS
  <2>1. HostInv
    BY DEF Init, HostInv
  <2>2. \A d \in Device : ~StreamHolds(d) /\ ~RpcHolds(d) /\ ~capture_active[d]
    BY DEF Init, StreamHolds, RpcHolds
  <2> QED BY <2>1, <2>2 DEF PatientInv, HeldInv
<1>2. TypeInv /\ PatientInv /\ [Next]_vars => PatientInv'
  BY PatientStep
<1> QED BY <1>1, <1>2, StreamTypeInv, PTL DEF Spec

(* What a host has to do for the stream and CaptureFrame to use every      *)
(* sensor the way CaptureSession asks for, one session at a time and each  *)
(* ended by who began it (pmw3610_request_exec.c): it is enough to wait    *)
(* for the drain.  The code has nothing that makes it wait.                *)
PROPOSITION StreamRefinesSession ==
  ASSUME PatientHost
  PROVE  Spec => ImplementsCaptureSession
<1>1. Init => \A d \in Device : Session(d)!Init
  <2> SUFFICES ASSUME Init, NEW d \in Device
               PROVE  Session(d)!Init
    OBVIOUS
  <2>1. ~StreamHolds(d) /\ ~RpcHolds(d) /\ ~capture_active[d] /\ ~ready[d]
    BY DEF Init, StreamHolds, RpcHolds
  <2> QED BY <2>1 DEF Session!Init
<1>2. (\A d \in Device : UseOf(d)) => \A d \in Device : [Session(d)!Next]_(Session(d)!vars)
  BY DEF UseOf
<1>3. TypeInv /\ PatientInv /\ [Next]_vars
        => [\A d \in Device : [Session(d)!Next]_(Session(d)!vars)]_vars
  BY <1>2, PatientStep
<1>4. Spec => \A d \in Device : Session(d)!Init
  BY <1>1 DEF Spec
<1>5. Spec => [][\A d \in Device : [Session(d)!Next]_(Session(d)!vars)]_vars
  BY <1>3, PatientSessions, StreamTypeInv, PTL DEF Spec
<1> QED BY <1>4, <1>5 DEF ImplementsCaptureSession

(* A loop that is at a frame is in the session of the stream's sensor.     *)
LoopInv ==
  stream \in {"lock", "read", "notify", "finish"} =>
    frame_stream_session_active /\ stream_dev = frame_stream_device_index

LEMMA LoopStep ==
  ASSUME TypeInv, PatientInv, LoopInv, [Next]_vars
  PROVE  LoopInv'
<1>1. CASE StreamStep
  BY <1>1 DEF LoopInv, StreamStep, StreamStart, StreamDefend, StreamRead, StreamReadChunk,
     StreamReadFail, StreamReadOk, StreamNotify, StreamNotifyFull, StreamNotifyError,
     StreamFinish, StreamEnd, StreamClear, control
<1>2. CASE SessionBegun
  BY <1>2 DEF SessionBegun, LoopInv, handler
<1>3. CASE StreamAssign
  <2>1. rpc_dev = frame_stream_device_index \/ stream = "idle"
    BY <1>3 DEF StreamAssign, PatientInv, HostInv, Quiet
  <2> QED BY <1>3, <2>1 DEF StreamAssign, LoopInv, handler
<1>4. CASE Request \/ (RequestStep /\ ~SessionBegun /\ ~StreamAssign)
  <2>1. UNCHANGED <<handler, frame_stream_session_active, frame_stream_device_index>>
    BY <1>4 DEF Request, EnableStream, DisableStream, CaptureFrame, GetFrameChunk, RequestStep,
       BeginOk, BeginFail, StreamActivate, CaptureBeginOk, CaptureBeginFail, CaptureRead,
       CaptureReadChunk, CaptureReadReturn, CaptureEnd, control
  <2> QED BY <2>1 DEF LoopInv, handler
<1>5. CASE RelayRequest \/ (\E d \in Device : InitDone(d)) \/ Close \/ Reopen \/ UNCHANGED vars
  BY <1>5 DEF LoopInv, RelayRequest, InitDone, Close, Reopen, vars, control, handler
<1> QED BY <1>1, <1>2, <1>3, <1>4, <1>5 DEF Next

LEMMA LoopIsInSession ==
  ASSUME PatientHost
  PROVE  Spec => []LoopInv
<1>1. Init => LoopInv
  BY DEF Init, LoopInv
<1>2. TypeInv /\ PatientInv /\ LoopInv /\ [Next]_vars => LoopInv'
  BY LoopStep
<1> QED BY <1>1, <1>2, PatientSessions, StreamTypeInv, PTL DEF Spec

-----------------------------------------------------------------------------
(* What holds for either reason: the one queue of a peripheral, or a host  *)
(* that waits for a capture to drain.                                      *)

(* Every chunk that is streamed belongs to the capture it is sent under,   *)
(* also when the read stopped early, requests are waiting and the stream   *)
(* is stopped in the middle (pmw3610_request_exec.c).                      *)
THEOREM StreamedFramesAreWhole ==
  ASSUME SplitPeripheral \/ PatientHost
  PROVE  Spec => []StreamedFrameIsWhole
<1>1. Spec => []BufferIsFree
  <2>1. CASE SplitPeripheral
    <3>1. ScheduleInv => BufferIsFree
      BY DEF ScheduleInv, Exclusive, BufferIsFree
    <3> QED BY <2>1, <3>1, StreamScheduleInv, PTL
  <2>2. CASE PatientHost
    <3>1. PatientInv => BufferIsFree
      BY DEF PatientInv, HostInv, Quiet, BufferIsFree
    <3> QED BY <2>2, <3>1, PatientSessions, PTL
  <2> QED BY <2>1, <2>2
<1>2. Init => FrameInv
  BY DEF Init, FrameInv, ReadSoFar, FrameSoFar
<1>3. TypeInv /\ BufferIsFree /\ FrameInv /\ [Next]_vars => FrameInv'
  BY FrameStep
<1>4. TypeInv /\ FrameInv => StreamedFrameIsWhole
  BY ChunksAssumption
  DEF TypeInv, TypeOK, FrameInv, FrameSoFar, StreamedFrameIsWhole, NotifyInFrame, ChunkIndex
<1> QED BY <1>1, <1>2, <1>3, <1>4, StreamTypeInv, PTL DEF Spec

(* frame_capture_read is only called inside a session, whatever requests   *)
(* come and whenever Studio is locked or the link drops (pmw3610_api.h).   *)
THEOREM ReadsAreInSession ==
  ASSUME (SplitPeripheral /\ OneDevice) \/ PatientHost
  PROVE  Spec => []ReadsInSession
<1>1. CASE SplitPeripheral /\ OneDevice
  <2>1. TypeInv /\ SessionInv => ReadsInSession
    BY DEF TypeInv, TypeOK, SessionInv, Captured, ReadsInSession
  <2> QED BY <1>1, <2>1, StreamTypeInv, StreamSessionInv, PTL
<1>2. CASE PatientHost
  <2>1. TypeInv /\ PatientInv /\ LoopInv => ReadsInSession
    <3> SUFFICES ASSUME TypeInv, PatientInv, LoopInv
                 PROVE  ReadsInSession
      OBVIOUS
    <3>1. stream_dev \in Device /\ rpc_dev \in Device
      BY DEF TypeInv, TypeOK
    <3>2. rpc \in {"lock", "read"} => capture_active[rpc_dev]
      BY <3>1 DEF PatientInv, HeldInv, RpcHolds
    <3>3. ASSUME stream \in {"lock", "read"}
          PROVE  capture_active[stream_dev]
      <4>1. frame_stream_session_active /\ stream_dev = frame_stream_device_index
        BY <3>3 DEF LoopInv
      <4>2. rpc = "assign" => rpc_dev = frame_stream_device_index
        BY <3>3 DEF PatientInv, HostInv, Quiet
      <4>3. StreamHolds(stream_dev)
        BY <3>3, <4>1, <4>2 DEF StreamHolds
      <4> QED BY <3>1, <4>3 DEF PatientInv, HeldInv
    <3> QED BY <3>2, <3>3 DEF ReadsInSession
  <2> QED BY <1>2, <2>1, StreamTypeInv, PatientSessions, LoopIsInSession, PTL
<1> QED BY <1>1, <1>2

(* No session is begun and then forgotten: a device that is capturing      *)
(* belongs to the stream or to a CaptureFrame that is going to end it      *)
(* (pmw3610_request_exec.c).                                               *)
THEOREM NoSessionIsForgotten ==
  ASSUME (SplitPeripheral /\ OneDevice) \/ PatientHost
  PROVE  Spec => []SessionsAreEnded
<1>1. CASE SplitPeripheral /\ OneDevice
  <2>1. TypeInv /\ SessionInv => SessionsAreEnded
    <3> SUFFICES ASSUME TypeInv, SessionInv, NEW d \in Device, capture_active[d]
                 PROVE  StreamHolds(d) \/ RpcHolds(d)
      BY DEF SessionsAreEnded
    <3>1. /\ Captured
          /\ d = rpc_dev /\ d = frame_stream_device_index
      BY <1>1 DEF OneDevice, Captured, TypeInv, TypeOK
    <3> QED BY <3>1 DEF SessionInv, StreamHolds, RpcHolds
  <2> QED BY <1>1, <2>1, StreamTypeInv, StreamSessionInv, PTL
<1>2. CASE PatientHost
  <2>1. PatientInv => SessionsAreEnded
    BY DEF PatientInv, HeldInv, SessionsAreEnded
  <2> QED BY <1>2, <2>1, PatientSessions, PTL
<1> QED BY <1>1, <1>2
=============================================================================
