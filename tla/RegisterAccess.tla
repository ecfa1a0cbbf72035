---------------------------- MODULE RegisterAccess ----------------------------
(***************************************************************************)
(* The transfers of one sensor on the SPI bus.  Three threads make them:   *)
(* the system workqueue reads motion, follows the activity state and       *)
(* initialises the sensor after a capture; the thread of the Studio RPC    *)
(* runs setters and begins captures; the low priority queue reads frames   *)
(* of a stream.  data->lock is held for a setter and for the read of a     *)
(* frame, not for motion, activity or the run mode of a capture.  The      *)
(* resolution and the pixel grabber are reached on a register page of      *)
(* their own.                                                              *)
(*                                                                         *)
(* A step is one transfer: the bus is shared fairly at that grain and no   *)
(* coarser.  Transfers succeed; initialisation is whole or starts over     *)
(* (Pmw3610Driver has what else can happen to it); there is no power       *)
(* management.  Of the registers there is what a sequence asks back:       *)
(* whether PERFORMANCE forces the run mode.  pmw3610_read_register takes   *)
(* no lock, changes nothing and is left out.                               *)
(***************************************************************************)
EXTENDS Naturals, Sequences

CONSTANTS DisableBurstRead   \* config->disable_burst_read: motion is read by the register

VARIABLES
  page, clock, performance,             \* the sensor
  page_by,                              \* history: what wrote the page select last
  ready, capture_active,                \* data
  force_awake, smart_algorithm,         \* data->runtime
  sw_smart_flag, active,                \* data, zmk_activity_get_state()
  frame_stream_session_active,          \* the low priority queue has a session to end
  lock,                                 \* the thread that holds data->lock
  op, todo                              \* each thread: what it runs, the transfers it has yet to do

sensor  == <<page, clock, performance, page_by>>
session == <<ready, capture_active, frame_stream_session_active>>
runtime == <<force_awake, smart_algorithm>>
threads == <<lock, op, todo>>
vars    == <<sensor, session, runtime, sw_smart_flag, active, threads>>

Thread == {"workqueue", "rpc", "lowprio"}

-----------------------------------------------------------------------------
ClockOn     == [reg |-> "SPI_CLK_ON_REQ", value |-> "enable"]
ClockOff    == [reg |-> "SPI_CLK_ON_REQ", value |-> "disable"]
SelectPage1 == [reg |-> "SPI_PAGE0", value |-> "0xFF"]
SelectPage0 == [reg |-> "SPI_PAGE0", value |-> "0x00"]
Reset       == [reg |-> "POWER_UP_RESET", value |-> "reset"]

Read(r)     == [reg |-> r, value |-> "read"]
Write(r, v) == [reg |-> r, value |-> v]

(* pmw3610_write *)
Around(w)     == <<ClockOn, w, ClockOff>>
Wrapped(r, v) == Around(Write(r, v))

(* pmw3610_set_cpi_locked *)
WriteResStep == Write("RES_STEP", "cpi")
SetCpiLocked == <<ClockOn, SelectPage1, WriteResStep, SelectPage0, ClockOff>>

(* The steps of initialisation after the reset, and the motion registers   *)
(* that CONFIGURE clears by reading them: two for the four.                *)
SelfTest ==
  <<ClockOn, Write("OBSERVATION", "0x00"), ClockOff, Read("OBSERVATION"), Read("PRODUCT_ID"),
    Read("MOTION"), Read("DELTA_XY_H")>>

(* pmw3610_read_diagnostics *)
Diagnostics ==
  <<Read("SQUAL"), Read("SHUTTER_HIGHER"), Read("SHUTTER_LOWER"),
    Read("PIX_MAX"), Read("PIX_AVG"), Read("PIX_MIN")>>

(* The burst, or register by register: two of them for the seven. *)
MotionRead == IF DisableBurstRead THEN <<Read("MOTION"), Read("DELTA_XY_H")>>
                                  ELSE <<Read("MOTION_BURST")>>

(* pmw3610_frame_capture_force_run_mode *)
ForceRunMode ==
  <<Read("PERFORMANCE"), ClockOn, Write("PERFORMANCE", "forced"), ClockOff,
    Write("OBSERVATION", "0x00"), Read("OBSERVATION")>>

(* How a frame is armed and got: arm_seq of the three-wire sensor, then    *)
(* pixel by pixel; or in one burst.  One read stands for a wait.           *)
WriteMagic == Write("PIXEL_GRAB_MAGIC", "0xD7")
FrameArm ==
  IF DisableBurstRead
    THEN <<ClockOn, SelectPage1, WriteMagic, SelectPage0, ClockOff,
           Write("0x32", "0x90"), Write("PIXEL_GRAB", "arm"), Read("PRBS_TEST_CTL")>>
    ELSE <<Write("PERFORMANCE", "forced"), ClockOn, Write("0x32", "burst"),
           Write("FRAME_GRAB", "enable"), Read("MOTION_BURST")>>
Pixel == <<Read("OBSERVATION"), Read("PIXEL_GRAB"), Write("OBSERVATION", "arm")>>

(* What a client may write with pmw3610_write_register, which takes any    *)
(* address: the registers that mean something here, and one for the rest.  *)
HostWrite == {SelectPage1, SelectPage0, ClockOff, Reset, Write("PERFORMANCE", "normal"),
              Write("register", "value")}

Init ==
  /\ page = 0 /\ clock = "disable" /\ page_by = "init"
  /\ ready = TRUE /\ capture_active = FALSE /\ frame_stream_session_active = FALSE
  /\ force_awake \in BOOLEAN /\ smart_algorithm \in BOOLEAN
  /\ performance = IF force_awake THEN "forced" ELSE "normal"
  /\ sw_smart_flag = FALSE
  /\ active = TRUE
  /\ lock = "free"
  /\ op = [t \in Thread |-> "idle"]
  /\ todo = [t \in Thread |-> <<>>]

(* What a transfer does to the sensor.  The page select is reached from    *)
(* both pages, PERFORMANCE from page 0; a reset on page 1 may be lost.     *)
SensorDoes(x, who) ==
  \/ /\ x = Reset
     /\ page' = 0 /\ clock' = "disable" /\ performance' = "normal" /\ page_by' = who
  \/ /\ x = Reset => page # 0
     /\ clock' = IF x.reg = "SPI_CLK_ON_REQ" THEN x.value ELSE clock
     /\ page' = CASE x = SelectPage1 -> 1 [] x = SelectPage0 -> 0 [] OTHER -> page
     /\ page_by' = IF x.reg = "SPI_PAGE0" THEN who ELSE page_by
     /\ performance' = IF x.reg = "PERFORMANCE" /\ x.value # "read" /\ page = 0
                       THEN x.value ELSE performance

(* pmw3610_set_performance, when PERFORMANCE has been read.  On the other  *)
(* page it was another register that was read.                             *)
PerformanceWrite(value) ==
  (IF page # 0 \/ performance # value THEN {Wrapped("PERFORMANCE", value)} ELSE {})
    \cup (IF page # 0 \/ performance = value THEN {<<>>} ELSE {})

Remaining(t) ==
  IF Head(todo[t]) = Read("PERFORMANCE") /\ op[t] \in {"awake", "asleep", "configure"}
    THEN PerformanceWrite(IF op[t] = "asleep" THEN "normal" ELSE "forced")
    ELSE {Tail(todo[t])}

Transfer(t) ==
  /\ todo[t] # <<>>
  /\ SensorDoes(Head(todo[t]), op[t])
  /\ \E rest \in Remaining(t) : todo' = [todo EXCEPT ![t] = rest]
  /\ UNCHANGED <<session, runtime, sw_smart_flag, active, lock, op>>

(* A thread takes up an operation with its transfers, and has the next     *)
(* one to take up when they are done.                                      *)
At(t, operation) == op[t] = operation /\ todo[t] = <<>>
Run(t, operation, transfers) ==
  /\ op' = [op EXCEPT ![t] = operation]
  /\ todo' = [todo EXCEPT ![t] = transfers]

Acquire(t)   == lock = "free" /\ lock' = t
Momentarily  == lock = "free" /\ UNCHANGED lock    \* taken and released within the step
ReleaseOf(t) == lock' = IF lock = t THEN "free" ELSE lock

SetPerformance == <<Read("PERFORMANCE")>>
Performance(enabled) == IF enabled THEN "awake" ELSE "asleep"

-----------------------------------------------------------------------------
(* The workqueue: motion.                                                  *)

(* ready is read before the lock is taken.                                 *)
ReportStart ==
  /\ At("workqueue", "idle") /\ ready
  /\ Run("workqueue", "report", <<>>)
  /\ UNCHANGED <<sensor, session, runtime, sw_smart_flag, active, lock>>

(* The runtime config is copied, the lock given back, the motion read.     *)
ReportMotion ==
  /\ At("workqueue", "report") /\ Momentarily
  /\ IF capture_active
       THEN Run("workqueue", "idle", <<>>)
       ELSE Run("workqueue", IF smart_algorithm THEN "smart" ELSE "motion", MotionRead)
  /\ UNCHANGED <<sensor, session, runtime, sw_smart_flag, active>>

(* The shutter crosses the threshold of the smart algorithm. *)
SmartWrite ==
  /\ At("workqueue", "smart")
  /\ Run("workqueue", IF sw_smart_flag THEN "smart off" ELSE "smart on",
         Wrapped("0x32", IF sw_smart_flag THEN "0x00" ELSE "0x80"))
  /\ UNCHANGED <<sensor, session, runtime, sw_smart_flag, active, lock>>

ReportEnd ==
  /\ \E operation \in {"motion", "smart", "smart on", "smart off"} : At("workqueue", operation)
  /\ sw_smart_flag' = CASE op["workqueue"] = "smart on" -> TRUE
                        [] op["workqueue"] = "smart off" -> FALSE
                        [] OTHER -> sw_smart_flag
  /\ Run("workqueue", "idle", <<>>)
  /\ UNCHANGED <<sensor, session, runtime, active, lock>>

(* on_activity_state: force_awake is copied under the lock, PERFORMANCE    *)
(* touched without it, also during a capture.                              *)
ActivityStart ==
  /\ At("workqueue", "idle")
  /\ active' = ~active
  /\ Run("workqueue", IF ready THEN "activity" ELSE "idle", <<>>)
  /\ UNCHANGED <<sensor, session, runtime, sw_smart_flag, lock>>

ActivityPerformance ==
  /\ At("workqueue", "activity") /\ Momentarily
  /\ IF force_awake THEN Run("workqueue", Performance(active), SetPerformance)
                    ELSE Run("workqueue", "idle", <<>>)
  /\ UNCHANGED <<sensor, session, runtime, sw_smart_flag, active>>

ActivityEnd ==
  /\ At("workqueue", "awake") \/ At("workqueue", "asleep")
  /\ Run("workqueue", "idle", <<>>)
  /\ UNCHANGED <<sensor, session, runtime, sw_smart_flag, active, lock>>

-----------------------------------------------------------------------------
(* The workqueue: initialisation after a capture, step after step.  One    *)
(* register stands for the six times that CONFIGURE writes.                *)

InitPowerUp ==
  /\ At("workqueue", "idle") /\ ~ready
  /\ Run("workqueue", "power up", <<Reset>>)
  /\ UNCHANGED <<sensor, session, runtime, sw_smart_flag, active, lock>>

InitSelfTest ==
  /\ At("workqueue", "power up")
  /\ Run("workqueue", "self test", SelfTest)
  /\ UNCHANGED <<sensor, session, runtime, sw_smart_flag, active, lock>>

InitConfigure ==
  /\ At("workqueue", "self test") /\ Momentarily
  /\ Run("workqueue", "configure", IF force_awake THEN SetPerformance ELSE <<>>)
  /\ UNCHANGED <<sensor, session, runtime, sw_smart_flag, active>>

InitCpi ==
  /\ At("workqueue", "configure") /\ Acquire("workqueue")
  /\ Run("workqueue", "cpi", SetCpiLocked)
  /\ UNCHANGED <<sensor, session, runtime, sw_smart_flag, active>>

InitTimes ==
  /\ At("workqueue", "cpi") /\ ReleaseOf("workqueue")
  /\ Run("workqueue", "times", Wrapped("register", "value"))
  /\ UNCHANGED <<sensor, session, runtime, sw_smart_flag, active>>

(* A refused value, or an end() meanwhile, sends it back to the beginning. *)
InitEnd ==
  /\ At("workqueue", "times")
  /\ Run("workqueue", "idle", <<>>)
  /\ ready' = TRUE \/ UNCHANGED ready
  /\ UNCHANGED <<sensor, capture_active, frame_stream_session_active, runtime, sw_smart_flag,
                 active, lock>>

-----------------------------------------------------------------------------
(* The thread of the Studio RPC: setters.                                  *)

Setter(operation, transfers) ==
  /\ At("rpc", "idle") /\ Acquire("rpc")
  /\ Run("rpc", operation, transfers)
  /\ UNCHANGED <<sensor, session, active>>

(* pmw3610_set_cpi_runtime *)
SetCpiRuntime ==
  /\ Setter("cpi", IF ready THEN SetCpiLocked ELSE <<>>)
  /\ UNCHANGED <<runtime, sw_smart_flag>>

(* pmw3610_write_register: any register, also of a sensor that is not      *)
(* ready.  It stands for the setters of the times as well.                 *)
WriteRegister ==
  /\ \E w \in HostWrite : Setter("write", Around(w))
  /\ UNCHANGED <<runtime, sw_smart_flag>>

(* ready was read before the lock. *)
ReadDiagnostics == Setter("diagnostics", Diagnostics) /\ UNCHANGED <<runtime, sw_smart_flag>>

(* pmw3610_set_force_awake: the activity state was read before the lock. *)
SetForceAwake(enabled) ==
  /\ \E was_active \in BOOLEAN :
       Setter(Performance(was_active), IF enabled /\ ready THEN SetPerformance ELSE <<>>)
  /\ force_awake' = enabled
  /\ UNCHANGED <<smart_algorithm, sw_smart_flag>>

(* pmw3610_set_smart_algorithm *)
SetSmartAlgorithm(enabled) ==
  /\ Setter("smart", <<>>)
  /\ smart_algorithm' = enabled
  /\ sw_smart_flag' = (sw_smart_flag /\ enabled)
  /\ UNCHANGED force_awake

SetterEnd ==
  /\ \E operation \in {"cpi", "write", "diagnostics", "awake", "asleep", "smart"} :
       At("rpc", operation)
  /\ ReleaseOf("rpc")
  /\ Run("rpc", "idle", <<>>)
  /\ UNCHANGED <<sensor, session, runtime, sw_smart_flag, active>>

-----------------------------------------------------------------------------
(* Captures.  A stream is begun by the thread of the RPC and read and      *)
(* ended on the low priority queue; CaptureFrame stays on its thread.      *)

(* pmw3610_frame_capture_begin: the lock is only held for capture_active.  *)
CaptureBegin ==
  /\ At("rpc", "idle") /\ Momentarily
  /\ ready
  /\ capture_active' = TRUE
  /\ Run("rpc", "begin", ForceRunMode)
  /\ UNCHANGED <<sensor, ready, frame_stream_session_active, runtime, sw_smart_flag, active>>

CaptureBegun ==
  /\ At("rpc", "begin")
  /\ \/ Run("rpc", "idle", <<>>) /\ frame_stream_session_active' = TRUE
     \/ Run("rpc", "begun", <<>>) /\ UNCHANGED frame_stream_session_active
  /\ UNCHANGED <<sensor, ready, capture_active, runtime, sw_smart_flag, active, lock>>

(* pmw3610_frame_capture_end, and begin() when the run mode did not come.  *)
Recover ==
  /\ Momentarily
  /\ ready' = FALSE /\ capture_active' = FALSE /\ sw_smart_flag' = FALSE

CaptureEnd ==
  /\ At("rpc", "begin") \/ At("rpc", "captured")
  /\ Recover
  /\ Run("rpc", "idle", <<>>)
  /\ UNCHANGED <<sensor, frame_stream_session_active, runtime, active>>

StreamEnd ==
  /\ At("lowprio", "idle") /\ frame_stream_session_active
  /\ Recover
  /\ frame_stream_session_active' = FALSE
  /\ UNCHANGED <<sensor, runtime, active, op, todo>>

(* pmw3610_frame_capture_read: the lock is held to the last pixel.         *)
FrameRead(t) ==
  /\ \/ t = "rpc" /\ At(t, "begun")
     \/ t = "lowprio" /\ At(t, "idle") /\ frame_stream_session_active
  /\ Acquire(t)
  /\ Run(t, "read", FrameArm)
  /\ UNCHANGED <<sensor, session, runtime, sw_smart_flag, active>>

FramePixel(t) ==
  /\ At(t, "read") /\ DisableBurstRead
  /\ Run(t, "read", Pixel)
  /\ UNCHANGED <<sensor, session, runtime, sw_smart_flag, active, lock>>

FrameEnd(t) ==
  /\ At(t, "read") /\ ReleaseOf(t)
  /\ Run(t, IF t = "rpc" THEN "captured" ELSE "idle", <<>>)
  /\ UNCHANGED <<sensor, session, runtime, sw_smart_flag, active>>

-----------------------------------------------------------------------------
Workqueue ==
  \/ ReportStart \/ ReportMotion \/ SmartWrite \/ ReportEnd
  \/ ActivityStart \/ ActivityPerformance \/ ActivityEnd
  \/ InitPowerUp \/ InitSelfTest \/ InitConfigure \/ InitCpi \/ InitTimes \/ InitEnd

Studio ==
  \/ SetCpiRuntime \/ WriteRegister \/ ReadDiagnostics
  \/ \E enabled \in BOOLEAN : SetForceAwake(enabled) \/ SetSmartAlgorithm(enabled)
  \/ SetterEnd

Capture ==
  \/ CaptureBegin \/ CaptureBegun \/ CaptureEnd \/ StreamEnd
  \/ \E t \in {"rpc", "lowprio"} : FrameRead(t) \/ FramePixel(t) \/ FrameEnd(t)

Next ==
  \/ \E t \in Thread : Transfer(t)
  \/ Workqueue \/ Studio \/ Capture

Spec == Init /\ [][Next]_vars

-----------------------------------------------------------------------------
(* pixart.h: the lock "Serializes composite register sequences (e.g.       *)
(* multi-write CPI, clock on/off wrapped writes, burst report reads)       *)
(* against concurrent access from the Studio RPC thread": the workqueue    *)
(* never meets the sensor on the page on which a setter left it for the    *)
(* moment.                                                                 *)
WorkqueueOnPage0 ==
  [][lock # "workqueue" /\ todo["workqueue"] # <<>> /\ todo'["workqueue"] # todo["workqueue"]
       => page = 0 \/ page_by = "write"]_vars
=============================================================================
