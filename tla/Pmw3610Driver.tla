---------------------------- MODULE Pmw3610Driver ----------------------------
(***************************************************************************)
(* One PMW3610 instance as src/pmw3610.c drives it.                        *)
(*                                                                         *)
(* Four kinds of threads touch the instance: the motion GPIO interrupt,    *)
(* the system workqueue (the init work, the trigger work and the activity  *)
(* listener run on it one at a time), the threads in Client that call the  *)
(* capture functions, and the caller of the power-management hooks.  An    *)
(* action is what one thread does between two points where it can block or *)
(* be overtaken: an SPI transfer, a sleep, data->lock.                     *)
(***************************************************************************)
EXTENDS Naturals

CONSTANTS
  Client,            \* threads that call pmw3610_frame_capture_begin/read/end
  MaxRetry,          \* automatic restarts of the init sequence (10 in the code)
  DisjointSessions,  \* callers keep begin()..end() of two threads apart
  PmDevice,          \* CONFIG_PM_DEVICE: suspend and resume are compiled in
  ForceAwake,        \* runtime.force_awake
  SmartAlgorithm,    \* runtime.smart_algorithm
  DisableBurstRead   \* config->disable_burst_read: 3-wire PIXEL_GRAB captures

ASSUME MaxRetryAssumption == MaxRetry \in Nat
ASSUME FlagsAssumption ==
  /\ DisjointSessions \in BOOLEAN
  /\ PmDevice \in BOOLEAN
  /\ ForceAwake \in BOOLEAN
  /\ SmartAlgorithm \in BOOLEAN
  /\ DisableBurstRead \in BOOLEAN

VARIABLES
  (* struct pixart_data *)
  ready, async_init_step, async_init_retry_count, err,
  capture_active, capture_mode_active, sw_smart_flag,
  (* the GPIO interrupt, the PM state, the pending work                      *)
  (* items; canceling is K_WORK_CANCELING of the init work                   *)
  irq, suspended, init_work, canceling, trigger_work,
  (* the system workqueue: where it is, and the locals of that handler *)
  wq, current_step, smart_value,
  (* the capture callers *)
  pc,
  (* ZMK's activity state *)
  active,
  (* history, for the properties: resume's k_work_schedule was refused, and   *)
  (* none has been accepted since                                             *)
  resume_refused,
  (* the sensor: motion pin, what its registers are set up for, PERFORMANCE *)
  (* and register 0x32                                                      *)
  motion, mode, perf, test_clk

data    == <<ready, async_init_step, async_init_retry_count, err>>
capture == <<capture_active, capture_mode_active>>
pm      == <<suspended, resume_refused>>
work    == <<init_work, canceling>>
kernel  == <<irq, suspended, resume_refused, init_work, canceling, trigger_work>>
locals  == <<current_step, smart_value>>
sensor  == <<motion, mode, perf, test_clk>>
vars    == <<data, capture, sw_smart_flag, kernel, wq, locals, pc, active, sensor>>

-----------------------------------------------------------------------------
(* enum pmw3610_init_step *)
POWER_UP  == 0
CLEAR_OB1 == 1
CHECK_OB1 == 2
CONFIGURE == 3
COUNT     == 4

WqState ==
  {"idle",
   "init",      \* inside async_init_fn[current_step]
   "entry",     \* pmw3610_report_data, past the ready test, before data->lock
   "burst",     \* reading the motion registers, data->lock released
   "smart",     \* inside pmw3610_write(dev, 0x32, smart_value)
   "flag",      \* that write returned, sw_smart_flag not yet assigned
   "unmask",    \* back in pmw3610_work_callback
   "activity",  \* on_activity_state, before data->lock
   "perf"}      \* inside pmw3610_set_performance, data->lock released

PcState ==
  {"out",
   "mask",      \* begin(): capture_active set, interrupt still as it was
   "force",     \* begin(): pmw3610_frame_capture_force_run_mode
   "commit",    \* begin(): run mode confirmed
   "revert",    \* begin(): run mode not reached
   "session",   \* between calls of one session
   "reading"}   \* read(): data->lock held

WorkOK ==
  /\ suspended \in BOOLEAN
  /\ resume_refused \in BOOLEAN
  /\ init_work \in BOOLEAN
  /\ canceling \in BOOLEAN

FlagsOK ==
  /\ ready \in BOOLEAN
  /\ err \in BOOLEAN
  /\ capture_active \in BOOLEAN
  /\ capture_mode_active \in BOOLEAN
  /\ sw_smart_flag \in BOOLEAN
  /\ irq \in BOOLEAN
  /\ trigger_work \in BOOLEAN
  /\ smart_value \in BOOLEAN
  /\ active \in BOOLEAN
  /\ motion \in BOOLEAN

ValuesOK ==
  /\ async_init_step \in 0..COUNT + 1
  /\ async_init_retry_count \in 0..MaxRetry
  /\ wq \in WqState
  /\ current_step \in 0..CONFIGURE
  /\ pc \in [Client -> PcState]
  /\ mode \in {"unknown", "reset", "configured", "grab"}
  /\ perf \in {"normal", "forced"}
  /\ test_clk \in {"off", "smart", "grab"}

TypeOK == WorkOK /\ FlagsOK /\ ValuesOK

(* pmw3610_init() has run: it seeds the flags and calls pmw3610_resume(),   *)
(* which schedules the init work.                                          *)
Init ==
  /\ ready = FALSE
  /\ async_init_step = POWER_UP
  /\ async_init_retry_count = 0
  /\ err = FALSE
  /\ capture_active = FALSE
  /\ capture_mode_active = FALSE
  /\ sw_smart_flag = FALSE
  /\ irq = FALSE
  /\ suspended = FALSE
  /\ init_work = TRUE
  /\ canceling = FALSE
  /\ resume_refused = FALSE
  /\ trigger_work = FALSE
  /\ wq = "idle"
  /\ current_step = POWER_UP
  /\ smart_value = FALSE
  /\ pc = [c \in Client |-> "out"]
  /\ active = TRUE
  /\ motion = FALSE
  /\ mode = "unknown"
  /\ perf = "normal"
  /\ test_clk = "off"

(* Of the threads modelled, only a read() holds data->lock while others run. *)
Locked == \E c \in Client : pc[c] = "reading"

(* The retry budget is spent and nothing will restart the sequence.         *)
GaveUp == err /\ async_init_retry_count = MaxRetry

-----------------------------------------------------------------------------
(* The init work, on the system workqueue.                                 *)

(* k_work_schedule(&data->init_work, ...): refused while the item is being  *)
(* cancelled; an item that is pending already stays so.                     *)
ScheduleInit == init_work' = (init_work \/ ~canceling)

(* The handler returns; a cancellation ends with it.                       *)
HandlerEnds == wq' = "idle" /\ canceling' = FALSE

(* A step index of COUNT or more, left by a suspend, is refused.           *)
AsyncInitStart ==
  /\ wq = "idle"
  /\ init_work
  /\ init_work' = FALSE
  /\ current_step' = IF async_init_step < COUNT THEN async_init_step ELSE current_step
  /\ wq' = IF async_init_step < COUNT THEN "init" ELSE "idle"
  /\ UNCHANGED <<data, capture, sw_smart_flag, irq, pm, canceling, trigger_work, smart_value,
                 pc, active, sensor>>

(* What a successful step does to the sensor.  POWER_UP resets every       *)
(* register; CONFIGURE reads the motion registers empty and only brings a  *)
(* sensor that was reset into its navigating configuration.                *)
StepEffect(step) ==
  /\ motion' = IF step \in {POWER_UP, CONFIGURE} THEN FALSE ELSE motion
  /\ mode' = CASE step = POWER_UP -> "reset"
               [] step = CONFIGURE /\ mode = "reset" -> "configured"
               [] OTHER -> mode
  /\ perf' = CASE step = POWER_UP -> "normal"
               [] step = CONFIGURE /\ ForceAwake -> "forced"
               [] OTHER -> perf
  /\ test_clk' = IF step = POWER_UP THEN "off" ELSE test_clk

(* A step that fails may have got part of the way: CONFIGURE may have read  *)
(* the motion registers and written PERFORMANCE.                           *)
FailEffect ==
  /\ motion' \in {motion, IF current_step = CONFIGURE THEN FALSE ELSE motion}
  /\ perf' \in {perf, IF current_step = CONFIGURE /\ ForceAwake THEN "forced" ELSE perf}

(* CONFIGURE takes data->lock for the runtime config and the CPI writes.   *)
StepMayFinish == wq = "init" /\ (current_step = CONFIGURE => ~Locked)

(* Variant with a slip: ready is set but the interrupt is not enabled.     *)
AsyncInitStepOkMasked ==
  /\ StepMayFinish
  /\ StepEffect(current_step)
  /\ err' = FALSE
  /\ async_init_step' = async_init_step + 1
  /\ ready' = IF async_init_step' = COUNT THEN TRUE ELSE ready
  /\ IF async_init_step' < COUNT THEN ScheduleInit ELSE UNCHANGED init_work
  /\ HandlerEnds
  /\ UNCHANGED <<async_init_retry_count, capture, sw_smart_flag, irq, pm, trigger_work,
                 locals, pc, active>>

(* data->err = 0; ++step; the last step makes the sensor ready.            *)
AsyncInitStepOk ==
  /\ StepMayFinish
  /\ StepEffect(current_step)
  /\ err' = FALSE
  /\ async_init_step' = async_init_step + 1
  /\ ready' = IF async_init_step' = COUNT THEN TRUE ELSE ready
  /\ irq' = IF async_init_step' = COUNT THEN TRUE ELSE irq
  /\ IF async_init_step' < COUNT THEN ScheduleInit ELSE UNCHANGED init_work
  /\ HandlerEnds
  /\ UNCHANGED <<async_init_retry_count, capture, sw_smart_flag, pm, trigger_work,
                 locals, pc, active>>

(* Variant with a slip: one restart more than the budget.                  *)
AsyncInitStepFailOffByOne ==
  /\ StepMayFinish
  /\ FailEffect
  /\ err' = TRUE
  /\ IF async_init_retry_count <= MaxRetry
       THEN /\ async_init_retry_count' = async_init_retry_count + 1
            /\ async_init_step' = POWER_UP
            /\ ScheduleInit
       ELSE UNCHANGED <<async_init_retry_count, async_init_step, init_work>>
  /\ HandlerEnds
  /\ UNCHANGED <<ready, capture, sw_smart_flag, irq, pm, trigger_work, locals, pc,
                 active, mode, test_clk>>

(* Variant with a slip: the restart is counted but not scheduled.          *)
AsyncInitStepFailUnscheduled ==
  /\ StepMayFinish
  /\ FailEffect
  /\ err' = TRUE
  /\ IF async_init_retry_count < MaxRetry
       THEN /\ async_init_retry_count' = async_init_retry_count + 1
            /\ async_init_step' = POWER_UP
       ELSE UNCHANGED <<async_init_retry_count, async_init_step>>
  /\ HandlerEnds
  /\ UNCHANGED <<ready, init_work, capture, sw_smart_flag, irq, pm, trigger_work, locals,
                 pc, active, mode, test_clk>>

(* An SPI error, a failed self-test or a wrong product id.                 *)
AsyncInitStepFail ==
  /\ StepMayFinish
  /\ FailEffect
  /\ err' = TRUE
  /\ IF async_init_retry_count < MaxRetry
       THEN /\ async_init_retry_count' = async_init_retry_count + 1
            /\ async_init_step' = POWER_UP
            /\ ScheduleInit
       ELSE UNCHANGED <<async_init_retry_count, async_init_step, init_work>>
  /\ HandlerEnds
  /\ UNCHANGED <<ready, capture, sw_smart_flag, irq, pm, trigger_work, locals, pc,
                 active, mode, test_clk>>

-----------------------------------------------------------------------------
(* Motion: the level interrupt and the trigger work.                       *)

(* The ball moves and the sensor asserts the motion pin.                   *)
Move ==
  /\ mode \in {"configured", "grab"}
  /\ ~motion
  /\ motion' = TRUE
  /\ UNCHANGED <<data, capture, sw_smart_flag, kernel, wq, locals, pc, active, mode, perf,
                 test_clk>>

(* The callback is installed only while the device is not suspended.       *)
GpioCallback ==
  /\ irq
  /\ ~suspended
  /\ motion
  /\ irq' = FALSE
  /\ trigger_work' = TRUE
  /\ UNCHANGED <<data, capture, sw_smart_flag, pm, work, wq, locals, pc, active,
                 sensor>>

WorkCallback ==
  /\ wq = "idle"
  /\ trigger_work
  /\ trigger_work' = FALSE
  /\ wq' = IF ready THEN "entry" ELSE "unmask"
  /\ UNCHANGED <<data, capture, sw_smart_flag, irq, pm, work, locals, pc, active,
                 sensor>>

ReportCheck ==
  /\ wq = "entry"
  /\ ~Locked
  /\ wq' = IF capture_active THEN "unmask" ELSE "burst"
  /\ UNCHANGED <<data, capture, sw_smart_flag, kernel, locals, pc, active, sensor>>

(* The motion registers are read, which releases the pin; the shutter      *)
(* value decides whether register 0x32 has to change.                      *)
ReportRead ==
  /\ wq = "burst"
  /\ motion' = FALSE
  /\ \/ /\ SmartAlgorithm
        /\ smart_value' = ~sw_smart_flag
        /\ wq' = "smart"
     \/ wq' = "unmask" /\ UNCHANGED smart_value
  /\ UNCHANGED <<data, capture, sw_smart_flag, kernel, current_step, pc, active, mode, perf,
                 test_clk>>

(* On the register-by-register path the pin may already be released.       *)
ReportReadFail ==
  /\ wq = "burst"
  /\ motion' \in {motion, FALSE}
  /\ wq' = "unmask"
  /\ UNCHANGED <<data, capture, sw_smart_flag, kernel, locals, pc, active, mode, perf, test_clk>>

(* pmw3610_write's result is not looked at: the write may have failed.     *)
SmartWrite ==
  /\ wq = "smart"
  /\ test_clk' \in {test_clk, IF smart_value THEN "smart" ELSE "off"}
  /\ wq' = "flag"
  /\ UNCHANGED <<data, capture, sw_smart_flag, kernel, locals, pc, active, motion, mode, perf>>

SmartFlag ==
  /\ wq = "flag"
  /\ sw_smart_flag' = smart_value
  /\ wq' = "unmask"
  /\ UNCHANGED <<data, capture, kernel, locals, pc, active, sensor>>

(* Variant with a slip: the interrupt stays as the ISR left it.            *)
UnmaskForgotten ==
  /\ wq = "unmask"
  /\ wq' = "idle"
  /\ UNCHANGED <<data, capture, sw_smart_flag, kernel, locals, pc, active, sensor>>

(* pmw3610_work_callback enables the interrupt whatever the report did.    *)
Unmask ==
  /\ wq = "unmask"
  /\ irq' = TRUE
  /\ wq' = "idle"
  /\ UNCHANGED <<data, capture, sw_smart_flag, pm, work, trigger_work, locals, pc,
                 active, sensor>>

-----------------------------------------------------------------------------
(* zmk_activity_state_changed, delivered on the system workqueue.          *)

ActivityChange ==
  /\ wq = "idle"
  /\ active' = ~active
  /\ wq' = IF ready THEN "activity" ELSE "idle"
  /\ UNCHANGED <<data, capture, sw_smart_flag, kernel, locals, pc, sensor>>

ActivityCheck ==
  /\ wq = "activity"
  /\ ~Locked
  /\ wq' = IF ForceAwake THEN "perf" ELSE "idle"
  /\ UNCHANGED <<data, capture, sw_smart_flag, kernel, locals, pc, active, sensor>>

(* A read-modify-write of PERFORMANCE; either transfer may fail.           *)
SetPerformance ==
  /\ wq = "perf"
  /\ perf' \in {perf, IF active THEN "forced" ELSE "normal"}
  /\ wq' = "idle"
  /\ UNCHANGED <<data, capture, sw_smart_flag, kernel, locals, pc, active, motion, mode,
                 test_clk>>

-----------------------------------------------------------------------------
(* The capture functions.                                                  *)

(* Variant with a slip: the sequence restarts behind the power-up reset.   *)
RecoverWithoutReset ==
  /\ ready' = FALSE
  /\ async_init_step' = CLEAR_OB1
  /\ async_init_retry_count' = 0
  /\ sw_smart_flag' = FALSE
  /\ ScheduleInit
  /\ resume_refused' = (resume_refused /\ canceling)

(* Variant with a slip: the sensor is not taken down.                      *)
RecoverStillReady ==
  /\ async_init_step' = POWER_UP
  /\ async_init_retry_count' = 0
  /\ sw_smart_flag' = FALSE
  /\ ScheduleInit
  /\ resume_refused' = (resume_refused /\ canceling)
  /\ UNCHANGED ready

(* pmw3610_capture_frame_recover_locked *)
Recover ==
  /\ ready' = FALSE
  /\ async_init_step' = POWER_UP
  /\ async_init_retry_count' = 0
  /\ sw_smart_flag' = FALSE
  /\ ScheduleInit
  /\ resume_refused' = (resume_refused /\ canceling)

(* begin() looks at ready and at nothing else.  -EBUSY changes no state.   *)
CaptureBegin(c) ==
  /\ pc[c] = "out"
  /\ DisjointSessions => \A d \in Client : pc[d] = "out"
  /\ ~Locked
  /\ ready
  /\ capture_active' = TRUE
  /\ pc' = [pc EXCEPT ![c] = "mask"]
  /\ UNCHANGED <<data, capture_mode_active, sw_smart_flag, kernel, wq, locals, active, sensor>>

CaptureMask(c) ==
  /\ pc[c] = "mask"
  /\ irq' = FALSE
  /\ pc' = [pc EXCEPT ![c] = "force"]
  /\ UNCHANGED <<data, capture, sw_smart_flag, pm, work, trigger_work, wq, locals,
                 active, sensor>>

(* pmw3610_frame_capture_force_run_mode: PERFORMANCE is written, then      *)
(* OBSERVATION1 is polled.  Each transfer may fail and the poll may time   *)
(* out, before or after the write took effect.                             *)
ForceRunMode(c) ==
  /\ pc[c] = "force"
  /\ \/ /\ perf' = "forced"
        /\ pc' = [pc EXCEPT ![c] = "commit"]
     \/ /\ perf' \in {perf, "forced"}
        /\ pc' = [pc EXCEPT ![c] = "revert"]
  /\ UNCHANGED <<data, capture, sw_smart_flag, kernel, wq, locals, active, motion, mode,
                 test_clk>>

CaptureCommit(c) ==
  /\ pc[c] = "commit"
  /\ ~Locked
  /\ capture_mode_active' = TRUE
  /\ pc' = [pc EXCEPT ![c] = "session"]
  /\ UNCHANGED <<data, capture_active, sw_smart_flag, kernel, wq, locals, active, sensor>>

(* pmw3610_frame_capture_end(), and the clean-up of a begin() that failed. *)
CloseSession(c) ==
  /\ ~Locked
  /\ Recover
  /\ capture_active' = FALSE
  /\ capture_mode_active' = FALSE
  /\ pc' = [pc EXCEPT ![c] = "out"]
  /\ UNCHANGED <<err, irq, suspended, canceling, trigger_work, wq, locals, active, sensor>>

CaptureRevert(c) == pc[c] = "revert" /\ CloseSession(c)

CaptureEnd(c) == pc[c] = "session" /\ CloseSession(c)

CaptureReadStart(c) ==
  /\ pc[c] = "session"
  /\ ~Locked
  /\ pc' = [pc EXCEPT ![c] = "reading"]
  /\ UNCHANGED <<data, capture, sw_smart_flag, kernel, wq, locals, active, sensor>>

(* The arm sequence may stop at any transfer; a burst read also forces run *)
(* mode again for every frame.                                             *)
CaptureReadDone(c) ==
  /\ pc[c] = "reading"
  /\ \/ UNCHANGED <<mode, perf, test_clk>>
     \/ /\ mode' = "grab"
        /\ test_clk' \in {test_clk, "grab"}
        /\ perf' = IF DisableBurstRead THEN perf ELSE "forced"
  /\ pc' = [pc EXCEPT ![c] = "session"]
  /\ UNCHANGED <<data, capture, sw_smart_flag, kernel, wq, locals, active, motion>>

-----------------------------------------------------------------------------
(* Power management.                                                       *)

(* Unless the sensor is ready, the init work is cancelled: a queued item is *)
(* removed, a running one is K_WORK_CANCELING until its step returns.       *)
Suspend ==
  /\ PmDevice
  /\ ~suspended
  /\ suspended' = TRUE
  /\ resume_refused' = FALSE
  /\ init_work' = (ready /\ init_work)
  /\ canceling' = (canceling \/ (~ready /\ wq = "init"))
  /\ ready' = FALSE
  /\ async_init_step' = COUNT
  /\ async_init_retry_count' = 0
  /\ irq' = FALSE
  /\ UNCHANGED <<err, capture, sw_smart_flag, trigger_work, wq, locals, pc, active, sensor>>

(* Variant with a slip: the init work is not scheduled again.              *)
ResumeUnscheduled ==
  /\ suspended
  /\ suspended' = FALSE
  /\ IF ready
       THEN /\ irq' = TRUE
            /\ UNCHANGED <<data, sw_smart_flag, resume_refused>>
       ELSE /\ async_init_step' = POWER_UP
            /\ async_init_retry_count' = 0
            /\ sw_smart_flag' = FALSE
            /\ resume_refused' = canceling
            /\ UNCHANGED <<ready, err, irq>>
  /\ UNCHANGED <<work, capture, trigger_work, wq, locals, pc, active, sensor>>

(* A sensor that came up while it was suspended is only unmasked.  The step *)
(* that suspend cancelled may still be running: then nothing is scheduled.  *)
Resume ==
  /\ suspended
  /\ suspended' = FALSE
  /\ IF ready
       THEN /\ irq' = TRUE
            /\ UNCHANGED <<data, sw_smart_flag, init_work, resume_refused>>
       ELSE /\ async_init_step' = POWER_UP
            /\ async_init_retry_count' = 0
            /\ sw_smart_flag' = FALSE
            /\ ScheduleInit
            /\ resume_refused' = canceling
            /\ UNCHANGED <<ready, err, irq>>
  /\ UNCHANGED <<canceling, capture, trigger_work, wq, locals, pc, active, sensor>>

-----------------------------------------------------------------------------
AsyncInit == AsyncInitStart \/ AsyncInitStepOk \/ AsyncInitStepFail

Report ==
  \/ WorkCallback \/ ReportCheck \/ ReportRead \/ ReportReadFail
  \/ SmartWrite \/ SmartFlag \/ Unmask

Activity == ActivityChange \/ ActivityCheck \/ SetPerformance

CaptureCall(c) ==
  \/ CaptureBegin(c) \/ CaptureMask(c) \/ ForceRunMode(c) \/ CaptureCommit(c)
  \/ CaptureRevert(c) \/ CaptureReadStart(c) \/ CaptureReadDone(c) \/ CaptureEnd(c)

Next ==
  \/ AsyncInit
  \/ Move
  \/ GpioCallback
  \/ Report
  \/ Activity
  \/ \E c \in Client : CaptureCall(c)
  \/ Suspend
  \/ Resume

(* A call that was entered returns (every wait in it is bounded), and the  *)
(* workqueue runs its items in submission order, so neither item waits     *)
(* forever behind the other; k_mutex hands the lock to the highest waiter. *)
(* New captures, motion, activity changes and PM calls are never promised. *)
Fairness ==
  /\ SF_vars(AsyncInitStart) /\ SF_vars(WorkCallback)
  /\ SF_vars(AsyncInitStepOk \/ AsyncInitStepFail)
  /\ SF_vars(ReportCheck) /\ SF_vars(ActivityCheck)
  /\ WF_vars(GpioCallback)
  /\ WF_vars(ReportRead \/ ReportReadFail)
  /\ WF_vars(SmartWrite) /\ WF_vars(SmartFlag) /\ WF_vars(Unmask)
  /\ WF_vars(SetPerformance)
  /\ \A c \in Client :
       /\ WF_vars(CaptureMask(c)) /\ WF_vars(ForceRunMode(c))
       /\ SF_vars(CaptureCommit(c)) /\ SF_vars(CaptureRevert(c))
       /\ WF_vars(CaptureReadDone(c))

Spec == Init /\ [][Next]_vars

FairSpec == Spec /\ Fairness
-----------------------------------------------------------------------------
(* Properties of the code as it is.                                        *)

(* A sensor that is navigating cannot lose the motion interrupt for good:  *)
(* the level interrupt is on, or the trigger work that turns it on again   *)
(* (pmw3610_work_callback) is queued or running.  Masking in the ISR, in   *)
(* begin() and in suspend must each be paired with a later unmask.         *)
MotionNotLost ==
  ready /\ ~capture_active /\ ~suspended =>
    irq \/ trigger_work \/ wq \in {"entry", "burst", "smart", "flag", "unmask"}

(* A sensor that is neither ready nor suspended is on its way: the init    *)
(* work is scheduled or inside a step, or the ten automatic restarts are   *)
(* spent.  Resuming "(re)schedules the init work" (comment above           *)
(* pmw3610_capture_frame_recover_locked), so nothing should leave it       *)
(* waiting for nobody.                                                     *)
InitNotStuck ==
  ~ready /\ ~suspended => init_work \/ wq = "init" \/ GaveUp

(* The kernel refusing resume's k_work_schedule while the step that suspend *)
(* cancelled is still running is the only way to get stuck: no other       *)
(* interleaving of a capture's recovery, a suspend, a resume and a running *)
(* step leaves the sensor waiting for nobody, and the end of a session     *)
(* that is open gets it out of there again.                                *)
OnlyRefusalIsStuck == resume_refused \/ InitNotStuck

(* When the driver reports motion again after a capture, the sensor has    *)
(* been power-up reset and configured since the grab: it is out of the     *)
(* grab mode, the test clock is off, and the forced run mode of the        *)
(* session is gone unless force-awake asked for it.                        *)
NavigationIsClean ==
  ready /\ ~capture_active =>
    /\ mode = "configured"
    /\ test_clk # "grab"
    /\ perf = "forced" => ForceAwake

(* The driver implements the capture session its header promises.          *)
Session ==
  INSTANCE CaptureSession WITH
    phase <- IF capture_active THEN "session"
             ELSE IF ready THEN "navigating" ELSE "starting",
    users <- {c \in Client : pc[c] # "out"}

ImplementsCaptureSession == Session!Spec

(* After a boot, a resume or the end of a capture (which all leave ready   *)
(* cleared), initialisation ends: the sensor becomes ready or the retries  *)
(* run out, unless power management takes it down or its resume comes      *)
(* while the step it cancelled is running (OnlyRefusalIsStuck).            *)
InitSettles == ~ready /\ ~suspended ~> ready \/ GaveUp \/ suspended \/ resume_refused

(* Motion on a ready sensor gets its registers read, whatever trigger and  *)
(* activity work is ahead of it, unless a capture, a suspend or a restart  *)
(* takes the sensor away first.                                            *)
MotionIsRead ==
  motion /\ ready ~> wq = "burst" \/ capture_active \/ ~ready \/ suspended

=============================================================================
