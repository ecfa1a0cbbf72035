------------------------- MODULE Pmw3610DriverProofs -------------------------
(***************************************************************************)
(* Proofs about Pmw3610Driver for every set of callers, every retry budget *)
(* and every build configuration.                                          *)
(***************************************************************************)
EXTENDS Pmw3610Driver, TLAPS, FiniteSetTheorems

USE DEF pm, work

(* A running step never sees an index above COUNT: only then is ++step     *)
(* within 0..COUNT + 1.                                                    *)
StepBound == wq = "init" => async_init_step <= COUNT

LEMMA TypeInit == Init => TypeOK /\ StepBound
  <1> SUFFICES ASSUME Init PROVE TypeOK /\ StepBound
    OBVIOUS
  <1>1. /\ async_init_step \in 0..COUNT + 1
        /\ async_init_retry_count \in 0..MaxRetry
        /\ current_step \in 0..CONFIGURE
    BY MaxRetryAssumption DEF Init, POWER_UP, COUNT, CONFIGURE
  <1>2. wq \in WqState /\ StepBound
    BY DEF Init, WqState, StepBound
  <1>3. pc \in [Client -> PcState]
    BY DEF Init, PcState
  <1>4. QED
    BY <1>1, <1>2, <1>3 DEF TypeOK, WorkOK, FlagsOK, ValuesOK, Init

(* An action that leaves the init work and the PM state alone.             *)
LEMMA WorkFrame ==
  ASSUME WorkOK, UNCHANGED <<pm, work>>
  PROVE  WorkOK'
  BY Zenon DEF WorkOK

LEMMA WorkStep == WorkOK /\ [Next]_vars => WorkOK'
  <1> SUFFICES ASSUME WorkOK, [Next]_vars PROVE WorkOK'
    OBVIOUS
  <1>1. CASE AsyncInitStart
    BY <1>1, Zenon DEF AsyncInitStart, data, capture, sensor, WorkOK
  <1>2. CASE AsyncInitStepOk
    BY <1>2, Zenon DEF AsyncInitStepOk, HandlerEnds, ScheduleInit, StepMayFinish,
       StepEffect, capture, locals, WorkOK
  <1>3. CASE AsyncInitStepFail
    BY <1>3, Zenon DEF AsyncInitStepFail, HandlerEnds, ScheduleInit, StepMayFinish,
       FailEffect, capture, locals, WorkOK
  <1>4. CASE Move
    BY <1>4, WorkFrame DEF Move, data, capture, kernel, locals
  <1>5. CASE GpioCallback
    BY <1>5, WorkFrame DEF GpioCallback, data, capture, locals, sensor
  <1>6. CASE WorkCallback
    BY <1>6, WorkFrame DEF WorkCallback, data, capture, locals, sensor
  <1>7. CASE ReportCheck
    BY <1>7, WorkFrame DEF ReportCheck, data, capture, kernel, locals, sensor
  <1>8. CASE ReportRead
    BY <1>8, WorkFrame DEF ReportRead, data, capture, kernel
  <1>9. CASE ReportReadFail
    BY <1>9, WorkFrame DEF ReportReadFail, data, capture, kernel, locals, sensor
  <1>10. CASE SmartWrite
    BY <1>10, WorkFrame DEF SmartWrite, data, capture, kernel, locals
  <1>11. CASE SmartFlag
    BY <1>11, WorkFrame DEF SmartFlag, data, capture, kernel, locals, sensor
  <1>12. CASE Unmask
    BY <1>12, WorkFrame DEF Unmask, data, capture, locals, sensor
  <1>13. CASE ActivityChange
    BY <1>13, WorkFrame DEF ActivityChange, data, capture, kernel, locals, sensor
  <1>14. CASE ActivityCheck
    BY <1>14, WorkFrame DEF ActivityCheck, data, capture, kernel, locals, sensor
  <1>15. CASE SetPerformance
    BY <1>15, WorkFrame DEF SetPerformance, data, capture, kernel, locals
  <1>16. CASE Suspend
    BY <1>16, Zenon DEF Suspend, WorkOK
  <1>17. CASE Resume
    BY <1>17, Zenon DEF Resume, ScheduleInit, data, WorkOK
  <1>18. ASSUME NEW c \in Client, CaptureBegin(c) PROVE WorkOK'
    BY <1>18, WorkFrame DEF CaptureBegin, data, kernel, locals, sensor
  <1>19. ASSUME NEW c \in Client, CaptureMask(c) PROVE WorkOK'
    BY <1>19, WorkFrame DEF CaptureMask, data, capture, locals, sensor
  <1>20. ASSUME NEW c \in Client, ForceRunMode(c) PROVE WorkOK'
    BY <1>20, WorkFrame DEF ForceRunMode, data, capture, kernel, locals
  <1>21. ASSUME NEW c \in Client, CaptureCommit(c) PROVE WorkOK'
    BY <1>21, WorkFrame DEF CaptureCommit, data, kernel, locals, sensor
  <1>22. ASSUME NEW c \in Client, CaptureRevert(c) PROVE WorkOK'
    BY <1>22, Zenon DEF CaptureRevert, CloseSession, Recover, ScheduleInit, locals, sensor,
       WorkOK
  <1>23. ASSUME NEW c \in Client, CaptureReadStart(c) PROVE WorkOK'
    BY <1>23, WorkFrame DEF CaptureReadStart, data, capture, kernel, locals, sensor
  <1>24. ASSUME NEW c \in Client, CaptureReadDone(c) PROVE WorkOK'
    BY <1>24, WorkFrame DEF CaptureReadDone, data, capture, kernel, locals
  <1>25. ASSUME NEW c \in Client, CaptureEnd(c) PROVE WorkOK'
    BY <1>25, Zenon DEF CaptureEnd, CloseSession, Recover, ScheduleInit, locals, sensor,
       WorkOK
  <1>26. CASE UNCHANGED vars
    BY <1>26, WorkFrame DEF vars, data, capture, kernel, locals, sensor
  <1>27. QED
    BY <1>1, <1>2, <1>3, <1>4, <1>5, <1>6, <1>7, <1>8, <1>9, <1>10, <1>11,
       <1>12, <1>13, <1>14, <1>15, <1>16, <1>17, <1>18, <1>19, <1>20, <1>21,
       <1>22, <1>23, <1>24, <1>25, <1>26 DEF AsyncInit, Report, Activity,
       CaptureCall, Next

LEMMA FlagsStep == FlagsOK /\ [Next]_vars => FlagsOK'
  <1> SUFFICES ASSUME FlagsOK, [Next]_vars PROVE FlagsOK'
    OBVIOUS
  <1>1. CASE AsyncInitStart
    BY <1>1, Zenon DEF AsyncInitStart, data, capture, sensor, FlagsOK
  <1>2. CASE AsyncInitStepOk
    BY <1>2, Zenon DEF AsyncInitStepOk, HandlerEnds, StepMayFinish,
       StepEffect, capture, locals, FlagsOK
  <1>3. CASE AsyncInitStepFail
    BY <1>3, Zenon DEF AsyncInitStepFail, HandlerEnds, StepMayFinish,
       FailEffect, capture, locals, FlagsOK
  <1>4. CASE Move
    BY <1>4, Zenon DEF Move, data, capture, kernel, locals, FlagsOK
  <1>5. CASE GpioCallback
    BY <1>5, Zenon DEF GpioCallback, data, capture, locals, sensor, FlagsOK
  <1>6. CASE WorkCallback
    BY <1>6, Zenon DEF WorkCallback, data, capture, locals, sensor, FlagsOK
  <1>7. CASE ReportCheck
    BY <1>7, Zenon DEF ReportCheck, data, capture, kernel, locals, sensor,
       FlagsOK
  <1>8. CASE ReportRead
    BY <1>8, Zenon DEF ReportRead, data, capture, kernel, FlagsOK
  <1>9. CASE ReportReadFail
    BY <1>9, Zenon DEF ReportReadFail, data, capture, kernel, locals, sensor,
       FlagsOK
  <1>10. CASE SmartWrite
    BY <1>10, Zenon DEF SmartWrite, data, capture, kernel, locals, FlagsOK
  <1>11. CASE SmartFlag
    BY <1>11, Zenon DEF SmartFlag, data, capture, kernel, locals, sensor,
       FlagsOK
  <1>12. CASE Unmask
    BY <1>12, Zenon DEF Unmask, data, capture, locals, sensor, FlagsOK
  <1>13. CASE ActivityChange
    BY <1>13, Zenon DEF ActivityChange, data, capture, kernel, locals, sensor,
       FlagsOK
  <1>14. CASE ActivityCheck
    BY <1>14, Zenon DEF ActivityCheck, data, capture, kernel, locals, sensor,
       FlagsOK
  <1>15. CASE SetPerformance
    BY <1>15, Zenon DEF SetPerformance, data, capture, kernel, locals, FlagsOK
  <1>16. CASE Suspend
    BY <1>16, Zenon DEF Suspend, capture, locals, sensor, FlagsOK
  <1>17. CASE Resume
    BY <1>17, Zenon DEF Resume, data, capture, locals, sensor, FlagsOK
  <1>18. ASSUME NEW c \in Client, CaptureBegin(c) PROVE FlagsOK'
    BY <1>18, Zenon DEF CaptureBegin, data, kernel, locals, sensor, FlagsOK
  <1>19. ASSUME NEW c \in Client, CaptureMask(c) PROVE FlagsOK'
    BY <1>19, Zenon DEF CaptureMask, data, capture, locals, sensor, FlagsOK
  <1>20. ASSUME NEW c \in Client, ForceRunMode(c) PROVE FlagsOK'
    BY <1>20, Zenon DEF ForceRunMode, data, capture, kernel, locals, FlagsOK
  <1>21. ASSUME NEW c \in Client, CaptureCommit(c) PROVE FlagsOK'
    BY <1>21, Zenon DEF CaptureCommit, data, kernel, locals, sensor, FlagsOK
  <1>22. ASSUME NEW c \in Client, CaptureRevert(c) PROVE FlagsOK'
    BY <1>22, Zenon DEF CaptureRevert, CloseSession, Recover, locals, sensor,
       FlagsOK
  <1>23. ASSUME NEW c \in Client, CaptureReadStart(c) PROVE FlagsOK'
    BY <1>23, Zenon DEF CaptureReadStart, data, capture, kernel, locals, sensor,
       FlagsOK
  <1>24. ASSUME NEW c \in Client, CaptureReadDone(c) PROVE FlagsOK'
    BY <1>24, Zenon DEF CaptureReadDone, data, capture, kernel, locals, FlagsOK
  <1>25. ASSUME NEW c \in Client, CaptureEnd(c) PROVE FlagsOK'
    BY <1>25, Zenon DEF CaptureEnd, CloseSession, Recover, locals, sensor,
       FlagsOK
  <1>26. CASE UNCHANGED vars
    BY <1>26, Zenon DEF vars, data, capture, kernel, locals, sensor, FlagsOK
  <1>27. QED
    BY <1>1, <1>2, <1>3, <1>4, <1>5, <1>6, <1>7, <1>8, <1>9, <1>10, <1>11,
       <1>12, <1>13, <1>14, <1>15, <1>16, <1>17, <1>18, <1>19, <1>20, <1>21,
       <1>22, <1>23, <1>24, <1>25, <1>26 DEF AsyncInit, Report, Activity,
       CaptureCall, Next

LEMMA ValuesStep == ValuesOK /\ StepBound /\ [Next]_vars => ValuesOK'
  <1> SUFFICES ASSUME ValuesOK, StepBound, [Next]_vars PROVE ValuesOK'
    OBVIOUS
  <1>1. CASE AsyncInitStart
    BY <1>1, MaxRetryAssumption DEF AsyncInitStart, data, capture, sensor,
       ValuesOK, WqState, POWER_UP, CONFIGURE, COUNT
  <1>2. CASE AsyncInitStepOk
    <2>1. async_init_step' \in 0..COUNT + 1
      BY <1>2, StepBound DEF AsyncInitStepOk, HandlerEnds, StepMayFinish, StepBound,
         ValuesOK, COUNT
    <2>2. /\ mode' \in {"unknown", "reset", "configured", "grab"}
          /\ perf' \in {"normal", "forced"}
          /\ test_clk' \in {"off", "smart", "grab"}
      BY <1>2 DEF AsyncInitStepOk, HandlerEnds, StepEffect, ValuesOK
    <2>3. QED
      BY <1>2, <2>1, <2>2 DEF AsyncInitStepOk, HandlerEnds, StepMayFinish, locals, ValuesOK,
         WqState
  <1>3. CASE AsyncInitStepFail
    BY <1>3, MaxRetryAssumption DEF AsyncInitStepFail, HandlerEnds, StepMayFinish,
       FailEffect, capture, locals, ValuesOK, WqState, POWER_UP, CONFIGURE, COUNT
  <1>4. CASE Move
    BY <1>4 DEF Move, data, capture, kernel, locals, ValuesOK
  <1>5. CASE GpioCallback
    BY <1>5 DEF GpioCallback, data, capture, locals, sensor, ValuesOK
  <1>6. CASE WorkCallback
    BY <1>6 DEF WorkCallback, data, capture, locals, sensor, ValuesOK, WqState
  <1>7. CASE ReportCheck
    BY <1>7 DEF ReportCheck, data, capture, kernel, locals, sensor, ValuesOK,
       WqState
  <1>8. CASE ReportRead
    BY <1>8 DEF ReportRead, data, capture, kernel, ValuesOK, WqState
  <1>9. CASE ReportReadFail
    BY <1>9 DEF ReportReadFail, data, capture, kernel, locals, sensor, ValuesOK,
       WqState
  <1>10. CASE SmartWrite
    BY <1>10 DEF SmartWrite, data, capture, kernel, locals, ValuesOK, WqState
  <1>11. CASE SmartFlag
    BY <1>11 DEF SmartFlag, data, capture, kernel, locals, sensor, ValuesOK,
       WqState
  <1>12. CASE Unmask
    BY <1>12 DEF Unmask, data, capture, locals, sensor, ValuesOK, WqState
  <1>13. CASE ActivityChange
    BY <1>13 DEF ActivityChange, data, capture, kernel, locals, sensor,
       ValuesOK, WqState
  <1>14. CASE ActivityCheck
    BY <1>14 DEF ActivityCheck, data, capture, kernel, locals, sensor, ValuesOK,
       WqState
  <1>15. CASE SetPerformance
    BY <1>15 DEF SetPerformance, data, capture, kernel, locals, ValuesOK,
       WqState
  <1>16. CASE Suspend
    BY <1>16, MaxRetryAssumption DEF Suspend, capture, locals, sensor, ValuesOK,
       POWER_UP, CONFIGURE, COUNT
  <1>17. CASE Resume
    BY <1>17, MaxRetryAssumption DEF Resume, data, capture, locals, sensor,
       ValuesOK, POWER_UP, CONFIGURE, COUNT
  <1>18. ASSUME NEW c \in Client, CaptureBegin(c) PROVE ValuesOK'
    BY <1>18 DEF CaptureBegin, data, kernel, locals, sensor, ValuesOK, PcState
  <1>19. ASSUME NEW c \in Client, CaptureMask(c) PROVE ValuesOK'
    BY <1>19 DEF CaptureMask, data, capture, locals, sensor, ValuesOK, PcState
  <1>20. ASSUME NEW c \in Client, ForceRunMode(c) PROVE ValuesOK'
    BY <1>20 DEF ForceRunMode, data, capture, kernel, locals, ValuesOK, PcState
  <1>21. ASSUME NEW c \in Client, CaptureCommit(c) PROVE ValuesOK'
    BY <1>21 DEF CaptureCommit, data, kernel, locals, sensor, ValuesOK, PcState
  <1>22. ASSUME NEW c \in Client, CaptureRevert(c) PROVE ValuesOK'
    BY <1>22, MaxRetryAssumption DEF CaptureRevert, CloseSession, Recover,
       locals, sensor, ValuesOK, PcState, POWER_UP, CONFIGURE, COUNT
  <1>23. ASSUME NEW c \in Client, CaptureReadStart(c) PROVE ValuesOK'
    BY <1>23 DEF CaptureReadStart, data, capture, kernel, locals, sensor,
       ValuesOK, PcState
  <1>24. ASSUME NEW c \in Client, CaptureReadDone(c) PROVE ValuesOK'
    BY <1>24 DEF CaptureReadDone, data, capture, kernel, locals, ValuesOK,
       PcState
  <1>25. ASSUME NEW c \in Client, CaptureEnd(c) PROVE ValuesOK'
    BY <1>25, MaxRetryAssumption DEF CaptureEnd, CloseSession, Recover, locals,
       sensor, ValuesOK, PcState, POWER_UP, CONFIGURE, COUNT
  <1>26. CASE UNCHANGED vars
    BY <1>26 DEF vars, data, capture, kernel, locals, sensor, ValuesOK
  <1>27. QED
    BY <1>1, <1>2, <1>3, <1>4, <1>5, <1>6, <1>7, <1>8, <1>9, <1>10, <1>11,
       <1>12, <1>13, <1>14, <1>15, <1>16, <1>17, <1>18, <1>19, <1>20, <1>21,
       <1>22, <1>23, <1>24, <1>25, <1>26 DEF AsyncInit, Report, Activity,
       CaptureCall, Next

LEMMA StepBoundStep == ValuesOK /\ StepBound /\ [Next]_vars => StepBound'
  <1> SUFFICES ASSUME ValuesOK, StepBound, [Next]_vars PROVE StepBound'
    OBVIOUS
  <1>1. CASE AsyncInitStart
    BY <1>1 DEF AsyncInitStart, data, capture, sensor, StepBound, ValuesOK,
       POWER_UP, CONFIGURE, COUNT
  <1>2. CASE AsyncInitStepOk
    BY <1>2 DEF AsyncInitStepOk, HandlerEnds, StepMayFinish,
       StepEffect, capture, locals, StepBound, ValuesOK, POWER_UP, CONFIGURE, COUNT
  <1>3. CASE AsyncInitStepFail
    BY <1>3 DEF AsyncInitStepFail, HandlerEnds, StepMayFinish, capture, locals, StepBound,
       ValuesOK, POWER_UP, CONFIGURE, COUNT
  <1>4. CASE Move
    BY <1>4 DEF Move, data, capture, kernel, locals, StepBound, ValuesOK
  <1>5. CASE GpioCallback
    BY <1>5 DEF GpioCallback, data, capture, locals, sensor, StepBound, ValuesOK
  <1>6. CASE WorkCallback
    BY <1>6 DEF WorkCallback, data, capture, locals, sensor, StepBound, ValuesOK
  <1>7. CASE ReportCheck
    BY <1>7 DEF ReportCheck, data, capture, kernel, locals, sensor, StepBound,
       ValuesOK
  <1>8. CASE ReportRead
    BY <1>8 DEF ReportRead, data, capture, kernel, StepBound, ValuesOK
  <1>9. CASE ReportReadFail
    BY <1>9 DEF ReportReadFail, data, capture, kernel, locals, sensor,
       StepBound, ValuesOK
  <1>10. CASE SmartWrite
    BY <1>10 DEF SmartWrite, data, capture, kernel, locals, StepBound, ValuesOK
  <1>11. CASE SmartFlag
    BY <1>11 DEF SmartFlag, data, capture, kernel, locals, sensor, StepBound,
       ValuesOK
  <1>12. CASE Unmask
    BY <1>12 DEF Unmask, data, capture, locals, sensor, StepBound, ValuesOK
  <1>13. CASE ActivityChange
    BY <1>13 DEF ActivityChange, data, capture, kernel, locals, sensor,
       StepBound, ValuesOK
  <1>14. CASE ActivityCheck
    BY <1>14 DEF ActivityCheck, data, capture, kernel, locals, sensor,
       StepBound, ValuesOK
  <1>15. CASE SetPerformance
    BY <1>15 DEF SetPerformance, data, capture, kernel, locals, StepBound,
       ValuesOK
  <1>16. CASE Suspend
    BY <1>16 DEF Suspend, capture, locals, sensor, StepBound, ValuesOK,
       POWER_UP, CONFIGURE, COUNT
  <1>17. CASE Resume
    BY <1>17 DEF Resume, data, capture, locals, sensor, StepBound, ValuesOK,
       POWER_UP, CONFIGURE, COUNT
  <1>18. ASSUME NEW c \in Client, CaptureBegin(c) PROVE StepBound'
    BY <1>18 DEF CaptureBegin, data, kernel, locals, sensor, StepBound, ValuesOK
  <1>19. ASSUME NEW c \in Client, CaptureMask(c) PROVE StepBound'
    BY <1>19 DEF CaptureMask, data, capture, locals, sensor, StepBound, ValuesOK
  <1>20. ASSUME NEW c \in Client, ForceRunMode(c) PROVE StepBound'
    BY <1>20 DEF ForceRunMode, data, capture, kernel, locals, StepBound,
       ValuesOK
  <1>21. ASSUME NEW c \in Client, CaptureCommit(c) PROVE StepBound'
    BY <1>21 DEF CaptureCommit, data, kernel, locals, sensor, StepBound,
       ValuesOK
  <1>22. ASSUME NEW c \in Client, CaptureRevert(c) PROVE StepBound'
    BY <1>22 DEF CaptureRevert, CloseSession, Recover, locals, sensor,
       StepBound, ValuesOK, POWER_UP, CONFIGURE, COUNT
  <1>23. ASSUME NEW c \in Client, CaptureReadStart(c) PROVE StepBound'
    BY <1>23 DEF CaptureReadStart, data, capture, kernel, locals, sensor,
       StepBound, ValuesOK
  <1>24. ASSUME NEW c \in Client, CaptureReadDone(c) PROVE StepBound'
    BY <1>24 DEF CaptureReadDone, data, capture, kernel, locals, StepBound,
       ValuesOK
  <1>25. ASSUME NEW c \in Client, CaptureEnd(c) PROVE StepBound'
    BY <1>25 DEF CaptureEnd, CloseSession, Recover, locals, sensor, StepBound,
       ValuesOK, POWER_UP, CONFIGURE, COUNT
  <1>26. CASE UNCHANGED vars
    BY <1>26 DEF vars, data, capture, kernel, locals, sensor, StepBound,
       ValuesOK
  <1>27. QED
    BY <1>1, <1>2, <1>3, <1>4, <1>5, <1>6, <1>7, <1>8, <1>9, <1>10, <1>11,
       <1>12, <1>13, <1>14, <1>15, <1>16, <1>17, <1>18, <1>19, <1>20, <1>21,
       <1>22, <1>23, <1>24, <1>25, <1>26 DEF AsyncInit, Report, Activity,
       CaptureCall, Next

(* Every variable keeps its type, and the step index stays within bounds.  *)
THEOREM TypeCorrect == Spec => [](TypeOK /\ StepBound)
  <1>1. TypeOK /\ StepBound /\ [Next]_vars => (TypeOK /\ StepBound)'
    BY WorkStep, FlagsStep, ValuesStep, StepBoundStep DEF TypeOK
  <1>2. QED
    BY TypeInit, <1>1, PTL DEF Spec

-----------------------------------------------------------------------------
(* Why initialisation is stuck only by a refusal.                          *)

(* A sensor that is not ready and not suspended has a step left to run: a  *)
(* pending init work is not refused by the test of the step index.         *)
StepLeft == ~ready /\ ~suspended => async_init_step < COUNT

(* A ready sensor has no init work pending or running.                     *)
ReadyIsQuiet == ready => ~init_work /\ wq # "init"

(* Init work scheduled behind the back of a running step is a restart.     *)
RestartFirst == wq = "init" /\ init_work => async_init_step = POWER_UP

(* A cancellation is that of a running step; nothing is scheduled, and if   *)
(* the sensor is not suspended any more its resume was refused.            *)
CancelInStep ==
  canceling => wq = "init" /\ ~ready /\ ~init_work /\ (suspended \/ resume_refused)

InitInv == StepLeft /\ ReadyIsQuiet /\ RestartFirst /\ CancelInStep /\ OnlyRefusalIsStuck

LEMMA InitInvInit == Init => InitInv
  BY DEF Init, InitInv, StepLeft, ReadyIsQuiet, RestartFirst, CancelInStep,
     OnlyRefusalIsStuck, InitNotStuck, POWER_UP, COUNT

(* An action that leaves the init sequence alone preserves its invariant.  *)
LEMMA InitInvFrame ==
  ASSUME InitInv, UNCHANGED <<data, pm, work>>, wq' = "init" <=> wq = "init"
  PROVE  InitInv'
  BY DEF InitInv, StepLeft, ReadyIsQuiet, RestartFirst, CancelInStep, OnlyRefusalIsStuck,
     InitNotStuck, GaveUp, data

(* A schedule is accepted unless the item is being cancelled.              *)
LEMMA Accepted == ScheduleInit => (init_work' <=> init_work \/ ~canceling)
  BY Zenon DEF ScheduleInit

(* The end of a capture restarts the sequence, or meets a cancelled step.   *)
LEMMA InitInvClose ==
  ASSUME InitInv, NEW c \in Client, CloseSession(c)
  PROVE  InitInv'
  <1>1. /\ ~ready' /\ async_init_step' = POWER_UP
        /\ UNCHANGED <<suspended, canceling, wq>>
    BY DEF CloseSession, Recover
  <1>2. init_work' <=> init_work \/ ~canceling
    BY Accepted DEF CloseSession, Recover
  <1>3. resume_refused' <=> resume_refused /\ canceling
    BY Zenon DEF CloseSession, Recover
  <1>4. QED
    BY <1>1, <1>2, <1>3 DEF InitInv, StepLeft, ReadyIsQuiet, RestartFirst, CancelInStep,
       OnlyRefusalIsStuck, InitNotStuck, POWER_UP, COUNT

LEMMA InitInvStep == TypeOK /\ StepBound /\ InitInv /\ [Next]_vars => InitInv'
  <1> SUFFICES ASSUME TypeOK, StepBound, InitInv, [Next]_vars PROVE InitInv'
    OBVIOUS
  <1> USE DEF TypeOK
  <1>1. CASE AsyncInitStart
    BY <1>1 DEF AsyncInitStart, data, capture, sensor, InitInv, StepLeft, ReadyIsQuiet,
       RestartFirst, CancelInStep, OnlyRefusalIsStuck, InitNotStuck, GaveUp, ValuesOK,
       POWER_UP, COUNT
  <1>2. CASE AsyncInitStepOk
    <2>1. /\ wq = "init" /\ wq' = "idle" /\ ~canceling' /\ ~ready
          /\ async_init_step' = async_init_step + 1
          /\ ready' = IF async_init_step' = COUNT THEN TRUE ELSE ready
          /\ UNCHANGED <<suspended, resume_refused>>
      BY <1>2 DEF AsyncInitStepOk, StepMayFinish, HandlerEnds, InitInv, ReadyIsQuiet
    <2>2. /\ async_init_step' < COUNT => (init_work' <=> init_work \/ ~canceling)
          /\ ~(async_init_step' < COUNT) => init_work' = init_work
      BY <1>2, Accepted DEF AsyncInitStepOk
    <2>3. QED
      BY <2>1, <2>2 DEF InitInv, StepLeft, ReadyIsQuiet, RestartFirst, CancelInStep,
         OnlyRefusalIsStuck, InitNotStuck, ValuesOK, POWER_UP, COUNT
  <1>3. CASE AsyncInitStepFail
    <2> USE DEF InitInv, StepLeft, ReadyIsQuiet, RestartFirst, CancelInStep,
                OnlyRefusalIsStuck, InitNotStuck
    <2>1. /\ wq = "init" /\ wq' = "idle" /\ ~canceling' /\ err'
          /\ UNCHANGED <<ready, suspended, resume_refused>>
      BY <1>3 DEF AsyncInitStepFail, HandlerEnds, StepMayFinish
    <2>2. CASE async_init_retry_count < MaxRetry
      <3>1. async_init_step' = POWER_UP /\ (init_work' <=> init_work \/ ~canceling)
        BY <1>3, <2>2, Accepted DEF AsyncInitStepFail
      <3>2. QED
        BY <2>1, <3>1 DEF POWER_UP, COUNT
    <2>3. CASE ~(async_init_retry_count < MaxRetry)
      <3>1. async_init_retry_count' = MaxRetry /\ UNCHANGED <<async_init_step, init_work>>
        BY <1>3, <2>3, MaxRetryAssumption DEF AsyncInitStepFail, ValuesOK
      <3>2. QED
        BY <2>1, <3>1 DEF GaveUp
    <2>4. QED
      BY <2>2, <2>3
  <1>4. CASE Move
    BY <1>4, InitInvFrame DEF Move, data, capture, kernel, locals
  <1>5. CASE GpioCallback
    BY <1>5, InitInvFrame DEF GpioCallback, data, capture, locals, sensor
  <1>6. CASE WorkCallback
    BY <1>6, InitInvFrame DEF WorkCallback, data, capture, locals, sensor
  <1>7. CASE ReportCheck
    BY <1>7, InitInvFrame DEF ReportCheck, data, capture, kernel, locals, sensor
  <1>8. CASE ReportRead
    BY <1>8, InitInvFrame DEF ReportRead, data, capture, kernel
  <1>9. CASE ReportReadFail
    BY <1>9, InitInvFrame DEF ReportReadFail, data, capture, kernel, locals,
       sensor
  <1>10. CASE SmartWrite
    BY <1>10, InitInvFrame DEF SmartWrite, data, capture, kernel, locals
  <1>11. CASE SmartFlag
    BY <1>11, InitInvFrame DEF SmartFlag, data, capture, kernel, locals, sensor
  <1>12. CASE Unmask
    BY <1>12, InitInvFrame DEF Unmask, data, capture, locals, sensor
  <1>13. CASE ActivityChange
    BY <1>13, InitInvFrame DEF ActivityChange, data, capture, kernel, locals,
       sensor
  <1>14. CASE ActivityCheck
    BY <1>14, InitInvFrame DEF ActivityCheck, data, capture, kernel, locals,
       sensor
  <1>15. CASE SetPerformance
    BY <1>15, InitInvFrame DEF SetPerformance, data, capture, kernel, locals
  <1>16. CASE Suspend
    <2>1. suspended' /\ ~ready' /\ wq' = wq
      BY <1>16 DEF Suspend
    <2>2. /\ init_work' <=> ready /\ init_work
          /\ canceling' <=> canceling \/ (~ready /\ wq = "init")
      BY <1>16, Zenon DEF Suspend
    <2>3. QED
      BY <2>1, <2>2 DEF InitInv, StepLeft, ReadyIsQuiet, RestartFirst, CancelInStep,
         OnlyRefusalIsStuck, InitNotStuck
  <1>17. CASE Resume
    <2>1. ~suspended' /\ UNCHANGED <<ready, canceling, wq>>
      BY <1>17 DEF Resume, data
    <2>2. CASE ready
      BY <1>17, <2>1, <2>2 DEF Resume, data, InitInv, StepLeft, ReadyIsQuiet, RestartFirst,
         CancelInStep, OnlyRefusalIsStuck, InitNotStuck
    <2>3. CASE ~ready
      <3>1. /\ async_init_step' = POWER_UP /\ resume_refused' = canceling
            /\ init_work' <=> init_work \/ ~canceling
        BY <1>17, <2>3, Accepted DEF Resume
      <3>2. QED
        BY <2>1, <2>3, <3>1 DEF InitInv, StepLeft, ReadyIsQuiet, RestartFirst, CancelInStep,
           OnlyRefusalIsStuck, InitNotStuck, POWER_UP, COUNT
    <2>4. QED
      BY <2>2, <2>3
  <1>18. ASSUME NEW c \in Client, CaptureBegin(c) PROVE InitInv'
    BY <1>18, InitInvFrame DEF CaptureBegin, data, kernel, locals, sensor
  <1>19. ASSUME NEW c \in Client, CaptureMask(c) PROVE InitInv'
    BY <1>19, InitInvFrame DEF CaptureMask, data, capture, locals, sensor
  <1>20. ASSUME NEW c \in Client, ForceRunMode(c) PROVE InitInv'
    BY <1>20, InitInvFrame DEF ForceRunMode, data, capture, kernel, locals
  <1>21. ASSUME NEW c \in Client, CaptureCommit(c) PROVE InitInv'
    BY <1>21, InitInvFrame DEF CaptureCommit, data, kernel, locals, sensor
  <1>22. ASSUME NEW c \in Client, CaptureRevert(c) PROVE InitInv'
    BY <1>22, InitInvClose DEF CaptureRevert
  <1>23. ASSUME NEW c \in Client, CaptureReadStart(c) PROVE InitInv'
    BY <1>23, InitInvFrame DEF CaptureReadStart, data, capture, kernel, locals,
       sensor
  <1>24. ASSUME NEW c \in Client, CaptureReadDone(c) PROVE InitInv'
    BY <1>24, InitInvFrame DEF CaptureReadDone, data, capture, kernel, locals
  <1>25. ASSUME NEW c \in Client, CaptureEnd(c) PROVE InitInv'
    BY <1>25, InitInvClose DEF CaptureEnd
  <1>26. CASE UNCHANGED vars
    BY <1>26, InitInvFrame DEF vars, data, capture, kernel, locals, sensor
  <1>27. QED
    BY <1>1, <1>2, <1>3, <1>4, <1>5, <1>6, <1>7, <1>8, <1>9, <1>10, <1>11,
       <1>12, <1>13, <1>14, <1>15, <1>16, <1>17, <1>18, <1>19, <1>20, <1>21,
       <1>22, <1>23, <1>24, <1>25, <1>26 DEF AsyncInit, Report, Activity,
       CaptureCall, Next

(* OnlyRefusalIsStuck for every set of callers, disciplined or not.              *)
THEOREM InitProgress == Spec => []OnlyRefusalIsStuck
  <1>1. InitInv => OnlyRefusalIsStuck
    BY DEF InitInv
  <1>2. QED
    BY TypeCorrect, InitInvInit, InitInvStep, <1>1, PTL DEF Spec

-----------------------------------------------------------------------------
(* Callers that keep their sessions apart.                                 *)

OneUser == \A c, d \in Client : pc[c] # "out" /\ pc[d] # "out" => c = d

ActiveIffUsed == capture_active <=> \E c \in Client : pc[c] # "out"

SessionInv == OneUser /\ ActiveIffUsed

LEMMA SessionInvFrame ==
  ASSUME SessionInv, UNCHANGED <<pc, capture_active>>
  PROVE  SessionInv'
  BY DEF SessionInv, OneUser, ActiveIffUsed

(* The caller inside a session moves on without leaving it.                *)
LEMMA SessionInvKeep ==
  ASSUME ValuesOK, SessionInv, NEW c \in Client, pc[c] # "out", UNCHANGED capture_active,
         \E s \in PcState \ {"out"} : pc' = [pc EXCEPT ![c] = s]
  PROVE  SessionInv'
  BY DEF ValuesOK, SessionInv, OneUser, ActiveIffUsed

LEMMA SessionInvInit == Init => SessionInv
  BY DEF Init, SessionInv, OneUser, ActiveIffUsed

LEMMA SessionInvStep ==
  ASSUME DisjointSessions
  PROVE  TypeOK /\ SessionInv /\ [Next]_vars => SessionInv'
  <1> SUFFICES ASSUME TypeOK, SessionInv, [Next]_vars PROVE SessionInv'
    OBVIOUS
  <1> USE DEF TypeOK
  <1>1. CASE AsyncInitStart
    BY <1>1, SessionInvFrame DEF AsyncInitStart, data, capture, sensor
  <1>2. CASE AsyncInitStepOk
    BY <1>2, SessionInvFrame DEF AsyncInitStepOk, HandlerEnds, StepMayFinish, StepEffect,
       capture, locals
  <1>3. CASE AsyncInitStepFail
    BY <1>3, SessionInvFrame DEF AsyncInitStepFail, HandlerEnds, StepMayFinish, capture,
       locals
  <1>4. CASE Move
    BY <1>4, SessionInvFrame DEF Move, data, capture, kernel, locals
  <1>5. CASE GpioCallback
    BY <1>5, SessionInvFrame DEF GpioCallback, data, capture, locals, sensor
  <1>6. CASE WorkCallback
    BY <1>6, SessionInvFrame DEF WorkCallback, data, capture, locals, sensor
  <1>7. CASE ReportCheck
    BY <1>7, SessionInvFrame DEF ReportCheck, data, capture, kernel, locals,
       sensor
  <1>8. CASE ReportRead
    BY <1>8, SessionInvFrame DEF ReportRead, data, capture, kernel
  <1>9. CASE ReportReadFail
    BY <1>9, SessionInvFrame DEF ReportReadFail, data, capture, kernel, locals,
       sensor
  <1>10. CASE SmartWrite
    BY <1>10, SessionInvFrame DEF SmartWrite, data, capture, kernel, locals
  <1>11. CASE SmartFlag
    BY <1>11, SessionInvFrame DEF SmartFlag, data, capture, kernel, locals,
       sensor
  <1>12. CASE Unmask
    BY <1>12, SessionInvFrame DEF Unmask, data, capture, locals, sensor
  <1>13. CASE ActivityChange
    BY <1>13, SessionInvFrame DEF ActivityChange, data, capture, kernel, locals,
       sensor
  <1>14. CASE ActivityCheck
    BY <1>14, SessionInvFrame DEF ActivityCheck, data, capture, kernel, locals,
       sensor
  <1>15. CASE SetPerformance
    BY <1>15, SessionInvFrame DEF SetPerformance, data, capture, kernel, locals
  <1>16. CASE Suspend
    BY <1>16, SessionInvFrame DEF Suspend, capture, locals, sensor
  <1>17. CASE Resume
    BY <1>17, SessionInvFrame DEF Resume, data, capture, locals, sensor
  <1>18. ASSUME NEW c \in Client, CaptureBegin(c) PROVE SessionInv'
    BY <1>18 DEF CaptureBegin, data, kernel, locals, sensor, SessionInv,
       OneUser, ActiveIffUsed, ValuesOK
  <1>19. ASSUME NEW c \in Client, CaptureMask(c) PROVE SessionInv'
    <2>1. /\ pc[c] # "out"
          /\ UNCHANGED capture_active
          /\ \E s \in PcState \ {"out"} : pc' = [pc EXCEPT ![c] = s]
      BY <1>19 DEF CaptureMask, PcState, capture
    <2>2. QED
      BY <2>1, SessionInvKeep
  <1>20. ASSUME NEW c \in Client, ForceRunMode(c) PROVE SessionInv'
    <2>1. /\ pc[c] # "out"
          /\ UNCHANGED capture_active
          /\ \E s \in PcState \ {"out"} : pc' = [pc EXCEPT ![c] = s]
      BY <1>20 DEF ForceRunMode, PcState, capture
    <2>2. QED
      BY <2>1, SessionInvKeep
  <1>21. ASSUME NEW c \in Client, CaptureCommit(c) PROVE SessionInv'
    <2>1. /\ pc[c] # "out"
          /\ UNCHANGED capture_active
          /\ \E s \in PcState \ {"out"} : pc' = [pc EXCEPT ![c] = s]
      BY <1>21 DEF CaptureCommit, PcState, capture
    <2>2. QED
      BY <2>1, SessionInvKeep
  <1>22. ASSUME NEW c \in Client, CaptureRevert(c) PROVE SessionInv'
    BY <1>22 DEF CaptureRevert, CloseSession, Recover, locals, sensor,
       SessionInv, OneUser, ActiveIffUsed, ValuesOK
  <1>23. ASSUME NEW c \in Client, CaptureReadStart(c) PROVE SessionInv'
    <2>1. /\ pc[c] # "out"
          /\ UNCHANGED capture_active
          /\ \E s \in PcState \ {"out"} : pc' = [pc EXCEPT ![c] = s]
      BY <1>23 DEF CaptureReadStart, PcState, capture
    <2>2. QED
      BY <2>1, SessionInvKeep
  <1>24. ASSUME NEW c \in Client, CaptureReadDone(c) PROVE SessionInv'
    <2>1. /\ pc[c] # "out"
          /\ UNCHANGED capture_active
          /\ \E s \in PcState \ {"out"} : pc' = [pc EXCEPT ![c] = s]
      BY <1>24 DEF CaptureReadDone, PcState, capture
    <2>2. QED
      BY <2>1, SessionInvKeep
  <1>25. ASSUME NEW c \in Client, CaptureEnd(c) PROVE SessionInv'
    BY <1>25 DEF CaptureEnd, CloseSession, Recover, locals, sensor, SessionInv,
       OneUser, ActiveIffUsed, ValuesOK
  <1>26. CASE UNCHANGED vars
    BY <1>26, SessionInvFrame DEF vars, data, capture, kernel, locals, sensor
  <1>27. QED
    BY <1>1, <1>2, <1>3, <1>4, <1>5, <1>6, <1>7, <1>8, <1>9, <1>10, <1>11,
       <1>12, <1>13, <1>14, <1>15, <1>16, <1>17, <1>18, <1>19, <1>20, <1>21,
       <1>22, <1>23, <1>24, <1>25, <1>26 DEF AsyncInit, Report, Activity,
       CaptureCall, Next

LEMMA SessionCorrect ==
  ASSUME DisjointSessions
  PROVE  Spec => [](TypeOK /\ InitInv /\ SessionInv)
  BY TypeCorrect, InitInvInit, InitInvStep, SessionInvInit, SessionInvStep, PTL DEF Spec

LEMMA MotionNotLostStep ==
  SessionInv /\ MotionNotLost /\ [Next]_vars => MotionNotLost'
  <1> SUFFICES ASSUME SessionInv, MotionNotLost, [Next]_vars PROVE MotionNotLost'
    OBVIOUS
  <1>1. CASE AsyncInitStart
    BY <1>1, Zenon DEF AsyncInitStart, data, capture, sensor, MotionNotLost
  <1>2. CASE AsyncInitStepOk
    BY <1>2, Zenon DEF AsyncInitStepOk, HandlerEnds, StepMayFinish,
       StepEffect, capture, locals, MotionNotLost
  <1>3. CASE AsyncInitStepFail
    BY <1>3, Zenon DEF AsyncInitStepFail, HandlerEnds, StepMayFinish, capture, locals,
       MotionNotLost
  <1>4. CASE Move
    BY <1>4, Zenon DEF Move, data, capture, kernel, locals, MotionNotLost
  <1>5. CASE GpioCallback
    BY <1>5, Zenon DEF GpioCallback, data, capture, locals, sensor,
       MotionNotLost
  <1>6. CASE WorkCallback
    BY <1>6, Zenon DEF WorkCallback, data, capture, locals, sensor,
       MotionNotLost
  <1>7. CASE ReportCheck
    BY <1>7, Zenon DEF ReportCheck, data, capture, kernel, locals, sensor,
       MotionNotLost
  <1>8. CASE ReportRead
    BY <1>8, Zenon DEF ReportRead, data, capture, kernel, MotionNotLost
  <1>9. CASE ReportReadFail
    BY <1>9, Zenon DEF ReportReadFail, data, capture, kernel, locals, sensor,
       MotionNotLost
  <1>10. CASE SmartWrite
    BY <1>10, Zenon DEF SmartWrite, data, capture, kernel, locals, MotionNotLost
  <1>11. CASE SmartFlag
    BY <1>11, Zenon DEF SmartFlag, data, capture, kernel, locals, sensor,
       MotionNotLost
  <1>12. CASE Unmask
    BY <1>12, Zenon DEF Unmask, data, capture, locals, sensor, MotionNotLost
  <1>13. CASE ActivityChange
    BY <1>13, Zenon DEF ActivityChange, data, capture, kernel, locals, sensor,
       MotionNotLost
  <1>14. CASE ActivityCheck
    BY <1>14, Zenon DEF ActivityCheck, data, capture, kernel, locals, sensor,
       MotionNotLost
  <1>15. CASE SetPerformance
    BY <1>15, Zenon DEF SetPerformance, data, capture, kernel, locals,
       MotionNotLost
  <1>16. CASE Suspend
    BY <1>16, Zenon DEF Suspend, capture, locals, sensor, MotionNotLost
  <1>17. CASE Resume
    BY <1>17, Zenon DEF Resume, data, capture, locals, sensor, MotionNotLost
  <1>18. ASSUME NEW c \in Client, CaptureBegin(c) PROVE MotionNotLost'
    BY <1>18, Zenon DEF CaptureBegin, data, kernel, locals, sensor,
       MotionNotLost
  <1>19. ASSUME NEW c \in Client, CaptureMask(c) PROVE MotionNotLost'
    <2>1. capture_active'
      BY <1>19 DEF CaptureMask, SessionInv, ActiveIffUsed, capture
    <2>2. QED
      BY <2>1 DEF MotionNotLost
  <1>20. ASSUME NEW c \in Client, ForceRunMode(c) PROVE MotionNotLost'
    BY <1>20, Zenon DEF ForceRunMode, data, capture, kernel, locals,
       MotionNotLost
  <1>21. ASSUME NEW c \in Client, CaptureCommit(c) PROVE MotionNotLost'
    BY <1>21, Zenon DEF CaptureCommit, data, kernel, locals, sensor,
       MotionNotLost
  <1>22. ASSUME NEW c \in Client, CaptureRevert(c) PROVE MotionNotLost'
    BY <1>22 DEF CaptureRevert, CloseSession, Recover, MotionNotLost
  <1>23. ASSUME NEW c \in Client, CaptureReadStart(c) PROVE MotionNotLost'
    BY <1>23, Zenon DEF CaptureReadStart, data, capture, kernel, locals, sensor,
       MotionNotLost
  <1>24. ASSUME NEW c \in Client, CaptureReadDone(c) PROVE MotionNotLost'
    BY <1>24, Zenon DEF CaptureReadDone, data, capture, kernel, locals,
       MotionNotLost
  <1>25. ASSUME NEW c \in Client, CaptureEnd(c) PROVE MotionNotLost'
    BY <1>25 DEF CaptureEnd, CloseSession, Recover, MotionNotLost
  <1>26. CASE UNCHANGED vars
    BY <1>26, Zenon DEF vars, data, capture, kernel, locals, sensor,
       MotionNotLost
  <1>27. QED
    BY <1>1, <1>2, <1>3, <1>4, <1>5, <1>6, <1>7, <1>8, <1>9, <1>10, <1>11,
       <1>12, <1>13, <1>14, <1>15, <1>16, <1>17, <1>18, <1>19, <1>20, <1>21,
       <1>22, <1>23, <1>24, <1>25, <1>26 DEF AsyncInit, Report, Activity,
       CaptureCall, Next

(* MotionNotLost for every set of callers that keep their sessions apart,  *)
(* with or without power management.                                       *)
THEOREM MotionInterruptSafe ==
  ASSUME DisjointSessions
  PROVE  Spec => []MotionNotLost
  <1>1. Init => MotionNotLost
    BY DEF Init, MotionNotLost
  <1>2. QED
    BY SessionCorrect, <1>1, MotionNotLostStep, PTL DEF Spec

-----------------------------------------------------------------------------
(* The sensor after a capture.                                             *)
(*                                                                         *)
(* Without power management a sensor that is not ready is being            *)
(* initialised, nobody captures from it meanwhile, and from the first      *)
(* successful step on its registers are as the power-up reset left them,   *)
(* until CONFIGURE brings it back.                                         *)

CleanRegisters == test_clk # "grab" /\ (perf = "forced" => ForceAwake)

InitInOrder ==
  /\ ~suspended
  /\ wq = "init" => current_step = async_init_step
  /\ ready \/ (~capture_active /\ async_init_step < COUNT)
  /\ wq = "perf" => ForceAwake

ResetIsClean ==
  ~ready /\ async_init_step # POWER_UP => mode = "reset" /\ CleanRegisters

NavInv == InitInOrder /\ ResetIsClean /\ NavigationIsClean

LEMMA NavInvInit == Init => NavInv
  BY DEF Init, NavInv, InitInOrder, ResetIsClean, NavigationIsClean, POWER_UP, COUNT

(* An action that leaves alone what NavInv speaks of preserves it.         *)
LEMMA NavInvFrame ==
  ASSUME NavInv, UNCHANGED <<ready, async_init_step, current_step, capture_active, suspended,
                             mode, perf, test_clk>>,
         wq' \in {"init", "perf"} => wq' = wq
  PROVE  NavInv'
  BY DEF NavInv, InitInOrder, ResetIsClean, NavigationIsClean, CleanRegisters

(* Neither do the transfers of a session matter, for it ends in a reset.   *)
LEMMA NavInvSession ==
  ASSUME NavInv, capture_active, UNCHANGED <<ready, async_init_step, current_step,
                                             capture_active, suspended, wq>>
  PROVE  NavInv'
  BY DEF NavInv, InitInOrder, ResetIsClean, NavigationIsClean

(* The end of a session starts over at POWER_UP. *)
LEMMA NavInvClose ==
  ASSUME InitInv, NavInv, NEW c \in Client, CloseSession(c), ready
  PROVE  NavInv'
  BY DEF CloseSession, Recover, locals, sensor, InitInv, ReadyIsQuiet, NavInv, InitInOrder,
     ResetIsClean, NavigationIsClean, POWER_UP, COUNT

LEMMA NavInvStep ==
  ASSUME ~PmDevice
  PROVE  TypeOK /\ InitInv /\ SessionInv /\ NavInv /\ [Next]_vars => NavInv'
  <1> SUFFICES ASSUME TypeOK, InitInv, SessionInv, NavInv, [Next]_vars PROVE NavInv'
    OBVIOUS
  <1>0. \A c \in Client : pc[c] # "out" => capture_active /\ ready
    BY DEF SessionInv, ActiveIffUsed, NavInv, InitInOrder
  <1>1. CASE AsyncInitStart
    <2>1. /\ ~ready /\ ~capture_active /\ async_init_step < COUNT
          /\ wq' = "init" /\ current_step' = async_init_step
          /\ UNCHANGED <<ready, async_init_step, capture_active, suspended, mode, perf, test_clk>>
      BY <1>1 DEF AsyncInitStart, data, capture, sensor, InitInv, ReadyIsQuiet, NavInv,
         InitInOrder
    <2>2. QED
      BY <2>1 DEF NavInv, InitInOrder, ResetIsClean, NavigationIsClean, CleanRegisters
  <1>2. CASE AsyncInitStepOk
    <2>1. /\ wq = "init" /\ wq' = "idle" /\ ~ready /\ ~capture_active /\ ~suspended
          /\ async_init_step \in 0..CONFIGURE /\ current_step = async_init_step
      BY <1>2 DEF AsyncInitStepOk, HandlerEnds, StepMayFinish, InitInv, ReadyIsQuiet, NavInv,
         InitInOrder, TypeOK, ValuesOK
    <2>2. /\ async_init_step' = async_init_step + 1
          /\ ready' = IF async_init_step' = COUNT THEN TRUE ELSE ready
          /\ StepEffect(async_init_step)
          /\ UNCHANGED <<capture_active, suspended>>
      BY <1>2, <2>1 DEF AsyncInitStepOk, HandlerEnds, capture
    <2>3. CASE async_init_step = POWER_UP
      BY <2>1, <2>2, <2>3 DEF StepEffect, NavInv, InitInOrder, ResetIsClean,
         NavigationIsClean, CleanRegisters, POWER_UP, CONFIGURE, COUNT
    <2>4. CASE async_init_step \in CLEAR_OB1..CHECK_OB1
      BY <2>1, <2>2, <2>4 DEF StepEffect, NavInv, InitInOrder, ResetIsClean,
         NavigationIsClean, CleanRegisters, POWER_UP, CLEAR_OB1, CHECK_OB1, CONFIGURE, COUNT
    <2>5. CASE async_init_step = CONFIGURE
      BY <2>1, <2>2, <2>5 DEF StepEffect, NavInv, InitInOrder, ResetIsClean,
         NavigationIsClean, CleanRegisters, POWER_UP, CONFIGURE, COUNT
    <2>6. QED
      BY <2>1, <2>3, <2>4, <2>5 DEF POWER_UP, CLEAR_OB1, CHECK_OB1, CONFIGURE
  <1>3. CASE AsyncInitStepFail
    <2>1. /\ wq = "init" /\ wq' = "idle" /\ ~ready /\ ~capture_active
          /\ UNCHANGED <<ready, capture_active, suspended, mode, test_clk>>
          /\ async_init_step' \in {async_init_step, POWER_UP}
          /\ FailEffect
      BY <1>3 DEF AsyncInitStepFail, HandlerEnds, StepMayFinish, capture, InitInv,
         ReadyIsQuiet, NavInv, InitInOrder
    <2>2. CleanRegisters => CleanRegisters'
      BY <2>1 DEF FailEffect, CleanRegisters
    <2>3. QED
      BY <2>1, <2>2 DEF NavInv, InitInOrder, ResetIsClean, NavigationIsClean, POWER_UP, COUNT
  <1>4. CASE Move
    BY <1>4, NavInvFrame DEF Move, data, capture, kernel, locals
  <1>5. CASE GpioCallback
    BY <1>5, NavInvFrame DEF GpioCallback, data, capture, locals, sensor
  <1>6. CASE WorkCallback
    BY <1>6, NavInvFrame DEF WorkCallback, data, capture, locals, sensor
  <1>7. CASE ReportCheck
    BY <1>7, NavInvFrame DEF ReportCheck, data, capture, kernel, locals, sensor
  <1>8. CASE ReportRead
    BY <1>8, NavInvFrame DEF ReportRead, data, capture, kernel
  <1>9. CASE ReportReadFail
    BY <1>9, NavInvFrame DEF ReportReadFail, data, capture, kernel, locals
  <1>10. CASE SmartWrite
    <2>1. test_clk # "grab" => test_clk' # "grab"
      BY <1>10 DEF SmartWrite
    <2>2. QED
      BY <1>10, <2>1 DEF SmartWrite, data, capture, kernel, locals, NavInv, InitInOrder,
         ResetIsClean, NavigationIsClean, CleanRegisters
  <1>11. CASE SmartFlag
    BY <1>11, NavInvFrame DEF SmartFlag, data, capture, kernel, locals, sensor
  <1>12. CASE Unmask
    BY <1>12, NavInvFrame DEF Unmask, data, capture, locals, sensor
  <1>13. CASE ActivityChange
    BY <1>13, NavInvFrame DEF ActivityChange, data, capture, kernel, locals, sensor
  <1>14. CASE ActivityCheck
    BY <1>14 DEF ActivityCheck, data, capture, kernel, locals, sensor, NavInv, InitInOrder,
       ResetIsClean, NavigationIsClean, CleanRegisters
  <1>15. CASE SetPerformance
    BY <1>15 DEF SetPerformance, data, capture, kernel, locals, NavInv, InitInOrder,
       ResetIsClean, NavigationIsClean, CleanRegisters
  <1>16. CASE Suspend
    BY <1>16 DEF Suspend
  <1>17. CASE Resume
    BY <1>17 DEF Resume, NavInv, InitInOrder
  <1>18. ASSUME NEW c \in Client, CaptureBegin(c) PROVE NavInv'
    BY <1>18 DEF CaptureBegin, data, kernel, locals, sensor, NavInv, InitInOrder,
       ResetIsClean, NavigationIsClean
  <1>19. ASSUME NEW c \in Client, CaptureMask(c) PROVE NavInv'
    BY <1>19, NavInvFrame DEF CaptureMask, data, capture, locals, sensor
  <1>20. ASSUME NEW c \in Client, ForceRunMode(c) PROVE NavInv'
    BY <1>0, <1>20, NavInvSession DEF ForceRunMode, data, capture, kernel, locals
  <1>21. ASSUME NEW c \in Client, CaptureCommit(c) PROVE NavInv'
    BY <1>21, NavInvFrame DEF CaptureCommit, data, kernel, locals, sensor
  <1>22. ASSUME NEW c \in Client, CaptureRevert(c) PROVE NavInv'
    BY <1>0, <1>22, NavInvClose DEF CaptureRevert
  <1>23. ASSUME NEW c \in Client, CaptureReadStart(c) PROVE NavInv'
    BY <1>23, NavInvFrame DEF CaptureReadStart, data, capture, kernel, locals, sensor
  <1>24. ASSUME NEW c \in Client, CaptureReadDone(c) PROVE NavInv'
    BY <1>0, <1>24, NavInvSession DEF CaptureReadDone, data, capture, kernel, locals
  <1>25. ASSUME NEW c \in Client, CaptureEnd(c) PROVE NavInv'
    BY <1>0, <1>25, NavInvClose DEF CaptureEnd
  <1>26. CASE UNCHANGED vars
    BY <1>26, NavInvFrame DEF vars, data, capture, kernel, locals, sensor
  <1>27. QED
    BY <1>1, <1>2, <1>3, <1>4, <1>5, <1>6, <1>7, <1>8, <1>9, <1>10, <1>11,
       <1>12, <1>13, <1>14, <1>15, <1>16, <1>17, <1>18, <1>19, <1>20, <1>21,
       <1>22, <1>23, <1>24, <1>25, <1>26 DEF AsyncInit, Report, Activity,
       CaptureCall, Next

(* Without power management, a driver that reports motion again after a    *)
(* capture has reset and configured the sensor since the grab, whatever    *)
(* the reports, retries and activity changes in between did to its         *)
(* registers.  With power management it need not have (DriverPmReset.cfg). *)
THEOREM NavigationClean ==
  ASSUME DisjointSessions, ~PmDevice
  PROVE  Spec => []NavigationIsClean
  <1>1. NavInv => NavigationIsClean
    BY DEF NavInv
  <1>2. QED
    BY SessionCorrect, NavInvInit, NavInvStep, <1>1, PTL DEF Spec

-----------------------------------------------------------------------------
(* The driver implements CaptureSession.                                   *)

LEMMA SessionInitMap == Init => Session!Init
  BY DEF Init, Session!Init

LEMMA SessionStepMap ==
  ASSUME DisjointSessions
  PROVE  TypeOK /\ InitInv /\ SessionInv /\ [Next]_vars => [Session!Next]_(Session!vars)
  <1> SUFFICES ASSUME TypeOK, InitInv, SessionInv, [Next]_vars
               PROVE  [Session!Next]_(Session!vars)
    OBVIOUS
  <1> USE DEF TypeOK
  <1>1. CASE AsyncInitStart
    BY <1>1 DEF AsyncInitStart, data, capture, sensor, Session!vars
  <1>2. CASE AsyncInitStepOk
    <2>1. ~ready /\ UNCHANGED <<pc, capture_active>>
      BY <1>2 DEF AsyncInitStepOk, HandlerEnds, StepMayFinish, InitInv, ReadyIsQuiet, capture
    <2>2. CASE ready' /\ ~capture_active
      BY <2>1, <2>2 DEF Session!Next, Session!Up
    <2>3. CASE capture_active \/ ~ready'
      BY <2>1, <2>3 DEF Session!vars
    <2>4. QED
      BY <2>2, <2>3
  <1>3. CASE AsyncInitStepFail
    BY <1>3 DEF AsyncInitStepFail, HandlerEnds, StepMayFinish, capture, locals, Session!vars
  <1>4. CASE Move
    BY <1>4 DEF Move, data, capture, kernel, locals, Session!vars
  <1>5. CASE GpioCallback
    BY <1>5 DEF GpioCallback, data, capture, locals, sensor, Session!vars
  <1>6. CASE WorkCallback
    BY <1>6 DEF WorkCallback, data, capture, locals, sensor, Session!vars
  <1>7. CASE ReportCheck
    BY <1>7 DEF ReportCheck, data, capture, kernel, locals, sensor, Session!vars
  <1>8. CASE ReportRead
    BY <1>8 DEF ReportRead, data, capture, kernel, Session!vars
  <1>9. CASE ReportReadFail
    BY <1>9 DEF ReportReadFail, data, capture, kernel, locals, sensor,
       Session!vars
  <1>10. CASE SmartWrite
    BY <1>10 DEF SmartWrite, data, capture, kernel, locals, Session!vars
  <1>11. CASE SmartFlag
    BY <1>11 DEF SmartFlag, data, capture, kernel, locals, sensor, Session!vars
  <1>12. CASE Unmask
    BY <1>12 DEF Unmask, data, capture, locals, sensor, Session!vars
  <1>13. CASE ActivityChange
    BY <1>13 DEF ActivityChange, data, capture, kernel, locals, sensor,
       Session!vars
  <1>14. CASE ActivityCheck
    BY <1>14 DEF ActivityCheck, data, capture, kernel, locals, sensor,
       Session!vars
  <1>15. CASE SetPerformance
    BY <1>15 DEF SetPerformance, data, capture, kernel, locals, Session!vars
  <1>16. CASE Suspend
    <2>1. ~ready' /\ UNCHANGED <<pc, capture_active>>
      BY <1>16 DEF Suspend, capture
    <2>2. CASE ready /\ ~capture_active
      BY <2>1, <2>2 DEF Session!Next, Session!Down
    <2>3. CASE capture_active \/ ~ready
      BY <2>1, <2>3 DEF Session!vars
    <2>4. QED
      BY <2>2, <2>3
  <1>17. CASE Resume
    <2>1. UNCHANGED <<ready, pc, capture_active>>
      BY <1>17 DEF Resume, data, capture
    <2>2. QED
      BY <2>1 DEF Session!vars
  <1>18. ASSUME NEW c \in Client, CaptureBegin(c) PROVE [Session!Next]_(Session!vars)
    <2>1. ready /\ ready' /\ ~capture_active /\ capture_active'
      BY <1>18 DEF CaptureBegin, data, SessionInv, ActiveIffUsed
    <2>2. {d \in Client : pc[d] # "out"} = {}
      BY <1>18 DEF CaptureBegin
    <2>3. {d \in Client : pc'[d] # "out"} = {c}
      BY <1>18, <2>2 DEF CaptureBegin, ValuesOK
    <2>4. Session!Open(c)
      BY <2>1, <2>2, <2>3 DEF Session!Open
    <2>5. QED
      BY <2>4 DEF Session!Next
  <1>19. ASSUME NEW c \in Client, CaptureMask(c) PROVE [Session!Next]_(Session!vars)
    <2>1. UNCHANGED <<ready, capture_active>>
      BY <1>19 DEF CaptureMask, capture, data
    <2>2. \A d \in Client : pc'[d] # "out" <=> pc[d] # "out"
      BY <1>19 DEF CaptureMask, ValuesOK
    <2>3. QED
      BY <2>1, <2>2 DEF Session!vars
  <1>20. ASSUME NEW c \in Client, ForceRunMode(c) PROVE [Session!Next]_(Session!vars)
    <2>1. UNCHANGED <<ready, capture_active>>
      BY <1>20 DEF ForceRunMode, capture, data
    <2>2. \A d \in Client : pc'[d] # "out" <=> pc[d] # "out"
      BY <1>20 DEF ForceRunMode, ValuesOK
    <2>3. QED
      BY <2>1, <2>2 DEF Session!vars
  <1>21. ASSUME NEW c \in Client, CaptureCommit(c) PROVE [Session!Next]_(Session!vars)
    <2>1. UNCHANGED <<ready, capture_active>>
      BY <1>21 DEF CaptureCommit, data
    <2>2. \A d \in Client : pc'[d] # "out" <=> pc[d] # "out"
      BY <1>21 DEF CaptureCommit, ValuesOK
    <2>3. QED
      BY <2>1, <2>2 DEF Session!vars
  <1>22. ASSUME NEW c \in Client, CaptureRevert(c) PROVE [Session!Next]_(Session!vars)
    <2>1. pc[c] # "out" /\ capture_active /\ ~capture_active' /\ ~ready'
      BY <1>22 DEF CaptureRevert, CloseSession, Recover, SessionInv, ActiveIffUsed
    <2>2. {d \in Client : pc[d] # "out"} = {c}
      BY <2>1 DEF SessionInv, OneUser
    <2>3. {d \in Client : pc'[d] # "out"} = {}
      BY <1>22, <2>2 DEF CaptureRevert, CloseSession, ValuesOK
    <2>4. Session!Close(c)
      BY <2>1, <2>2, <2>3 DEF Session!Close
    <2>5. QED
      BY <2>4 DEF Session!Next
  <1>23. ASSUME NEW c \in Client, CaptureReadStart(c) PROVE [Session!Next]_(Session!vars)
    <2>1. UNCHANGED <<ready, capture_active>>
      BY <1>23 DEF CaptureReadStart, capture, data
    <2>2. \A d \in Client : pc'[d] # "out" <=> pc[d] # "out"
      BY <1>23 DEF CaptureReadStart, ValuesOK
    <2>3. QED
      BY <2>1, <2>2 DEF Session!vars
  <1>24. ASSUME NEW c \in Client, CaptureReadDone(c) PROVE [Session!Next]_(Session!vars)
    <2>1. UNCHANGED <<ready, capture_active>>
      BY <1>24 DEF CaptureReadDone, capture, data
    <2>2. \A d \in Client : pc'[d] # "out" <=> pc[d] # "out"
      BY <1>24 DEF CaptureReadDone, ValuesOK
    <2>3. QED
      BY <2>1, <2>2 DEF Session!vars
  <1>25. ASSUME NEW c \in Client, CaptureEnd(c) PROVE [Session!Next]_(Session!vars)
    <2>1. pc[c] # "out" /\ capture_active /\ ~capture_active' /\ ~ready'
      BY <1>25 DEF CaptureEnd, CloseSession, Recover, SessionInv, ActiveIffUsed
    <2>2. {d \in Client : pc[d] # "out"} = {c}
      BY <2>1 DEF SessionInv, OneUser
    <2>3. {d \in Client : pc'[d] # "out"} = {}
      BY <1>25, <2>2 DEF CaptureEnd, CloseSession, ValuesOK
    <2>4. Session!Close(c)
      BY <2>1, <2>2, <2>3 DEF Session!Close
    <2>5. QED
      BY <2>4 DEF Session!Next
  <1>26. CASE UNCHANGED vars
    BY <1>26 DEF vars, data, capture, kernel, locals, sensor, Session!vars
  <1>27. QED
    BY <1>1, <1>2, <1>3, <1>4, <1>5, <1>6, <1>7, <1>8, <1>9, <1>10, <1>11,
       <1>12, <1>13, <1>14, <1>15, <1>16, <1>17, <1>18, <1>19, <1>20, <1>21,
       <1>22, <1>23, <1>24, <1>25, <1>26 DEF AsyncInit, Report, Activity,
       CaptureCall, Next

(* A sensor that navigates again after a capture went through the whole    *)
(* re-initialisation: every behaviour of the driver is one of              *)
(* CaptureSession, whatever interrupts, works and PM calls come between.   *)
THEOREM DriverRefinesSession ==
  ASSUME DisjointSessions
  PROVE  Spec => ImplementsCaptureSession
  BY SessionCorrect, SessionInitMap, SessionStepMap, PTL DEF Spec, ImplementsCaptureSession,
     Session!Spec
=============================================================================
