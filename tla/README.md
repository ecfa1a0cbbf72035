# PMW3610 driver: TLA+ models and proofs

Models, model-checking runs and machine-checked proofs for this repository: a
Zephyr/ZMK driver for the PMW3610 optical sensor whose registers, settings and
raw frames can be reached from a web client over ZMK's Studio RPC, on split
keyboards through a relay from the central half to the peripheral half. Paths
below are relative to the repository root.

## 1. Inventory

| Component | State it keeps | Operations | Talks to |
|---|---|---|---|
| Driver core (`src/pmw3610.c`, `src/pixart.h`) | `ready`, `async_init_step`, `async_init_retry_count`, `err`, `sw_smart_flag`, the interrupt mask, two work items, PM state | init steps POWER_UP, CLEAR_OB1, CHECK_OB1, CONFIGURE; GPIO callback; trigger work; activity listener; suspend, resume | sensor over SPI; system workqueue |
| Frame capture session (same file) | `capture_active`, `capture_mode_active`, `data->lock` | `pmw3610_frame_capture_begin/read/end`, `pmw3610_capture_frame` | driver core (it ends in a re-initialisation) |
| Motion report (same file) | `dx`, `dy`, `last_smp_time`, `last_rpt_time` | `pmw3610_report_data` | input subsystem |
| Runtime configuration (same file) | `data->runtime` under `data->lock` | setters with range tests, register conversion | CONFIGURE, settings bridge |
| Register access (same file) | the sensor's clock window and register page | `pmw3610_write` (clock on, write, clock off), reads, sequences on page 1 | SPI, from three threads |
| Settings bridge (`src/settings/`) | one persisted setting per parameter and device | a pass of setters at boot, after `settings_load()`, after every change | runtime configuration |
| Request execution (`src/studio/pmw3610_request_exec.c`) | `frame_buf`, `frame_id`, `frame_stream_active`, `frame_stream_session_active`, `frame_stream_device_index` - all without a lock | CaptureFrame, GetFrameChunk, SetFrameStream, the streaming loop, stops on Studio lock and link loss | capture session, notifications |
| RPC handler (`src/studio/pmw3610_handler.c`) | none of its own | decode, execute locally or relay, encode | request execution, relay |
| Split relay (`src/split/pmw3610_relay.c`) | one pending request (peripheral), one pending response (central), request ids | relay, execute on the low-priority workqueue, answer | request execution, web client |
| Web client (`web/src/`) | pending request ids, partial frames | request correlator with timeouts, frame assembly, panels | RPC |
| Settings id, API stub, protocol, tests | constants | - | - |

What is hard here is not the arithmetic but the threads. The GPIO interrupt, the
system workqueue, the low-priority workqueue, the Studio RPC thread, the thread
that raises lock and link events and the caller of the PM hooks share a handful
of flags, many of them without a lock, and the driver sleeps and waits for SPI
in the middle of almost everything. Behaviours that unit tests hardly reach:

- a flag read before a wait and used after it (`async_init_step`, `ready`,
  `already_active`, the copy of the runtime config);
- an interrupt that is masked by three parties and unmasked by one;
- an initialisation sequence that five events restart, each by storing a step
  number and scheduling a work item;
- a capture session of which begin, read and end come from different callers
  and of which every exit must reset the sensor exactly once;
- parameters whose ranges depend on each other, applied by two threads in passes;
- single-slot buffers in the relay, overwritten by the next message while a work
  item decodes them, and a client that gives up while the firmware goes on;
- sequences of SPI transfers that are only composite for those who hold the lock.

What makes each component correct: *driver* - motion is never lost for good,
initialisation always has somebody who continues it, navigation never resumes in
a state a capture left; *capture session* - one user at a time, left only
through a reset; *request execution* - every stop leads to the end of the
session, no session is forgotten, a frame id names the bytes of one capture;
*runtime configuration and settings* - what was set last is what the sensor has,
and what was accepted can be configured; *motion report* - no motion is counted
twice, lost or reported long after it happened, and events keep their distance;
*split relay and client* - a call gets its own answer, tagged with the half that
gave it, and does not wait for nothing; *register access* - a sequence of
transfers is not taken apart by another thread.

## 2. Modules

| Module | Models |
|---|---|
| `CaptureSession` | abstract: the three phases of a sensor (starting, navigating, session) and who holds the session |
| `Pmw3610Driver` | one device instance: init work, motion interrupt and trigger work, activity listener, capture callers, suspend/resume; implements `CaptureSession` |
| `Pmw3610DriverProofs` | theorems about `Pmw3610Driver` |
| `FrameStream` | requests, streaming loop and stop events of one firmware image; uses of each device implement `CaptureSession` |
| `RuntimeConfig` | settings, runtime config and registers of the rest modes' sample and downshift times |
| `RuntimeConfigProofs` | theorems about `RuntimeConfig` |
| `FrameStreamProofs` | theorems about `FrameStream` |
| `MotionReport` | the conversion, orientation, accumulation, interval and clamp of `pmw3610_report_data` |
| `MotionReportProofs` | theorems about `MotionReport` |
| `SplitRelay` | a relayed request from the web client through the central to the peripherals and back |
| `SplitRelayProofs` | theorems about `SplitRelay` |
| `RelayedCall` | abstract: one call of the web client, settled once, with an answer of its own, or failed |
| `RelayedCallProofs` | `SplitRelay` implements `RelayedCall` for every call; where its answers come from |
| `RegisterAccess` | the single transfers of the workqueue, of the RPC thread and of the low-priority queue on the bus |
| `RegisterAccessProofs` | what the lock does protect in `RegisterAccess` |
| `MCPmw3610Driver`, `MCFrameStream`, `MCRuntimeConfig`, `MCMotionReport` | symmetry sets and constants for TLC |

`CaptureSession` is the joint between the parts. `Pmw3610Driver` implements it
when its callers keep their sessions apart (`DisjointSessions`). `FrameStream`
does not keep them apart by itself: it does for a host that lets a capture drain
before it starts another (`PatientHost`; new parameters for a running stream may
come at any time). That is an obligation of the host. The web client of this
repository does not keep it: `FrameViewer.tsx` enables Start and Capture again as
soon as it has asked for a stop (291-298, 441-458), and the firmware has no sign
that a stream has drained. Section 5 lists what happens then. On a split
peripheral, whose requests and loop share a queue, the sessions, reads and frames
are checked and proved for any host. `RelayedCall` is what the web
client promises the panel that makes a call; `SplitRelay` is the keyboard and the
link behind it. What a request does is in `FrameStream`, how it
gets to the right half in `SplitRelay`; when a report runs and what it does to
the sensor is in `Pmw3610Driver`, what it makes of the motion in `MotionReport`.

### `Pmw3610Driver`

An action is what one thread does between two points where it may block: an SPI
transfer, a sleep, or `data->lock`. The variables carry the names of the fields
of `struct pixart_data`; `wq` and `pc` say where the system workqueue and each
capture caller are. The workqueue runs one item at a time, so one `wq` is
enough for the init work, the trigger work and the activity listener. The
sensor is reduced to what its registers are set up for (`mode`, `perf`,
`test_clk`) and its motion pin.

Of a delayable work item there is what decides whether it runs: `init_work` (it
is scheduled) and `canceling`. `pmw3610_suspend` cancels the init work of a sensor
that is not ready; when a step of it is running, the kernel marks the item
`K_WORK_CANCELING` until the handler returns and refuses every `k_work_schedule`
meanwhile - the handler's own, that of a resume, that of the end of a capture.
`ScheduleInit` is `k_work_schedule` with that refusal. `resume_refused` records
for the properties that a resume met it and that nothing was accepted since.

Two choices err on different sides. The model lets any two threads interleave at
the points above, although some are cooperative on the real scheduler: it has
more behaviours, so what holds in it holds in the code, and the violations
reported below need only switches at SPI transfers. `Suspend` is one step: the
hooks run on the PM thread, and the failures of its GPIO calls are not modelled.

`PmDevice` is `CONFIG_PM_DEVICE`. `NavigationIsClean` holds only without it:
with suspend and resume in the middle of a session it is violated
(`driver_pm_reset`, section 5).

### `FrameStream`

`stream` and `rpc` are the positions of `frame_stream_work_handler` and of the
request being executed. On a peripheral both run on the low-priority workqueue,
whose pending items are `queue` (an item that is already pending keeps its
place); on a central requests run on the RPC thread and race with the loop. Of
the driver there is what its capture functions show: `ready`, `capture_active`,
and `data->lock` held by a read. The frame buffer is a function from chunks to
whose bytes they are. Times are abstracted: a wait ends, with either outcome.

### `RuntimeConfig`

`setting`, `runtime`, `rt` and `register` are the four copies of a value between
the settings storage and the sensor. Two threads run the same setters: the one
that loads or changes settings (`host` counts its setters of a pass) and the
init work in CONFIGURE (`init`, `init_pos`). A setter is one step with the read
of its setting: it holds `data->lock` from its test to the end of the register
write; only the first thread changes settings; and the workqueue's thread is
cooperative, so nothing but the end of a setter that holds the lock can come
between its read and its lock. `QuietConfigure` says that no setter of the other
thread runs while CONFIGURE writes its copy.

Only the sample and downshift times of rest1 and rest2 are kept: they are the
parameters whose range tests refer to another parameter. SPI failures of
CONFIGURE are left out (the driver model has them), so that the one way it can
fail is a pair it refuses.

### `MotionReport`

One report is one step: reports run one at a time on the workqueue, nobody else
touches `dx`, `dy`, `last_smp_time` and `last_rpt_time`, and the runtime config
is copied at the beginning. The registers are split as on the chip (`Low` values
of a low byte, `High` of each half of the shared high byte), so that widths are
parameters: the proofs are for all of them, the run is for three bits. `trace`,
`sampled` and `last` record the samples and the last event for the properties and
guard nothing; `MaxTime` and `MaxSamples` bound the uptime and the trace.

### `SplitRelay`

The client's calls (`call`: idle, in the RPC, waiting for an answer, collecting a
broadcast's answers), the central's counter, its response buffer with work item
and handler, and for every peripheral the request buffer with work item and
handler, joined by two FIFO links per peripheral. A handler decodes a buffer in
two steps, the id and the body, because the receiving thread overwrites the
buffer whenever it likes; when the two halves are of different messages the
decoded copy is torn or the decoder fails. A work item that is submitted while it
runs runs again; one that is pending stays pending once. What fails: the client's
6 s timer at any time, a link that drops what it carries, a notification that is
not sent, restarts of either half (`MaxRestarts` bounds those of the central).
Calls overlap as they like: several panels are mounted together (`App.tsx:31-33`)
and `SensorInfo.tsx:171-180` polls every second whether or not the poll before has
been answered. `lost` records the calls of which a message was lost, and a call is
`Overtaken` when a later request has been relayed.

`ImplementsRelayedCall` is one instance of `RelayedCall` per call: its phase is
where the client's promise is (`PhaseOf`: a call is waiting from the RPC on, a
broadcast is collecting), its answers are those the panel has been given
(`GivenTo`: what the reply of the RPC carries counts when it arrives), and
`exposed` is that the call has been overtaken or the central has restarted: from
then on the single buffers, or the repeated ids, may hand it the answer of another
call. The answers that are a call's own are those of its id from the half they
name (`AnswersTo`).

### `RegisterAccess`

`page`, `clock` and `performance` of the sensor, and for each of three threads
the operation it is at (`op`) and the transfers it has yet to do (`todo`). A step
is one transfer. The workqueue reads motion, follows the activity state and
initialises the sensor after a capture, all without `data->lock` but for the
resolution. The RPC thread runs the setters and WriteRegister with the lock, and
begins a capture without it; frames are read with the lock, on the RPC thread
(CaptureFrame) or on the low-priority queue (a stream). Two sequences use page 1:
`pmw3610_set_cpi_locked` and the `arm_seq` of a 3-wire frame. WriteRegister takes
any address, the page select included; `page_by` records which operation wrote
the page select last. Transfers do not fail here, and there is no suspend.

## 3. Runs

Passing:

| Run | Shows | Bounds |
|---|---|---|
| `driver_capture` | `NavigationIsClean`: with two callers, the smart algorithm and 3-wire captures, without force-awake (so that the forced run mode of a capture would show), a driver that is ready and not capturing has a sensor that was reset and configured after the last grab, with the test clock and the forced run mode gone; `MotionNotLost` and the refinement of `CaptureSession` | 2 callers, 2 retries |
| `driver_pm` | with suspend and resume anywhere and force-awake: `OnlyRefusalIsStuck` (nothing but a resume that the kernel refused leaves the sensor waiting for nobody), `InitSettles`, `MotionIsRead`, `MotionNotLost`, `TypeOK` and the refinement of `CaptureSession` | 1 caller, 2 retries |
| `stream_peripheral` | `WorkFollowsActive`, `ReadsInSession`, `StreamedFrameIsWhole`, `SessionsAreEnded`, `StopIsNoticed`, `SensorIsReleased`, with a host that sends anything at any time | 1 device, 2 chunks |
| `stream_central` | the stream and CaptureFrame use two sensors one session at a time (refinement of `CaptureSession`), `ReadsInSession`, `StreamedFrameIsWhole`, `SessionsAreEnded`, `TypeOK`, with a host that lets a capture drain, new parameters for a running stream and locks at any time | 2 devices, 2 chunks, 2 notification attempts |
| `config_apply` | `RuntimeFollowsSettings`, `SettingsReachSensor`, `ValidSettingsComeUp`, `TypeOK`: `settings_load()` at any time of the initialisation, then any changes, captures and restarts | 2 rest modes, 3 sample times, 2 downshift times each, 1 retry |
| `relay_calls` | `AnswersOwnCall`, `AnswerOnItsWay`, `CallsAreAnswered`, `TypeOK` and the refinement of `RelayedCall`: local, relayed and broadcast calls that overlap, with timeouts, lost links and restarts of both halves at any time | 2 calls, 1 peripheral, 1 restart of the central |
| `motion_report` | `EventIsSum`, `NoStaleMotion`, `EventsAreSpaced`, `TypeOK`, with interval and axis flags changed between any two samples | deltas of 3 bits, events of 4; intervals 0, 2, 3 ms and one that is refused; 4 ms of uptime, 3 samples between events |

Why the bounds are enough. Retries: 1 or 2 instead of 10 and of 50 reach both
branches of every budget test, and the theorems that mention the retry budget
hold for every one. Two callers and two devices are what the code's conditions
compare; no condition relates three, and with suspend and resume one caller
already meets itself (`driver_pm_reset`). Two chunks tell a first, a last, a missing
and a torn chunk apart. The times are chosen around the Kconfig defaults so that
some pairs fit (10 or 40 ms with 5000 ms) and some do not (400 ms with 5000 ms),
in both directions and at both ends of the range. Two calls are a late answer and
the call it could be mistaken for, two requests in one buffer, and after a restart
an id that is given out twice; the theorems are about any number of them. Three-bit
deltas with four-bit events let two samples fit an event and three overflow it,
and 4 ms let motion be held back, reported, and purged under each interval. No
run has a state constraint: all state spaces are explored completely. Deadlock is
checked in every passing run but `motion_report`, whose bounds stop the time.

The runs that expect a violation are in section 5.

### Fairness

`Pmw3610Driver`: a workqueue runs its items in the order they were submitted,
so an item that is pending again and again runs (strong fairness of the two
work items, the listener and the steps that need `data->lock`, which Zephyr's
mutex hands to the waiter); every SPI transfer, sleep or poll is bounded (weak
fairness of the steps that follow). `FrameStream`: the same, and a request that
is queued on a peripheral is executed. `RuntimeConfig`: the init work runs when
its delay is over and a pass that has begun goes on; the latter is strong
because it may have to wait for CONFIGURE under `QuietConfigure`. `SplitRelay`:
the threads, workqueues and links go on, each handler finishes, and the window of
a broadcast ends; all of it weak, for none of these steps is disabled by another
before it is taken. `CallsAreAnswered` does not need the 6 s timer, and the timer
is not promised. Nothing is
promised of the environment: no new motion, request, capture, lock, link change,
suspend or setting change is ever assumed to happen, and retries may run out.

## 4. What is proved

| Theorem | Says | Assumes |
|---|---|---|
| `TypeCorrect` | `TypeOK` and `StepBound` | - |
| `InitProgress` | `OnlyRefusalIsStuck` | - |
| `MotionInterruptSafe` | `MotionNotLost` | `DisjointSessions` |
| `NavigationClean` | `NavigationIsClean` | `DisjointSessions`, no `PmDevice` |
| `DriverRefinesSession` | `ImplementsCaptureSession` of `Pmw3610Driver` | `DisjointSessions` |
| `ConfigTypeCorrect` | `TypeOK` of `RuntimeConfig`: what is written to a register fits its 8 bits | - |
| `RuntimeFollows` | `RuntimeFollowsSettings` | - |
| `SettingsReach` | `SettingsReachSensor` | `QuietConfigure` |
| `StreamTypeCorrect` | `TypeOK` of `FrameStream` | - |
| `StreamIsScheduled` | `WorkFollowsActive` | `SplitPeripheral` |
| `StreamedFramesAreWhole` | `StreamedFrameIsWhole` | `SplitPeripheral` or `PatientHost` |
| `ReadsAreInSession` | `ReadsInSession` | `SplitPeripheral` and one device, or `PatientHost` |
| `NoSessionIsForgotten` | `SessionsAreEnded` | `SplitPeripheral` and one device, or `PatientHost` |
| `RelayTypeCorrect` | `TypeOK` of `SplitRelay` | - |
| `AnswersAreOwn` | `AnswersOwnCall` | one peripheral |
| `AnswersAreOnTheirWay` | `AnswerOnItsWay` | at least one peripheral |
| `RelayImplementsCall` | `ImplementsRelayedCall` | one peripheral |
| `AnswersAreTagged` | `CorrectlyTagged`: an answer is from the half it says | one peripheral |
| `ConvertInverts` | the driver reads the deltas the sensor had | - |
| `ReportTypeCorrect` | `TypeOK` of `MotionReport`: an event fits its 16 bits | - |
| `EventsKeepInterval` | `EventsAreSpaced` | - |
| `EventsAreSums` | `EventIsSum` | - |
| `MotionIsFresh` | `NoStaleMotion` | - |
| `CpiKeepsItsPage` | `pmw3610_set_cpi_locked` writes RES_STEP on page 1 only | - |
| `OnlySelectsDisturb` | apart from a page the client selected, a transfer meets page 1 only inside the sequence that selected it, or without the lock between another thread's selects | - |

All of them hold for every value of the constants that satisfies the named
ASSUMEs of the modules. A dash means that nothing is assumed of the callers.

*Driver.* `TypeOK` is not inductive: a running step increments
`async_init_step`, which suspend may have set to `COUNT` meanwhile, so the index
can pass `COUNT`; `StepBound` says that it does so at most once, because no step
runs then. `InitInv` strengthens `OnlyRefusalIsStuck`: there is a step left to run
while the sensor is neither ready nor suspended (`StepLeft`), a ready sensor has
no init work (`ReadyIsQuiet`), work that is scheduled behind the back of a
running step is a restart (`RestartFirst`), which the increment cannot push past
the end, and a cancellation is that of a running step, with nothing scheduled, of
a sensor that is still suspended or whose resume was refused (`CancelInStep`).
That the escape is needed is `driver_pm_refused`.
`SessionInv` counts the callers: at most one is inside a session, and one is
exactly while `capture_active` is set. `MotionNotLost` and the refinement need it,
because both are about what another caller could do in the middle of a session.
The refinement maps every action either to `Up`, `Down`, `Open`, `Close` or to a
stutter. `NavInv` follows a re-initialisation: nobody captures from a sensor that
is not ready and no step is stored behind a running one (`InitInOrder`), and from
the first successful step on the registers are as the reset left them
(`ResetIsClean`). Every assumption is needed: `driver_pm_reset` is the
counterexample with suspend and resume.

*Runtime configuration.* `RuntimeFollowsSettings` speaks only of the end of a
pass. Inductive is `PassInv`: the first `host` setters of the pass have taken
effect. `SetterKeeps` shows that no setter of either thread takes that back,
`SetterReaches` that the next one takes effect - a downshift setter because the
sample time it is tested against is already there, which is why the pass sets
sample times first. The theorem needs no `QuietConfigure`: CONFIGURE's copy can
miss an update, `data->runtime` cannot. `DownshiftFits` is the arithmetic of
`pmw3610_set_downshift_time`: a value that passes its range test, divided by the
unit, is at most 255. `SensorInv` carries the values on to the registers. While
CONFIGURE writes, its copy is the runtime config and the registers it has come
through are those of the copy (`CopyWritten`; here `QuietConfigure` is needed,
`config_lost_update` is the counterexample without it). On a ready sensor the
rates follow the runtime config at every moment, but a new sample time leaves the
downshift register behind; that register is right again as far as the second
half of the pass has come (`DownshiftsReached`).

*Request execution.* The type invariant needs that no work item is queued twice
(`QueuedOnce`), which bounds the queue. There are two reasons for which the loop
and a request keep out of each other's way, and the theorems hold for either. On a
peripheral both run on one queue (`Exclusive`), whatever the host sends;
`ScheduleInv` adds that an active stream is scheduled also between the two
statements of the enable path, and `SessionInv` whose session a capturing device
is in, if there is one device. With a patient host, on either half and for any
number of devices, `PatientInv` says that a request that takes a sensor finds the
loop neither running nor scheduled, that new parameters are for the sensor the
stream has, and whose session a capturing device is in. The module also proves from
it that such a host's stream and CaptureFrame refine `CaptureSession`
(`StreamRefinesSession`); it is not listed above because it says what a host would
have to do, and not what this code and its client do. Both give `BufferIsFree`, that no capture fills the buffer while the
loop runs, and from it alone follows `FrameInv`, what part of the buffer a read
has filled and a loop has sent. With neither assumption these are false
(section 5).

*Split relay.* With one peripheral, all that is under way - in the links, the
buffers, the work items and the decoded copies - carries ids in the order in which
they were given out, none newer than the counter, and a body that is never that of
an earlier call than the id's (`OrderInv`): a buffer is decoded id first, so what
overwrites it in between is a later message. So a torn message gives a call the
answer of a later call or none, never that of an earlier one. That the newest call
has its answer on its way is about the rear of that order (`WayInv`): the last
message anywhere is the newest request or its answer, and overwriting a buffer only
removes older ones. This holds per peripheral and therefore for any number of
them, and after a restart of the central as well.

The refinement of `RelayedCall` takes three more facts (`CallInv`): a call has been
given nothing before its reply, and only a broadcast collects (`ServeInv`);
what is under way comes from a peripheral (`SourceInv`); and every answer names
the half that gave it. The last is the one that needs one peripheral: the source is
read from the buffer after the payload was decoded, and with one peripheral both
are of that half even when the payload was overwritten in between; with two,
`relay_sources` is the counterexample. Then every step but those of the client and
the notification is a stutter, and the notification is an answer to this call by
`AnswersOwnCall`'s invariants, or an answer to another one, which is allowed only
when the call was overtaken or after a restart. That a settled call is left alone is the correlator's: a late or
repeated answer finds no pending id.

*Motion report.* `ConvertInverts` is the arithmetic of the shared high byte and of
the sign extension. `EventsKeepInterval` rests on `LastEventTimed`: no report but
one that raises an event touches `last_rpt_time`. `EventsAreSums` rests on `SumInv`:
between events `dx` and `dy` are the sum of the samples since the last one that
started over, or nothing is held back. That a sum grows by the sample that is
appended (`SumOfAppend`) is an induction over the samples; it is done on the set of
indices up to which two sums agree (`SetInduction`, from the well-foundedness of the
naturals), as is the existence of the recursive function `sum`. `AgeInv`, for
`MotionIsFresh`, says that what is held back and is not zero is a sum of samples
taken since an event, the last of them less than an interval after it: that is
why twice an interval and not one bounds the age of motion.

*Register access.* The counterexample `register_page` leaves open how much the lock
still protects. `PageInv` says it thread by thread (`ThreadInv`): what each
operation can have left to transfer, which of them hold the lock, and that the
page is the base page unless the lock's holder is between its two selects. It is
inductive with every sequence of the driver as a word in a small grammar (`Plain`,
`Outside`, `Inside`), so that the proof is about shapes of sequences and not about
each transfer. A reset of the workqueue in the middle of a frame's `arm_seq` is
allowed; in the middle of a resolution setter it cannot come, because the sensor
stays ready while the setter has the lock. A page that a client has selected with
WriteRegister stays until the next select or reset, which both theorems account
for. TLC agrees for both kinds of wiring (0.9 million states each).

Only model-checked: liveness (`InitSettles`, `MotionIsRead`, `StopIsNoticed`,
`SensorIsReleased`, `ValidSettingsComeUp`, `CallsAreAnswered`), which the prover
cannot do under fairness. Every safety property of a passing run is a theorem;
some of them under assumptions that the run does not need, or for one case of a
constant (the table).

## 5. Where the code and its documentation disagree

Each of these has a run that finds the counterexample.

- `driver_pm_refused` (`src/pmw3610.c:878`): a resume that comes while the init step
  that the suspend cancelled is still running has its `k_work_schedule` refused,
  and so has that step its own. The sensor is neither ready nor suspended, has no
  error and no retry, and nothing is scheduled until the next suspend and resume (or
  the end of a capture session that is still open).
  `src/pmw3610.c:1281-1284` says that resume will "(re)schedule the init work".
- `driver_pm_reset` (`src/pmw3610.c:553`): end() stores step 0 while an init
  step that a resume started is running; that step's `++async_init_step` makes
  it 1, so the power-up reset of the capture's recovery is skipped.
- `config_lost_update` (`src/pmw3610.c:481`): a setter that runs while
  CONFIGURE writes its copy sees `ready` false and changes only
  `data->runtime`; the register keeps the old value until the next apply.
- `relay_sources` (`src/split/pmw3610_relay.c:470`): the source of a response is
  read from the buffer after the payload was decoded; when a second peripheral
  answers in between, the first one's response is notified with the second one's
  source. `pmw3610_relay.c:37-40` says each is "correctly tagged".
- `register_page` (`src/pmw3610.c:586`): the report reads the motion registers
  without the lock while `pmw3610_set_cpi_runtime`, or the arming of a 3-wire frame
  (`src/pmw3610.c:1497`), has page 1 selected. `src/pixart.h:64-68` says that these sequences "must not interleave".

Further disagreements met while modelling, without a run of their own:

| Code | Behaviour | Statement |
|---|---|---|
| `src/pmw3610.c:695` | a trigger work that is already running unmasks the interrupt after begin() masked it | `pmw3610_api.h:216` |
| `src/pmw3610.c:1407` | a second begin() during a session is accepted | `pmw3610_api.h:271-272` |
| `src/pmw3610.c:586` | the report's transfers interleave with a capture's | `src/pixart.h:64-68` |
| `src/pmw3610.c:960` | an activity change drops the run mode begin() confirmed | `src/pixart.h:86-91` |
| `src/pmw3610.c:636` | a report under way sets `sw_smart_flag` after end() cleared it | `src/pmw3610.c:1294-1297` |
| `src/pmw3610.c:553` | with two callers, a second end() makes the re-initialisation skip its reset | `pmw3610_api.h:322-323` |
| `request_exec.c:514` | stop and start while a frame is in flight: the loop reads after the end of its session | `pmw3610_api.h:279-280` |
| `request_exec.c:412` | the session flag is cleared after end(), over a session begun in between | `README.md:326-327` |
| `request_exec.c:612` | CaptureFrame overlaps the last streamed frame | `README.md:332-336` |
| `request_exec.c:423` | the branch that "should not happen" is reached | `request_exec.c:424` |
| `request_exec.c:540` | a Studio lock during begin() is overwritten | `README.md:49-50` |
| `request_exec.c:673` | GetFrameChunk returns bytes of a frame being read under the id of the one before | `pmw3610.proto:180` |
| `request_exec.c:654` | GetFrameChunk is not rejected while streaming | `DESIGN.md:315-316` |
| `request_exec.c:533` | SetFrameStream(true) for another device while a stream is on overwrites the device index; the first device stays in its session | `pmw3610_api.h:262-264` |
| `request_exec.c:541` | on a central `already_active` is read before the loop's defensive branch clears the flag; the flag is then set and nothing is scheduled | `request_exec.c:373-374` |
| `src/pmw3610.c:1185` | a sample time that does not fit the stored downshift time is accepted; CONFIGURE then fails on every retry and the sensor does not come up after the next capture, resume or boot | `README.md:214-216` |
| `FrameViewer.tsx:291-298` | Start and Capture are enabled again before the stream has drained; on a central the next capture may overlap the end of the last one (rows 412, 514, 533 and 612 above) | `pmw3610_api.h:271-272` |
| `src/pmw3610.c:1019` | WriteRegister of 0x7F leaves the sensor on page 1; motion, PERFORMANCE and the other setters meet the wrong registers until the next select or reset | `src/pixart.h:64-68` |
| `src/pmw3610.c:1419` | begin() changes PERFORMANCE without the lock, next to an activity change that does the same | `src/pixart.h:64-68` |
| `src/pmw3610.c:231` | the clock window of a setter is closed by the workqueue's own write in the middle of it | `src/pixart.h:64-68` |
| `pmw3610_relay.c:295` | two calls overlap: the buffer is overwritten between the decoding of id and body, and the earlier call is resolved with the answer of the later one | `web/src/relay.ts:35-38` |
| `pmw3610_relay.c:295` | two panels have a request each under way: the second overwrites the first before it is executed, or tears it | `pmw3610_relay.c:258-261` |
| `pmw3610_relay.c:295` | a request that arrives between the start of the work item and its decoding is executed twice | `pmw3610_relay.c:258-261` |
| `pmw3610_relay.c:365` | ids repeat after a restart of the central, and a late answer resolves the wrong call | `web/src/relay.ts:35-38` |
| `pmw3610_relay.c:477` | the notification of an answer that overtakes the reply with its id is dropped, and the call times out | `web/src/relay.ts:48` |
| `src/pmw3610.c:232-235` | a failed write returns with the clock on; a failed page select of the resolution leaves page 1 | `src/pixart.h:64-68` |
| `src/pmw3610.c:1242` | force-awake reads the activity state before the lock and undoes a change in between; turned off while active it leaves the run mode forced | `src/pmw3610.c:1242` |
| `src/pmw3610.c:1260` | turning the smart algorithm off leaves register 0x32 as it is, and a report under way may still write it | `src/pmw3610.c:1260` |
| `src/pmw3610.c:642` | with the interval set to 0, motion held back before is reported however old it is | `src/pmw3610.c:642` |

## 6. Not modelled

- GetInfo, ReadDiagnostics, the register requests: no state of the request
  executor; the transfers of ReadDiagnostics and WriteRegister are in
  `RegisterAccess`, ReadRegister is one transfer without the lock that changes
  nothing.
- Stream notifications of a peripheral on their way through the central (the
  third single-slot buffer, `relay_notification_work_handler`) and the frame
  assembly of `web/src/frame.ts`. The buffer works like the response buffer of
  `SplitRelay` and loses and tears chunks in the same way; frames are best
  effort (`DESIGN.md`), so no property of the code would be about them.
- Failing transfers in `RegisterAccess`: one failed transfer after which the bus
  works again needs no interleaving; it is listed in section 5. Suspend and resume
  are not there either: between suspend and the re-initialisation no transfer is
  made that is not in the module.
- The range tests of cpi, run downshift and rest3: one value each.
- The wrap of the 32-bit request id, failures of the protobuf encoders.
- GPIO configuration failures, a wrong product id: they need broken wiring.
- The wrap of the 32-bit `frame_id`: captures would have to go on for years.
- Settings id (a string hash), API stub (constants), protobuf encoding
  (generated), user interface panels, tests and build scripts.

## 7. Plan

Done: `CaptureSession`, `Pmw3610Driver`, `FrameStream`, `RuntimeConfig`,
`MotionReport`, `SplitRelay`, `RelayedCall`, `RegisterAccess`, and of their safety
properties all that the prover can reach. Left:

1. The way of a streamed frame through the central to the viewer: the
   notification buffer, the assembler keyed by `frame_id` alone, two halves that
   stream at once.
2. Failing transfers in `RegisterAccess`, with the clock and the page as a failed
   sequence leaves them.
