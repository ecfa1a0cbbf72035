---------------------------- MODULE RuntimeConfig ----------------------------
(***************************************************************************)
(* How the sample and downshift times of the rest modes get from the       *)
(* persisted settings into the sensor: src/settings/pmw3610_settings.c,    *)
(* the setters of src/pmw3610.c and the CONFIGURE step of its init         *)
(* sequence.                                                               *)
(*                                                                         *)
(* Two threads carry the values over.  One changes settings and re-applies *)
(* all of them after every change (settings_load() in main() first, the    *)
(* Studio RPC thread later); the other is the system workqueue, which      *)
(* applies them once more in CONFIGURE, copies the result and writes it to *)
(* the registers.                                                          *)
(*                                                                         *)
(* A setter is one step together with the read of its setting.  It holds   *)
(* data->lock from the test of its argument to the end of its register     *)
(* write.  Before that, the first thread cannot read a stale value, for    *)
(* only it changes them; and the workqueue is a cooperative thread, so     *)
(* that between its read and its lock no more can happen than the end of a *)
(* setter that holds the lock.                                             *)
(*                                                                         *)
(* The other parameters have ranges of their own that do not depend on     *)
(* each other.  The bus does not fail here; Pmw3610Driver has the failing  *)
(* steps.                                                                  *)
(***************************************************************************)
EXTENDS Naturals, Sequences

CONSTANTS
  Stages,           \* the rest modes with a downshift time: <<"rest1", "rest2">>
  Samples,          \* sample times the host tries, in ms
  Downshifts,       \* downshift times the host tries, in ms
  DefaultSample,    \* CONFIG_PMW3610_REST1_SAMPLE_TIME_MS, ..._REST2_...
  DefaultDownshift, \* CONFIG_PMW3610_REST1_DOWNSHIFT_TIME_MS, ..._REST2_...
  MaxRetry,         \* automatic restarts of the init sequence (10 in the code)
  QuietConfigure    \* nobody calls a setter while CONFIGURE writes its copy

Stage == {Stages[i] : i \in 1..Len(Stages)}

(* Periods of the sample time that one unit of the downshift register      *)
(* stands for.                                                             *)
Factor(s) == IF s = "rest1" THEN 16 ELSE 128

MinDownshift(s, sample) == Factor(s) * sample

MaxDownshift(s, sample) == 255 * Factor(s) * sample

(* The range test of pmw3610_set_downshift_time and of the setters.        *)
InRange(s, pair) ==
  /\ MinDownshift(s, pair.sample) <= pair.downshift
  /\ pair.downshift <= MaxDownshift(s, pair.sample)

Default == [s \in Stage |-> [sample |-> DefaultSample[s], downshift |-> DefaultDownshift[s]]]

(* What pmw3610_set_sample_time accepts, in ms.                            *)
SampleTime == {t \in Nat : 10 <= t /\ t <= 2550}

Times == [sample : SampleTime, downshift : Nat]

ASSUME StagesAssumption == Stages \in Seq({"rest1", "rest2"})
ASSUME RetryAssumption == MaxRetry \in Nat \ {0} /\ QuietConfigure \in BOOLEAN
ASSUME SettingsAssumption == Samples \subseteq SampleTime /\ Downshifts \subseteq Nat
ASSUME DefaultsAssumption ==
  /\ DefaultSample \in [Stage -> SampleTime]
  /\ DefaultDownshift \in [Stage -> Nat]
  /\ \A s \in Stage : InRange(s, Default[s])

VARIABLES
  setting,     \* effective values of the custom settings
  loaded,      \* settings_load() has put the persisted values there
  runtime,     \* data->runtime
  rt,          \* CONFIGURE's copy of it
  register,    \* the sensor's downshift and rate registers
  ready, async_init_retry_count,
  init,        \* the init work: where it is
  init_pos,    \* and at which setter or register
  host         \* the number of setters the other thread has run, of a pass

vars == <<setting, loaded, runtime, rt, register, ready, async_init_retry_count,
          init, init_pos, host>>

-----------------------------------------------------------------------------
Byte == 0..255

Setters == 2 * Len(Stages)

InitState ==
  {"scheduled",  \* waiting for the delay of an earlier step
   "apply",      \* CONFIGURE: in pmw3610_settings_apply_to_device
   "write",      \* CONFIGURE: writing the registers from the copy
   "idle"}       \* ready, or out of retries

TypeOK ==
  /\ setting \in [Stage -> Times]
  /\ loaded \in BOOLEAN
  /\ runtime \in [Stage -> Times]
  /\ rt \in [Stage -> Times]
  /\ register \in [Stage -> [downshift : Byte, rate : Byte]]
  /\ ready \in BOOLEAN
  /\ async_init_retry_count \in 0..MaxRetry
  /\ init \in InitState
  /\ init_pos \in 1..Setters + 1
  /\ host \in 0..Setters

(* What the registers hold after the power-up reset is of no interest. *)
PowerUpReset == [s \in Stage |-> [downshift |-> 0, rate |-> 0]]

(* pmw3610_init() has seeded the runtime config from Kconfig, and          *)
(* custom_settings_init() the settings.                                    *)
Init ==
  /\ setting = Default
  /\ loaded = FALSE
  /\ runtime = Default
  /\ rt = Default
  /\ register = PowerUpReset
  /\ ready = FALSE
  /\ async_init_retry_count = 0
  /\ init = "scheduled"
  /\ init_pos = 1
  /\ host = Setters

(* The register values.  The casts to uint8_t lose nothing: that is what   *)
(* TypeOK says of register.                                                *)
DownshiftValue(s, pair) == pair.downshift \div MinDownshift(s, pair.sample)

RateValue(pair) == pair.sample \div 10

-----------------------------------------------------------------------------
(* The setters, called with the effective value of the setting.            *)

(* pmw3610_set_rest1_sample_ms, pmw3610_set_rest2_sample_ms *)
SetSample(s) ==
  /\ runtime' = [runtime EXCEPT ![s].sample = setting[s].sample]
  /\ register' = IF ready THEN [register EXCEPT ![s].rate = RateValue(setting[s])]
                          ELSE register

(* pmw3610_set_rest1_downshift_ms, pmw3610_set_rest2_downshift_ms: a value *)
(* that does not fit the sample time of the moment is refused.             *)
SetDownshift(s) ==
  LET pair == [runtime[s] EXCEPT !.downshift = setting[s].downshift]
  IN IF InRange(s, pair)
       THEN /\ runtime' = [runtime EXCEPT ![s] = pair]
            /\ register' = IF ready
                             THEN [register EXCEPT ![s].downshift = DownshiftValue(s, pair)]
                             ELSE register
       ELSE UNCHANGED <<runtime, register>>

(* Variant with a slip: the downshift times are applied first.             *)
ApplySetterDownshiftFirst(i) ==
  IF i <= Len(Stages) THEN SetDownshift(Stages[i]) ELSE SetSample(Stages[i - Len(Stages)])

(* Setter i of pmw3610_settings_apply_to_device: first the sample times,   *)
(* then the downshift times; nobody looks at the results.                  *)
ApplySetter(i) ==
  IF i <= Len(Stages) THEN SetSample(Stages[i]) ELSE SetDownshift(Stages[i - Len(Stages)])

-----------------------------------------------------------------------------
(* The init work.                                                          *)

(* POWER_UP, CLEAR_OB1, CHECK_OB1 and the entry of CONFIGURE.              *)
InitStart ==
  /\ init = "scheduled"
  /\ register' = PowerUpReset
  /\ init' = "apply"
  /\ init_pos' = 1
  /\ UNCHANGED <<setting, loaded, runtime, rt, ready, async_init_retry_count, host>>

ConfigureApply ==
  /\ init = "apply"
  /\ init_pos <= Setters
  /\ ApplySetter(init_pos)
  /\ init_pos' = init_pos + 1
  /\ UNCHANGED <<setting, loaded, rt, ready, async_init_retry_count, init, host>>

(* Variant with a slip: the copy is taken before the settings are applied. *)
ConfigureCopyEarly ==
  /\ init = "apply"
  /\ init_pos = Setters + 1
  /\ init' = "write"
  /\ init_pos' = 1
  /\ UNCHANGED <<setting, loaded, runtime, rt, register, ready, async_init_retry_count, host>>

ConfigureCopy ==
  /\ init = "apply"
  /\ init_pos = Setters + 1
  /\ rt' = runtime
  /\ init' = "write"
  /\ init_pos' = 1
  /\ UNCHANGED <<setting, loaded, runtime, register, ready, async_init_retry_count, host>>

(* The register of position init_pos: the downshift times, then the rates. *)
WritesDownshift == init_pos <= Len(Stages)

Written == IF WritesDownshift THEN Stages[init_pos] ELSE Stages[init_pos - Len(Stages)]

(* Variant with a slip: no range test before the division.                 *)
ConfigureWriteUnchecked ==
  /\ init = "write"
  /\ init_pos <= Setters
  /\ IF WritesDownshift
       THEN register' = [register EXCEPT ![Written].downshift = DownshiftValue(Written, rt[Written])]
       ELSE register' = [register EXCEPT ![Written].rate = RateValue(rt[Written])]
  /\ init_pos' = init_pos + 1
  /\ UNCHANGED <<setting, loaded, runtime, rt, ready, async_init_retry_count, init, host>>

(* pmw3610_set_downshift_time and pmw3610_set_sample_time                  *)
ConfigureWrite ==
  /\ init = "write"
  /\ init_pos <= Setters
  /\ \/ /\ WritesDownshift
        /\ InRange(Written, rt[Written])
        /\ register' = [register EXCEPT ![Written].downshift = DownshiftValue(Written, rt[Written])]
     \/ /\ ~WritesDownshift
        /\ register' = [register EXCEPT ![Written].rate = RateValue(rt[Written])]
  /\ init_pos' = init_pos + 1
  /\ UNCHANGED <<setting, loaded, runtime, rt, ready, async_init_retry_count, init, host>>

(* CONFIGURE returns and its copy is gone.                                 *)
LeaveConfigure == rt' = Default /\ init_pos' = 1

(* Variant with a slip: the sequence is not scheduled again.               *)
ConfigureFailUnscheduled ==
  /\ init = "write"
  /\ init_pos <= Setters
  /\ WritesDownshift
  /\ ~InRange(Written, rt[Written])
  /\ init' = "idle"
  /\ LeaveConfigure
  /\ UNCHANGED <<setting, loaded, runtime, register, ready, async_init_retry_count, host>>

(* -EINVAL from pmw3610_set_downshift_time fails the step.                 *)
ConfigureFail ==
  /\ init = "write"
  /\ init_pos <= Setters
  /\ WritesDownshift
  /\ ~InRange(Written, rt[Written])
  /\ IF async_init_retry_count < MaxRetry
       THEN /\ async_init_retry_count' = async_init_retry_count + 1
            /\ init' = "scheduled"
       ELSE /\ init' = "idle"
            /\ UNCHANGED async_init_retry_count
  /\ LeaveConfigure
  /\ UNCHANGED <<setting, loaded, runtime, register, ready, host>>

ConfigureDone ==
  /\ init = "write"
  /\ init_pos = Setters + 1
  /\ ready' = TRUE
  /\ init' = "idle"
  /\ LeaveConfigure
  /\ UNCHANGED <<setting, loaded, runtime, register, async_init_retry_count, host>>

(* The end of a capture, or a suspend and a resume.                        *)
Recover ==
  /\ ready
  /\ ready' = FALSE
  /\ async_init_retry_count' = 0
  /\ init' = "scheduled"
  /\ UNCHANGED <<setting, loaded, runtime, rt, register, init_pos, host>>

-----------------------------------------------------------------------------
(* The thread that changes settings.                                       *)

(* What the custom settings module lets through to an entry, besides its   *)
(* default: ZMK_CUSTOM_SETTING_RANGE_INT32 has 10..2550 for a sample time  *)
(* and the range of the default sample time for a downshift time.          *)
SampleSettings(s) == Samples \cup {DefaultSample[s]}

DownshiftSettings(s) ==
  {v \in Downshifts \cup {DefaultDownshift[s]} :
     InRange(s, [sample |-> DefaultSample[s], downshift |-> v])}

(* settings_load(), and then zmk_custom_settings_initialized.              *)
LoadSettings ==
  /\ ~loaded
  /\ loaded' = TRUE
  /\ \E sample \in [Stage -> UNION {SampleSettings(s) : s \in Stage}],
        downshift \in [Stage -> UNION {DownshiftSettings(s) : s \in Stage}] :
       /\ \A s \in Stage : sample[s] \in SampleSettings(s)
       /\ \A s \in Stage : downshift[s] \in DownshiftSettings(s)
       /\ setting' = [s \in Stage |-> [sample |-> sample[s], downshift |-> downshift[s]]]
  /\ host' = 0
  /\ UNCHANGED <<runtime, rt, register, ready, async_init_retry_count, init, init_pos>>

(* zmk_custom_setting_changed: a write, a discard or a reset of one key.   *)
ChangeSetting(s) ==
  /\ loaded
  /\ host = Setters
  /\ \/ \E v \in SampleSettings(s) : setting' = [setting EXCEPT ![s].sample = v]
     \/ \E v \in DownshiftSettings(s) : setting' = [setting EXCEPT ![s].downshift = v]
  /\ host' = 0
  /\ UNCHANGED <<loaded, runtime, rt, register, ready, async_init_retry_count, init,
                 init_pos>>

(* One setter of pmw3610_settings_apply_to_device, in the event listener.  *)
HostApply ==
  /\ host < Setters
  /\ QuietConfigure => init # "write"
  /\ ApplySetter(host + 1)
  /\ host' = host + 1
  /\ UNCHANGED <<setting, loaded, rt, ready, async_init_retry_count, init, init_pos>>

-----------------------------------------------------------------------------
Configure ==
  \/ InitStart \/ ConfigureApply \/ ConfigureCopy
  \/ ConfigureWrite \/ ConfigureFail \/ ConfigureDone

Next ==
  \/ Configure
  \/ Recover
  \/ LoadSettings
  \/ \E s \in Stage : ChangeSetting(s)
  \/ HostApply

Spec == Init /\ [][Next]_vars

(* The init work runs when its delay is over and every setter returns.     *)
FairSpec == Spec /\ WF_vars(Configure) /\ SF_vars(HostApply)

-----------------------------------------------------------------------------
(* Properties.                                                             *)

(* However the two passes over the settings interleave, and whatever was   *)
(* refused on the way: when the last change has been applied, the runtime  *)
(* config has the sample times of the settings, and every downshift time   *)
(* that fits them.  (pmw3610_settings_apply_to_device applies sample times *)
(* first for this.)                                                        *)
RuntimeFollowsSettings ==
  loaded /\ host = Setters =>
    \A s \in Stage :
      /\ runtime[s].sample = setting[s].sample
      /\ InRange(s, setting[s]) => runtime[s].downshift = setting[s].downshift

(* pmw3610_settings.c: the apply points together let "the effective        *)
(* (persisted-or-default) values always reach the sensor", here for the    *)
(* pairs the driver accepts.                                               *)
SettingsReachSensor ==
  loaded /\ host = Setters /\ ready =>
    \A s \in Stage :
      InRange(s, setting[s]) =>
        register[s] = [downshift |-> DownshiftValue(s, setting[s]), rate |-> RateValue(setting[s])]

(* As long as every pair of settings fits together, the sensor comes up    *)
(* after each boot and capture: an apply that races with CONFIGURE costs   *)
(* no more than the retries there are.                                     *)
ValidSettingsComeUp ==
  [](\A s \in Stage : InRange(s, setting[s])) => (~ready ~> ready)
=============================================================================
