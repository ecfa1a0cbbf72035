-------------------------- MODULE RuntimeConfigProofs --------------------------
(***************************************************************************)
(* Theorems about RuntimeConfig, for every choice of default, persisted    *)
(* and requested times, and whatever the two threads do to each other.     *)
(***************************************************************************)
EXTENDS RuntimeConfig, TLAPS

-----------------------------------------------------------------------------
(* Division, as the register values need it. *)
LEMMA QuotientInByte ==
  ASSUME NEW m \in Nat \ {0}, NEW d \in Nat, d <= 255 * m
  PROVE  d \div m \in Byte
  BY DEF Byte

LEMMA MinDownshiftPositive ==
  ASSUME NEW s, NEW sample \in Nat \ {0}
  PROVE  /\ MinDownshift(s, sample) \in Nat \ {0}
         /\ MaxDownshift(s, sample) = 255 * MinDownshift(s, sample)
<1>1. Factor(s) = 16 \/ Factor(s) = 128
  BY DEF Factor
<1>2. CASE Factor(s) = 16
  BY <1>2 DEF MinDownshift, MaxDownshift
<1>3. CASE Factor(s) = 128
  BY <1>3 DEF MinDownshift, MaxDownshift
<1> QED
  BY <1>1, <1>2, <1>3

(* A pair that passes the range test has a downshift value of one byte.    *)
LEMMA DownshiftFits ==
  ASSUME NEW s \in Stage, NEW pair \in Times, InRange(s, pair)
  PROVE  DownshiftValue(s, pair) \in Byte
<1>1. pair.sample \in Nat \ {0} /\ pair.downshift \in Nat
  BY DEF Times, SampleTime
<1>2. /\ MinDownshift(s, pair.sample) \in Nat \ {0}
      /\ pair.downshift <= 255 * MinDownshift(s, pair.sample)
  <2>1. /\ MinDownshift(s, pair.sample) \in Nat \ {0}
        /\ MaxDownshift(s, pair.sample) = 255 * MinDownshift(s, pair.sample)
    BY <1>1, MinDownshiftPositive
  <2> QED
    BY <2>1 DEF InRange
<1> QED
  BY <1>1, <1>2, QuotientInByte DEF DownshiftValue

(* A sample time of the setters' range has a rate of one byte.             *)
LEMMA RateFits ==
  ASSUME NEW pair \in Times
  PROVE  RateValue(pair) \in Byte
  BY DEF RateValue, Times, SampleTime, Byte

-----------------------------------------------------------------------------
(* The setters that the two threads run. *)

LEMMA StageOf ==
  /\ Len(Stages) \in Nat /\ Setters \in Nat
  /\ \A i \in 1..Len(Stages) : Stages[i] \in Stage
  /\ \A i \in 1..Setters : ~(i <= Len(Stages)) => i - Len(Stages) \in 1..Len(Stages)
<1>1. Len(Stages) \in Nat /\ Setters = 2 * Len(Stages)
  BY StagesAssumption DEF Setters
<1>2. \A i \in 1..Len(Stages) : Stages[i] \in Stage
  BY DEF Stage
<1> QED
  BY <1>1, <1>2

LEMMA SetSampleType ==
  ASSUME TypeOK, NEW s \in Stage, SetSample(s)
  PROVE  /\ runtime' \in [Stage -> Times]
         /\ register' \in [Stage -> [downshift : Byte, rate : Byte]]
<1>1. setting[s] \in Times /\ setting[s].sample \in SampleTime
  BY DEF TypeOK, Times
<1>2. runtime' \in [Stage -> Times]
  BY <1>1 DEF TypeOK, SetSample, Times
<1>3. RateValue(setting[s]) \in Byte
  BY <1>1, RateFits
<1>4. register' \in [Stage -> [downshift : Byte, rate : Byte]]
  BY <1>3 DEF TypeOK, SetSample
<1> QED
  BY <1>2, <1>4

LEMMA SetDownshiftType ==
  ASSUME TypeOK, NEW s \in Stage, SetDownshift(s)
  PROVE  /\ runtime' \in [Stage -> Times]
         /\ register' \in [Stage -> [downshift : Byte, rate : Byte]]
<1> DEFINE pair == [runtime[s] EXCEPT !.downshift = setting[s].downshift]
<1>1. pair \in Times
  BY DEF TypeOK, Times
<1> HIDE DEF pair
<1>2. CASE InRange(s, pair)
  <2>1. DownshiftValue(s, pair) \in Byte
    BY <1>1, <1>2, DownshiftFits
  <2>2. /\ runtime' = [runtime EXCEPT ![s] = pair]
        /\ register' = IF ready THEN [register EXCEPT ![s].downshift = DownshiftValue(s, pair)]
                                ELSE register
    BY <1>2 DEF SetDownshift, pair
  <2> QED
    BY <1>1, <2>1, <2>2 DEF TypeOK
<1>3. CASE ~InRange(s, pair)
  <2>1. UNCHANGED <<runtime, register>>
    BY <1>3 DEF SetDownshift, pair
  <2> QED
    BY <2>1 DEF TypeOK
<1> QED
  BY <1>2, <1>3

LEMMA ApplySetterType ==
  ASSUME TypeOK, NEW i \in 1..Setters, ApplySetter(i)
  PROVE  /\ runtime' \in [Stage -> Times]
         /\ register' \in [Stage -> [downshift : Byte, rate : Byte]]
<1>1. CASE i <= Len(Stages)
  <2>1. Stages[i] \in Stage /\ SetSample(Stages[i])
    BY <1>1, StageOf DEF ApplySetter
  <2> QED
    BY <2>1, SetSampleType
<1>2. CASE ~(i <= Len(Stages))
  <2>1. /\ Stages[i - Len(Stages)] \in Stage
        /\ SetDownshift(Stages[i - Len(Stages)])
    BY <1>2, StageOf DEF ApplySetter
  <2> QED
    BY <2>1, SetDownshiftType
<1> QED
  BY <1>1, <1>2

-----------------------------------------------------------------------------
(* Type correctness.                                                       *)

LEMMA SettingsType ==
  ASSUME NEW s \in Stage
  PROVE  /\ SampleSettings(s) \subseteq SampleTime
         /\ DownshiftSettings(s) \subseteq Nat
  BY SettingsAssumption, DefaultsAssumption DEF SampleSettings, DownshiftSettings

LEMMA DefaultType == Default \in [Stage -> Times]
  BY DefaultsAssumption DEF Default, Times

LEMMA WrittenIsStage ==
  ASSUME init_pos \in 1..Setters
  PROVE  Written \in Stage
  BY StageOf DEF Written, WritesDownshift

(* Whatever is set and whenever it is applied, the values that reach the   *)
(* sensor fit its 8-bit registers, as the casts of                         *)
(* pmw3610_set_downshift_time and pmw3610_set_sample_time assume.          *)
THEOREM ConfigTypeCorrect == Spec => []TypeOK
<1>1. Init => TypeOK
  <2> SUFFICES ASSUME Init PROVE TypeOK
    OBVIOUS
  <2>1. PowerUpReset \in [Stage -> [downshift : Byte, rate : Byte]]
    BY DEF PowerUpReset, Byte
  <2>2. 1 \in 1..Setters + 1 /\ Setters \in 0..Setters
    BY StageOf
  <2>3. 0 \in 0..MaxRetry
    BY RetryAssumption
  <2> HIDE DEF PowerUpReset, Default
  <2>4. /\ setting \in [Stage -> Times] /\ runtime \in [Stage -> Times]
        /\ rt \in [Stage -> Times]
    BY DefaultType DEF Init
  <2>5. /\ register \in [Stage -> [downshift : Byte, rate : Byte]]
        /\ async_init_retry_count \in 0..MaxRetry
        /\ init_pos \in 1..Setters + 1
        /\ host \in 0..Setters
    BY <2>1, <2>2, <2>3 DEF Init
  <2>6. loaded \in BOOLEAN /\ ready \in BOOLEAN /\ init \in InitState
    BY DEF Init, InitState
  <2> QED
    BY <2>4, <2>5, <2>6 DEF TypeOK
<1>2. TypeOK /\ [Next]_vars => TypeOK'
  <2> SUFFICES ASSUME TypeOK, [Next]_vars PROVE TypeOK'
    OBVIOUS
  <2>0. /\ Setters \in Nat /\ Len(Stages) \in Nat
        /\ PowerUpReset \in [Stage -> [downshift : Byte, rate : Byte]]
    BY StageOf DEF PowerUpReset, Byte
  <2>1. CASE InitStart
    BY <2>0, <2>1 DEF InitStart, TypeOK, InitState
  <2>2. CASE ConfigureApply
    <3>1. init_pos \in 1..Setters /\ ApplySetter(init_pos)
      BY <2>0, <2>2 DEF ConfigureApply, TypeOK
    <3>2. /\ runtime' \in [Stage -> Times]
          /\ register' \in [Stage -> [downshift : Byte, rate : Byte]]
      BY <3>1, ApplySetterType
    <3> QED
      BY <2>0, <2>2, <3>1, <3>2 DEF ConfigureApply, TypeOK
  <2>3. CASE ConfigureCopy
    BY <2>0, <2>3 DEF ConfigureCopy, TypeOK, InitState
  <2>4. CASE ConfigureWrite
    <3>1. init_pos \in 1..Setters
      BY <2>0, <2>4 DEF ConfigureWrite, TypeOK
    <3>2. Written \in Stage /\ rt[Written] \in Times
      BY <3>1, WrittenIsStage DEF TypeOK
    <3>3. register' \in [Stage -> [downshift : Byte, rate : Byte]]
      <4>1. CASE WritesDownshift
        <5>1. DownshiftValue(Written, rt[Written]) \in Byte
          BY <2>4, <3>2, <4>1, DownshiftFits DEF ConfigureWrite
        <5>2. register' = [register EXCEPT ![Written].downshift
                                             = DownshiftValue(Written, rt[Written])]
          BY <2>4, <4>1 DEF ConfigureWrite
        <5> HIDE DEF Written, DownshiftValue
        <5> QED
          BY <3>2, <5>1, <5>2 DEF TypeOK
      <4>2. CASE ~WritesDownshift
        <5>1. RateValue(rt[Written]) \in Byte
          BY <3>2, RateFits
        <5>2. register' = [register EXCEPT ![Written].rate = RateValue(rt[Written])]
          BY <2>4, <4>2 DEF ConfigureWrite
        <5> QED
          BY <3>2, <5>1, <5>2 DEF TypeOK
      <4> QED
        BY <4>1, <4>2
    <3> QED
      BY <2>0, <2>4, <3>1, <3>3 DEF ConfigureWrite, TypeOK
  <2>5. CASE ConfigureFail
    BY <2>0, <2>5, RetryAssumption, DefaultType
    DEF ConfigureFail, LeaveConfigure, TypeOK, InitState
  <2>6. CASE ConfigureDone
    BY <2>0, <2>6, DefaultType DEF ConfigureDone, LeaveConfigure, TypeOK, InitState
  <2>7. CASE Recover
    <3>1. 0 \in 0..MaxRetry
      BY RetryAssumption
    <3> QED
      BY <2>7, <3>1 DEF Recover, TypeOK, InitState
  <2>8. CASE LoadSettings
    <3>1. PICK sample, downshift :
            /\ \A s \in Stage : sample[s] \in SampleSettings(s)
            /\ \A s \in Stage : downshift[s] \in DownshiftSettings(s)
            /\ setting' = [s \in Stage |-> [sample |-> sample[s], downshift |-> downshift[s]]]
      BY <2>8 DEF LoadSettings
    <3>2. setting' \in [Stage -> Times]
      BY <3>1, SettingsType DEF Times
    <3> QED
      BY <2>0, <2>8, <3>2 DEF LoadSettings, TypeOK
  <2>9. ASSUME NEW s \in Stage, ChangeSetting(s)
        PROVE  TypeOK'
    <3>1. setting' \in [Stage -> Times]
      <4>1. ASSUME NEW v \in SampleSettings(s),
                   setting' = [setting EXCEPT ![s].sample = v]
            PROVE  setting' \in [Stage -> Times]
        <5>1. v \in SampleTime
          BY <4>1, SettingsType
        <5> QED
          BY <4>1, <5>1 DEF TypeOK, Times
      <4>2. ASSUME NEW v \in DownshiftSettings(s),
                   setting' = [setting EXCEPT ![s].downshift = v]
            PROVE  setting' \in [Stage -> Times]
        <5>1. v \in Nat
          BY <4>2, SettingsType
        <5> QED
          BY <4>2, <5>1 DEF TypeOK, Times
      <4> QED
        BY <2>9, <4>1, <4>2 DEF ChangeSetting
    <3> QED
      BY <2>0, <2>9, <3>1 DEF ChangeSetting, TypeOK
  <2>10. CASE HostApply
    <3>1. host + 1 \in 1..Setters /\ ApplySetter(host + 1)
      BY <2>0, <2>10 DEF HostApply, TypeOK
    <3>2. /\ runtime' \in [Stage -> Times]
          /\ register' \in [Stage -> [downshift : Byte, rate : Byte]]
      BY <3>1, ApplySetterType
    <3> QED
      BY <2>0, <2>10, <3>1, <3>2 DEF HostApply, TypeOK
  <2>11. CASE UNCHANGED vars
    BY <2>11 DEF vars, TypeOK
  <2> QED
    BY <2>1, <2>2, <2>3, <2>4, <2>5, <2>6, <2>7, <2>8, <2>9, <2>10, <2>11
    DEF Next, Configure
<1> QED
  BY <1>1, <1>2, PTL DEF Spec

-----------------------------------------------------------------------------
(* The runtime config follows the settings.                                *)
(*                                                                         *)
(* RuntimeFollowsSettings speaks of the end of a pass only.  What is       *)
(* inductive is that the setters the pass has come through have had their  *)
(* effect and that the other thread's setters, which read the same         *)
(* settings, do not take it back.                                          *)

SampleFollows(s) == runtime[s].sample = setting[s].sample

DownshiftFollows(s) ==
  InRange(s, setting[s]) => runtime[s].downshift = setting[s].downshift

(* The first h setters of a pass over these settings have taken effect.    *)
Reached(h) ==
  \A j \in 1..Len(Stages) :
    /\ j <= h => SampleFollows(Stages[j])
    /\ Len(Stages) + j <= h => DownshiftFollows(Stages[j])

(* Together with TypeOK, the inductive invariant. *)
PassInv == loaded => Reached(host)

LEMMA SetSampleFollows ==
  ASSUME TypeOK, NEW t \in Stage, SetSample(t), UNCHANGED setting
  PROVE  /\ SampleFollows(t)'
         /\ \A s \in Stage : SampleFollows(s) => SampleFollows(s)'
         /\ \A s \in Stage : DownshiftFollows(s) => DownshiftFollows(s)'
<1>1. runtime' = [runtime EXCEPT ![t].sample = setting[t].sample]
  BY DEF SetSample
<1>2. runtime \in [Stage -> Times]
  BY DEF TypeOK
<1>3. /\ runtime'[t].sample = setting[t].sample
      /\ \A s \in Stage : runtime'[s].downshift = runtime[s].downshift
      /\ \A s \in Stage : s # t => runtime'[s].sample = runtime[s].sample
  BY <1>1, <1>2 DEF Times
<1> QED
  BY <1>3 DEF SampleFollows, DownshiftFollows

LEMMA SetDownshiftFollows ==
  ASSUME TypeOK, NEW t \in Stage, SetDownshift(t), UNCHANGED setting
  PROVE  /\ SampleFollows(t) => DownshiftFollows(t)'
         /\ \A s \in Stage : SampleFollows(s) => SampleFollows(s)'
         /\ \A s \in Stage : DownshiftFollows(s) => DownshiftFollows(s)'
<1> DEFINE pair == [runtime[t] EXCEPT !.downshift = setting[t].downshift]
<1>1. /\ pair.sample = runtime[t].sample
      /\ pair.downshift = setting[t].downshift
  BY DEF TypeOK, Times
<1> HIDE DEF pair
<1>2. CASE InRange(t, pair)
  <2>1. runtime' = [runtime EXCEPT ![t] = pair]
    BY <1>2 DEF SetDownshift, pair
  <2>2. /\ runtime'[t] = pair
        /\ \A s \in Stage : s # t => runtime'[s] = runtime[s]
    BY <2>1 DEF TypeOK
  <2>3. \A s \in Stage : runtime'[s].sample = runtime[s].sample
    BY <1>1, <2>2
  <2> QED
    BY <1>1, <2>2, <2>3 DEF SampleFollows, DownshiftFollows
<1>3. CASE ~InRange(t, pair)
  <2>1. UNCHANGED runtime
    BY <1>3 DEF SetDownshift, pair
  <2>2. SampleFollows(t) => ~InRange(t, setting[t])
    BY <1>1, <1>3 DEF SampleFollows, InRange
  <2> QED
    BY <2>1, <2>2 DEF SampleFollows, DownshiftFollows
<1> QED
  BY <1>2, <1>3

(* A setter of either thread takes nothing back.                           *)
LEMMA SetterKeeps ==
  ASSUME TypeOK, NEW i \in 1..Setters, ApplySetter(i), UNCHANGED setting,
         NEW h \in 0..Setters, Reached(h)
  PROVE  Reached(h)'
<1>1. CASE i <= Len(Stages)
  <2>1. Stages[i] \in Stage /\ SetSample(Stages[i])
    BY <1>1, StageOf DEF ApplySetter
  <2> QED
    BY <2>1, SetSampleFollows, StageOf DEF Reached
<1>2. CASE ~(i <= Len(Stages))
  <2>1. Stages[i - Len(Stages)] \in Stage /\ SetDownshift(Stages[i - Len(Stages)])
    BY <1>2, StageOf DEF ApplySetter
  <2> QED
    BY <2>1, SetDownshiftFollows, StageOf DEF Reached
<1> QED
  BY <1>1, <1>2

(* The next setter of a pass takes effect.  A downshift time does because  *)
(* the sample time it is tested against is already there.                  *)
LEMMA SetterReaches ==
  ASSUME TypeOK, NEW h \in 0..Setters, h < Setters, ApplySetter(h + 1),
         UNCHANGED setting, Reached(h)
  PROVE  Reached(h + 1)'
<1>0. h + 1 \in 1..Setters /\ Setters = 2 * Len(Stages) /\ Len(Stages) \in Nat
  BY StageOf DEF Setters
<1>1. Reached(h)'
  BY <1>0, SetterKeeps
<1>2. ASSUME NEW j \in 1..Len(Stages), j <= h + 1
      PROVE  SampleFollows(Stages[j])'
  <2>1. CASE j <= h
    BY <1>1, <2>1 DEF Reached
  <2>2. CASE j = h + 1
    <3>1. Stages[j] \in Stage /\ SetSample(Stages[j])
      BY <1>2, <2>2, StageOf DEF ApplySetter
    <3> QED
      BY <3>1, SetSampleFollows
  <2> QED
    BY <1>2, <2>1, <2>2
<1>3. ASSUME NEW j \in 1..Len(Stages), Len(Stages) + j <= h + 1
      PROVE  DownshiftFollows(Stages[j])'
  <2>1. CASE Len(Stages) + j <= h
    BY <1>1, <2>1 DEF Reached
  <2>2. CASE Len(Stages) + j = h + 1
    <3>1. ~(h + 1 <= Len(Stages)) /\ (h + 1) - Len(Stages) = j /\ j <= h
      BY <1>0, <2>2
    <3>2. Stages[j] \in Stage /\ SetDownshift(Stages[j])
      BY <3>1, StageOf DEF ApplySetter
    <3>3. SampleFollows(Stages[j])
      BY <3>1 DEF Reached
    <3> QED
      BY <3>2, <3>3, SetDownshiftFollows
  <2> QED
    BY <1>0, <1>3, <2>1, <2>2
<1> QED
  BY <1>2, <1>3 DEF Reached

(* The first setters of a pass keep their effect for the rest of it. *)
LEMMA PassReaches == Spec => []PassInv
<1>1. Init => PassInv
  BY DEF Init, PassInv
<1>2. TypeOK /\ PassInv /\ [Next]_vars => PassInv'
  <2> SUFFICES ASSUME TypeOK, loaded => Reached(host), [Next]_vars, loaded'
               PROVE  Reached(host)'
    BY DEF PassInv
  <2>0. /\ Setters \in Nat /\ Len(Stages) \in Nat
        /\ host \in 0..Setters
    BY StageOf DEF TypeOK
  <2>1. ASSUME UNCHANGED <<setting, loaded, runtime, host>>
        PROVE  Reached(host)'
    BY <2>1 DEF Reached, SampleFollows, DownshiftFollows
  <2>2. CASE ConfigureApply
    <3>1. init_pos \in 1..Setters /\ ApplySetter(init_pos)
      BY <2>0, <2>2 DEF ConfigureApply, TypeOK
    <3>2. UNCHANGED setting /\ UNCHANGED host /\ Reached(host)
      BY <2>2 DEF ConfigureApply
    <3>3. ASSUME NEW h \in 0..Setters, Reached(h)
          PROVE  Reached(h)'
      BY <3>1, <3>2, <3>3, SetterKeeps
    <3>4. \A j \in 1..Len(Stages) :
            /\ j <= host => SampleFollows(Stages[j])'
            /\ Len(Stages) + j <= host => DownshiftFollows(Stages[j])'
      BY <2>0, <3>2, <3>3 DEF Reached
    <3> QED
      BY <3>2, <3>4 DEF Reached
  <2>3. CASE LoadSettings \/ \E s \in Stage : ChangeSetting(s)
    <3>1. host' = 0
      BY <2>3 DEF LoadSettings, ChangeSetting
    <3> QED
      BY <2>0, <3>1 DEF Reached
  <2>4. CASE HostApply
    <3>1. /\ host < Setters /\ ApplySetter(host + 1)
          /\ UNCHANGED setting /\ host' = host + 1 /\ Reached(host)
      BY <2>4 DEF HostApply
    <3>2. ASSUME NEW h \in 0..Setters, h = host
          PROVE  Reached(h + 1)'
      BY <3>1, <3>2, SetterReaches
    <3>3. \A j \in 1..Len(Stages) :
            /\ j <= host + 1 => SampleFollows(Stages[j])'
            /\ Len(Stages) + j <= host + 1 => DownshiftFollows(Stages[j])'
      BY <2>0, <3>2 DEF Reached
    <3> QED
      BY <3>1, <3>3 DEF Reached
  <2>5. CASE InitStart
    BY <2>1, <2>5 DEF InitStart
  <2>6. CASE ConfigureCopy
    BY <2>1, <2>6 DEF ConfigureCopy
  <2>7. CASE ConfigureWrite
    BY <2>1, <2>7 DEF ConfigureWrite
  <2>8. CASE ConfigureFail
    BY <2>1, <2>8 DEF ConfigureFail
  <2>9. CASE ConfigureDone
    BY <2>1, <2>9 DEF ConfigureDone
  <2>10. CASE Recover
    BY <2>1, <2>10 DEF Recover
  <2>11. CASE UNCHANGED vars
    BY <2>1, <2>11 DEF vars
  <2> QED
    BY <2>2, <2>3, <2>4, <2>5, <2>6, <2>7, <2>8, <2>9, <2>10, <2>11 DEF Next, Configure
<1> QED
  BY <1>1, <1>2, ConfigTypeCorrect, PTL DEF Spec

(* When the last change of the settings has been applied, the runtime      *)
(* config has every sample time of the settings and every downshift time   *)
(* that fits it, although CONFIGURE applies the same settings at the same  *)
(* time.  No assumption on QuietConfigure is needed: the copy of CONFIGURE *)
(* can miss an update, data->runtime cannot.                               *)
THEOREM RuntimeFollows == Spec => []RuntimeFollowsSettings
<1>1. PassInv => RuntimeFollowsSettings
  <2> SUFFICES ASSUME Reached(Setters)
               PROVE  \A s \in Stage : SampleFollows(s) /\ DownshiftFollows(s)
    BY DEF PassInv, RuntimeFollowsSettings, SampleFollows, DownshiftFollows
  <2> TAKE s \in Stage
  <2>1. PICK j \in 1..Len(Stages) : s = Stages[j]
    BY DEF Stage
  <2>2. j <= Setters /\ Len(Stages) + j <= Setters
    BY StageOf DEF Setters
  <2> QED
    BY <2>1, <2>2 DEF Reached
<1> QED
  BY <1>1, PassReaches, PTL

-----------------------------------------------------------------------------
(* The settings reach the sensor.                                          *)
(*                                                                         *)
(* While CONFIGURE writes, nobody changes the runtime config it copied     *)
(* (QuietConfigure), so that its registers are those of the runtime config *)
(* when the driver becomes ready.  From there on a change of a sample time *)
(* leaves the downshift register behind, and the second half of the same   *)
(* pass brings it up again.                                                *)

RateMatches(s, pair) == register[s].rate = RateValue(pair)

DownshiftMatches(s, pair) == register[s].downshift = DownshiftValue(s, pair)

ReadyIsIdle == ready => init = "idle"

(* The registers CONFIGURE has come through. *)
CopyWritten ==
  init = "write" =>
    /\ rt = runtime
    /\ \A j \in 1..Len(Stages) :
         /\ j < init_pos => DownshiftMatches(Stages[j], runtime[Stages[j]])
         /\ Len(Stages) + j < init_pos => RateMatches(Stages[j], runtime[Stages[j]])

RatesFollow == ready => \A s \in Stage : RateMatches(s, runtime[s])

(* The downshift registers the pass has come through. *)
DownshiftsReached ==
  ready /\ loaded =>
    \A j \in 1..Len(Stages) :
      Len(Stages) + j <= host =>
        (InRange(Stages[j], setting[Stages[j]]) =>
           DownshiftMatches(Stages[j], setting[Stages[j]]))

(* Together with TypeOK and PassInv, the inductive invariant. *)
SensorInv == ReadyIsIdle /\ CopyWritten /\ RatesFollow /\ DownshiftsReached

(* A setter of a driver that is not ready leaves the registers alone.      *)
LEMMA SetterWaits ==
  ASSUME ~ready, NEW i, ApplySetter(i)
  PROVE  UNCHANGED register
  BY DEF ApplySetter, SetSample, SetDownshift

(* A setter of a ready driver keeps the rates with the runtime config.     *)
LEMMA SetterKeepsRates ==
  ASSUME TypeOK, ready, NEW i \in 1..Setters, ApplySetter(i),
         \A s \in Stage : RateMatches(s, runtime[s])
  PROVE  \A s \in Stage : RateMatches(s, runtime[s])'
<1>1. ASSUME NEW t \in Stage, SetSample(t)
      PROVE  \A s \in Stage : RateMatches(s, runtime[s])'
  <2>1. /\ runtime' = [runtime EXCEPT ![t].sample = setting[t].sample]
        /\ register' = [register EXCEPT ![t].rate = RateValue(setting[t])]
    BY <1>1 DEF SetSample
  <2>2. /\ runtime'[t].sample = setting[t].sample
        /\ register'[t].rate = RateValue(setting[t])
        /\ \A s \in Stage : s # t => runtime'[s] = runtime[s] /\ register'[s] = register[s]
    BY <2>1 DEF TypeOK, Times
  <2> QED
    BY <2>2 DEF RateMatches, RateValue
<1>2. ASSUME NEW t \in Stage, SetDownshift(t)
      PROVE  \A s \in Stage : RateMatches(s, runtime[s])'
  <2>1. \A s \in Stage : /\ runtime'[s].sample = runtime[s].sample
                         /\ register'[s].rate = register[s].rate
    BY <1>2 DEF SetDownshift, TypeOK, Times
  <2> QED
    BY <2>1 DEF RateMatches, RateValue
<1>3. CASE i <= Len(Stages)
  BY <1>1, <1>3, StageOf DEF ApplySetter
<1>4. CASE ~(i <= Len(Stages))
  BY <1>2, <1>4, StageOf DEF ApplySetter
<1> QED
  BY <1>3, <1>4

(* Setting a downshift time on a ready driver writes its register, if it   *)
(* fits the sample time the same pass has set.                             *)
LEMMA SetDownshiftReaches ==
  ASSUME TypeOK, ready, NEW t \in Stage, SetDownshift(t), SampleFollows(t)
  PROVE  /\ InRange(t, setting[t]) =>
              register'[t].downshift = DownshiftValue(t, setting[t])
         /\ \A s \in Stage : s # t => register'[s] = register[s]
<1> DEFINE pair == [runtime[t] EXCEPT !.downshift = setting[t].downshift]
<1>1. /\ pair.sample = setting[t].sample
      /\ pair.downshift = setting[t].downshift
  BY DEF TypeOK, Times, SampleFollows
<1>2. /\ InRange(t, pair) <=> InRange(t, setting[t])
      /\ DownshiftValue(t, pair) = DownshiftValue(t, setting[t])
  BY <1>1 DEF InRange, DownshiftValue
<1> HIDE DEF pair
<1>3. CASE InRange(t, pair)
  <2>1. register' = [register EXCEPT ![t].downshift = DownshiftValue(t, pair)]
    BY <1>3 DEF SetDownshift, pair
  <2> HIDE DEF DownshiftValue
  <2>2. /\ register'[t].downshift = DownshiftValue(t, pair)
        /\ \A s \in Stage : s # t => register'[s] = register[s]
    BY <2>1 DEF TypeOK
  <2> QED
    BY <1>2, <2>2
<1>4. CASE ~InRange(t, pair)
  <2>1. UNCHANGED register
    BY <1>4 DEF SetDownshift, pair
  <2> QED
    BY <1>2, <1>4, <2>1
<1> QED
  BY <1>3, <1>4

(* The next setter of a pass over the settings, on a ready driver. *)
LEMMA SetterReachesSensor ==
  ASSUME TypeOK, ready, loaded, Reached(host), DownshiftsReached, HostApply
  PROVE  DownshiftsReached'
<1>0. /\ host + 1 \in 1..Setters /\ ApplySetter(host + 1)
      /\ host' = host + 1 /\ UNCHANGED <<setting, ready, loaded>>
      /\ Setters = 2 * Len(Stages) /\ Len(Stages) \in Nat /\ host \in Nat
  BY StageOf DEF HostApply, TypeOK, Setters
<1> SUFFICES ASSUME NEW j \in 1..Len(Stages), Len(Stages) + j <= host + 1,
                    InRange(Stages[j], setting[Stages[j]])
             PROVE  register'[Stages[j]].downshift
                      = DownshiftValue(Stages[j], setting[Stages[j]])
  BY <1>0 DEF DownshiftsReached, DownshiftMatches
<1> DEFINE t == Stages[(host + 1) - Len(Stages)]
<1>1. /\ ~(host + 1 <= Len(Stages))
      /\ (host + 1) - Len(Stages) \in 1..Len(Stages)
      /\ (host + 1) - Len(Stages) <= host
  BY <1>0
<1>2. t \in Stage /\ Stages[j] \in Stage /\ SetDownshift(t) /\ SampleFollows(t)
  BY <1>0, <1>1, StageOf DEF ApplySetter, Reached
<1>3. /\ InRange(t, setting[t]) =>
           register'[t].downshift = DownshiftValue(t, setting[t])
      /\ \A s \in Stage : s # t => register'[s] = register[s]
  BY <1>2, SetDownshiftReaches
<1>4. CASE Stages[j] = t
  BY <1>3, <1>4
<1>5. CASE Stages[j] # t
  <2>1. Len(Stages) + j <= host
    <3>1. j # (host + 1) - Len(Stages)
      BY <1>5
    <3> QED
      BY <1>0, <3>1
  <2>2. register[Stages[j]].downshift = DownshiftValue(Stages[j], setting[Stages[j]])
    BY <2>1 DEF DownshiftsReached, DownshiftMatches
  <2> QED
    BY <1>2, <1>3, <1>5, <2>2
<1> QED
  BY <1>4, <1>5

(* CONFIGURE writes one register from its copy. *)
LEMMA WriteReaches ==
  ASSUME TypeOK, CopyWritten, ConfigureWrite
  PROVE  CopyWritten'
<1>0. /\ init = "write" /\ init_pos \in 1..Setters /\ init_pos' = init_pos + 1
      /\ Setters = 2 * Len(Stages) /\ Len(Stages) \in Nat
      /\ UNCHANGED <<runtime, rt, init>> /\ rt = runtime
      /\ Written \in Stage
  BY StageOf, WrittenIsStage DEF ConfigureWrite, TypeOK, Setters, CopyWritten
<1> SUFFICES ASSUME NEW j \in 1..Len(Stages)
             PROVE  /\ j < init_pos + 1 => DownshiftMatches(Stages[j], runtime[Stages[j]])'
                    /\ Len(Stages) + j < init_pos + 1 =>
                         RateMatches(Stages[j], runtime[Stages[j]])'
  BY <1>0 DEF CopyWritten
<1>1. /\ j < init_pos => DownshiftMatches(Stages[j], runtime[Stages[j]])
      /\ Len(Stages) + j < init_pos => RateMatches(Stages[j], runtime[Stages[j]])
      /\ Stages[j] \in Stage
  BY <1>0, StageOf DEF CopyWritten
<1>2. CASE WritesDownshift
  <2>1. /\ init_pos <= Len(Stages) /\ Written = Stages[init_pos]
        /\ register' = [register EXCEPT ![Written].downshift
                                          = DownshiftValue(Written, runtime[Written])]
    BY <1>0, <1>2 DEF ConfigureWrite, WritesDownshift, Written
  <2>2. ~(Len(Stages) + j < init_pos + 1)
    BY <1>0, <2>1
  <2> HIDE DEF Written, DownshiftValue
  <2>3. /\ register'[Written].downshift = DownshiftValue(Written, runtime[Written])
        /\ \A s \in Stage : s # Written => register'[s] = register[s]
    BY <1>0, <2>1 DEF TypeOK
  <2>4. ASSUME j < init_pos + 1
        PROVE  register'[Stages[j]].downshift
                 = DownshiftValue(Stages[j], runtime[Stages[j]])
    <3>1. CASE Stages[j] = Written
      BY <2>3, <3>1
    <3>2. CASE Stages[j] # Written
      <4>1. j < init_pos
        BY <1>0, <2>1, <2>4, <3>2
      <4> QED
        BY <1>1, <2>3, <3>2, <4>1 DEF DownshiftMatches
    <3> QED
      BY <3>1, <3>2
  <2> QED
    BY <1>0, <2>2, <2>4 DEF DownshiftMatches
<1>3. CASE ~WritesDownshift
  <2>1. /\ init_pos > Len(Stages) /\ Written = Stages[init_pos - Len(Stages)]
        /\ register' = [register EXCEPT ![Written].rate = RateValue(runtime[Written])]
    BY <1>0, <1>3 DEF ConfigureWrite, WritesDownshift, Written
  <2> HIDE DEF Written, RateValue
  <2>2. /\ register'[Written].rate = RateValue(runtime[Written])
        /\ register'[Written].downshift = register[Written].downshift
        /\ \A s \in Stage : s # Written => register'[s] = register[s]
    BY <1>0, <2>1 DEF TypeOK
  <2>3. DownshiftMatches(Stages[j], runtime[Stages[j]])'
    BY <1>0, <1>1, <2>1, <2>2 DEF DownshiftMatches
  <2>4. ASSUME Len(Stages) + j < init_pos + 1
        PROVE  register'[Stages[j]].rate = RateValue(runtime[Stages[j]])
    <3>1. CASE Stages[j] = Written
      BY <2>2, <3>1
    <3>2. CASE Stages[j] # Written
      <4>0. j # init_pos - Len(Stages)
        BY <2>1, <3>2
      <4>1. Len(Stages) + j < init_pos
        BY <1>0, <2>1, <2>4, <4>0
      <4> QED
        BY <1>1, <2>2, <3>2, <4>1 DEF RateMatches
    <3> QED
      BY <3>1, <3>2
  <2> QED
    BY <1>0, <2>3, <2>4 DEF RateMatches
<1> QED
  BY <1>2, <1>3

(* The end of CONFIGURE: the registers are those of the runtime config,    *)
(* and as far as the pass has come those of the settings.                  *)
LEMMA DoneReaches ==
  ASSUME TypeOK, PassInv, CopyWritten, ConfigureDone
  PROVE  RatesFollow' /\ DownshiftsReached'
<1>0. /\ init = "write" /\ init_pos = Setters + 1
      /\ Setters = 2 * Len(Stages) /\ Len(Stages) \in Nat
      /\ UNCHANGED <<setting, loaded, runtime, register, host>>
  BY StageOf DEF ConfigureDone, Setters
<1>1. \A j \in 1..Len(Stages) : /\ DownshiftMatches(Stages[j], runtime[Stages[j]])
                                /\ RateMatches(Stages[j], runtime[Stages[j]])
  BY <1>0 DEF CopyWritten
<1>2. \A s \in Stage : RateMatches(s, runtime[s])
  BY <1>1 DEF Stage
<1>3. ASSUME loaded, NEW j \in 1..Len(Stages), Len(Stages) + j <= host,
             InRange(Stages[j], setting[Stages[j]])
      PROVE  DownshiftMatches(Stages[j], setting[Stages[j]])
  <2>1. SampleFollows(Stages[j]) /\ DownshiftFollows(Stages[j])
    <3>1. j <= host
      BY <1>0, <1>3 DEF TypeOK
    <3> QED
      BY <1>3, <3>1 DEF PassInv, Reached
  <2> QED
    BY <1>1, <1>3, <2>1
    DEF SampleFollows, DownshiftFollows, DownshiftMatches, DownshiftValue
<1> QED
  BY <1>0, <1>2, <1>3 DEF RatesFollow, DownshiftsReached, RateMatches, DownshiftMatches

(* When nobody calls a setter while CONFIGURE writes, the sensor has what  *)
(* the settings say once the last change has been applied: whatever was    *)
(* refused on the way, and however often the sensor was initialised again  *)
(* in between.  Without the assumption it need not (ConfigLostUpdate.cfg). *)
THEOREM SettingsReach ==
  ASSUME QuietConfigure
  PROVE  Spec => []SettingsReachSensor
<1>1. Init => PassInv /\ SensorInv
  BY DEF Init, PassInv, SensorInv, ReadyIsIdle, CopyWritten, RatesFollow, DownshiftsReached
<1>2. TypeOK /\ PassInv /\ SensorInv /\ [Next]_vars => SensorInv'
  <2> SUFFICES ASSUME TypeOK, PassInv, SensorInv, [Next]_vars
               PROVE  SensorInv'
    OBVIOUS
  <2>0. ReadyIsIdle /\ CopyWritten /\ RatesFollow /\ DownshiftsReached
    BY DEF SensorInv
  <2>1. CASE InitStart
    BY <2>0, <2>1
    DEF InitStart, SensorInv, ReadyIsIdle, CopyWritten, RatesFollow, DownshiftsReached
  <2>2. CASE ConfigureApply
    BY <2>0, <2>2
    DEF ConfigureApply, SensorInv, ReadyIsIdle, CopyWritten, RatesFollow, DownshiftsReached
  <2>3. CASE ConfigureCopy
    <3>1. \A j \in 1..Len(Stages) : ~(j < 1) /\ ~(Len(Stages) + j < 1)
      BY StageOf
    <3>2. CopyWritten'
      BY <2>3, <3>1 DEF ConfigureCopy, CopyWritten
    <3> QED
      BY <2>0, <2>3, <3>2
      DEF ConfigureCopy, SensorInv, ReadyIsIdle, RatesFollow, DownshiftsReached
  <2>4. CASE ConfigureWrite
    <3>1. ~ready /\ ~ready' /\ CopyWritten'
      BY <2>0, <2>4, WriteReaches DEF ConfigureWrite, ReadyIsIdle
    <3> QED
      BY <3>1 DEF SensorInv, ReadyIsIdle, RatesFollow, DownshiftsReached
  <2>5. CASE ConfigureFail
    BY <2>0, <2>5
    DEF ConfigureFail, SensorInv, ReadyIsIdle, CopyWritten, RatesFollow, DownshiftsReached
  <2>6. CASE ConfigureDone
    <3>1. RatesFollow' /\ DownshiftsReached'
      BY <2>0, <2>6, DoneReaches
    <3>2. ReadyIsIdle' /\ CopyWritten'
      BY <2>6 DEF ConfigureDone, ReadyIsIdle, CopyWritten
    <3> QED
      BY <3>1, <3>2 DEF SensorInv
  <2>7. CASE Recover
    BY <2>7 DEF Recover, SensorInv, ReadyIsIdle, CopyWritten, RatesFollow, DownshiftsReached
  <2>8. CASE LoadSettings \/ \E s \in Stage : ChangeSetting(s)
    <3>1. /\ UNCHANGED <<runtime, rt, register, ready, init, init_pos>>
          /\ host' = 0
      BY <2>8 DEF LoadSettings, ChangeSetting
    <3>2. \A j \in 1..Len(Stages) : ~(Len(Stages) + j <= 0)
      BY StageOf
    <3>3. DownshiftsReached'
      BY <3>1, <3>2 DEF DownshiftsReached
    <3>4. ReadyIsIdle' /\ CopyWritten' /\ RatesFollow'
      BY <2>0, <3>1
      DEF ReadyIsIdle, CopyWritten, RatesFollow, RateMatches, DownshiftMatches
    <3> QED
      BY <3>3, <3>4 DEF SensorInv
  <2>9. CASE HostApply
    <3>0. /\ host + 1 \in 1..Setters /\ ApplySetter(host + 1) /\ init # "write"
          /\ UNCHANGED <<setting, loaded, ready, init>>
      BY <2>9, StageOf DEF HostApply, TypeOK
    <3>1. ReadyIsIdle' /\ CopyWritten'
      BY <2>0, <3>0 DEF ReadyIsIdle, CopyWritten
    <3>2. RatesFollow'
      <4>1. CASE ~ready
        BY <3>0, <4>1 DEF RatesFollow
      <4>2. CASE ready
        <5>1. \A s \in Stage : RateMatches(s, runtime[s])'
          BY <2>0, <3>0, <4>2, SetterKeepsRates DEF RatesFollow
        <5> QED
          BY <5>1 DEF RatesFollow
      <4> QED
        BY <4>1, <4>2
    <3>3. DownshiftsReached'
      <4>1. CASE ready /\ loaded
        BY <2>0, <2>9, <4>1, SetterReachesSensor DEF PassInv
      <4>2. CASE ~(ready /\ loaded)
        BY <3>0, <4>2 DEF DownshiftsReached
      <4> QED
        BY <4>1, <4>2
    <3> QED
      BY <3>1, <3>2, <3>3 DEF SensorInv
  <2>10. CASE UNCHANGED vars
    BY <2>0, <2>10
    DEF vars, SensorInv, ReadyIsIdle, CopyWritten, RatesFollow, DownshiftsReached,
        RateMatches, DownshiftMatches
  <2> QED
    BY <2>1, <2>2, <2>3, <2>4, <2>5, <2>6, <2>7, <2>8, <2>9, <2>10 DEF Next, Configure
<1>3. TypeOK /\ PassInv /\ SensorInv => SettingsReachSensor
  <2> SUFFICES ASSUME TypeOK, PassInv, SensorInv, loaded, host = Setters, ready,
                      NEW s \in Stage, InRange(s, setting[s])
               PROVE  register[s] = [downshift |-> DownshiftValue(s, setting[s]),
                                     rate |-> RateValue(setting[s])]
    BY DEF SettingsReachSensor
  <2>1. PICK j \in 1..Len(Stages) : s = Stages[j]
    BY DEF Stage
  <2>2. j <= host /\ Len(Stages) + j <= host
    BY StageOf DEF Setters
  <2>3. register[s].downshift = DownshiftValue(s, setting[s])
    BY <2>1, <2>2 DEF SensorInv, DownshiftsReached, DownshiftMatches
  <2>4. register[s].rate = RateValue(runtime[s]) /\ runtime[s].sample = setting[s].sample
    BY <2>1, <2>2 DEF SensorInv, RatesFollow, RateMatches, PassInv, Reached, SampleFollows
  <2>5. register[s].rate = RateValue(setting[s])
    BY <2>4 DEF RateValue
  <2>6. register[s] \in [downshift : Byte, rate : Byte]
    BY DEF TypeOK
  <2> QED
    BY <2>3, <2>5, <2>6
<1>4. Spec => []PassInv
  BY PassReaches
<1> QED
  BY <1>1, <1>2, <1>3, <1>4, ConfigTypeCorrect, PTL DEF Spec
=============================================================================
