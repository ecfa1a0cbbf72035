----------------------------- MODULE MotionReport -----------------------------
(***************************************************************************)
(* What pmw3610_report_data makes of the motion it reads: the conversion   *)
(* of the 12-bit deltas, the axis flags, the accumulation under a minimum  *)
(* report interval, and the clamp to the 16 bits of an input event.        *)
(*                                                                         *)
(* A report is one step: the workqueue runs one at a time, nobody else     *)
(* touches dx, dy and the two times, and the runtime config is copied      *)
(* under the lock at its beginning, so a setter counts as before or after  *)
(* it.  When it runs at all, and what it does to the sensor, is in         *)
(* Pmw3610Driver: a report that returns early changes nothing here.        *)
(***************************************************************************)
EXTENDS Integers, Sequences

CONSTANTS
  Low,          \* values of a register of low bits (256)
  High,         \* values of each half of XY_H (16)
  Int16Max,     \* largest delta of an input event (32767)
  MaxInterval,  \* largest report interval that is accepted (1000 ms)
  Motion,       \* the motions the sensor may report
  Interval,     \* the report intervals that are set
  AxisFlags,    \* the axis flags that are set
  MaxTime,      \* bound on the uptime
  MaxSamples    \* bound on the samples between two events

(* Deltas are two's complement numbers of the bits of Low and High.        *)
Half == (Low * High) \div 2

Flags == [swap_xy : BOOLEAN, invert_x : BOOLEAN, invert_y : BOOLEAN]

ASSUME WidthAssumption ==
  /\ Low \in Nat \ {0} /\ High \in Nat \ {0} /\ Low * High = 2 * Half
  /\ Int16Max \in Nat \ {0}
ASSUME MotionAssumption == Motion \subseteq [x : -Half..Half - 1, y : -Half..Half - 1]
ASSUME SetterAssumption ==
  /\ Interval \subseteq Nat /\ MaxInterval \in Nat
  /\ AxisFlags \subseteq Flags
ASSUME BoundAssumption == MaxTime \in Nat /\ MaxSamples \in Nat

VARIABLES
  now,              \* k_uptime_get()
  report_interval_min_ms, flags,               \* data->runtime
  dx, dy, last_smp_time, last_rpt_time,        \* struct pixart_data
  event,            \* the event the last report raised, if it did
  (* For the properties: the samples since the last event, with the one    *)
  (* that raised it; when a sample under an interval was last taken; when  *)
  (* and under which interval the last event was raised (0 if none was).   *)
  trace, sampled, last

runtime == <<report_interval_min_ms, flags>>
data    == <<dx, dy, last_smp_time, last_rpt_time>>
history == <<trace, sampled, last>>
vars    == <<now, runtime, data, event, history>>

-----------------------------------------------------------------------------
Delta == -Int16Max - 1..Int16Max

NoEvent == [x |-> 0, y |-> 0]

(* What the properties remember of a sample.                               *)
Record == [gap : 0..MaxTime, time : 0..MaxTime, interval : 0..MaxInterval,
           x : -Half..Half, y : -Half..Half]

TypeOK ==
  /\ now \in 0..MaxTime
  /\ report_interval_min_ms \in 0..MaxInterval
  /\ flags \in Flags
  /\ dx \in Int /\ dy \in Int
  /\ last_smp_time \in 0..now /\ last_rpt_time \in 0..now
  /\ event \in [x : Delta, y : Delta]
  /\ trace \in Seq(Record)
  /\ sampled \in 0..now
  /\ last \in [time : 0..now, interval : 0..MaxInterval]

(* The runtime config is seeded from Kconfig; the times are zeroed.        *)
Init ==
  /\ now = 0
  /\ report_interval_min_ms \in {i \in Interval : i <= MaxInterval}
  /\ flags \in AxisFlags
  /\ dx = 0 /\ dy = 0 /\ last_smp_time = 0 /\ last_rpt_time = 0
  /\ event = NoEvent
  /\ trace = <<>>
  /\ sampled = 0
  /\ last = [time |-> 0, interval |-> 0]

-----------------------------------------------------------------------------
(* The sample.                                                             *)

(* The registers of a burst: the sensor's side of the conversion.          *)
Bits(v) == v % (2 * Half)

Burst(m) ==
  [x_l  |-> Bits(m.x) % Low,
   y_l  |-> Bits(m.y) % Low,
   xy_h |-> (Bits(m.x) \div Low) * High + Bits(m.y) \div Low]

(* TOINT16: the sign of a 12-bit number is its highest bit.                *)
ToInt16(v) == IF v < Half THEN v ELSE v - 2 * Half

(* Variant with a slip: the halves of XY_H are taken the other way round.  *)
ConvertSwappedHalves(buf) ==
  [x |-> ToInt16(buf.x_l + (buf.xy_h % High) * Low),
   y |-> ToInt16(buf.y_l + (buf.xy_h \div High) * Low)]

Convert(buf) ==
  [x |-> ToInt16(buf.x_l + (buf.xy_h \div High) * Low),
   y |-> ToInt16(buf.y_l + (buf.xy_h % High) * Low)]

(* The axes are swapped first, so that a flag inverts what is then x or y. *)
Swapped(s) == IF flags.swap_xy THEN [x |-> s.y, y |-> s.x] ELSE s

Inverted(s) == [x |-> IF flags.invert_x THEN -s.x ELSE s.x,
                y |-> IF flags.invert_y THEN -s.y ELSE s.y]

Sample(m) == Inverted(Swapped(Convert(Burst(m))))

-----------------------------------------------------------------------------
(* pmw3610_report_data, from the sample on.                                *)

Spaced == report_interval_min_ms > 0

(* Variant with a slip: what was held back is kept for ever.               *)
PurgesNever == FALSE

(* What was held back at an earlier sample is too old. *)
Purges == Spaced /\ now - last_smp_time >= report_interval_min_ms

(* The deltas with those of the sample s. *)
Accumulated(s) ==
  [x |-> (IF Purges THEN 0 ELSE dx) + s.x, y |-> (IF Purges THEN 0 ELSE dy) + s.y]

(* It is too early for an event. *)
TooEarly == Spaced /\ now - last_rpt_time < report_interval_min_ms

(* Variant with a slip: only one end is clamped.                           *)
ClampUpwards(v) == IF v < -Int16Max - 1 THEN -Int16Max - 1 ELSE v

Clamp(v) == IF v > Int16Max THEN Int16Max
            ELSE IF v < -Int16Max - 1 THEN -Int16Max - 1 ELSE v

EventOf(d) == [x |-> Clamp(d.x), y |-> Clamp(d.y)]

(* The reference for what the sample of motion m is worth: each axis of    *)
(* the event is an axis of the sensor, with a sign.                        *)
Oriented(m) ==
  LET sign(inverted) == IF inverted THEN -1 ELSE 1
  IN [x |-> sign(flags.invert_x) * (IF flags.swap_xy THEN m.y ELSE m.x),
      y |-> sign(flags.invert_y) * (IF flags.swap_xy THEN m.x ELSE m.y)]

(* The samples since the last event. *)
Since == IF event = NoEvent THEN trace ELSE <<>>

RecordOf(m) ==
  [gap |-> now - sampled, time |-> now, interval |-> report_interval_min_ms,
   x |-> Oriented(m).x, y |-> Oriented(m).y]

Remember(m) ==
  /\ trace' = Append(Since, RecordOf(m))
  /\ sampled' = IF Spaced THEN now ELSE sampled

MaySample == Len(Since) < MaxSamples

(* The sample is added, and kept for a later report. *)
Keep(m) ==
  /\ last_smp_time' = IF Spaced THEN now ELSE last_smp_time
  /\ dx' = Accumulated(Sample(m)).x
  /\ dy' = Accumulated(Sample(m)).y
  /\ event' = NoEvent
  /\ Remember(m)
  /\ UNCHANGED <<now, runtime, last_rpt_time, last>>

ReportTooEarly(m) == MaySample /\ TooEarly /\ Keep(m)

ReportNoMotion(m) ==
  /\ MaySample /\ ~TooEarly /\ EventOf(Accumulated(Sample(m))) = NoEvent
  /\ Keep(m)

(* The event is raised. *)
Raise(m) ==
  /\ MaySample /\ ~TooEarly /\ EventOf(Accumulated(Sample(m))) # NoEvent
  /\ event' = EventOf(Accumulated(Sample(m)))
  /\ last_smp_time' = IF Spaced THEN now ELSE last_smp_time
  /\ dx' = 0 /\ dy' = 0
  /\ Remember(m)
  /\ last' = [time |-> now, interval |-> report_interval_min_ms]
  /\ UNCHANGED <<now, runtime>>

(* Variant with a slip: the time of the event is not stored.               *)
ReportMotionForgotten(m) == Raise(m) /\ UNCHANGED last_rpt_time

ReportMotion(m) ==
  /\ Raise(m)
  /\ last_rpt_time' = IF Spaced THEN now ELSE last_rpt_time

-----------------------------------------------------------------------------
(* pmw3610_set_report_interval_min *)
SetReportIntervalMin(value) ==
  /\ value <= MaxInterval
  /\ report_interval_min_ms' = value
  /\ UNCHANGED <<now, flags, data, event, history>>

(* pmw3610_set_axis_flags *)
SetAxisFlags(value) ==
  /\ flags' = value
  /\ UNCHANGED <<now, report_interval_min_ms, data, event, history>>

Tick ==
  /\ now < MaxTime
  /\ now' = now + 1
  /\ UNCHANGED <<runtime, data, event, history>>

ReportData == \E m \in Motion : ReportTooEarly(m) \/ ReportNoMotion(m) \/ ReportMotion(m)

Next ==
  \/ ReportData
  \/ \E i \in Interval : SetReportIntervalMin(i)
  \/ \E f \in AxisFlags : SetAxisFlags(f)
  \/ Tick

Spec == Init /\ [][Next]_vars

-----------------------------------------------------------------------------
(* Properties.                                                             *)

Plus(a, b) == [x |-> a.x + b.x, y |-> a.y + b.y]

(* The sum of the samples of t from the k-th on. *)
SumFrom(t, k) ==
  LET sum[i \in 0..Len(t)] == IF i < k THEN NoEvent ELSE Plus(sum[i - 1], t[i])
  IN sum[Len(t)]

(* The last of the samples of t that came too late for those before it to  *)
(* be kept, or the first.                                                  *)
StartsOver(s) == s.interval > 0 /\ s.gap >= s.interval

IsLastStart(t, k) ==
  /\ k = 1 \/ StartsOver(t[k])
  /\ \A i \in k + 1..Len(t) : ~StartsOver(t[i])

(* An event carries the motion of every sample since the last event, or    *)
(* since the last one that started over: whatever the interval and the     *)
(* axis flags were in between, no sample is lost or counted twice, and     *)
(* what does not fit the event is the only thing cut off.                  *)
EventIsSum ==
  event # NoEvent => \E k \in DOMAIN trace :
    IsLastStart(trace, k) /\ event = EventOf(SumFrom(trace, k))

(* An event under an interval carries no motion older than twice the       *)
(* longest interval it was held back for: i and j may be one sample        *)
(* (samples that cancel out aside).                                        *)
NoStaleMotion ==
  event # NoEvent /\ trace[Len(trace)].interval > 0 =>
    \E k \in DOMAIN trace :
      /\ event = EventOf(SumFrom(trace, k))
      /\ \E i, j \in k..Len(trace) :
           trace[Len(trace)].time - trace[k].time < trace[i].interval + trace[j].interval

(* Two events under an interval are at least the interval apart, also when *)
(* it was changed in between, or another one held back by it was dropped.  *)
EventsAreSpaced ==
  [][\A m \in Motion : Raise(m) /\ Spaced /\ last.interval > 0 =>
       now - last.time >= report_interval_min_ms]_vars
=============================================================================
