-------------------------- MODULE MotionReportProofs --------------------------
(***************************************************************************)
(* Theorems about MotionReport, for every width of a delta and of an       *)
(* event, every motion, interval and bound.                                *)
(***************************************************************************)
EXTENDS MotionReport, WellFoundedInduction, TLAPS

-----------------------------------------------------------------------------
(* The conversion.                                                         *)

LEMMA DivMod ==
  ASSUME NEW v \in Nat, NEW b \in Nat \ {0}
  PROVE  /\ v = b * (v \div b) + (v % b)
         /\ v \div b \in Nat
         /\ (v % b) \in 0..b - 1
  OBVIOUS

LEMMA DivModUnique ==
  ASSUME NEW q \in Nat, NEW b \in Nat \ {0}, NEW r \in 0..b - 1
  PROVE  (q * b + r) \div b = q /\ (q * b + r) % b = r
  OBVIOUS

LEMMA HalfIsInt == Half \in Nat \ {0}
  BY WidthAssumption DEF Half

(* The high part of a number of the width of a delta fits its half of XY_H. *)
LEMMA HighFits ==
  ASSUME NEW v \in 0..2 * Half - 1
  PROVE  v \div Low \in 0..High - 1
<1>1. Low \in Nat \ {0} /\ High \in Nat \ {0} /\ v \in Nat /\ v < Low * High
  BY WidthAssumption, HalfIsInt
<1>2. v \div Low \in Nat /\ v >= Low * (v \div Low)
  <2>1. v = Low * (v \div Low) + (v % Low) /\ v \div Low \in Nat /\ (v % Low) \in 0..Low - 1
    BY <1>1, DivMod
  <2>2. Low * (v \div Low) \in Int
    BY <1>1, <2>1
  <2> QED BY <1>1, <2>1, <2>2
<1>3. Low * (v \div Low) < Low * High
  BY <1>1, <1>2, HalfIsInt, WidthAssumption
<1>4. ~(v \div Low >= High)
  BY <1>1, <1>2, <1>3
<1> QED BY <1>1, <1>2, <1>4

(* What the driver assembles from the registers is what the sensor had.    *)
LEMMA AssembleInverts ==
  ASSUME NEW m \in [x : -Half..Half - 1, y : -Half..Half - 1]
  PROVE  LET buf == Burst(m)
         IN /\ buf.x_l + (buf.xy_h \div High) * Low = Bits(m.x)
            /\ buf.y_l + (buf.xy_h % High) * Low = Bits(m.y)
<1> DEFINE bx == Bits(m.x)
           by == Bits(m.y)
<1>1. bx \in 0..2 * Half - 1 /\ by \in 0..2 * Half - 1
  BY HalfIsInt DEF Bits
<1>2. Low \in Nat \ {0} /\ High \in Nat \ {0} /\ bx \in Nat /\ by \in Nat
  BY <1>1, HalfIsInt, WidthAssumption
<1>3. bx \div Low \in Nat /\ by \div Low \in 0..High - 1
  BY <1>1, HighFits
<1>4. /\ ((bx \div Low) * High + by \div Low) \div High = bx \div Low
      /\ ((bx \div Low) * High + by \div Low) % High = by \div Low
  <2> HIDE DEF bx, by
  <2> QED BY <1>2, <1>3, DivModUnique
<1>5. bx = Low * (bx \div Low) + (bx % Low) /\ by = Low * (by \div Low) + (by % Low)
  <2> HIDE DEF bx, by
  <2> QED BY <1>2, DivMod
<1>6. (bx % Low) \in Int /\ (by % Low) \in Int
  <2> HIDE DEF bx, by
  <2> QED BY <1>2, DivMod
<1>7. Burst(m) = [x_l |-> bx % Low, y_l |-> by % Low,
                  xy_h |-> (bx \div Low) * High + by \div Low]
  BY DEF Burst
<1> HIDE DEF bx, by
<1>8. /\ (bx % Low) + (bx \div Low) * Low = bx
      /\ (by % Low) + (by \div Low) * Low = by
  BY <1>2, <1>3, <1>5, <1>6
<1> QED BY <1>4, <1>7, <1>8 DEF bx, by

(* The sign is the highest bit. *)
LEMMA SignInverts ==
  ASSUME NEW v \in -Half..Half - 1
  PROVE  ToInt16(Bits(v)) = v
<1>1. CASE v >= 0
  <2>1. v % (2 * Half) = v
    BY <1>1, HalfIsInt
  <2> QED BY <1>1, <2>1, HalfIsInt DEF ToInt16, Bits
<1>2. CASE v < 0
  <2>1. v % (2 * Half) = v + 2 * Half
    BY <1>2, HalfIsInt
  <2> QED BY <1>2, <2>1, HalfIsInt DEF ToInt16, Bits
<1> QED BY <1>1, <1>2, HalfIsInt

(* The driver reads the motion that the sensor measured, sign and all.     *)
THEOREM ConvertInverts ==
  ASSUME NEW m \in [x : -Half..Half - 1, y : -Half..Half - 1]
  PROVE  Convert(Burst(m)) = m
<1>1. Convert(Burst(m)) = [x |-> ToInt16(Bits(m.x)), y |-> ToInt16(Bits(m.y))]
  BY AssembleInverts DEF Convert
<1>2. m.x \in -Half..Half - 1 /\ m.y \in -Half..Half - 1
  OBVIOUS
<1>3. m = [x |-> m.x, y |-> m.y]
  OBVIOUS
<1> QED BY <1>1, <1>2, <1>3, SignInverts

-----------------------------------------------------------------------------
(* Types.                                                                  *)

LEMMA ConvertIsInt ==
  ASSUME NEW m \in Motion
  PROVE  Convert(Burst(m)) = m /\ m.x \in -Half..Half - 1 /\ m.y \in -Half..Half - 1
  BY MotionAssumption, ConvertInverts

LEMMA SampleInRange ==
  ASSUME NEW m \in Motion
  PROVE  Sample(m).x \in -Half..Half /\ Sample(m).y \in -Half..Half
<1>1. Swapped(m).x \in -Half..Half - 1 /\ Swapped(m).y \in -Half..Half - 1
  BY ConvertIsInt DEF Swapped
<1>2. Sample(m) = Inverted(Swapped(m))
  BY ConvertIsInt DEF Sample
<1> QED BY <1>1, <1>2, HalfIsInt DEF Inverted

LEMMA OrientedInRange ==
  ASSUME NEW m \in Motion
  PROVE  Oriented(m).x \in -Half..Half /\ Oriented(m).y \in -Half..Half
  BY ConvertIsInt, HalfIsInt DEF Oriented

LEMMA ClampInRange ==
  ASSUME NEW v \in Int
  PROVE  Clamp(v) \in Delta
  BY WidthAssumption DEF Clamp, Delta

(* What a report reads and what it remembers, as far as types go.          *)
LEMMA ReportTypes ==
  ASSUME TypeOK, NEW m \in Motion, MaySample
  PROVE  /\ Accumulated(Sample(m)).x \in Int /\ Accumulated(Sample(m)).y \in Int
         /\ EventOf(Accumulated(Sample(m))) \in [x : Delta, y : Delta]
         /\ Remember(m) =>
              /\ trace' \in Seq(Record)
              /\ sampled' \in 0..now
<1>1. Accumulated(Sample(m)).x \in Int /\ Accumulated(Sample(m)).y \in Int
  BY SampleInRange, HalfIsInt DEF TypeOK, Accumulated
<1>2. EventOf(Accumulated(Sample(m))) \in [x : Delta, y : Delta]
  BY <1>1, ClampInRange DEF EventOf
<1>3. ASSUME Remember(m)
      PROVE  /\ trace' \in Seq(Record)
             /\ sampled' \in 0..now
  <2>1. RecordOf(m) \in Record
    BY OrientedInRange, BoundAssumption DEF TypeOK, RecordOf, Record
  <2>2. Since \in Seq(Record)
    BY DEF TypeOK, Since
  <2>3. sampled' \in 0..now
    BY <1>3, BoundAssumption DEF Remember, TypeOK
  <2> QED BY <1>3, <2>1, <2>2, <2>3 DEF Remember
<1> QED BY <1>1, <1>2, <1>3

(* An event fits 16 bits whatever was accumulated, and the times of the    *)
(* last sample and of the last event are never in the future.              *)
THEOREM ReportTypeCorrect == Spec => []TypeOK
<1>1. Init => TypeOK
  BY WidthAssumption, SetterAssumption, BoundAssumption
  DEF Init, TypeOK, Delta, NoEvent
<1>2. ASSUME TypeOK, [Next]_vars
      PROVE  TypeOK'
  <2>1. ASSUME NEW m \in Motion, MaySample, Keep(m)
        PROVE  TypeOK'
    <3>1. event' \in [x : Delta, y : Delta]
      BY <2>1, WidthAssumption DEF Keep, Delta, NoEvent
    <3>2. last_smp_time' \in 0..now
      BY <1>2, <2>1, BoundAssumption DEF Keep, TypeOK
    <3> QED BY <1>2, <2>1, <3>1, <3>2, ReportTypes DEF Keep, TypeOK, runtime
  <2>2. ASSUME NEW m \in Motion, ReportMotion(m)
        PROVE  TypeOK'
    <3>1. last_smp_time' \in 0..now /\ last_rpt_time' \in 0..now
      BY <1>2, <2>2, BoundAssumption DEF ReportMotion, Raise, TypeOK
    <3>2. last' \in [time : 0..now, interval : 0..MaxInterval]
      BY <1>2, <2>2, BoundAssumption DEF ReportMotion, Raise, TypeOK
    <3>3. MaySample /\ Remember(m) /\ event' = EventOf(Accumulated(Sample(m)))
      BY <2>2 DEF ReportMotion, Raise
    <3>4. /\ event' \in [x : Delta, y : Delta]
          /\ trace' \in Seq(Record)
          /\ sampled' \in 0..now
      BY <1>2, <3>3, ReportTypes
    <3>5. dx' = 0 /\ dy' = 0 /\ UNCHANGED <<now, report_interval_min_ms, flags>>
      BY <2>2 DEF ReportMotion, Raise, runtime
    <3> QED BY <1>2, <3>1, <3>2, <3>4, <3>5 DEF TypeOK
  <2>3. ASSUME NEW i \in Interval, SetReportIntervalMin(i)
        PROVE  TypeOK'
    BY <1>2, <2>3, SetterAssumption DEF SetReportIntervalMin, TypeOK, data, history
  <2>4. ASSUME NEW f \in AxisFlags, SetAxisFlags(f)
        PROVE  TypeOK'
    BY <1>2, <2>4, SetterAssumption DEF SetAxisFlags, TypeOK, data, history
  <2>5. ASSUME Tick
        PROVE  TypeOK'
    BY <1>2, <2>5, BoundAssumption DEF Tick, TypeOK, runtime, data, history
  <2>6. ASSUME UNCHANGED vars
        PROVE  TypeOK'
    BY <1>2, <2>6 DEF vars, TypeOK, runtime, data, history
  <2> QED BY <1>2, <2>1, <2>2, <2>3, <2>4, <2>5, <2>6
          DEF Next, ReportData, ReportTooEarly, ReportNoMotion
<1> QED BY <1>1, <1>2, PTL DEF Spec

-----------------------------------------------------------------------------
(* The distance of events.  An event under an interval leaves its time in  *)
(* last_rpt_time, and no other report touches it.                          *)

LastEventTimed == last.interval > 0 => last_rpt_time = last.time

LEMMA LastEventIsTimed == Spec => []LastEventTimed
<1>1. Init => LastEventTimed
  BY DEF Init, LastEventTimed
<1>2. ASSUME TypeOK, LastEventTimed, [Next]_vars
      PROVE  LastEventTimed'
  <2>1. ASSUME NEW m \in Motion, Keep(m)
        PROVE  LastEventTimed'
    BY <1>2, <2>1 DEF Keep, LastEventTimed
  <2>2. ASSUME NEW m \in Motion, ReportMotion(m)
        PROVE  LastEventTimed'
    BY <2>2 DEF ReportMotion, Raise, Spaced, LastEventTimed
  <2>3. ASSUME UNCHANGED <<data, history>>
        PROVE  LastEventTimed'
    BY <1>2, <2>3 DEF data, history, LastEventTimed
  <2> QED BY <1>2, <2>1, <2>2, <2>3
          DEF Next, ReportData, ReportTooEarly, ReportNoMotion, SetReportIntervalMin,
              SetAxisFlags, Tick, vars
<1> QED BY <1>1, <1>2, ReportTypeCorrect, PTL DEF Spec

(* Events under an interval keep it, whatever the interval was in between, *)
(* how often the purge dropped motion and however much was held back.      *)
THEOREM EventsKeepInterval == Spec => EventsAreSpaced
<1>1. ASSUME TypeOK, LastEventTimed, NEW m \in Motion, Raise(m), Spaced, last.interval > 0
      PROVE  now - last.time >= report_interval_min_ms
  <2>1. ~(now - last_rpt_time < report_interval_min_ms)
    BY <1>1 DEF Raise, TooEarly
  <2> QED BY <1>1, <2>1, BoundAssumption DEF LastEventTimed, TypeOK
<1>2. TypeOK /\ LastEventTimed
        => [\A m \in Motion : Raise(m) /\ Spaced /\ last.interval > 0 =>
              now - last.time >= report_interval_min_ms]_vars
  BY <1>1
<1> QED BY <1>2, ReportTypeCorrect, LastEventIsTimed, PTL DEF EventsAreSpaced

-----------------------------------------------------------------------------
(* Sums over a sequence.  What SumFrom computes is found by induction on   *)
(* the length, for which the set of the lengths that are right is shown to *)
(* be all of Nat.                                                          *)

LEMMA SetInduction ==
  ASSUME NEW S, 0 \in S, \A n \in Nat : n \in S => n + 1 \in S
  PROVE  Nat \subseteq S
<1> DEFINE T == Nat \ S
           R == OpToRel(<, Nat)
<1> SUFFICES ASSUME T # {}
             PROVE  FALSE
  OBVIOUS
<1>1. PICK x \in T : \A y \in T : ~ (<<y, x>> \in R)
  <2>1. IsWellFoundedOn(R, Nat)
    BY NatLessThanWellFounded
  <2>2. T \subseteq Nat
    OBVIOUS
  <2> HIDE DEF T, R
  <2> QED BY <2>1, <2>2, WFMin
<1>2. x - 1 \in Nat /\ x - 1 < x
  OBVIOUS
<1>3. <<x - 1, x>> \in R
  BY <1>2 DEF OpToRel
<1>4. x - 1 \notin T
  <2> HIDE DEF R, T
  <2> QED BY <1>1, <1>3
<1> QED BY <1>2, <1>4

(* f[i] is the sum of the samples k to i of t, for every i up to n.        *)
IsSum(t, k, n, f) == f = [i \in 0..n |-> IF i < k THEN NoEvent ELSE Plus(f[i - 1], t[i])]

LEMMA SumExists ==
  ASSUME NEW t, NEW k \in Nat \ {0}, NEW n \in Nat
  PROVE  \E f : IsSum(t, k, n, f)
<1> DEFINE S == {i \in Nat : \E f : IsSum(t, k, i, f)}
<1>1. 0 \in S
  <2>1. IsSum(t, k, 0, [i \in 0..0 |-> NoEvent])
    BY DEF IsSum
  <2> QED BY <2>1
<1>2. ASSUME NEW i \in Nat, NEW f, IsSum(t, k, i, f)
      PROVE  \E g : IsSum(t, k, i + 1, g)
  <2> DEFINE g == [j \in 0..i + 1 |-> IF j <= i THEN f[j]
                                      ELSE IF j < k THEN NoEvent ELSE Plus(f[j - 1], t[j])]
  <2>1. ASSUME NEW j \in 0..i + 1
        PROVE  g[j] = IF j < k THEN NoEvent ELSE Plus(g[j - 1], t[j])
    <3>1. CASE j <= i
      <4>1. g[j] = f[j] /\ j \in 0..i
        BY <3>1
      <4>2. f[j] = IF j < k THEN NoEvent ELSE Plus(f[j - 1], t[j])
        BY <1>2, <4>1 DEF IsSum
      <4>3. j >= k => g[j - 1] = f[j - 1]
        BY <4>1
      <4> QED BY <4>1, <4>2, <4>3
    <3>2. CASE j = i + 1
      BY <3>2
    <3> QED BY <3>1, <3>2
  <2>2. IsSum(t, k, i + 1, g)
    BY <2>1 DEF IsSum
  <2> QED BY <2>2
<1>3. \A i \in Nat : i \in S => i + 1 \in S
  BY <1>2
<1>4. Nat \subseteq S
  <2> HIDE DEF S
  <2> QED BY <1>1, <1>3, SetInduction
<1> QED BY <1>4

(* SumFrom is what its recursive definition says. *)
LEMMA SumUnfolds ==
  ASSUME NEW t, NEW k \in Nat \ {0}, Len(t) \in Nat
  PROVE  \E f : IsSum(t, k, Len(t), f) /\ SumFrom(t, k) = f[Len(t)]
<1>1. \E f : IsSum(t, k, Len(t), f)
  BY SumExists
<1> QED BY <1>1 DEF SumFrom, IsSum

LEMMA SumOfNone ==
  ASSUME NEW t, NEW k \in Nat \ {0}, Len(t) \in Nat, Len(t) < k
  PROVE  SumFrom(t, k) = NoEvent
<1>1. PICK f : IsSum(t, k, Len(t), f) /\ SumFrom(t, k) = f[Len(t)]
  BY SumUnfolds
<1> QED BY <1>1 DEF IsSum

(* A sum over the first samples is the same when another sample follows.   *)
LEMMA SumsAgree ==
  ASSUME NEW t, NEW u, NEW k \in Nat \ {0}, NEW n \in Nat, NEW f, NEW g,
         IsSum(t, k, n, f), IsSum(u, k, n + 1, g),
         \A i \in 1..n : t[i] = u[i]
  PROVE  f[n] = g[n]
<1> DEFINE S == {i \in Nat : i <= n => f[i] = g[i]}
<1>1. ASSUME NEW i \in 0..n
      PROVE  /\ f[i] = IF i < k THEN NoEvent ELSE Plus(f[i - 1], t[i])
             /\ g[i] = IF i < k THEN NoEvent ELSE Plus(g[i - 1], u[i])
  BY DEF IsSum
<1>2. 0 \in S
  BY <1>1
<1>3. \A i \in Nat : i \in S => i + 1 \in S
  <2> SUFFICES ASSUME NEW i \in Nat, i \in S, i + 1 <= n
               PROVE  f[i + 1] = g[i + 1]
    OBVIOUS
  <2>1. f[i] = g[i] /\ i + 1 \in 0..n /\ t[i + 1] = u[i + 1] /\ (i + 1) - 1 = i
    OBVIOUS
  <2> QED BY <1>1, <2>1
<1>4. Nat \subseteq S
  <2> HIDE DEF S
  <2> QED BY <1>2, <1>3, SetInduction
<1> QED BY <1>4

LEMMA SumOfAppend ==
  ASSUME NEW S, NEW t \in Seq(S), NEW s \in S, NEW k \in 1..Len(t) + 1
  PROVE  SumFrom(Append(t, s), k) = Plus(SumFrom(t, k), s)
<1> DEFINE u == Append(t, s)
<1>1. /\ Len(t) \in Nat /\ Len(u) = Len(t) + 1 /\ u[Len(t) + 1] = s
      /\ \A i \in 1..Len(t) : t[i] = u[i]
  OBVIOUS
<1> HIDE DEF u
<1>2. PICK f : IsSum(t, k, Len(t), f) /\ SumFrom(t, k) = f[Len(t)]
  BY <1>1, SumUnfolds
<1>3. PICK g : IsSum(u, k, Len(t) + 1, g) /\ SumFrom(u, k) = g[Len(t) + 1]
  BY <1>1, SumUnfolds
<1>4. g[Len(t) + 1] = Plus(g[Len(t)], u[Len(t) + 1])
  BY <1>1, <1>3 DEF IsSum
<1>5. f[Len(t)] = g[Len(t)]
  <2>1. PICK n \in Nat : n = Len(t)
    BY <1>1
  <2>2. k \in Nat \ {0}
    BY <1>1
  <2>3. IsSum(t, k, n, f) /\ IsSum(u, k, n + 1, g)
    BY <1>2, <1>3, <2>1
  <2>4. \A i \in 1..n : t[i] = u[i]
    BY <1>1, <2>1
  <2>5. f[n] = g[n]
    BY <2>2, <2>3, <2>4, SumsAgree
  <2> QED BY <2>1, <2>5
<1> QED BY <1>1, <1>2, <1>3, <1>4, <1>5 DEF u

-----------------------------------------------------------------------------
(* What is held back, as a sum over the samples remembered.                *)

Holds(t, k) == dx = SumFrom(t, k).x /\ dy = SumFrom(t, k).y

SumInv ==
  /\ sampled = last_smp_time
  /\ event # NoEvent => trace # <<>>
  /\ event # NoEvent \/ trace = <<>> => dx = 0 /\ dy = 0
  (* either nothing was held back, or everything since the last start *)
  /\ event = NoEvent /\ trace # <<>> =>
       \E k \in DOMAIN trace : IsLastStart(trace, k) /\ Holds(trace, k)

(* Motion that is held back was so for less than an interval, since an     *)
(* event: whatever else was held back came to nothing.                     *)
AgeInv ==
  event = NoEvent /\ (dx # 0 \/ dy # 0) =>
    /\ trace[Len(trace)].time = sampled
    /\ trace[Len(trace)].interval > 0
    /\ sampled - last_rpt_time < trace[Len(trace)].interval
    /\ \E k \in DOMAIN trace : Holds(trace, k) /\ last_rpt_time <= trace[k].time

LEMMA SampleIsOriented ==
  ASSUME NEW m \in Motion
  PROVE  /\ Sample(m).x = Oriented(m).x /\ Sample(m).y = Oriented(m).y
         /\ Oriented(m).x \in Int /\ Oriented(m).y \in Int
<1>1. Sample(m) = Inverted(Swapped(m)) /\ m.x \in Int /\ m.y \in Int
  BY ConvertIsInt, HalfIsInt DEF Sample
<1> QED BY <1>1 DEF Inverted, Swapped, Oriented

(* A sample that is remembered, and how it continues those before it. *)
LEMMA Remembered ==
  ASSUME TypeOK, NEW m \in Motion, Remember(m)
  PROVE  /\ Since \in Seq(Record) /\ RecordOf(m) \in Record
         /\ trace' = Append(Since, RecordOf(m))
         /\ Len(Since) \in Nat /\ Len(trace') = Len(Since) + 1
         /\ DOMAIN trace' = 1..Len(Since) + 1
         /\ trace'[Len(Since) + 1] = RecordOf(m)
         /\ \A i \in 1..Len(Since) : trace'[i] = Since[i]
<1>1. Since \in Seq(Record)
  BY DEF TypeOK, Since
<1>2. RecordOf(m) \in Record
  BY OrientedInRange, BoundAssumption DEF TypeOK, RecordOf, Record
<1>3. trace' = Append(Since, RecordOf(m))
  BY DEF Remember
<1> HIDE DEF Remember
<1> QED BY <1>1, <1>2, <1>3

(* What the sample adds when nothing before it counts, and when what was   *)
(* held back is the sum from k on.                                         *)
LEMMA AccumulatedSum ==
  ASSUME TypeOK, NEW m \in Motion, Remember(m)
  PROVE  /\ Purges \/ (dx = 0 /\ dy = 0)
              => Accumulated(Sample(m)) = SumFrom(trace', Len(Since) + 1)
         /\ \A k \in 1..Len(Since) :
              ~Purges /\ Holds(Since, k) => Accumulated(Sample(m)) = SumFrom(trace', k)
<1>1. /\ Sample(m).x = RecordOf(m).x /\ Sample(m).y = RecordOf(m).y
      /\ RecordOf(m).x \in Int /\ RecordOf(m).y \in Int
  BY SampleIsOriented DEF RecordOf
<1>2. \A k \in 1..Len(Since) + 1 :
        SumFrom(trace', k) = Plus(SumFrom(Since, k), RecordOf(m))
  BY Remembered, SumOfAppend
<1>3. SumFrom(Since, Len(Since) + 1) = NoEvent
  BY Remembered, SumOfNone
<1>4. ASSUME Purges \/ (dx = 0 /\ dy = 0)
      PROVE  Accumulated(Sample(m)) = SumFrom(trace', Len(Since) + 1)
  <2>1. SumFrom(trace', Len(Since) + 1) = Plus(NoEvent, RecordOf(m))
    BY <1>2, <1>3, Remembered
  <2> QED BY <1>1, <1>4, <2>1 DEF Accumulated, Plus, NoEvent
<1>5. ASSUME NEW k \in 1..Len(Since), ~Purges, Holds(Since, k)
      PROVE  Accumulated(Sample(m)) = SumFrom(trace', k)
  <2>1. SumFrom(trace', k) = Plus(SumFrom(Since, k), RecordOf(m))
    BY <1>2, Remembered
  <2> QED BY <1>1, <1>5, <2>1 DEF Accumulated, Plus, Holds
<1> QED BY <1>4, <1>5

LEMMA ReportSums ==
  ASSUME TypeOK, SumInv, NEW m \in Motion, Remember(m)
  PROVE  \E k \in DOMAIN trace' :
           IsLastStart(trace', k) /\ Accumulated(Sample(m)) = SumFrom(trace', k)
<1> DEFINE n == Len(Since)
<1>1. /\ n \in Nat /\ Len(trace') = n + 1 /\ DOMAIN trace' = 1..n + 1
      /\ trace'[n + 1] = RecordOf(m) /\ \A i \in 1..n : trace'[i] = Since[i]
  BY Remembered
<1>2. StartsOver(trace'[n + 1]) <=> Purges
  <2>1. sampled = last_smp_time
    BY DEF SumInv
  <2> QED BY <1>1, <2>1 DEF StartsOver, RecordOf, Purges, Spaced
<1>3. CASE Purges \/ Since = <<>>
  <2>1. Purges \/ (dx = 0 /\ dy = 0)
    BY <1>3 DEF SumInv, Since
  <2>2. IsLastStart(trace', n + 1)
    <3>1. n + 1 = 1 \/ StartsOver(trace'[n + 1])
      BY <1>2, <1>3
    <3> QED BY <1>1, <3>1 DEF IsLastStart
  <2> QED BY <1>1, <2>1, <2>2, AccumulatedSum
<1>4. CASE ~Purges /\ Since # <<>>
  <2>1. event = NoEvent /\ Since = trace /\ trace # <<>>
    BY <1>4 DEF Since
  <2>2. PICK k \in DOMAIN trace : IsLastStart(trace, k) /\ Holds(trace, k)
    BY <2>1 DEF SumInv
  <2>3. k \in 1..n
    BY <2>1, <2>2 DEF TypeOK
  <2>4. IsLastStart(trace', k)
    <3>1. k = 1 \/ StartsOver(trace'[k])
      BY <1>1, <2>1, <2>2, <2>3 DEF IsLastStart
    <3>2. ASSUME NEW i \in k + 1..n + 1
          PROVE  ~StartsOver(trace'[i])
      <4>1. CASE i = n + 1
        BY <1>2, <1>4, <4>1
      <4>2. CASE i # n + 1
        <5>1. i \in 1..n /\ i \in k + 1..Len(trace)
          BY <1>1, <2>1, <2>3, <4>2
        <5> QED BY <1>1, <2>1, <2>2, <5>1 DEF IsLastStart
      <4> QED BY <4>1, <4>2
    <3> QED BY <1>1, <3>1, <3>2 DEF IsLastStart
  <2>5. Accumulated(Sample(m)) = SumFrom(trace', k)
    BY <1>4, <2>1, <2>2, <2>3, AccumulatedSum
  <2> QED BY <1>1, <2>3, <2>4, <2>5
<1> QED BY <1>3, <1>4

LEMMA ReportAges ==
  ASSUME TypeOK, SumInv, AgeInv, NEW m \in Motion, Remember(m)
  PROVE  \E k \in DOMAIN trace' :
           /\ Accumulated(Sample(m)) = SumFrom(trace', k)
           /\ last_rpt_time <= trace'[k].time
           /\ Spaced => \E i, j \in k..Len(trace') :
                now - trace'[k].time < trace'[i].interval + trace'[j].interval
<1> DEFINE n == Len(Since)
<1>1. /\ n \in Nat /\ Len(trace') = n + 1 /\ DOMAIN trace' = 1..n + 1
      /\ trace'[n + 1] = RecordOf(m) /\ \A i \in 1..n : trace'[i] = Since[i]
  BY Remembered
<1>2. trace'[n + 1].time = now /\ trace'[n + 1].interval = report_interval_min_ms
  BY <1>1 DEF RecordOf
<1>3. /\ now \in Nat /\ report_interval_min_ms \in Nat
      /\ last_rpt_time \in Nat /\ last_rpt_time <= now
      /\ last_smp_time \in Nat /\ sampled = last_smp_time
  BY BoundAssumption, SetterAssumption DEF TypeOK, SumInv
<1>4. CASE Purges \/ (dx = 0 /\ dy = 0)
  <2>1. Accumulated(Sample(m)) = SumFrom(trace', n + 1)
    BY <1>4, AccumulatedSum
  <2>2. Spaced => now - trace'[n + 1].time < trace'[n + 1].interval + trace'[n + 1].interval
    BY <1>2, <1>3 DEF Spaced
  <2>3. n + 1 \in n + 1..Len(trace') /\ n + 1 \in DOMAIN trace'
    BY <1>1
  <2>4. last_rpt_time <= trace'[n + 1].time
    BY <1>2, <1>3
  <2>5. Spaced => \E i, j \in n + 1..Len(trace') :
          now - trace'[n + 1].time < trace'[i].interval + trace'[j].interval
    BY <2>2, <2>3
  <2> QED BY <2>1, <2>3, <2>4, <2>5
<1>5. CASE ~Purges /\ ~(dx = 0 /\ dy = 0)
  <2>1. event = NoEvent /\ Since = trace /\ n = Len(trace)
    BY <1>5 DEF SumInv, Since
  <2>2. /\ trace[n].time = sampled /\ trace[n].interval > 0
        /\ sampled - last_rpt_time < trace[n].interval
    BY <1>5, <2>1 DEF AgeInv
  <2>3. PICK k \in DOMAIN trace : Holds(trace, k) /\ last_rpt_time <= trace[k].time
    BY <1>5, <2>1 DEF AgeInv
  <2>4. k \in 1..n /\ n \in 1..n /\ trace \in Seq(Record)
    BY <1>1, <2>1, <2>3 DEF TypeOK
  <2>5. trace'[k] = trace[k] /\ trace'[n] = trace[n]
    BY <1>1, <2>1, <2>4
  <2>6. Accumulated(Sample(m)) = SumFrom(trace', k)
    BY <1>5, <2>1, <2>3, <2>4, AccumulatedSum
  <2>7. ASSUME Spaced
        PROVE  now - trace'[k].time < trace'[n].interval + trace'[n + 1].interval
    <3>1. now - last_smp_time < report_interval_min_ms
      BY <1>3, <1>5, <2>7 DEF Purges
    <3>2. trace[k] \in Record /\ trace[n] \in Record
      BY <2>1, <2>4
    <3>3. trace[k].time \in Nat /\ trace[n].interval \in Nat
      BY <3>2, BoundAssumption, SetterAssumption DEF Record
    <3> QED BY <1>2, <1>3, <2>2, <2>3, <2>5, <3>1, <3>3
  <2>8. /\ n \in k..Len(trace') /\ n + 1 \in k..Len(trace') /\ k \in DOMAIN trace'
        /\ last_rpt_time <= trace'[k].time
    BY <1>1, <2>3, <2>4, <2>5
  <2> HIDE DEF n
  <2> QED BY <2>6, <2>7, <2>8
<1> QED BY <1>4, <1>5

(* Nothing comes to no event but nothing: the clamp keeps what is not 0.   *)
LEMMA NoEventIsNothing ==
  ASSUME NEW d, d.x \in Int, d.y \in Int, EventOf(d) = NoEvent
  PROVE  d.x = 0 /\ d.y = 0
<1>1. Clamp(d.x) = 0 /\ Clamp(d.y) = 0
  BY DEF EventOf, NoEvent
<1> QED BY <1>1, WidthAssumption DEF Clamp

-----------------------------------------------------------------------------
LEMMA SumsAreKept == Spec => [](SumInv /\ EventIsSum)
<1>1. Init => SumInv /\ EventIsSum
  BY DEF Init, SumInv, EventIsSum
<1>2. ASSUME TypeOK, SumInv, EventIsSum, [Next]_vars
      PROVE  SumInv' /\ EventIsSum'
  <2>1. ASSUME NEW m \in Motion, Keep(m)
        PROVE  SumInv' /\ EventIsSum'
    <3>1. PICK k \in DOMAIN trace' :
            IsLastStart(trace', k) /\ Accumulated(Sample(m)) = SumFrom(trace', k)
      BY <1>2, <2>1, ReportSums DEF Keep
    <3>2. /\ event' = NoEvent /\ trace' # <<>> /\ sampled' = last_smp_time'
          /\ dx' = Accumulated(Sample(m)).x /\ dy' = Accumulated(Sample(m)).y
      <4>1. trace' # <<>>
        BY <3>1
      <4> QED BY <1>2, <2>1, <4>1 DEF Keep, Remember, SumInv
    <3>3. \E j \in DOMAIN trace' : IsLastStart(trace', j) /\ Holds(trace, j)'
      BY <3>1, <3>2 DEF Holds
    <3> QED BY <3>2, <3>3 DEF SumInv, EventIsSum
  <2>2. ASSUME NEW m \in Motion, ReportMotion(m)
        PROVE  SumInv' /\ EventIsSum'
    <3>1. PICK k \in DOMAIN trace' :
            IsLastStart(trace', k) /\ Accumulated(Sample(m)) = SumFrom(trace', k)
      BY <1>2, <2>2, ReportSums DEF ReportMotion, Raise
    <3>2. /\ event' = EventOf(Accumulated(Sample(m))) /\ event' # NoEvent
          /\ sampled' = last_smp_time' /\ dx' = 0 /\ dy' = 0 /\ trace' # <<>>
      <4>1. trace' # <<>>
        BY <3>1
      <4> QED BY <1>2, <2>2, <4>1 DEF ReportMotion, Raise, Remember, SumInv
    <3> QED BY <3>1, <3>2 DEF SumInv, EventIsSum
  <2>3. ASSUME UNCHANGED <<data, event, history>>
        PROVE  SumInv' /\ EventIsSum'
    BY <1>2, <2>3 DEF data, history, SumInv, EventIsSum, Holds
  <2> QED BY <1>2, <2>1, <2>2, <2>3
          DEF Next, ReportData, ReportTooEarly, ReportNoMotion, SetReportIntervalMin,
              SetAxisFlags, Tick, vars
<1> QED BY <1>1, <1>2, ReportTypeCorrect, PTL DEF Spec

(* No motion is lost and none counted twice between two events, whatever   *)
(* the setters do in between (pmw3610_report_data, dx and dy).             *)
THEOREM EventsAreSums == Spec => []EventIsSum
  BY SumsAreKept, PTL

(* Motion that was held back and not purged is not reported long after.    *)
THEOREM MotionIsFresh == Spec => []NoStaleMotion
<1>1. Init => AgeInv /\ NoStaleMotion
  BY DEF Init, AgeInv, NoStaleMotion
<1>2. ASSUME TypeOK, SumInv, AgeInv, NoStaleMotion, [Next]_vars
      PROVE  AgeInv' /\ NoStaleMotion'
  <2>1. ASSUME NEW m \in Motion, MaySample, TooEarly, Keep(m)
        PROVE  AgeInv' /\ NoStaleMotion'
    <3>1. PICK k \in DOMAIN trace' : /\ Accumulated(Sample(m)) = SumFrom(trace', k)
                                     /\ last_rpt_time <= trace'[k].time
      BY <1>2, <2>1, ReportAges DEF Keep
    <3>2. /\ event' = NoEvent /\ last_rpt_time' = last_rpt_time /\ Spaced
          /\ dx' = Accumulated(Sample(m)).x /\ dy' = Accumulated(Sample(m)).y
          /\ sampled' = now /\ now - last_rpt_time < report_interval_min_ms
      BY <2>1 DEF Keep, Remember, TooEarly
    <3>3. trace'[Len(trace')] = RecordOf(m)
      BY <1>2, <2>1, Remembered DEF Keep
    <3>4. \E j \in DOMAIN trace' : Holds(trace, j)' /\ last_rpt_time' <= trace'[j].time
      BY <3>1, <3>2 DEF Holds
    <3> QED BY <3>2, <3>3, <3>4 DEF AgeInv, NoStaleMotion, RecordOf, Spaced
  <2>2. ASSUME NEW m \in Motion, ReportNoMotion(m)
        PROVE  AgeInv' /\ NoStaleMotion'
    <3>1. Accumulated(Sample(m)).x = 0 /\ Accumulated(Sample(m)).y = 0
      BY <1>2, <2>2, ReportTypes, NoEventIsNothing DEF ReportNoMotion
    <3> QED BY <2>2, <3>1 DEF ReportNoMotion, Keep, AgeInv, NoStaleMotion
  <2>3. ASSUME NEW m \in Motion, ReportMotion(m)
        PROVE  AgeInv' /\ NoStaleMotion'
    <3>1. PICK k \in DOMAIN trace' :
            /\ Accumulated(Sample(m)) = SumFrom(trace', k)
            /\ Spaced => \E i, j \in k..Len(trace') :
                 now - trace'[k].time < trace'[i].interval + trace'[j].interval
      BY <1>2, <2>3, ReportAges DEF ReportMotion, Raise
    <3>2. event' = EventOf(SumFrom(trace', k)) /\ event' # NoEvent
      BY <2>3, <3>1 DEF ReportMotion, Raise
    <3>3. trace'[Len(trace')] = RecordOf(m)
      BY <1>2, <2>3, Remembered DEF ReportMotion, Raise
    <3>4. /\ trace'[Len(trace')].time = now
          /\ trace'[Len(trace')].interval > 0 => Spaced
      BY <3>3 DEF RecordOf, Spaced
    <3> QED BY <3>1, <3>2, <3>4 DEF AgeInv, NoStaleMotion
  <2>4. ASSUME UNCHANGED <<data, event, history>>
        PROVE  AgeInv' /\ NoStaleMotion'
    BY <1>2, <2>4 DEF data, history, AgeInv, NoStaleMotion, Holds
  <2> QED BY <1>2, <2>1, <2>2, <2>3, <2>4
          DEF Next, ReportData, ReportTooEarly, SetReportIntervalMin, SetAxisFlags, Tick, vars
<1> QED BY <1>1, <1>2, SumsAreKept, ReportTypeCorrect, PTL DEF Spec
=============================================================================
