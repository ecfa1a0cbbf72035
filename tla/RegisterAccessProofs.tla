-------------------------- MODULE RegisterAccessProofs --------------------------
(***************************************************************************)
(* What data->lock does protect in RegisterAccess, for either way to read  *)
(* motion and frames.  That transfers are also made without it is the      *)
(* counterexample of register_page; here is how far that reaches.          *)
(***************************************************************************)
EXTENDS RegisterAccess, TLAPS

(* Thread t makes its next transfer. *)
Made(t) == todo[t] # <<>> /\ todo'[t] # todo[t]

(* The holder of the lock has selected page 1, and not yet page 0 again. *)
BetweenSelects(t) ==
  /\ lock = t /\ op[t] \in {"cpi", "read"}
  /\ todo[t] # <<>> /\ Head(todo[t]) \in {WriteResStep, WriteMagic, SelectPage0}

(* The sensor is on page 0, or a client has written the page select itself *)
(* and nobody has since.                                                   *)
OnBasePage == page = 0 \/ page_by = "write"

(* pmw3610_set_cpi_locked only ever writes RES_STEP on page 1.             *)
ResStepOnPage1 ==
  [][\A t \in Thread : Made(t) /\ Head(todo[t]) = WriteResStep => page = 1]_vars

(* A transfer meets page 1 otherwise only if a client has left it there,   *)
(* if it is part of the very sequence that selected it, or if it is made   *)
(* without the lock while another thread is between its two selects.       *)
OthersOnPage0 ==
  [][\A t \in Thread : Made(t) /\ ~OnBasePage
       => BetweenSelects(t) \/ (lock # t /\ \E u \in Thread : BetweenSelects(u))]_vars

-----------------------------------------------------------------------------
(* Transfers that have nothing to do with pages and resets. *)
PlainRegister ==
  {"SPI_CLK_ON_REQ", "MOTION", "DELTA_XY_H", "MOTION_BURST", "PERFORMANCE", "0x32", "register",
   "SQUAL", "SHUTTER_HIGHER", "SHUTTER_LOWER", "PIX_MAX", "PIX_AVG", "PIX_MIN", "OBSERVATION",
   "PIXEL_GRAB", "FRAME_GRAB", "PRODUCT_ID", "PRBS_TEST_CTL"}

PlainAccess ==
  [reg : PlainRegister,
   value : {"read", "enable", "disable", "forced", "normal", "0x00", "0x80", "value", "0x90",
            "arm", "burst"}]

Plain(q) == q \in Seq(PlainAccess)

(* What is left of a sequence that writes w on page 1. *)
Back(q)     == q # <<>> /\ Head(q) = SelectPage0 /\ Plain(Tail(q))
Write1(q, w) == q # <<>> /\ Head(q) = w /\ Back(Tail(q))
Select(q, w) == q # <<>> /\ Head(q) = SelectPage1 /\ Write1(Tail(q), w)
Enter(q, w)  == q # <<>> /\ Head(q) = ClockOn /\ Select(Tail(q), w)

Inside(q, w)  == Write1(q, w) \/ Back(q)
Outside(q, w) == Enter(q, w) \/ Select(q, w) \/ Plain(q)

HostAccess == HostWrite \cup {ClockOn}

(* The transfers each operation can have left, and the lock it needs. *)
ThreadInv(t) ==
  CASE op[t] = "write"    -> lock = t /\ todo[t] \in Seq(HostAccess)
    [] op[t] = "power up" -> t = "workqueue" /\ ~ready /\ todo[t] \in {<<Reset>>, <<>>}
    [] op[t] = "cpi"      -> /\ lock = t
                             /\ Outside(todo[t], WriteResStep) \/ Inside(todo[t], WriteResStep)
                             /\ Inside(todo[t], WriteResStep) => page = 1
                             /\ t # "workqueue" /\ todo[t] # <<>> => ready
    [] op[t] = "read"     -> /\ lock = t
                             /\ Outside(todo[t], WriteMagic) \/ Inside(todo[t], WriteMagic)
    [] OTHER              -> Plain(todo[t])

Between(t) ==
  \/ op[t] = "cpi" /\ Inside(todo[t], WriteResStep)
  \/ op[t] = "read" /\ Inside(todo[t], WriteMagic)

PageInv ==
  /\ DOMAIN op = Thread /\ DOMAIN todo = Thread
  /\ ready \in BOOLEAN
  /\ \A t \in Thread : ThreadInv(t)
  /\ OnBasePage \/ \E t \in Thread : Between(t)

-----------------------------------------------------------------------------
(* The sequences. *)

LEMMA PlainTransfers ==
  ASSUME NEW r \in PlainRegister,
         NEW v \in {"forced", "normal", "0x00", "0x80", "value", "0x90", "arm", "burst", "enable"}
  PROVE  Write(r, v) \in PlainAccess /\ Read(r) \in PlainAccess
BY DEF Write, Read, PlainAccess, PlainRegister

LEMMA PlainClock == ClockOn \in PlainAccess /\ ClockOff \in PlainAccess
BY DEF ClockOn, ClockOff, PlainAccess, PlainRegister

LEMMA PlainWrapped ==
  ASSUME NEW r \in PlainRegister, NEW v \in {"forced", "normal", "0x00", "0x80", "value"}
  PROVE  Plain(Wrapped(r, v))
BY PlainClock, PlainTransfers DEF Wrapped, Around, Plain

(* The sequences without a page. *)
LEMMA PlainSequences ==
  /\ Plain(<<>>) /\ Plain(Diagnostics) /\ Plain(MotionRead) /\ Plain(SetPerformance)
  /\ Plain(Pixel) /\ Plain(ForceRunMode) /\ Plain(SelfTest)
  /\ Plain(Wrapped("register", "value"))
  /\ \A off \in BOOLEAN : Plain(Wrapped("0x32", IF off THEN "0x00" ELSE "0x80"))
<1>1. Plain(<<>>)
  BY DEF Plain
<1>2. Plain(Diagnostics)
  <2>1. \A r \in {"SQUAL", "SHUTTER_HIGHER", "SHUTTER_LOWER", "PIX_MAX", "PIX_AVG", "PIX_MIN"} :
          Read(r) \in PlainAccess
    BY PlainTransfers DEF PlainRegister
  <2> QED BY <2>1 DEF Diagnostics, Plain
<1>3. Plain(MotionRead) /\ Plain(SetPerformance)
  <2>1. \A r \in {"MOTION", "DELTA_XY_H", "MOTION_BURST", "PERFORMANCE"} : Read(r) \in PlainAccess
    BY PlainTransfers DEF PlainRegister
  <2> QED BY <2>1 DEF MotionRead, SetPerformance, Plain
<1>4. Plain(Pixel)
  <2>1. \A r \in {"OBSERVATION", "PIXEL_GRAB"} : Read(r) \in PlainAccess /\ Write(r, "arm") \in PlainAccess
    BY PlainTransfers DEF PlainRegister
  <2> QED BY <2>1 DEF Pixel, Plain
<1>5. Plain(ForceRunMode)
  <2>1. \A r \in {"OBSERVATION", "PERFORMANCE"} :
          /\ Read(r) \in PlainAccess
          /\ Write(r, "forced") \in PlainAccess /\ Write(r, "0x00") \in PlainAccess
    BY PlainTransfers DEF PlainRegister
  <2> QED BY <2>1, PlainClock DEF ForceRunMode, Plain
<1>6. /\ Plain(Wrapped("register", "value"))
      /\ \A off \in BOOLEAN : Plain(Wrapped("0x32", IF off THEN "0x00" ELSE "0x80"))
  BY PlainWrapped DEF PlainRegister
<1>7. Plain(SelfTest)
  <2>1. \A r \in {"OBSERVATION", "PRODUCT_ID", "MOTION", "DELTA_XY_H"} :
          Read(r) \in PlainAccess /\ Write(r, "0x00") \in PlainAccess
    BY PlainTransfers DEF PlainRegister
  <2> QED BY <2>1, PlainClock DEF SelfTest, Plain
<1> QED BY <1>1, <1>2, <1>3, <1>4, <1>5, <1>6, <1>7

(* The two that select a page. *)
LEMMA CpiSequence == Enter(SetCpiLocked, WriteResStep)
<1>1. /\ SetCpiLocked # <<>> /\ Head(SetCpiLocked) = ClockOn
      /\ Tail(SetCpiLocked) = <<SelectPage1, WriteResStep, SelectPage0, ClockOff>>
  BY DEF SetCpiLocked
<1>2. Plain(<<ClockOff>>)
  BY PlainClock DEF Plain
<1>3. Select(<<SelectPage1, WriteResStep, SelectPage0, ClockOff>>, WriteResStep)
  BY <1>2 DEF Select, Write1, Back
<1> QED BY <1>1, <1>3 DEF Enter

LEMMA ArmSequence == Outside(FrameArm, WriteMagic)
<1>1. CASE DisableBurstRead
  <2> DEFINE rest == <<ClockOff, Write("0x32", "0x90"), Write("PIXEL_GRAB", "arm"),
                       Read("PRBS_TEST_CTL")>>
             two == <<SelectPage0, ClockOff, Write("0x32", "0x90"), Write("PIXEL_GRAB", "arm"),
                      Read("PRBS_TEST_CTL")>>
             three == <<WriteMagic, SelectPage0, ClockOff, Write("0x32", "0x90"),
                        Write("PIXEL_GRAB", "arm"), Read("PRBS_TEST_CTL")>>
             four == <<SelectPage1, WriteMagic, SelectPage0, ClockOff, Write("0x32", "0x90"),
                       Write("PIXEL_GRAB", "arm"), Read("PRBS_TEST_CTL")>>
  <2>1. Plain(rest)
    <3>1. /\ Write("0x32", "0x90") \in PlainAccess /\ Write("PIXEL_GRAB", "arm") \in PlainAccess
          /\ Read("PRBS_TEST_CTL") \in PlainAccess
      BY PlainTransfers DEF PlainRegister
    <3> QED BY <3>1, PlainClock DEF Plain
  <2>2. /\ two # <<>> /\ Head(two) = SelectPage0 /\ Tail(two) = rest
        /\ three # <<>> /\ Head(three) = WriteMagic /\ Tail(three) = two
        /\ four # <<>> /\ Head(four) = SelectPage1 /\ Tail(four) = three
    OBVIOUS
  <2>3. FrameArm # <<>> /\ Head(FrameArm) = ClockOn /\ Tail(FrameArm) = four
    BY <1>1 DEF FrameArm
  <2> HIDE DEF rest, two, three, four
  <2> QED BY <2>1, <2>2, <2>3 DEF Outside, Enter, Select, Write1, Back
<1>2. CASE ~DisableBurstRead
  <2>1. /\ Write("PERFORMANCE", "forced") \in PlainAccess /\ Write("0x32", "burst") \in PlainAccess
        /\ Write("FRAME_GRAB", "enable") \in PlainAccess /\ Read("MOTION_BURST") \in PlainAccess
    BY PlainTransfers DEF PlainRegister
  <2> QED BY <1>2, <2>1, PlainClock DEF FrameArm, Outside, Plain
<1> QED BY <1>1, <1>2

LEMMA PlainTail ==
  ASSUME NEW q, Plain(q), q # <<>>
  PROVE  Plain(Tail(q)) /\ Head(q) \in PlainAccess
BY DEF Plain

LEMMA PlainPerformance ==
  ASSUME NEW value \in {"forced", "normal"}, NEW q \in PerformanceWrite(value)
  PROVE  Plain(q)
BY PlainSequences, PlainWrapped DEF PerformanceWrite, PlainRegister

(* The transfers that are told apart. *)
LEMMA TransfersDiffer ==
  /\ {SelectPage0, SelectPage1, WriteResStep, WriteMagic, Reset} \cap PlainAccess = {}
  /\ SelectPage0 # SelectPage1
  /\ {SelectPage0, SelectPage1, Reset, ClockOn} \cap {WriteResStep, WriteMagic} = {}
  /\ ClockOn \notin {SelectPage0, SelectPage1, Reset}
  /\ WriteResStep \notin HostAccess /\ WriteResStep # WriteMagic
  /\ Read("PERFORMANCE")
       \notin {SelectPage0, SelectPage1, WriteResStep, WriteMagic, Reset, ClockOn} \cup HostAccess
BY DEF SelectPage0, SelectPage1, WriteResStep, WriteMagic, Reset, ClockOn, ClockOff, Read, Write,
       PlainAccess, PlainRegister, HostAccess, HostWrite

(* What a transfer does to the page. *)
LEMMA SelectorIsHost ==
  ASSUME NEW x \in HostAccess, SensorDoes(x, "write"), OnBasePage
  PROVE  OnBasePage'
BY DEF HostAccess, HostWrite, SensorDoes, OnBasePage, SelectPage0, SelectPage1, Reset, ClockOn,
       ClockOff, Write

LEMMA OtherKeepsPage ==
  ASSUME NEW x, NEW who, SensorDoes(x, who),
         x \in PlainAccess \cup {WriteResStep, WriteMagic, ClockOn}
  PROVE  UNCHANGED <<page, page_by>>
BY DEF SensorDoes, PlainAccess, PlainRegister, WriteResStep, WriteMagic, ClockOn, SelectPage0,
       SelectPage1, Reset, Write

LEMMA SelectMovesPage ==
  ASSUME NEW x, NEW who, SensorDoes(x, who)
  PROVE  /\ x = SelectPage1 => page' = 1
         /\ x = SelectPage0 => page' = 0
         /\ x = Reset => page' = 0 \/ UNCHANGED <<page, page_by>>
BY DEF SensorDoes, SelectPage0, SelectPage1, Reset

-----------------------------------------------------------------------------
(* The holder of the lock is one: of the operations that need it there is  *)
(* no second.                                                              *)
LEMMA HolderIsOne ==
  ASSUME PageInv, NEW t \in Thread, NEW u \in Thread,
         op[t] \in {"write", "cpi", "read"}, op[u] \in {"write", "cpi", "read"}
  PROVE  t = u
BY DEF PageInv, ThreadInv

(* Outside its selects, whoever is not there, the page is the base page.   *)
LEMMA OutsideIsBase ==
  ASSUME PageInv, NEW t \in Thread, op[t] \in {"write", "cpi", "read"}, ~Between(t)
  PROVE  OnBasePage
BY HolderIsOne DEF PageInv, Between

LEMMA PartsAreApart ==
  ASSUME NEW q, NEW w \in {WriteResStep, WriteMagic}
  PROVE  /\ Outside(q, w) => ~Inside(q, w)
         /\ <<>> = q => ~Inside(q, w)
BY PlainTail, TransfersDiffer DEF Outside, Inside, Enter, Select, Write1, Back

(* Of the other threads nothing changes. *)
LEMMA OtherThread ==
  ASSUME PageInv, NEW t \in Thread, NEW u \in Thread, t # u,
         op'[u] = op[u], todo'[u] = todo[u],
         lock = u => lock' = u,
         op[u] = "power up" => ~ready',
         op[u] = "cpi" => page' = page /\ (ready => ready')
  PROVE  ThreadInv(u)' /\ (Between(u) => Between(u)')
<1>1. ThreadInv(u)
  BY DEF PageInv
<1>2. UNCHANGED <<Plain(todo[u]), Outside(todo[u], WriteResStep), Inside(todo[u], WriteResStep),
                  Outside(todo[u], WriteMagic), Inside(todo[u], WriteMagic)>>
  BY DEF Plain, Outside, Inside, Enter, Select, Write1, Back
<1> QED BY <1>1, <1>2 DEF ThreadInv, Between

-----------------------------------------------------------------------------
LEMMA TransferStep ==
  ASSUME PageInv, NEW t \in Thread, Transfer(t)
  PROVE  PageInv'
<1> DEFINE q == todo[t]
           x == Head(todo[t])
<1>1. /\ q # <<>> /\ SensorDoes(x, op[t]) /\ UNCHANGED <<op, lock, ready>>
      /\ DOMAIN op = Thread /\ DOMAIN todo = Thread /\ ready \in BOOLEAN /\ ThreadInv(t)
  BY DEF Transfer, PageInv, session
<1>2. PICK rest \in Remaining(t) : todo' = [todo EXCEPT ![t] = rest]
  BY DEF Transfer
<1>3. /\ DOMAIN op' = Thread /\ DOMAIN todo' = Thread /\ ready' \in BOOLEAN
      /\ todo'[t] = rest /\ \A u \in Thread : u # t => todo'[u] = todo[u]
  BY <1>1, <1>2
<1>4. ASSUME x # Read("PERFORMANCE") \/ op[t] \notin {"awake", "configure", "asleep"}
      PROVE  rest = Tail(q)
  BY <1>4 DEF Remaining
<1>5. ASSUME ThreadInv(t)',
             \/ OnBasePage' \/ Between(t)'
             \/ ~OnBasePage /\ ~Between(t),
             \A u \in Thread : u # t /\ op[u] = "cpi" => page' = page
      PROVE  PageInv'
  <2>1. \A u \in Thread : u # t => ThreadInv(u)' /\ (Between(u) => Between(u)')
    BY <1>1, <1>3, <1>5, OtherThread DEF PageInv, ThreadInv
  <2>2. \A u \in Thread : ThreadInv(u)'
    BY <1>5, <2>1
  <2>3. OnBasePage' \/ \E u \in Thread : Between(u)'
    BY <1>5, <2>1 DEF PageInv
  <2> QED BY <1>3, <2>2, <2>3 DEF PageInv
<1>6. CASE op[t] = "write"
  <2>1. q \in Seq(HostAccess) /\ lock = t
    BY <1>1, <1>6 DEF ThreadInv
  <2>2. x \in HostAccess /\ Tail(q) \in Seq(HostAccess)
    BY <1>1, <2>1
  <2>3. rest = Tail(q)
    BY <1>4, <1>6
  <2>4. ThreadInv(t)'
    BY <1>1, <1>3, <1>6, <2>1, <2>2, <2>3 DEF ThreadInv
  <2>5. OnBasePage
    BY <1>6, OutsideIsBase DEF Between
  <2>6. OnBasePage'
    BY <1>1, <1>6, <2>2, <2>5, SelectorIsHost
  <2>7. \A u \in Thread : u # t => op[u] # "cpi"
    BY <1>6, HolderIsOne
  <2> QED BY <1>5, <2>4, <2>6, <2>7
<1>7. CASE op[t] = "power up"
  <2>1. q = <<Reset>> /\ t = "workqueue" /\ ~ready
    BY <1>1, <1>7 DEF ThreadInv
  <2>2. x = Reset /\ rest = <<>>
    <3>1. Head(<<Reset>>) = Reset /\ Tail(<<Reset>>) = <<>>
      OBVIOUS
    <3>2. op[t] \notin {"awake", "configure", "asleep"}
      BY <1>7
    <3> QED BY <1>4, <2>1, <3>1, <3>2
  <2>3. ThreadInv(t)' /\ ~Between(t)
    BY <1>1, <1>3, <1>7, <2>1, <2>2 DEF ThreadInv, Between
  <2>4. page' = 0 \/ UNCHANGED <<page, page_by>>
    BY <1>1, <2>2, SelectMovesPage
  <2>5. ASSUME NEW u \in Thread, u # t, op[u] = "cpi", page' # page
        PROVE  ThreadInv(u)' /\ (Between(u) => Between(u)')
    <3>1. ThreadInv(u) /\ (todo[u] = <<>>)
      BY <2>1, <2>5 DEF PageInv, ThreadInv
    <3>2. ~Inside(todo[u], WriteResStep) /\ ~Inside(todo[u], WriteResStep)'
      BY <1>3, <2>5, <3>1, PartsAreApart DEF Inside, Write1, Back
    <3> QED BY <1>1, <1>3, <2>5, <3>1, <3>2
            DEF ThreadInv, Between, Outside, Enter, Select, Write1, Back, Plain
  <2>6. \A u \in Thread : u # t => ThreadInv(u)' /\ (Between(u) => Between(u)')
    BY <1>1, <1>3, <2>5, OtherThread DEF PageInv, ThreadInv
  <2>7. OnBasePage' \/ \E u \in Thread : Between(u)'
    BY <2>3, <2>4, <2>6 DEF PageInv, OnBasePage
  <2> QED BY <1>3, <2>3, <2>6, <2>7 DEF PageInv
<1>8. CASE op[t] \in {"cpi", "read"}
  <2> DEFINE w == IF op[t] = "cpi" THEN WriteResStep ELSE WriteMagic
  <2>1. /\ lock = t
        /\ Outside(q, w) \/ Inside(q, w)
        /\ op[t] = "cpi" => (Inside(q, w) => page = 1) /\ (t # "workqueue" => ready)
        /\ Between(t) <=> Inside(q, w)
    BY <1>1, <1>8 DEF ThreadInv, Between
  <2>2. rest = Tail(q)
    BY <1>4, <1>8
  <2>3. ASSUME Outside(rest, w) \/ Inside(rest, w), Inside(rest, w) => page' = 1 \/ op[t] = "read",
               OnBasePage' \/ Inside(rest, w)
        PROVE  PageInv'
    <3>1. ThreadInv(t)'
      <4>1. CASE op[t] = "cpi"
        BY <1>1, <1>3, <2>1, <2>3, <4>1
           DEF ThreadInv, Outside, Inside, Enter, Select, Write1, Back, Plain
      <4>2. CASE op[t] = "read"
        BY <1>1, <1>3, <2>1, <2>3, <4>2
           DEF ThreadInv, Outside, Inside, Enter, Select, Write1, Back, Plain
      <4> QED BY <1>8, <4>1, <4>2
    <3>2. OnBasePage' \/ Between(t)'
      BY <1>1, <1>3, <1>8, <2>3 DEF Between, Inside, Write1, Back, Plain
    <3>3. \A u \in Thread : u # t => op[u] # "cpi"
      BY <1>8, HolderIsOne
    <3> QED BY <1>5, <3>1, <3>2, <3>3
  <2>4. ASSUME Outside(q, w)
        PROVE  OnBasePage /\ w \in {WriteResStep, WriteMagic}
    BY <1>8, <2>1, <2>4, OutsideIsBase, PartsAreApart
  <2>5. CASE Plain(q)
    <3>1. Plain(rest) /\ UNCHANGED <<page, page_by>> /\ OnBasePage
      BY <1>1, <2>2, <2>4, <2>5, PlainTail, OtherKeepsPage DEF Outside
    <3> QED BY <2>3, <2>4, <2>5, <3>1, PartsAreApart DEF Outside, OnBasePage
  <2>6. CASE Enter(q, w)
    <3>1. Select(rest, w) /\ UNCHANGED <<page, page_by>> /\ OnBasePage
      BY <1>1, <2>2, <2>4, <2>6, OtherKeepsPage DEF Enter, Outside
    <3> QED BY <2>3, <2>4, <2>6, <3>1, PartsAreApart DEF Outside, OnBasePage
  <2>7. CASE Select(q, w)
    <3>1. Write1(rest, w) /\ page' = 1
      BY <1>1, <2>2, <2>7, SelectMovesPage DEF Select
    <3> QED BY <2>3, <3>1 DEF Inside
  <2>8. CASE Write1(q, w)
    <3>1. Back(rest) /\ page' = page /\ Inside(q, w)
      BY <1>1, <2>2, <2>8, OtherKeepsPage DEF Write1, Inside
    <3> QED BY <1>8, <2>1, <2>3, <3>1 DEF Inside
  <2>9. CASE Back(q)
    <3>1. Plain(rest) /\ page' = 0
      BY <1>1, <2>2, <2>9, SelectMovesPage DEF Back
    <3>2. w \in {WriteResStep, WriteMagic}
      OBVIOUS
    <3> QED BY <2>3, <3>1, <3>2, PartsAreApart DEF Outside, OnBasePage
  <2> QED BY <2>1, <2>5, <2>6, <2>7, <2>8, <2>9 DEF Outside, Inside
<1>9. CASE op[t] \notin {"write", "power up", "cpi", "read"}
  <2>1. Plain(q) /\ ~Between(t)
    BY <1>1, <1>9 DEF ThreadInv, Between
  <2>2. Plain(rest)
    BY <1>1, <2>1, PlainTail, PlainPerformance DEF Remaining
  <2>3. UNCHANGED <<page, page_by>>
    BY <1>1, <2>1, PlainTail, OtherKeepsPage
  <2>4. ThreadInv(t)'
    BY <1>1, <1>3, <1>9, <2>2 DEF ThreadInv, Plain
  <2> QED BY <1>5, <2>1, <2>3, <2>4 DEF OnBasePage
<1> QED BY <1>6, <1>7, <1>8, <1>9
-----------------------------------------------------------------------------
(* A thread that has no transfers left takes up its next operation. *)
LEMMA RunStep ==
  ASSUME PageInv, NEW t \in Thread, todo[t] = <<>>, UNCHANGED <<page, page_by>>,
         NEW operation, NEW transfers, Run(t, operation, transfers),
         \A u \in Thread : u # t => (lock = u => lock' = u),
         ready' \in BOOLEAN,
         ready /\ ~ready' => lock = "free",
         ~ready /\ ready' => op["workqueue"] # "power up",
         ThreadInv(t)'
  PROVE  PageInv'
<1>1. /\ DOMAIN op' = Thread /\ DOMAIN todo' = Thread
      /\ \A u \in Thread : u # t => op'[u] = op[u] /\ todo'[u] = todo[u]
  BY DEF PageInv, Run
<1>2. ~Between(t)
  BY PartsAreApart DEF Between
<1>3. ASSUME NEW u \in Thread, u # t
      PROVE  ThreadInv(u)' /\ (Between(u) => Between(u)')
  <2>1. ThreadInv(u) /\ ready \in BOOLEAN
    BY DEF PageInv
  <2>2. op[u] = "power up" => ~ready'
    BY <2>1 DEF ThreadInv, PageInv
  <2>3. op[u] = "cpi" => (ready => ready')
    BY <2>1 DEF ThreadInv, Thread
  <2> QED BY <1>1, <1>3, <2>2, <2>3, OtherThread
<1>4. OnBasePage' \/ \E u \in Thread : Between(u)'
  BY <1>2, <1>3 DEF PageInv, OnBasePage
<1> QED BY <1>1, <1>3, <1>4 DEF PageInv

(* The operations that need no lock and select no page. *)
LEMMA PlainRun ==
  ASSUME PageInv, NEW t \in Thread, todo[t] = <<>>, UNCHANGED <<page, page_by>>,
         NEW operation, NEW transfers, Run(t, operation, transfers),
         operation \notin {"write", "power up", "cpi", "read"}, Plain(transfers),
         \A u \in Thread : u # t => (lock = u => lock' = u),
         ready' \in BOOLEAN,
         ready /\ ~ready' => lock = "free",
         ~ready /\ ready' => op["workqueue"] # "power up"
  PROVE  PageInv'
<1>1. op'[t] = operation /\ todo'[t] = transfers
  BY DEF Run, PageInv
<1>2. ThreadInv(t)'
  BY <1>1 DEF ThreadInv, Plain
<1> QED BY <1>2, RunStep

LEMMA WorkqueueStep ==
  ASSUME PageInv, Workqueue
  PROVE  PageInv'
<1> USE DEF At, Momentarily, Acquire, ReleaseOf, sensor, session
<1>0. "workqueue" \in Thread /\ ready \in BOOLEAN
  BY DEF Thread, PageInv
<1>1. CASE ReportStart
  BY <1>0, <1>1, PlainRun, PlainSequences DEF ReportStart
<1>2. CASE ReportMotion
  BY <1>0, <1>2, PlainRun, PlainSequences DEF ReportMotion
<1>3. CASE SmartWrite
  <2>1. Plain(Wrapped("0x32", IF sw_smart_flag THEN "0x00" ELSE "0x80"))
    BY PlainWrapped DEF PlainRegister
  <2> QED BY <1>0, <1>3, <2>1, PlainRun DEF SmartWrite
<1>4. CASE ReportEnd
  BY <1>0, <1>4, PlainRun, PlainSequences DEF ReportEnd
<1>5. CASE ActivityStart
  BY <1>0, <1>5, PlainRun, PlainSequences DEF ActivityStart
<1>6. CASE ActivityPerformance
  BY <1>0, <1>6, PlainRun, PlainSequences DEF ActivityPerformance, Performance
<1>7. CASE ActivityEnd
  BY <1>0, <1>7, PlainRun, PlainSequences DEF ActivityEnd
<1>8. CASE InitPowerUp
  <2>1. op'["workqueue"] = "power up" /\ todo'["workqueue"] = <<Reset>> /\ ~ready'
    BY <1>0, <1>8 DEF InitPowerUp, Run, PageInv
  <2>2. ThreadInv("workqueue")'
    BY <2>1 DEF ThreadInv
  <2> QED BY <1>0, <1>8, <2>2, RunStep DEF InitPowerUp
<1>9. CASE InitConfigure
  BY <1>0, <1>9, PlainRun, PlainSequences DEF InitConfigure
<1>10. CASE InitCpi
  <2>1. /\ op'["workqueue"] = "cpi" /\ todo'["workqueue"] = SetCpiLocked
        /\ lock' = "workqueue"
    BY <1>0, <1>10 DEF InitCpi, Run, PageInv
  <2>2. Outside(todo'["workqueue"], WriteResStep)
    BY <2>1, CpiSequence DEF Outside
  <2>3. ThreadInv("workqueue")'
    BY <2>1, <2>2, PartsAreApart DEF ThreadInv, Outside, Inside, Enter, Select, Write1, Back, Plain
  <2>4. \A u \in Thread : u # "workqueue" => (lock = u => lock' = u)
    BY <1>10 DEF InitCpi, Thread
  <2> QED BY <1>0, <1>10, <2>3, <2>4, RunStep DEF InitCpi
<1>11. CASE InitTimes
  BY <1>0, <1>11, PlainRun, PlainSequences DEF InitTimes
<1>12. CASE InitSelfTest
  BY <1>0, <1>12, PlainRun, PlainSequences DEF InitSelfTest
<1>13. CASE InitEnd
  <2>1. /\ op["workqueue"] = "times" /\ todo["workqueue"] = <<>>
        /\ Run("workqueue", "idle", <<>>)
        /\ ready' = TRUE \/ ready' = ready
        /\ UNCHANGED <<page, page_by, lock>>
    BY <1>13 DEF InitEnd
  <2>2. ready' \in BOOLEAN /\ ~(ready /\ ~ready')
    <3>1. CASE ready' = TRUE
      BY <3>1
    <3>2. CASE ready' = ready
      BY <1>0, <3>2, Zenon
    <3> QED BY <2>1, <3>1, <3>2
  <2>3. Plain(<<>>) /\ op["workqueue"] # "power up"
    BY <2>1, PlainSequences
  <2> QED BY <1>0, <2>1, <2>2, <2>3, PlainRun
<1> QED BY <1>1, <1>2, <1>3, <1>4, <1>5, <1>6, <1>7, <1>8, <1>9, <1>10, <1>11, <1>12, <1>13
        DEF Workqueue

LEMMA StudioStep ==
  ASSUME PageInv, Studio
  PROVE  PageInv'
<1> USE DEF At, Acquire, ReleaseOf, sensor, session
<1>0. "rpc" \in Thread /\ ready \in BOOLEAN
  BY DEF Thread, PageInv
<1>1. ASSUME NEW operation, NEW transfers, Setter(operation, transfers),
             operation \notin {"write", "power up", "cpi", "read"}, Plain(transfers)
      PROVE  PageInv'
  <2>1. \A u \in Thread : u # "rpc" => (lock = u => lock' = u)
    BY <1>1 DEF Setter, Thread
  <2> QED BY <1>0, <1>1, <2>1, PlainRun DEF Setter
<1>2. ASSUME NEW operation, NEW transfers, Setter(operation, transfers)
      PROVE  /\ op'["rpc"] = operation /\ todo'["rpc"] = transfers /\ lock' = "rpc"
             /\ ready' = ready
             /\ ThreadInv("rpc")' => PageInv'
  <2>1. /\ op'["rpc"] = operation /\ todo'["rpc"] = transfers /\ lock' = "rpc"
        /\ ready' = ready
    BY <1>0, <1>2 DEF Setter, Run, PageInv
  <2>2. \A u \in Thread : u # "rpc" => (lock = u => lock' = u)
    BY <1>2 DEF Setter, Thread
  <2>3. /\ todo["rpc"] = <<>> /\ Run("rpc", operation, transfers)
        /\ UNCHANGED <<page, page_by>>
    BY <1>2 DEF Setter
  <2>4. ASSUME ThreadInv("rpc")' PROVE PageInv'
    BY <1>0, <2>1, <2>2, <2>3, <2>4, RunStep
  <2> QED BY <2>1, <2>4
<1>3. CASE SetCpiRuntime
  <2> DEFINE transfers == IF ready THEN SetCpiLocked ELSE <<>>
  <2>1. Setter("cpi", transfers)
    BY <1>3 DEF SetCpiRuntime
  <2>2. Outside(transfers, WriteResStep) /\ (transfers # <<>> => ready)
    BY CpiSequence, PlainSequences DEF Outside
  <2>3. ~Inside(transfers, WriteResStep)
    BY <2>2, PartsAreApart
  <2> HIDE DEF transfers
  <2>4. /\ op'["rpc"] = "cpi" /\ todo'["rpc"] = transfers /\ lock' = "rpc" /\ ready' = ready
        /\ ThreadInv("rpc")' => PageInv'
    BY <1>2, <2>1
  <2>5. ThreadInv("rpc")'
    BY <2>2, <2>3, <2>4 DEF ThreadInv, Outside, Inside, Enter, Select, Write1, Back, Plain
  <2> QED BY <2>4, <2>5
<1>4. CASE WriteRegister
  <2>1. PICK w \in HostWrite : Setter("write", Around(w))
    BY <1>4 DEF WriteRegister
  <2>2. Around(w) \in Seq(HostAccess)
    <3>1. {ClockOn, w, ClockOff} \subseteq HostAccess
      BY DEF HostAccess, HostWrite
    <3> QED BY <3>1 DEF Around
  <2>3. /\ op'["rpc"] = "write" /\ todo'["rpc"] = Around(w) /\ lock' = "rpc"
        /\ ThreadInv("rpc")' => PageInv'
    BY <1>2, <2>1
  <2> QED BY <2>2, <2>3 DEF ThreadInv
<1>5. CASE ReadDiagnostics
  BY <1>1, <1>5, PlainSequences DEF ReadDiagnostics
<1>6. ASSUME NEW enabled \in BOOLEAN, SetForceAwake(enabled)
      PROVE  PageInv'
  BY <1>1, <1>6, PlainSequences DEF SetForceAwake, Performance
<1>7. ASSUME NEW enabled \in BOOLEAN, SetSmartAlgorithm(enabled)
      PROVE  PageInv'
  BY <1>1, <1>7, PlainSequences DEF SetSmartAlgorithm
<1>8. CASE SetterEnd
  BY <1>0, <1>8, PlainRun, PlainSequences DEF SetterEnd
<1> QED BY <1>3, <1>4, <1>5, <1>6, <1>7, <1>8 DEF Studio

LEMMA CaptureStep ==
  ASSUME PageInv, Capture
  PROVE  PageInv'
<1> USE DEF At, Momentarily, Acquire, ReleaseOf, Recover, sensor, session
<1>0. {"rpc", "lowprio"} \subseteq Thread /\ ready \in BOOLEAN
  BY DEF Thread, PageInv
<1>1. CASE CaptureBegin
  BY <1>0, <1>1, PlainRun, PlainSequences DEF CaptureBegin
<1>2. CASE CaptureBegun
  BY <1>0, <1>2, PlainRun, PlainSequences DEF CaptureBegun
<1>3. CASE CaptureEnd
  BY <1>0, <1>3, PlainRun, PlainSequences DEF CaptureEnd
<1>4. CASE StreamEnd
  <2>1. /\ UNCHANGED <<page, page_by, lock, op, todo>> /\ ready' = FALSE /\ lock = "free"
    BY <1>4 DEF StreamEnd
  <2>2. ASSUME NEW u \in Thread
        PROVE  ThreadInv(u)' /\ (Between(u) => Between(u)')
    BY <2>1 DEF PageInv, Thread, ThreadInv, Between, Outside, Inside, Enter, Select, Write1,
                Back, Plain
  <2> QED BY <2>1, <2>2 DEF PageInv, OnBasePage
<1>5. ASSUME NEW t \in {"rpc", "lowprio"}, FrameRead(t)
      PROVE  PageInv'
  <2>1. /\ op'[t] = "read" /\ todo'[t] = FrameArm /\ lock' = t
    BY <1>0, <1>5 DEF FrameRead, Run, PageInv
  <2>2. ThreadInv(t)'
    BY <2>1, ArmSequence DEF ThreadInv, Outside, Enter, Select, Write1, Back, Plain
  <2>3. \A u \in Thread : u # t => (lock = u => lock' = u)
    BY <1>5 DEF FrameRead, Thread
  <2> QED BY <1>0, <1>5, <2>2, <2>3, RunStep DEF FrameRead
<1>6. ASSUME NEW t \in {"rpc", "lowprio"}, FramePixel(t)
      PROVE  PageInv'
  <2>1. /\ op'[t] = "read" /\ todo'[t] = Pixel /\ lock' = t
    BY <1>0, <1>6 DEF FramePixel, Run, PageInv, ThreadInv
  <2>2. ThreadInv(t)'
    BY <2>1, PlainSequences DEF ThreadInv, Outside, Plain
  <2> QED BY <1>0, <1>6, <2>2, RunStep DEF FramePixel
<1>7. ASSUME NEW t \in {"rpc", "lowprio"}, FrameEnd(t)
      PROVE  PageInv'
  BY <1>0, <1>7, PlainRun, PlainSequences DEF FrameEnd
<1> QED BY <1>1, <1>2, <1>3, <1>4, <1>5, <1>6, <1>7 DEF Capture

LEMMA PageInvariant == Spec => []PageInv
<1>1. Init => PageInv
  <2> SUFFICES ASSUME Init PROVE PageInv
    OBVIOUS
  <2>1. \A t \in Thread : op[t] = "idle" /\ Plain(todo[t])
    BY PlainSequences DEF Init
  <2> QED BY <2>1 DEF Init, PageInv, ThreadInv, OnBasePage
<1>2. ASSUME PageInv, UNCHANGED vars
      PROVE  PageInv'
  <2>1. UNCHANGED <<page, page_by, ready, lock, op, todo>>
    BY <1>2 DEF vars, sensor, session, threads
  <2>2. ASSUME NEW u \in Thread
        PROVE  ThreadInv(u)' /\ (Between(u) => Between(u)')
    BY <1>2, <2>1 DEF PageInv, ThreadInv, Between, Outside, Inside, Enter, Select, Write1, Back,
                      Plain
  <2> QED BY <1>2, <2>1, <2>2 DEF PageInv, OnBasePage
<1>3. PageInv /\ [Next]_vars => PageInv'
  BY <1>2, TransferStep, WorkqueueStep, StudioStep, CaptureStep DEF Next
<1> QED BY <1>1, <1>3, PTL DEF Spec

-----------------------------------------------------------------------------
(* The lock makes the sequence of pmw3610_set_cpi_locked composite: the    *)
(* register it writes between its two selects is the one of page 1.        *)
THEOREM CpiKeepsItsPage == Spec => ResStepOnPage1
<1>1. ASSUME PageInv, NEW t \in Thread, Made(t), Head(todo[t]) = WriteResStep
      PROVE  page = 1
  <2>1. ThreadInv(t) /\ todo[t] # <<>>
    BY <1>1 DEF PageInv, Made
  <2>2. ~Plain(todo[t]) /\ todo[t] \notin Seq(HostAccess) /\ todo[t] # <<Reset>>
    <3>1. ~Plain(todo[t])
      BY <1>1, <2>1, PlainTail, TransfersDiffer
    <3>2. todo[t] \notin Seq(HostAccess)
      <4> SUFFICES ASSUME todo[t] \in Seq(HostAccess) PROVE FALSE
        OBVIOUS
      <4>1. Head(todo[t]) \in HostAccess
        BY <2>1
      <4> QED BY <1>1, <4>1, TransfersDiffer
    <3>3. Head(<<Reset>>) = Reset
      OBVIOUS
    <3> QED BY <1>1, <3>1, <3>2, <3>3, TransfersDiffer
  <2>3. op[t] = "cpi" \/ op[t] = "read"
    BY <2>1, <2>2 DEF ThreadInv
  <2>4. ~Outside(todo[t], WriteResStep) /\ ~Outside(todo[t], WriteMagic)
        /\ ~Inside(todo[t], WriteMagic)
    BY <1>1, <2>2, TransfersDiffer DEF Outside, Inside, Enter, Select, Write1, Back
  <2> QED BY <2>1, <2>3, <2>4 DEF ThreadInv
<1>2. PageInv => \A t \in Thread : Made(t) /\ Head(todo[t]) = WriteResStep => page = 1
  BY <1>1
<1>3. Spec /\ []PageInv => ResStepOnPage1
  BY <1>2, PTL DEF Spec, ResStepOnPage1
<1> QED BY <1>3, PageInvariant, PTL

(* Everything else meets page 1 only if a client left the sensor there, or *)
(* without the lock in the middle of set_cpi_locked or of arm_seq.         *)
THEOREM OnlySelectsDisturb == Spec => OthersOnPage0
<1>1. ASSUME PageInv, NEW u \in Thread, Between(u)
      PROVE  BetweenSelects(u)
  BY <1>1 DEF PageInv, ThreadInv, Between, Inside, Write1, Back, BetweenSelects
<1>2. ASSUME PageInv, NEW t \in Thread, Made(t), ~OnBasePage
      PROVE  BetweenSelects(t) \/ (lock # t /\ \E u \in Thread : BetweenSelects(u))
  <2>1. PICK u \in Thread : BetweenSelects(u)
    BY <1>1, <1>2 DEF PageInv
  <2> QED BY <2>1 DEF BetweenSelects
<1>3. PageInv => \A t \in Thread : Made(t) /\ ~OnBasePage
        => BetweenSelects(t) \/ (lock # t /\ \E u \in Thread : BetweenSelects(u))
  BY <1>2
<1>4. Spec /\ []PageInv => OthersOnPage0
  BY <1>3, PTL DEF Spec, OthersOnPage0
<1> QED BY <1>4, PageInvariant, PTL
=============================================================================
