--------------------------- MODULE MainTask_proofs ---------------------------
(***************************************************************************)
(* The watchdog argument for every choice of timeouts and intervals: a     *)
(* bound on the time since the last feed in each step of the firmware.     *)
(***************************************************************************)
EXTENDS MainTask, TLAPS

(* The types of the constants, one by one. *)
LEMMA ConstantTypes ==
  /\ Watchdog \in Nat \ {0} /\ Interval \in Nat \ {0} /\ MaxRetries \in Nat \ {0}
  /\ WifiLimit \in Nat /\ CheckInterval \in Nat /\ RetryDelay \in Nat /\ InitLimit \in Nat
  /\ CheckLimit \in Nat /\ SampleLimit \in Nat /\ ConnectLimit \in Nat
  /\ HandshakeLimit \in Nat /\ MqttLimit \in Nat /\ MaxFaults \in Nat
  BY MainTaskAssumption

(* The number of cycles between two checks is a number, zero included. *)
LEMMA CheckEveryType == CheckEvery \in Nat
  BY ConstantTypes DEF CheckEvery

(* A feed at the head of the loop or in the sleep keeps every step short   *)
(* of the timeout: Spent is what can have passed before step p begins.     *)
Delay(r) == r * RetryDelay
LongestCycle == IF TakeBudget > CheckLimit + 1 THEN TakeBudget - 1 ELSE CheckLimit

Spent(p, r) ==
  CASE p = "scd30_settle" -> 1
    [] p \in {"scd30_stop", "scd30_config"} -> 2 + Delay(r)
    [] p = "scd30_retry"  -> 2 + Delay(r) - RetryDelay
    [] p = "sds011"       -> 3 + Delay(MaxRetries - 1)
    [] p = "wifi"         -> 3 + Delay(MaxRetries - 1) + InitLimit
    [] p = "loop"         -> 3 + Delay(MaxRetries - 1) + InitLimit + WifiLimit
    [] p = "connect"      -> SampleLimit
    [] p = "handshake"    -> SampleLimit + ConnectLimit
    [] p = "mqtt"         -> SampleLimit + ConnectLimit + HandshakeLimit
    [] p \in {"sleep", "resetting"} -> LongestCycle
    [] OTHER              -> 0

Booting == {"off", "settle", "scd30_settle"}
Probing == {"scd30_stop", "scd30_retry", "scd30_config"}

(* Step p may begin with r retries behind it, s seconds after a feed. *)
Entry(p, r, s) ==
  /\ s <= Spent(p, r)
  /\ p \in Booting => r = 0
  /\ p \in Probing => r <= MaxRetries - 1

InTime == hung \/ /\ Entry(pc, retries, since_feed - elapsed)
                  /\ elapsed <= Limit(pc)

(* The type invariant without its Boolean, which has a lemma of its own,   *)
(* and with the sleep that has not lasted its interval yet.                *)
Counters ==
  /\ pc \in Pc
  /\ elapsed \in Nat /\ since_feed \in 0..Watchdog
  /\ retries \in 0..MaxRetries
  /\ update_counter \in Nat
  /\ slept \in 0..Interval /\ (pc = "sleep" => slept < Interval)
  /\ faults \in 0..MaxFaults

(* The counters start in their bounds. *)
LEMMA CountersInit == Init => Counters
  BY ConstantTypes DEF Init, Counters, Pc

(* A reset puts every counter back to zero. *)
LEMMA PowerDownCounters ==
  ASSUME Counters, PowerDown, faults' \in 0..MaxFaults
  PROVE  Counters'
  BY ConstantTypes DEF Counters, PowerDown, Pc

(* No step takes a counter out of its bounds. *)
LEMMA CountersStep == Counters /\ [Next]_vars => Counters'
  <1> SUFFICES ASSUME Counters, [Next]_vars PROVE Counters'
    OBVIOUS
  <1> USE ConstantTypes, CheckEveryType DEF Counters, Pc, Timer, Operation, unfed
  <1>f. Fault => faults' \in 0..MaxFaults
    BY DEF Fault
  <1>p. PowerDown /\ faults' \in 0..MaxFaults => Counters'
    BY PowerDownCounters
  <1>1. CASE UNCHANGED vars
    BY <1>1 DEF vars
  <1>2. CASE Tick
    BY <1>2 DEF Tick
  <1>3. CASE Hang
    BY <1>3, <1>f DEF Hang
  <1>4. CASE WatchdogFires
    BY <1>4, <1>p DEF WatchdogFires
  <1>5. CASE Start
    BY <1>5 DEF Start, GoTo, Feed
  <1>6. CASE InitBme280 \/ ScdSettled
    BY <1>6, <1>f, <1>p DEF InitBme280, ScdSettled, GoTo
  <1>7. CASE StopScd30 \/ RetryScd30
    BY <1>7, <1>f, <1>p DEF StopScd30, RetryScd30, GoTo
  <1>8. CASE ConfigureScd30 \/ InitSds011
    BY <1>8, <1>f, <1>p DEF ConfigureScd30, InitSds011, GoTo
  <1>9. CASE ConnectWifi
    BY <1>9, <1>f, <1>p DEF ConnectWifi, GoTo
  <1>10. CASE BeginCycle
    BY <1>10 DEF BeginCycle, GoTo, Feed
  <1>11. CASE EndCheck
    BY <1>11, <1>f DEF EndCheck, GoTo, Feed, Sleep
  <1>12. CASE EndSample \/ EndMqtt
    BY <1>12, <1>f DEF EndSample, EndMqtt, EndCycle, GoTo, Sleep
  <1>13. CASE EndTransport("connect", "handshake") \/ EndTransport("handshake", "mqtt")
    BY <1>13, <1>f DEF EndTransport, GoTo
  <1>14. CASE SleepSecond
    <2>1. pc = "sleep"
      BY <1>14 DEF SleepSecond, Done
    <2> QED
      BY <1>14, <2>1 DEF SleepSecond, GoTo, Feed
  <1>15. CASE SoftwareReset
    BY <1>15, <1>p DEF SoftwareReset
  <1> QED
    BY <1>1, <1>2, <1>3, <1>4, <1>5, <1>6, <1>7, <1>8, <1>9, <1>10, <1>11, <1>12,
       <1>13, <1>14, <1>15 DEF Next, Program

(* No step gives the hang flag another value than TRUE or FALSE. *)
LEMMA HungStep == hung \in BOOLEAN /\ [Next]_vars => hung' \in BOOLEAN
  <1> SUFFICES ASSUME hung \in BOOLEAN, [Next]_vars PROVE hung' \in BOOLEAN
    OBVIOUS
  <1> USE DEF GoTo, PowerDown, Sleep, EndCycle
  <1>1. CASE UNCHANGED vars
    BY <1>1 DEF vars
  <1>2. CASE Program
    BY <1>2 DEF Program, Start, InitBme280, ScdSettled, StopScd30, RetryScd30,
       ConfigureScd30, InitSds011, ConnectWifi, BeginCycle, EndCheck, EndSample,
       EndTransport, EndMqtt, SleepSecond, SoftwareReset
  <1>3. CASE Tick \/ Hang \/ WatchdogFires
    BY <1>3 DEF Tick, Hang, WatchdogFires
  <1> QED
    BY <1>1, <1>2, <1>3 DEF Next
-----------------------------------------------------------------------------
(* Retries only add up. *)
LEMMA DelayGrows ==
  /\ Delay(0) = 0 /\ Delay(MaxRetries - 1) \in Nat
  /\ \A r \in Nat : /\ Delay(r) \in Nat
                    /\ Delay(r + 1) = Delay(r) + RetryDelay
                    /\ r <= MaxRetries - 1 => Delay(r) <= Delay(MaxRetries - 1)
  <1> USE ConstantTypes DEF Delay
  <1>1. Delay(0) = 0
    BY SMT
  <1>2. \A m \in Nat : Delay(m) \in Nat
    BY SMT
  <1>3. ASSUME NEW r \in Nat, NEW m \in Nat, r <= m PROVE Delay(r) <= Delay(m)
    <2>1. PICK k \in Nat : m = r + k
      BY <1>3
    <2>2. m * RetryDelay = r * RetryDelay + k * RetryDelay
      BY <2>1
    <2>3. k * RetryDelay \in Nat /\ r * RetryDelay \in Nat
      OBVIOUS
    <2> QED
      BY <2>2, <2>3
  <1>4. \A r \in Nat : Delay(r + 1) = Delay(r) + RetryDelay
    BY SMT
  <1> QED
    BY <1>1, <1>2, <1>3, <1>4

(* Every limit is a number. *)
LEMMA LimitType == \A p \in Pc : Limit(p) \in Nat
  BY ConstantTypes DEF Limit

(* A step that ends has taken no more than its limit. *)
LEMMA AtEnd ==
  ASSUME InTime, NEW p, Done(p)
  PROVE  /\ pc = p
         /\ Entry(p, retries, since_feed - elapsed)
         /\ elapsed <= Limit(p)
  BY DEF InTime, Done

(* A step that begins has taken no time. *)
LEMMA Begin ==
  ASSUME NEW p \in Pc, GoTo(p), Counters', Entry(p, retries', since_feed')
  PROVE  InTime'
  <1>1. pc' = p /\ elapsed' = 0
    BY DEF GoTo
  <1>2. Entry(pc', retries', since_feed' - elapsed') /\ elapsed' <= Limit(pc')
    BY <1>1, LimitType DEF Counters
  <1> QED
    BY <1>2 DEF InTime

(* A reset starts the account anew. *)
LEMMA PowerDownInTime ==
  ASSUME PowerDown
  PROVE  InTime'
  <1>1. pc' = "off" /\ elapsed' = 0 /\ since_feed' = 0 /\ retries' = 0
    BY DEF PowerDown
  <1>2. Entry(pc', retries', since_feed' - elapsed') /\ elapsed' <= Limit(pc')
    BY <1>1 DEF Entry, Spent, Limit, Booting, Probing
  <1> QED
    BY <1>2 DEF InTime
WatchdogInv == TypeOK /\ Counters /\ InTime

(* Every step keeps to the account of the time since the last feed. *)
LEMMA InTimeStep == Counters /\ Counters' /\ InTime /\ [Next]_vars => InTime'
  <1> SUFFICES ASSUME Counters, Counters', InTime, [Next]_vars PROVE InTime'
    OBVIOUS
  <1> USE ConstantTypes
  <1>n. retries \in Nat /\ since_feed \in Nat /\ elapsed \in Nat
    BY DEF Counters
  <1>p. PowerDown => InTime'
    BY PowerDownInTime
  <1>1. CASE UNCHANGED vars
    BY <1>1 DEF vars, InTime
  <1>2. CASE Tick
    <2>1. CASE hung
      BY <1>2, <2>1 DEF Tick, InTime
    <2>2. CASE ~ hung
      <3>1. /\ pc' = pc /\ retries' = retries
            /\ elapsed' = elapsed + 1 /\ since_feed' = since_feed + 1
            /\ elapsed < Limit(pc)
        BY <1>2, <2>2 DEF Tick
      <3>2. Entry(pc, retries, since_feed - elapsed)
        BY <2>2 DEF InTime
      <3>3. since_feed' - elapsed' = since_feed - elapsed
        BY <3>1, <1>n
      <3>4. elapsed' <= Limit(pc)
        BY <3>1, <1>n, LimitType DEF Counters
      <3> QED
        BY <3>1, <3>2, <3>3, <3>4 DEF InTime
    <2> QED
      BY <2>1, <2>2
  <1>3. CASE Hang
    BY <1>3 DEF Hang, InTime
  <1>4. CASE WatchdogFires \/ SoftwareReset
    BY <1>4, <1>p DEF WatchdogFires, SoftwareReset
  <1>5. CASE Start
    <2>1. GoTo("settle") /\ retries' = retries /\ since_feed' = 0 /\ Done("off")
      BY <1>5 DEF Start, Feed
    <2>2. retries = 0
      BY <2>1, AtEnd DEF Entry, Booting
    <2>3. Entry("settle", retries', since_feed')
      BY <2>1, <2>2 DEF Entry, Spent, Booting, Probing
    <2> QED
      BY <2>1, <2>3, Begin DEF Pc, Timer
  <1>6. CASE InitBme280
    <2>1. CASE GoTo("scd30_settle") /\ UNCHANGED <<since_feed, retries>> /\ Done("settle")
      <3>1. since_feed <= 1 /\ retries = 0
        BY <2>1, <1>n, AtEnd DEF Entry, Spent, Limit, Booting
      <3>2. Entry("scd30_settle", retries', since_feed')
        BY <2>1, <3>1 DEF Entry, Spent, Booting, Probing
      <3> QED
        BY <2>1, <3>2, Begin DEF Pc, Timer
    <2> QED
      BY <1>6, <2>1, <1>p DEF InitBme280, unfed
  <1>7. CASE ScdSettled
    <2>1. GoTo("scd30_stop") /\ UNCHANGED <<since_feed, retries>> /\ Done("scd30_settle")
      BY <1>7 DEF ScdSettled, unfed
    <2>2. since_feed <= 2 /\ retries = 0
      BY <2>1, <1>n, AtEnd DEF Entry, Spent, Limit, Booting
    <2>3. Entry("scd30_stop", retries', since_feed')
      BY <2>1, <2>2, DelayGrows DEF Entry, Spent, Booting, Probing
    <2> QED
      BY <2>1, <2>3, Begin DEF Pc
  <1>8. CASE StopScd30
    <2>1. Done("scd30_stop")
      BY <1>8 DEF StopScd30
    <2>2. since_feed <= 2 + Delay(retries) /\ retries <= MaxRetries - 1
      BY <2>1, <1>n, AtEnd, DelayGrows DEF Entry, Spent, Limit, Probing
    <2>3. CASE GoTo("scd30_config") /\ UNCHANGED <<since_feed, retries>>
      <3>1. Entry("scd30_config", retries', since_feed')
        BY <2>2, <2>3 DEF Entry, Spent, Booting, Probing
      <3> QED
        BY <2>3, <3>1, Begin DEF Pc, Timer
    <2>4. CASE /\ retries + 1 < MaxRetries /\ retries' = retries + 1
               /\ GoTo("scd30_retry") /\ since_feed' = since_feed
      <3>1. Entry("scd30_retry", retries', since_feed')
        BY <2>2, <2>4, <1>n, DelayGrows DEF Entry, Spent, Booting, Probing
      <3> QED
        BY <2>4, <3>1, Begin DEF Pc, Timer
    <2>5. retries + 1 >= MaxRetries \/ retries + 1 < MaxRetries
      BY <1>n
    <2> QED
      BY <1>8, <2>3, <2>4, <2>5, <1>p DEF StopScd30, unfed
  <1>9. CASE RetryScd30
    <2>1. GoTo("scd30_stop") /\ UNCHANGED <<since_feed, retries>> /\ Done("scd30_retry")
      BY <1>9 DEF RetryScd30, unfed
    <2>2. since_feed <= 2 + Delay(retries) /\ retries <= MaxRetries - 1
      BY <2>1, <1>n, AtEnd, DelayGrows DEF Entry, Spent, Limit, Probing
    <2>3. Entry("scd30_stop", retries', since_feed')
      BY <2>1, <2>2 DEF Entry, Spent, Booting, Probing
    <2> QED
      BY <2>1, <2>3, Begin DEF Pc
  <1>10. CASE ConfigureScd30
    <2>1. CASE GoTo("sds011") /\ UNCHANGED <<since_feed, retries>> /\ Done("scd30_config")
      <3>1. since_feed <= 3 + Delay(retries) /\ retries <= MaxRetries - 1
        BY <2>1, <1>n, AtEnd, DelayGrows DEF Entry, Spent, Limit, Probing
      <3>2. Entry("sds011", retries', since_feed')
        BY <2>1, <3>1, <1>n, DelayGrows DEF Entry, Spent, Booting, Probing
      <3> QED
        BY <2>1, <3>2, Begin DEF Pc, Operation
    <2> QED
      BY <1>10, <2>1, <1>p DEF ConfigureScd30, unfed
  <1>11. CASE InitSds011
    <2>1. CASE GoTo("wifi") /\ UNCHANGED <<since_feed, retries>> /\ Done("sds011")
      <3>1. Entry("wifi", retries', since_feed')
        BY <2>1, <1>n, AtEnd, DelayGrows DEF Entry, Spent, Limit, Booting, Probing
      <3> QED
        BY <2>1, <3>1, Begin DEF Pc, Operation
    <2> QED
      BY <1>11, <2>1, <1>p DEF InitSds011, unfed
  <1>12. CASE ConnectWifi
    <2>1. CASE GoTo("loop") /\ UNCHANGED <<since_feed, retries>> /\ Done("wifi")
      <3>1. Entry("loop", retries', since_feed')
        BY <2>1, <1>n, AtEnd, DelayGrows DEF Entry, Spent, Limit, Booting, Probing
      <3> QED
        BY <2>1, <3>1, Begin DEF Pc
    <2> QED
      BY <1>12, <2>1, <1>p DEF ConnectWifi
  <1>f. ASSUME NEW p \in {"check", "sample", "loop", "sleep"},
               GoTo(p), since_feed' = 0 PROVE InTime'
    <2>1. 0 <= Spent(p, retries') /\ p \notin Booting \cup Probing
      BY DelayGrows DEF Spent, Booting, Probing, LongestCycle, TakeBudget
    <2>2. Entry(p, retries', since_feed')
      BY <1>f, <2>1 DEF Entry
    <2> QED
      BY <1>f, <2>2, Begin DEF Pc, Timer, Operation
  <1>s. ASSUME NEW p \in {"sleep", "resetting"},
               GoTo(p), since_feed' <= LongestCycle PROVE InTime'
    <2>1. Entry(p, retries', since_feed')
      BY <1>s DEF Entry, Spent, Booting, Probing
    <2> QED
      BY <1>s, <2>1, Begin DEF Pc, Timer
  <1>13. CASE BeginCycle
    BY <1>13, <1>f DEF BeginCycle, Feed
  <1>14. CASE EndCheck
    <2>1. Done("check")
      BY <1>14 DEF EndCheck
    <2>2. since_feed <= LongestCycle
      BY <2>1, <1>n, AtEnd DEF Entry, Spent, Limit, LongestCycle, TakeBudget
    <2>3. \/ Feed /\ GoTo("sample")
          \/ since_feed' = since_feed /\ \E p \in {"sleep", "resetting"} : GoTo(p)
      BY <1>14 DEF EndCheck, Sleep
    <2> QED
      BY <2>2, <2>3, <1>f, <1>s DEF Feed
  <1>15. CASE EndSample
    <2>1. Done("sample")
      BY <1>15 DEF EndSample
    <2>2. since_feed <= SampleLimit
      BY <2>1, <1>n, AtEnd DEF Entry, Spent, Limit
    <2>3. SampleLimit <= LongestCycle
      BY DEF LongestCycle, TakeBudget
    <2>4. Entry("connect", retries', since_feed) /\ LongestCycle \in Nat
      BY <2>2 DEF Entry, Spent, Booting, Probing, LongestCycle, TakeBudget
    <2>5. CASE GoTo("connect") /\ since_feed' = since_feed
      BY <2>4, <2>5, Begin DEF Pc, Operation
    <2>6. CASE EndCycle
      <3>1. GoTo("sleep") /\ since_feed' = since_feed
        BY <2>6 DEF EndCycle, Sleep
      <3>2. since_feed' <= LongestCycle
        BY <3>1, <2>2, <2>3, <2>4, <1>n
      <3> QED
        BY <3>1, <3>2, <1>s
    <2> QED
      BY <1>15, <2>5, <2>6 DEF EndSample, unfed
  <1>16. CASE EndTransport("connect", "handshake") \/ EndTransport("handshake", "mqtt")
    <2> SUFFICES ASSUME NEW p \in {"connect", "handshake"}, NEW next \in {"handshake", "mqtt"},
                        p = "connect" <=> next = "handshake", EndTransport(p, next)
                 PROVE  InTime'
      BY <1>16
    <2>1. Done(p)
      BY DEF EndTransport
    <2>2. Entry(next, retries', since_feed)
      BY <2>1, <1>n, AtEnd DEF Entry, Spent, Limit, Booting, Probing
    <2>3. since_feed <= LongestCycle
      BY <2>2, <1>n DEF Entry, Spent, LongestCycle, TakeBudget
    <2>4. \/ GoTo(next) /\ since_feed' = since_feed
          \/ GoTo("resetting") /\ since_feed' = since_feed
      BY DEF EndTransport, unfed
    <2> QED
      BY <2>2, <2>3, <2>4, <1>s, Begin DEF Pc, Operation
  <1>17. CASE EndMqtt
    <2>1. Done("mqtt") /\ GoTo("sleep") /\ since_feed' = since_feed
      BY <1>17 DEF EndMqtt, EndCycle, Sleep
    <2>2. since_feed <= LongestCycle
      BY <2>1, <1>n, AtEnd DEF Entry, Spent, Limit, LongestCycle, TakeBudget
    <2> QED
      BY <2>1, <2>2, <1>s
  <1>18. CASE SleepSecond
    <2>1. since_feed' = 0 /\ \E p \in {"loop", "sleep"} : GoTo(p)
      BY <1>18 DEF SleepSecond, Feed
    <2> QED
      BY <2>1, <1>f
  <1> QED
    BY <1>1, <1>2, <1>3, <1>4, <1>5, <1>6, <1>7, <1>8, <1>9, <1>10, <1>11, <1>12,
       <1>13, <1>14, <1>15, <1>16, <1>17, <1>18 DEF Next, Program

(* Within the budgets the account never reaches the timeout. *)
LEMMA Budget == Budgets /\ Counters /\ InTime => (since_feed = Watchdog => hung)
  <1> SUFFICES ASSUME Budgets, Counters, InTime, ~ hung PROVE since_feed # Watchdog
    OBVIOUS
  <1> USE ConstantTypes
  <1>1. /\ Entry(pc, retries, since_feed - elapsed) /\ elapsed <= Limit(pc)
        /\ retries \in Nat /\ since_feed \in Nat /\ elapsed \in Nat /\ pc \in Pc
    BY DEF InTime, Counters
  <1>2. since_feed <= Spent(pc, retries) + Limit(pc)
    <2>1. Spent(pc, retries) \in Int /\ Limit(pc) \in Nat
      BY <1>1, DelayGrows, LimitType DEF Spent, LongestCycle, TakeBudget
    <2> QED
      BY <1>1, <2>1 DEF Entry
  <1>3. /\ 3 + Delay(MaxRetries - 1) + InitLimit + WifiLimit < Watchdog
        /\ CheckLimit + 1 < Watchdog
        /\ SampleLimit + ConnectLimit + HandshakeLimit + MqttLimit + 1 < Watchdog
        /\ LongestCycle \in Nat /\ LongestCycle + 1 < Watchdog
    <2>1. BootBudget = 3 + Delay(MaxRetries - 1) + InitLimit + WifiLimit
      BY DEF BootBudget, Delay
    <2> QED
      BY <2>1 DEF Budgets, TakeBudget, LongestCycle
  <1>4. CASE pc \in Probing
    <2>1. retries <= MaxRetries - 1
      BY <1>1, <1>4 DEF Entry
    <2> QED
      BY <1>1, <1>2, <1>3, <1>4, <2>1, DelayGrows DEF Probing, Spent, Limit
  <1>5. CASE pc \in {"settle", "scd30_settle", "sds011", "wifi", "loop", "off"}
    BY <1>1, <1>2, <1>3, <1>5, DelayGrows DEF Spent, Limit
  <1>6. CASE pc \in {"check", "sample", "connect", "handshake", "mqtt"}
    BY <1>1, <1>2, <1>3, <1>6 DEF Spent, Limit
  <1>7. CASE pc \in {"sleep", "resetting"}
    BY <1>1, <1>2, <1>3, <1>7 DEF Spent, Limit
  <1> QED
    BY <1>1, <1>4, <1>5, <1>6, <1>7 DEF Pc, Timer, Operation, Probing

(* The invariant holds at power-on. *)
LEMMA InitInv == Init => WatchdogInv
  <1> SUFFICES ASSUME Init PROVE WatchdogInv
    OBVIOUS
  <1>1. Counters /\ hung \in BOOLEAN
    BY CountersInit DEF Init
  <1>2. pc = "off" /\ elapsed = 0 /\ since_feed = 0 /\ retries = 0
    BY DEF Init
  <1>3. InTime
    BY <1>2 DEF InTime, Entry, Spent, Limit, Booting, Probing
  <1>4. TypeOK
    BY <1>1 DEF TypeOK, Counters
  <1> QED
    BY <1>1, <1>3, <1>4 DEF WatchdogInv

(* Every step preserves the invariant. *)
LEMMA StepInv == WatchdogInv /\ [Next]_vars => WatchdogInv'
  <1> SUFFICES ASSUME WatchdogInv, [Next]_vars PROVE WatchdogInv'
    OBVIOUS
  <1>1. Counters /\ InTime /\ hung \in BOOLEAN
    BY DEF WatchdogInv, TypeOK
  <1>2. Counters' /\ hung' \in BOOLEAN
    BY <1>1, CountersStep, HungStep
  <1>3. InTime'
    BY <1>1, <1>2, InTimeStep
  <1>4. TypeOK'
    BY <1>2 DEF TypeOK, Counters
  <1> QED
    BY <1>2, <1>3, <1>4 DEF WatchdogInv

(* The inductive invariant of the main loop. *)
LEMMA WatchdogInvariant == Spec => []WatchdogInv
  BY InitInv, StepInv, PTL DEF Spec

(* The counters of the boot and of the main loop stay in their bounds, for *)
(* every choice of timeouts, intervals and retries.                        *)
THEOREM TypeCorrect == Spec => []TypeOK
  <1>1. WatchdogInv => TypeOK
    BY DEF WatchdogInv
  <1> QED
    BY <1>1, WatchdogInvariant, PTL

(* For all timeouts and intervals within the budgets, only an operation    *)
(* that hangs lets the watchdog reset the device.                          *)
THEOREM WatchdogIsAccommodated == Spec => []WatchdogOnlyOnHang
  <1>1. WatchdogInv => WatchdogOnlyOnHang
    BY Budget DEF WatchdogInv, WatchdogOnlyOnHang
  <1> QED
    BY <1>1, WatchdogInvariant, PTL
-----------------------------------------------------------------------------
(* A step that MeasurementNears allows. *)
Nears == \/ Stage' < Stage
         \/ Stage' = Stage /\ Rounds' < Rounds /\ Rounds' \in Nat
         \/ Stage' = Stage /\ Rounds' = Rounds /\ elapsed < elapsed' /\ elapsed' <= Limit(pc')

(* The steps of a boot have an order of their own, whatever the counter is.*)
LEMMA BootNears ==
  ASSUME Counters, ~ PowerDown,
         \/ Start \/ InitBme280 \/ ScdSettled \/ StopScd30 \/ RetryScd30
         \/ ConfigureScd30 \/ InitSds011 \/ ConnectWifi
  PROVE  Nears
  <1>1. retries \in Nat /\ retries <= MaxRetries /\ MaxRetries \in Nat
    BY ConstantTypes DEF Counters
  <1>2. CASE StopScd30
    <2>1. pc = "scd30_stop"
      BY <1>2 DEF StopScd30, Done
    <2>2. CASE pc' = "scd30_config"
      BY <2>1, <2>2 DEF Nears, Stage
    <2>3. CASE retries + 1 < MaxRetries /\ retries' = retries + 1 /\ pc' = "scd30_retry"
      BY <1>1, <2>1, <2>3 DEF Nears, Stage, Rounds
    <2> QED
      BY <1>1, <1>2, <2>2, <2>3 DEF StopScd30, GoTo
  <1>3. CASE RetryScd30
    <2>1. pc = "scd30_retry" /\ pc' = "scd30_stop" /\ retries' = retries
      BY <1>3 DEF RetryScd30, Done, GoTo
    <2> QED
      BY <1>1, <2>1 DEF Nears, Stage, Rounds
  <1>4. CASE Start \/ InitBme280 \/ ScdSettled \/ ConfigureScd30 \/ InitSds011
    BY <1>4 DEF Start, InitBme280, ScdSettled, ConfigureScd30, InitSds011, Done, GoTo,
       Nears, Stage
  <1>5. CASE ConnectWifi
    BY <1>5 DEF ConnectWifi, Done, GoTo, Nears, Stage
  <1> QED
    BY <1>2, <1>3, <1>4, <1>5

(* A check begins with the counter at zero, and leaves it there.           *)
CheckCounted == pc = "check" => update_counter = 0

(* Only the end of a measurement counts a cycle.                           *)
LEMMA CheckCountedStep == CheckCounted /\ [Next]_vars => CheckCounted'
  <1> SUFFICES ASSUME CheckCounted, [Next]_vars, pc' = "check" PROVE update_counter' = 0
    BY DEF CheckCounted
  <1> USE DEF GoTo, Sleep, EndCycle, PowerDown, unfed, CheckCounted
  <1>1. CASE UNCHANGED vars \/ Tick \/ Hang \/ WatchdogFires
    BY <1>1 DEF vars, Tick, Hang, WatchdogFires
  <1>2. CASE Program
    BY <1>2 DEF Program, Start, InitBme280, ScdSettled, StopScd30, RetryScd30,
       ConfigureScd30, InitSds011, ConnectWifi, BeginCycle, EndCheck, EndSample,
       EndTransport, EndMqtt, SleepSecond, SoftwareReset
  <1> QED
    BY <1>1, <1>2 DEF Next

(* A check is due after one that failed only when no cycle lies between    *)
(* two checks.                                                             *)
LEMMA NotDueAfterCheck ==
  ASSUME Interval <= CheckInterval
  PROVE  CheckEvery >= 1
  BY ConstantTypes DEF CheckEvery

(* If the interval of the measurements is not longer than that of the      *)
(* checks, the firmware is on its way to the next measurement at every     *)
(* step that is no reset, however checks end and whatever the limits are.  *)
THEOREM EachStepNears ==
  ASSUME Interval <= CheckInterval
  PROVE  Spec => MeasurementNears
  <1>1. Init => CheckCounted
    BY DEF Init, CheckCounted
  <1>2. CheckCounted /\ [Next]_vars => CheckCounted'
    BY CheckCountedStep
  <1>3. WatchdogInv /\ CheckCounted /\ [Next]_vars =>
          [pc # "sample" /\ pc' \notin {"sample", "off", "resetting"} /\ ~ hung' => Nears]_vars
    <2> SUFFICES ASSUME Counters, CheckCounted, Next, pc # "sample",
                        pc' \notin {"sample", "off", "resetting"}, ~ hung'
                 PROVE  Nears
      BY DEF WatchdogInv
    <2>1. ~ PowerDown
      BY DEF PowerDown
    <2>2. CASE Tick
      <3>1. /\ UNCHANGED <<pc, retries, update_counter, slept>> /\ elapsed' = elapsed + 1
            /\ elapsed < Limit(pc)
        BY <2>2 DEF Tick
      <3>2. Stage' = Stage /\ Rounds' = Rounds
        BY <3>1 DEF Stage, Rounds, Due
      <3>3. elapsed \in Nat /\ Limit(pc) \in Nat
        BY LimitType DEF Counters
      <3> QED
        BY <3>1, <3>2, <3>3 DEF Nears
    <2>3. CASE Hang \/ WatchdogFires \/ SoftwareReset
      BY <2>1, <2>3 DEF Hang, WatchdogFires, SoftwareReset
    <2>4. CASE BeginCycle
      <3>1. pc = "loop" /\ Due /\ pc' = "check"
        BY <2>4 DEF BeginCycle, Done, GoTo, Due
      <3> QED
        BY <3>1 DEF Nears, Stage
    <2>5. CASE EndCheck
      <3>1. pc = "check" /\ pc' = "sleep" /\ update_counter' = 0
        BY <2>5 DEF EndCheck, Done, GoTo, Sleep, CheckCounted
      <3>2. ~ Due'
        BY <3>1, NotDueAfterCheck, CheckEveryType DEF Due, CheckEvery
      <3> QED
        BY <3>1, <3>2 DEF Nears, Stage
    <2>6. CASE EndSample \/ EndTransport("connect", "handshake")
            \/ EndTransport("handshake", "mqtt") \/ EndMqtt
      BY <2>6 DEF EndSample, EndTransport, EndMqtt, EndCycle, Sleep, Done, GoTo, Nears, Stage
    <2>7. CASE SleepSecond
      <3>1. /\ pc = "sleep" /\ slept' = slept + 1 /\ update_counter' = update_counter
            /\ pc' \in {"sleep", "loop"}
        BY <2>7 DEF SleepSecond, Done, GoTo
      <3>2. slept \in Nat /\ slept < Interval /\ Interval \in Nat /\ (Due' <=> Due)
        BY <3>1, ConstantTypes DEF Counters, Due
      <3>3. CASE pc' = "loop"
        BY <3>1, <3>2, <3>3 DEF Nears, Stage
      <3>4. CASE pc' = "sleep"
        BY <3>1, <3>2, <3>4 DEF Nears, Stage, Rounds
      <3> QED
        BY <3>1, <3>3, <3>4
    <2> QED
      BY <2>1, <2>2, <2>3, <2>4, <2>5, <2>6, <2>7, BootNears DEF Next, Program
  <1> QED
    BY <1>1, <1>2, <1>3, WatchdogInvariant, PTL DEF Spec, MeasurementNears, Nears
=============================================================================
