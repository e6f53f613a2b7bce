------------------------------ MODULE MainTask ------------------------------
(***************************************************************************)
(* The life of the firmware in time: boot, the main loop with its update   *)
(* checks, measurements and sleeps (src/src/main.rs), and the hardware     *)
(* watchdog that resets a device which does not feed it.  Time is counted  *)
(* in seconds; an operation takes any time up to its limit.  What happens  *)
(* inside an update check is in OtaUpdate.                                 *)
(***************************************************************************)
EXTENDS Integers

CONSTANTS
  Watchdog,        \* WATCHDOG_TIMEOUT_SECS
  WifiLimit,       \* WIFI_INITIAL_CONNECT_TIMEOUT_SECS
  CheckInterval,   \* FIRMWARE_CHECK_INTERVAL
  Interval,        \* CONFIG.measurement_interval_seconds
  MaxRetries,      \* MAX_INIT_RETRIES of the SCD30
  RetryDelay,      \* seconds between them
  InitLimit,       \* seconds Sds011::new takes at most
  CheckLimit,      \* seconds an update check takes at most
  SampleLimit,     \* seconds the sensors take at most
  ConnectLimit,    \* seconds DNS and TCP take at most
  HandshakeLimit,  \* seconds the TLS handshake takes at most
  MqttLimit,       \* seconds the MQTT exchange takes at most
  CheckResults,    \* how checks end as a matter of course
  MaxFaults        \* bound on everything else that goes wrong

Result == {"Ok", "Other", "Network"}   \* Other: Info, Ota or Config errors;
                                       \* Network: Connection or Firmware

ASSUME MainTaskAssumption ==
  /\ {Watchdog, Interval, MaxRetries} \subseteq Nat \ {0}
  /\ {WifiLimit, CheckInterval, RetryDelay, InitLimit, CheckLimit, SampleLimit,
      ConnectLimit, HandshakeLimit, MqttLimit, MaxFaults} \subseteq Nat
  /\ CheckResults \subseteq Result

VARIABLES
  pc,              \* what the firmware is doing
  elapsed,         \* seconds since it began that
  since_feed,      \* seconds since the watchdog was fed
  hung,            \* whether the operation will never come back
  retries,         \* in Scd30::new
  update_counter,  \* in main_task
  slept,           \* seconds of the current sleep
  faults

vars == <<pc, elapsed, since_feed, hung, retries, update_counter, slept, faults>>

(* The quotient that decides how many cycles lie between two checks. *)
CheckEvery == CheckInterval \div Interval

(* The longest each state lasts; the timers end exactly then. *)
Limit(p) ==
  CASE p \in {"settle", "scd30_settle", "scd30_config", "sleep", "resetting"} -> 1
    [] p = "scd30_retry" -> RetryDelay
    [] p = "sds011"      -> InitLimit
    [] p = "wifi"        -> WifiLimit
    [] p = "check"       -> CheckLimit
    [] p = "sample"      -> SampleLimit
    [] p = "connect"     -> ConnectLimit
    [] p = "handshake"   -> HandshakeLimit
    [] p = "mqtt"        -> MqttLimit
    [] OTHER             -> 0

Timer == {"settle", "scd30_settle", "scd30_retry", "scd30_config", "sleep", "resetting"}
Operation == {"sds011", "wifi", "check", "sample", "connect", "handshake", "mqtt"}
Pc == {"off", "scd30_stop", "loop"} \cup Timer \cup Operation

(* The awaits without a timeout around them: a UART read, or a peer that   *)
(* sends just enough to keep the socket's timeout from expiring.           *)
Unbounded == {"sds011", "check", "sample", "connect", "handshake", "mqtt"}

TypeOK ==
  /\ pc \in Pc
  /\ elapsed \in Nat /\ since_feed \in 0..Watchdog
  /\ hung \in BOOLEAN
  /\ retries \in 0..MaxRetries
  /\ update_counter \in Nat
  /\ slept \in 0..Interval
  /\ faults \in 0..MaxFaults

-----------------------------------------------------------------------------
Init ==
  /\ pc = "off"
  /\ elapsed = 0 /\ since_feed = 0 /\ hung = FALSE
  /\ retries = 0 /\ update_counter = 0 /\ slept = 0
  /\ faults = 0

Fault == faults < MaxFaults /\ faults' = faults + 1

(* The step at p is over, and the watchdog has not fired meanwhile. *)
Done(p) ==
  /\ pc = p
  /\ since_feed < Watchdog
  /\ ~ hung
  /\ p \in Timer => elapsed = Limit(p)

GoTo(p) == pc' = p /\ elapsed' = 0 /\ hung' = FALSE

(* wdt.feed() *)
Feed == since_feed' = 0

PowerDown ==
  /\ pc' = "off"
  /\ elapsed' = 0 /\ since_feed' = 0 /\ hung' = FALSE
  /\ retries' = 0 /\ update_counter' = 0 /\ slept' = 0

(* A second passes. *)
Tick ==
  /\ pc # "off"
  /\ since_feed < Watchdog
  /\ hung \/ elapsed < Limit(pc)
  /\ elapsed' = elapsed + 1
  /\ since_feed' = since_feed + 1
  /\ UNCHANGED <<pc, hung, retries, update_counter, slept, faults>>

Hang ==
  /\ pc \in Unbounded /\ ~ hung /\ since_feed < Watchdog
  /\ Fault
  /\ hung' = TRUE
  /\ UNCHANGED <<pc, elapsed, since_feed, retries, update_counter, slept>>

WatchdogFires == since_feed = Watchdog /\ PowerDown /\ UNCHANGED faults

-----------------------------------------------------------------------------
(* main: the boot. *)

unfed == <<since_feed, update_counter, slept>>

Start ==
  /\ Done("off")
  /\ GoTo("settle")
  /\ Feed
  /\ UNCHANGED <<retries, update_counter, slept, faults>>

(* The BME280 is initialised at once, or main resets. *)
InitBme280 ==
  /\ Done("settle")
  /\ \/ GoTo("scd30_settle") /\ UNCHANGED <<unfed, retries, faults>>
     \/ Fault /\ PowerDown

ScdSettled ==
  /\ Done("scd30_settle")
  /\ GoTo("scd30_stop")
  /\ UNCHANGED <<unfed, retries, faults>>

(* Scd30::new: stop_continuous_measurement, retried. *)
StopScd30 ==
  /\ Done("scd30_stop")
  /\ \/ GoTo("scd30_config") /\ UNCHANGED <<unfed, retries, faults>>
     \/ /\ Fault
        /\ IF retries + 1 >= MaxRetries THEN PowerDown
           ELSE retries' = retries + 1 /\ GoTo("scd30_retry") /\ UNCHANGED unfed

RetryScd30 ==
  /\ Done("scd30_retry")
  /\ GoTo("scd30_stop")
  /\ UNCHANGED <<unfed, retries, faults>>

ConfigureScd30 ==
  /\ Done("scd30_config")
  /\ \/ GoTo("sds011") /\ UNCHANGED <<unfed, retries, faults>>
     \/ Fault /\ PowerDown

InitSds011 ==
  /\ Done("sds011")
  /\ \/ GoTo("wifi") /\ UNCHANGED <<unfed, retries, faults>>
     \/ Fault /\ PowerDown

(* The network comes up in time, and main_task is spawned with a counter   *)
(* that makes it check for an update first; or main resets.                *)
ConnectWifi ==
  /\ Done("wifi")
  /\ \/ /\ GoTo("loop")
        /\ update_counter' = CheckEvery
        /\ UNCHANGED <<since_feed, retries, slept, faults>>
     \/ Fault /\ PowerDown

-----------------------------------------------------------------------------
(* main_task. *)

(* Mutant: the counter is not reset. *)
BeginCycleCounting ==
  /\ Done("loop")
  /\ Feed
  /\ GoTo(IF update_counter >= CheckEvery THEN "check" ELSE "sample")
  /\ UNCHANGED <<retries, update_counter, slept, faults>>

(* The head of the loop. *)
BeginCycle ==
  /\ Done("loop")
  /\ Feed
  /\ IF update_counter >= CheckEvery
     THEN update_counter' = 0 /\ GoTo("check")
     ELSE UNCHANGED update_counter /\ GoTo("sample")
  /\ UNCHANGED <<retries, slept, faults>>

Sleep == GoTo("sleep") /\ slept' = 0

(* Mutant: no feed between a check and the measurement. *)
EndCheckUnfed ==
  /\ Done("check")
  /\ \E r \in Result :
       /\ IF r \in CheckResults THEN UNCHANGED faults ELSE Fault
       /\ \/ r = "Ok" /\ GoTo("sample") /\ UNCHANGED slept
          \/ r = "Other" /\ Sleep
          \/ r = "Network" /\ GoTo("resetting") /\ UNCHANGED slept
  /\ UNCHANGED <<since_feed, retries, update_counter>>

(* A check that installed an update never returns and resets as well.      *)
EndCheck ==
  /\ Done("check")
  /\ \E r \in Result :
       /\ IF r \in CheckResults THEN UNCHANGED faults ELSE Fault
       /\ \/ r = "Ok" /\ Feed /\ GoTo("sample") /\ UNCHANGED slept
          \/ r = "Other" /\ Sleep /\ UNCHANGED since_feed
          \/ r = "Network" /\ GoTo("resetting") /\ UNCHANGED <<since_feed, slept>>
  /\ UNCHANGED <<retries, update_counter>>

(* Mutant: the counter is not incremented. *)
EndCycleUncounted ==
  /\ Sleep
  /\ UNCHANGED <<since_feed, retries, update_counter>>

(* The end of a cycle, whether the measurement was published or not. *)
EndCycle ==
  /\ update_counter' = update_counter + 1
  /\ Sleep
  /\ UNCHANGED <<since_feed, retries>>

(* Measurement::take: sensors, transport, then MQTT.  Only transport       *)
(* errors reset the device.                                                *)
EndSample ==
  /\ Done("sample")
  /\ \/ GoTo("connect") /\ UNCHANGED <<unfed, retries, faults>>
     \/ Fault /\ EndCycle

EndTransport(p, next) ==
  /\ Done(p)
  /\ \/ GoTo(next) /\ UNCHANGED <<unfed, retries, faults>>
     \/ Fault /\ GoTo("resetting") /\ UNCHANGED <<unfed, retries>>

EndMqtt == Done("mqtt") /\ EndCycle /\ UNCHANGED faults

(* Mutant: one second too many. *)
SleepSecondMore ==
  /\ Done("sleep")
  /\ Feed
  /\ slept' = slept + 1
  /\ GoTo(IF slept >= Interval THEN "loop" ELSE "sleep")
  /\ UNCHANGED <<retries, update_counter, faults>>

(* A second of the sleep, after which the watchdog is fed. *)
SleepSecond ==
  /\ Done("sleep")
  /\ Feed
  /\ slept' = slept + 1
  /\ GoTo(IF slept + 1 >= Interval THEN "loop" ELSE "sleep")
  /\ UNCHANGED <<retries, update_counter, faults>>

SoftwareReset == Done("resetting") /\ PowerDown /\ UNCHANGED faults

-----------------------------------------------------------------------------
Program ==
  \/ Start \/ InitBme280 \/ ScdSettled \/ StopScd30 \/ RetryScd30 \/ ConfigureScd30
  \/ InitSds011 \/ ConnectWifi
  \/ BeginCycle \/ EndCheck \/ EndSample
  \/ EndTransport("connect", "handshake") \/ EndTransport("handshake", "mqtt")
  \/ EndMqtt \/ SleepSecond \/ SoftwareReset

Next == Program \/ Tick \/ Hang \/ WatchdogFires

Spec == Init /\ [][Next]_vars

(* Time passes, timers and operations end, and the watchdog counts. *)
FairSpec == Spec /\ WF_vars(Program \/ Tick \/ WatchdogFires)

-----------------------------------------------------------------------------
(* What may lie between two feeds: the boot with all its retries, a check  *)
(* and the second before the reset or the sleep, a measurement and the     *)
(* same second.                                                            *)
BootBudget == 3 + (MaxRetries - 1) * RetryDelay + InitLimit + WifiLimit
TakeBudget == SampleLimit + ConnectLimit + HandshakeLimit + MqttLimit + 1
Budgets == /\ BootBudget < Watchdog
           /\ CheckLimit + 1 < Watchdog
           /\ TakeBudget < Watchdog

(* As long as the boot, a check and a measurement each fit in the timeout, *)
(* nothing but an operation that hangs makes the watchdog reset the        *)
(* device: the feeds of main_task are where they have to be.               *)
WatchdogOnlyOnHang == Budgets /\ since_feed = Watchdog => hung

(* How far a step is from the next measurement.  From the end of one to    *)
(* the begin of the next there may be a check, if one is due, and one      *)
(* sleep before it and after it.                                           *)
Due == update_counter >= CheckEvery
Stage == CASE pc = "off" -> 15 [] pc = "settle" -> 14 [] pc = "scd30_settle" -> 13
           [] pc \in {"scd30_stop", "scd30_retry"} -> 12
           [] pc = "scd30_config" -> 11 [] pc = "sds011" -> 10 [] pc = "wifi" -> 9
           [] pc = "connect" -> 8 [] pc = "handshake" -> 7 [] pc = "mqtt" -> 6
           [] pc = "sleep" -> IF Due THEN 5 ELSE 2
           [] pc = "loop"  -> IF Due THEN 4 ELSE 1
           [] pc = "check" -> 3
           [] OTHER -> 0

(* How much of a loop within that step is left.                            *)
Rounds == CASE pc = "scd30_stop"  -> 2 * (MaxRetries - retries)
            [] pc = "scd30_retry" -> 2 * (MaxRetries - retries) + 1
            [] pc = "sleep"       -> Interval - slept
            [] OTHER              -> 0

(* Unless the device resets or hangs, every step and every second bring it *)
(* nearer to its next measurement: retries and sleeps are counted, and a   *)
(* check that failed is not followed by another one before a measurement.  *)
(* (If the interval is not longer than that of the checks: see             *)
(* OnlySkipsCycle.)                                                        *)
MeasurementNears ==
  [][pc # "sample" /\ pc' \notin {"sample", "off", "resetting"} /\ ~ hung' =>
       \/ Stage' < Stage
       \/ Stage' = Stage /\ Rounds' < Rounds /\ Rounds' \in Nat
       \/ Stage' = Stage /\ Rounds' = Rounds /\ elapsed < elapsed' /\ elapsed' <= Limit(pc')]_vars

(* Whatever goes wrong a number of times, the device gets back to          *)
(* measuring: hangs are broken by the watchdog, failures by resets and by  *)
(* the next cycle, and a server without firmware for the device only costs *)
(* the cycle of the check.                                                 *)
MeasuresAgain == []<>(pc = "sample")

(* And to checking for updates. *)
ChecksAgain == []<>(pc = "check")

(* main.rs:266: a check that fails for other reasons than the network only *)
(* costs its cycle: a later one measures.                                  *)
OnlySkipsCycle == pc = "check" ~> pc = "sample"
=============================================================================
