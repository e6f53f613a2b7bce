---------------------------- MODULE Measurement ----------------------------
(***************************************************************************)
(* A measurement on its way from the sensors to the broker:                *)
(* Sensors::measure (src/src/sensors/), Measurement::take                  *)
(* (src/src/measurement.rs) and the MQTT client (src/src/mqtt.rs), over    *)
(* the network of Wifi, in the loop of main_task (src/src/main.rs), which  *)
(* resets the device when a connection cannot be made.  How long the steps *)
(* take is in MainTask, and what a connection does with bytes in           *)
(* Transport.  The broker, and what is under way to it, is external: a     *)
(* packet may arrive when the session that sent it is gone.                *)
(***************************************************************************)
EXTENDS Wifi, FiniteSets

CONSTANTS
  Installed,  \* the sensors of the features bme280, scd30 and sds011
  MaxCycle    \* measurements are told apart modulo MaxCycle + 1

Sensor == {"bme280", "scd30", "sds011"}

ASSUME MeasurementAssumption == Installed \subseteq Sensor /\ MaxCycle \in Nat \ {0}

VARIABLES
  step,      \* what main_task is at
  sample,    \* SensorData: key -> where and when its value was measured
  cycle,     \* the current measurement
  wire,      \* PUBLISH packets under way to the broker
  received   \* how often the broker received each measurement

take == <<step, sample, cycle, wire, received>>
vars == <<wifi, take>>

Cycle == 0..MaxCycle

(* What each Sensor::measure adds. *)
Bme280Keys == {"temperature", "humidity", "pressure"}
Scd30Keys == {"temperature", "humidity", "co2"}
Sds011Keys == {"air_quality_pm2_5", "air_quality_pm10"}

Supplies(s) ==
  CASE s = "bme280" -> Bme280Keys
    [] s = "scd30"  -> Scd30Keys
    [] s = "sds011" -> Sds011Keys

Key == Bme280Keys \cup Scd30Keys \cup Sds011Keys

Value == [sensor : Sensor, cycle : Cycle]
Empty == [k \in {} |-> k]

TypeOK ==
  /\ WifiTypeOK
  /\ step \in Sensor \cup {"sleep", "format", "connect", "mqtt_connect", "publish",
                           "poll", "disconnect", "cleanup", "resetting"}
  /\ booting => step = "sleep"
  /\ DOMAIN sample \subseteq Key /\ \A k \in DOMAIN sample : sample[k] \in Value
  /\ cycle \in Cycle
  /\ \A m \in wire : m.cycle \in Cycle
  /\ received \in [Cycle -> 0..2]

-----------------------------------------------------------------------------
Init ==
  /\ WifiInit
  /\ step = "sleep" /\ sample = Empty
  /\ cycle = 0 /\ wire = {} /\ received = [c \in Cycle |-> 0]

(* Mutant: only the network starts over. *)
ResetNetwork == Reboot /\ UNCHANGED take

(* main_task begins again, when the network is up. *)
ResetDevice ==
  /\ Reboot
  /\ step' = "sleep" /\ sample' = Empty
  /\ UNCHANGED <<cycle, wire, received>>

(* A call that needs the network fails without it, and for other reasons. *)
Failure == IF Online THEN Fault ELSE UNCHANGED faults

calm == <<network, task, waited, main, setbacks>>
kept == <<sample, cycle, wire, received>>

(* take returns an error other than Transport: the next cycle comes. *)
Skip == step' = "sleep" /\ sample' = Empty

-----------------------------------------------------------------------------
(* The end of a sleep, and the first cycle after a boot. *)
BeginTake ==
  /\ step = "sleep" /\ ~ booting
  /\ LET next == (cycle + 1) % (MaxCycle + 1)
     IN /\ \A m \in wire : m.cycle # next
        /\ cycle' = next
        /\ received' = [received EXCEPT ![next] = 0]
  /\ step' = "bme280" /\ sample' = Empty
  /\ UNCHANGED <<wifi, wire>>

(* add_measurement, for all keys of a sensor: a later value replaces an    *)
(* earlier one.                                                            *)
Added(s) ==
  [k \in DOMAIN sample \cup Supplies(s) |->
     IF k \in Supplies(s) THEN [sensor |-> s, cycle |-> cycle] ELSE sample[k]]

(* Mutant: a sensor that fails is passed over. *)
MeasureSensorOrNot(s, next) ==
  /\ step = s /\ step' = next
  /\ \/ s \notin Installed /\ UNCHANGED <<faults, sample>>
     \/ s \in Installed /\ sample' = Added(s) /\ UNCHANGED faults
     \/ s \in Installed /\ Fault /\ UNCHANGED sample
  /\ UNCHANGED <<calm, cycle, wire, received>>

(* A sensor that is installed is read, or its error ends the measurement   *)
(* and drops what the others gave.                                         *)
MeasureSensor(s, next) ==
  /\ step = s
  /\ \/ s \notin Installed /\ step' = next /\ UNCHANGED <<faults, sample>>
     \/ s \in Installed /\ step' = next /\ sample' = Added(s) /\ UNCHANGED faults
     \/ s \in Installed /\ Fault /\ Skip
  /\ UNCHANGED <<calm, cycle, wire, received>>

(* format_mqtt_message, which fails when the text is too long. *)
Format ==
  /\ step = "format"
  /\ \/ step' = "connect" /\ UNCHANGED <<faults, sample>>
     \/ Fault /\ Skip
  /\ UNCHANGED <<calm, cycle, wire, received>>

(* Mutant: a failed connection does not reset the device. *)
OpenTransportOrSkip ==
  /\ step = "connect"
  /\ \/ Online /\ step' = "mqtt_connect" /\ UNCHANGED <<faults, sample>>
     \/ Failure /\ Skip
  /\ UNCHANGED <<calm, cycle, wire, received>>

(* Transport::new.  Its failure is the only one that resets the device. *)
OpenTransport ==
  /\ step = "connect"
  /\ \/ Online /\ step' = "mqtt_connect" /\ UNCHANGED faults
     \/ Failure /\ step' = "resetting"
  /\ UNCHANGED <<calm, kept>>

(* A second after the error. *)
SoftwareReset == step = "resetting" /\ ResetDevice /\ UNCHANGED faults

(* Mqtt::new: CONNECT and its answer. *)
MqttConnect ==
  /\ step = "mqtt_connect"
  /\ \/ Online /\ step' = "publish" /\ UNCHANGED <<faults, sample>>
     \/ Failure /\ Skip
  /\ UNCHANGED <<calm, cycle, wire, received>>

(* A message sent while the same one is under way is another packet. *)
Packet(n) == [cycle |-> cycle, sample |-> sample, copy |-> n]
NextCopy == CHOOSE n \in 0..Cardinality(wire) : Packet(n) \notin wire
Send == wire' = wire \cup {Packet(NextCopy)}

(* Client::publish.  The packet may also go out before an error, and       *)
(* success only means that the socket took it.                             *)
Publish ==
  /\ step = "publish"
  /\ \/ Send /\ step' = "poll" /\ UNCHANGED <<faults, sample>>
     \/ Failure /\ Skip /\ (Send \/ UNCHANGED wire)
  /\ UNCHANGED <<calm, cycle, received>>

UnderWay == \E m \in wire : m.cycle = cycle

(* Mutant: QoS 1 by the book, publishing again what is not acknowledged. *)
PollAgain ==
  /\ step = "poll"
  /\ \/ ~ UnderWay /\ step' = "disconnect" /\ UNCHANGED <<faults, wire>>
     \/ Failure /\ Send /\ UNCHANGED step
  /\ UNCHANGED <<calm, sample, cycle, received>>

(* poll returns the acknowledgement, or an error when there is none; both  *)
(* are taken for a published measurement.                                  *)
Poll ==
  /\ step = "poll"
  /\ \/ ~ UnderWay /\ UNCHANGED faults
     \/ Failure
  /\ step' = "disconnect"
  /\ UNCHANGED <<calm, kept>>

(* disconnect, whose error is dropped, and with it the session. *)
Disconnect ==
  /\ step = "disconnect"
  /\ step' = "cleanup"
  /\ UNCHANGED <<wifi, kept>>

(* The delay for the network stack. *)
Cleanup ==
  /\ step = "cleanup"
  /\ Skip
  /\ UNCHANGED <<wifi, cycle, wire, received>>

-----------------------------------------------------------------------------
(* The way to the broker.  What was sent is lost with the network or with  *)
(* the session, or arrives all the same.                                   *)
Deliver(m) ==
  /\ wire' = wire \ {m}
  /\ received' = [received EXCEPT ![m.cycle] = IF @ < 2 THEN @ + 1 ELSE 2]
  /\ UNCHANGED <<wifi, step, sample, cycle>>

LosePacket(m) ==
  /\ IF Online /\ m.cycle = cycle /\ step \in {"poll", "disconnect"} THEN Fault ELSE UNCHANGED faults
  /\ wire' = wire \ {m}
  /\ UNCHANGED <<calm, step, sample, cycle, received>>

(* Power, the watchdog, or an update check that resets the device. *)
OtherReset == Fault /\ ResetDevice

-----------------------------------------------------------------------------
Take ==
  \/ BeginTake
  \/ MeasureSensor("bme280", "scd30") \/ MeasureSensor("scd30", "sds011")
  \/ MeasureSensor("sds011", "format") \/ Format \/ OpenTransport \/ SoftwareReset
  \/ MqttConnect \/ Publish \/ Poll \/ Disconnect \/ Cleanup

Beside(A) == A /\ UNCHANGED take

Way == \E m \in wire : Deliver(m) \/ LosePacket(m)

Next == Take \/ Beside(WifiNext) \/ Way \/ OtherReset

Spec == Init /\ [][Next]_vars

(* The executor runs every task that can run, the radio joins and gets an  *)
(* address as long as the access point is there, packets go somewhere, and *)
(* time passes.                                                            *)
FairSpec ==
  /\ Spec
  /\ WF_vars(Take) /\ WF_vars(Way)
  /\ WF_vars(Beside(Task)) /\ WF_vars(Beside(Boot))
  /\ WF_vars(Beside(Join)) /\ WF_vars(Beside(Lease)) /\ WF_vars(Beside(Tick))

-----------------------------------------------------------------------------
(* What goes to the broker is one whole measurement: a value of its own    *)
(* cycle for every key of every installed sensor.  A key of two sensors    *)
(* has the value of the one that is read last.                             *)
CompleteSample ==
  \A m \in wire :
    /\ DOMAIN m.sample = UNION {Supplies(s) : s \in Installed}
    /\ \A k \in DOMAIN m.sample :
         /\ m.sample[k].cycle = m.cycle
         /\ m.sample[k].sensor \in Installed /\ k \in Supplies(m.sample[k].sensor)
         /\ "scd30" \in Installed /\ k \in Supplies("scd30") => m.sample[k].sensor = "scd30"

(* The broker gets no measurement twice, though QoS 1 would allow it, not  *)
(* even when acknowledgements are lost, packets arrive late and the device *)
(* resets before it knows: nothing is published again.                     *)
AtMostOnce == \A c \in Cycle : received[c] <= 1

(* The steps of main_task until it resets a device without a network.      *)
ToReset == CASE step = "mqtt_connect" -> 11 [] step = "publish" -> 10 [] step = "poll" -> 9
             [] step = "disconnect" -> 8 [] step = "cleanup" -> 7 [] step = "sleep" -> 6
             [] step = "bme280" -> 5 [] step = "scd30" -> 4 [] step = "sds011" -> 3
             [] step = "format" -> 2 [] step = "connect" -> 1 [] OTHER -> 0

(* A disconnection that the task `connection` has missed is made good by a *)
(* reset of the device only, and every step of main_task leads there: no   *)
(* cycle ends without it, unless its measurement fails for another reason. *)
OnlyResetRecovers ==
  [][Stranded =>
       \/ radio' = "stopped" /\ booting'
       \/ Stranded' /\ (step' = step \/ ToReset' < ToReset \/ faults < faults')]_vars

(* A task `connection` that waits for a disconnection it has missed does   *)
(* not keep the device off the network: the next measurement cannot        *)
(* connect, and its reset starts the task again.                           *)
RecoversFromStranded == Stranded ~> ~ Stranded

(* Once the access point stays, measurement after measurement reaches the  *)
(* broker, whatever has failed before.                                     *)
Delivers == <>[]ap => []<>(received[cycle] # 0) /\ []<>(received[cycle] = 0)
=============================================================================
