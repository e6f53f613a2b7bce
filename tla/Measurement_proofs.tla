------------------------ MODULE Measurement_proofs ------------------------
(***************************************************************************)
(* What holds of measurements and of the network under them, for every set *)
(* of installed sensors, all delays and timeouts, and any number of        *)
(* failures.                                                               *)
(***************************************************************************)
EXTENDS Measurement, TLAPS

(* The types of the constants, one by one. *)
LEMMA ConstantTypes ==
  /\ ReconnectDelay \in Nat /\ JoinLimit \in Nat /\ LeaseLimit \in Nat /\ MaxFaults \in Nat
  /\ ConnectTimeout \in Nat \ {0} /\ InitialTimeout \in Nat \ {0}
  /\ MaxCycle \in Nat \ {0} /\ Installed \subseteq Sensor
  BY WifiAssumption, MeasurementAssumption

-----------------------------------------------------------------------------
(* The network. *)

Counts ==
  /\ since \in Nat /\ waited \in Nat
  /\ boot_time \in 0..InitialTimeout
  /\ faults \in 0..MaxFaults /\ setbacks \in 0..faults

Flags ==
  /\ ap \in BOOLEAN /\ lease \in BOOLEAN /\ event \in BOOLEAN
  /\ booting \in BOOLEAN /\ away \in BOOLEAN

States ==
  /\ radio \in {"stopped", "started", "joining", "connected"}
  /\ task \in {"look", "arm", "waiting", "pause", "start", "connecting", "back_off"}

(* A failure somewhere changes no more of the network than its bound. *)
LEMMA FailureKeeps ==
  ASSUME WifiTypeOK, UNCHANGED calm, (UNCHANGED faults) \/ Fault
  PROVE  WifiTypeOK' /\ faults' \in {faults, faults + 1}
  <1>1. Counts /\ Flags /\ States
    BY Zenon DEF WifiTypeOK, Counts, Flags, States
  <1>2. Flags' /\ States'
    BY <1>1, Zenon DEF Flags, States, calm, network, main
  <1>3. faults \in 0..MaxFaults /\ faults' \in {faults, faults + 1} /\ faults' \in 0..MaxFaults
    BY <1>1, ConstantTypes DEF Counts, Fault
  <1>4. UNCHANGED <<since, waited, boot_time, setbacks>>
    BY Zenon DEF calm, network, main
  <1>5. Counts'
    BY <1>1, <1>3, <1>4 DEF Counts
  <1> QED
    BY <1>2, <1>3, <1>5, Zenon DEF WifiTypeOK, Counts, Flags, States

(* A reset of the network keeps its types. *)
LEMMA RebootKeeps ==
  ASSUME WifiTypeOK, Reboot, (UNCHANGED faults) \/ Fault
  PROVE  WifiTypeOK'
  <1>1. Counts /\ Flags /\ States
    BY Zenon DEF WifiTypeOK, Counts, Flags, States
  <1>2. Flags'
    BY <1>1, Zenon DEF Flags, Reboot
  <1>3. States'
    BY <1>1 DEF States, Reboot
  <1>4. faults' \in 0..MaxFaults
    BY <1>1, ConstantTypes DEF Counts, Fault
  <1>5. Counts'
    BY <1>1, <1>4, ConstantTypes DEF Counts, Reboot
  <1> QED
    BY <1>2, <1>3, <1>5, Zenon DEF WifiTypeOK, Counts, Flags, States

(* Every step of the radio, of the task and of main keeps the types. *)
LEMMA WifiTypes ==
  ASSUME WifiTypeOK, WifiNext
  PROVE  WifiTypeOK'
  <1>1. Counts /\ Flags /\ States
    BY Zenon DEF WifiTypeOK, Counts, Flags, States
  <1> USE <1>1, ConstantTypes DEF WifiNext, Task, Radio, Boot
  <1>2. CASE BootTimeout
    BY <1>2, RebootKeeps, Zenon DEF BootTimeout
  <1>3. CASE ~ BootTimeout
    <2>1. Flags'
      BY <1>3, Zenon DEF Flags, Look, Arm, Disconnected, EndDelay, Start, Connecting, Join,
         JoinFails, Lose, Lease, BootDone, Tick, ApChanges, network, main
    <2>2. States'
      <3>1. CASE Task
        BY <3>1 DEF States, Look, Arm, Disconnected, EndDelay, Start, Connecting, TaskTo,
           RadioTo, network
      <3>2. CASE ~ Task
        BY <1>3, <3>2 DEF States, Join, JoinFails, Lose, Lease, BootDone, Tick, ApChanges,
           RadioTo
      <3> QED
        BY <3>1, <3>2
    <2>3. Counts'
      <3>1. CASE Look \/ Arm \/ Disconnected \/ EndDelay \/ Connecting
        BY <3>1 DEF Counts, Look, Arm, Disconnected, EndDelay, Connecting, TaskTo, network, main
      <3>2. CASE Start
        BY <3>2 DEF Counts, Start, TaskTo, RadioTo, Setback, Fault, main
      <3>3. CASE Radio
        BY <3>3 DEF Counts, Join, JoinFails, Lose, Lease, RadioTo, Setback, Fault, main
      <3>4. CASE BootDone \/ ApChanges
        BY <3>4 DEF Counts, BootDone, ApChanges, main
      <3>5. CASE Tick
        BY <3>5 DEF Counts, Tick
      <3> QED
        BY <1>3, <3>1, <3>2, <3>3, <3>4, <3>5, Zenon
    <2> QED
      BY <2>1, <2>2, <2>3, Zenon DEF WifiTypeOK, Counts, Flags, States
  <1> QED
    BY <1>2, <1>3

-----------------------------------------------------------------------------
(* The time of a boot, while the access point stays in reach and can be    *)
(* joined before an attempt times out.                                     *)

Reach == booting /\ ~ away /\ JoinLimit < ConnectTimeout

(* What n failures cost. *)
Spent(n) == n * (JoinLimit + LeaseLimit + ReconnectDelay)

(* The radio joins only for the task, and answers before the task gives up. *)
Joining ==
  Reach =>
    /\ ap
    /\ radio = "joining" => task = "connecting" /\ waited = since /\ since <= JoinLimit

(* The time that has passed is that of the failures and of the attempt     *)
(* under way, wherever the radio and the task are.                         *)
OnTime ==
  Reach /\ ~ Stranded =>
    /\ task = "arm" => LinkUp
    /\ task = "waiting" => (event <=> ~ LinkUp)
    /\ radio = "joining" => boot_time <= Spent(setbacks) + since
    /\ LinkUp =>
         /\ task \in {"connecting", "look", "arm", "waiting"}
         /\ since <= LeaseLimit
         /\ ~ lease => boot_time <= Spent(setbacks) + JoinLimit + since
         /\ lease => boot_time <= Spent(setbacks) + JoinLimit + LeaseLimit
    /\ radio \in {"stopped", "started"} =>
         /\ task \in {"look", "start"} => boot_time <= Spent(setbacks)
         /\ task \in {"pause", "back_off"} =>
              waited <= ReconnectDelay /\ boot_time <= Spent(setbacks) - ReconnectDelay + waited
         /\ task \in {"connecting", "waiting"} =>
              boot_time <= Spent(setbacks) - ReconnectDelay

(* What one more failure costs. *)
LEMMA SpentMore ==
  \A n \in Nat : /\ Spent(n) \in Nat /\ Spent(0) = 0
                 /\ Spent(n + 1) = Spent(n) + JoinLimit + LeaseLimit + ReconnectDelay
  <1> DEFINE K == JoinLimit + LeaseLimit + ReconnectDelay
  <1>1. K \in Nat
    BY ConstantTypes
  <1> HIDE DEF K
  <1>2. \A n \in Nat : n * K \in Nat /\ 0 * K = 0 /\ (n + 1) * K = n * K + K
    BY <1>1
  <1>3. \A n : Spent(n) = n * K
    BY DEF Spent, K
  <1>4. \A n \in Nat : Spent(n) \in Nat /\ Spent(0) = 0 /\ Spent(n + 1) = Spent(n) + K
    BY <1>2, <1>3
  <1> QED
    BY <1>4, ConstantTypes DEF K

(* A boot begins in time. *)
LEMMA BootBegins ==
  ASSUME booting' = TRUE, away' = ~ ap', radio' = "stopped", task' = "look",
         boot_time' = 0, setbacks' = 0, ap' \in BOOLEAN
  PROVE  Joining' /\ OnTime'
  <1>1. Reach' => ap'
    BY Zenon DEF Reach
  <1>2. Joining'
    BY <1>1 DEF Joining
  <1>3. Spent(0) = 0
    BY SpentMore
  <1>4. boot_time' <= Spent(setbacks')
    BY <1>3
  <1>5. OnTime'
    BY <1>4 DEF OnTime, LinkUp
  <1> QED
    BY <1>2, <1>5

(* What is not part of the network does not count. *)
LEMMA OtherKeeps ==
  ASSUME Joining, OnTime, UNCHANGED calm
  PROVE  Joining' /\ OnTime'
  <1>1. UNCHANGED <<ap, radio, since, lease, event, away, task, waited, booting, boot_time, setbacks>>
    BY Zenon DEF calm, network, main
  <1> QED
    BY <1>1 DEF Joining, OnTime, Reach, LinkUp, Stranded

(* The radio joins for the task only. *)
LEMMA JoiningKeeps ==
  ASSUME WifiTypeOK, WifiTypeOK', Joining, WifiNext
  PROVE  Joining'
  <1> USE ConstantTypes DEF Joining, Reach, WifiTypeOK, WifiNext, Task, Radio, Boot
  <1>1. CASE BootTimeout
    BY <1>1 DEF BootTimeout, Reboot
  <1>2. CASE Look \/ Arm \/ Disconnected \/ EndDelay
    BY <1>2 DEF Look, Arm, Disconnected, EndDelay, TaskTo, network, main
  <1>3. CASE Start
    BY <1>3 DEF Start, TaskTo, RadioTo, main, LinkUp
  <1>4. CASE Connecting
    BY <1>4 DEF Connecting, TaskTo, network, main
  <1>5. CASE Radio
    BY <1>5 DEF Join, JoinFails, Lose, Lease, RadioTo, main, LinkUp
  <1>6. CASE BootDone \/ ApChanges
    BY <1>6 DEF BootDone, ApChanges, main
  <1>7. CASE Tick
    BY <1>7 DEF Tick, Ready, LinkUp
  <1> QED
    BY <1>1, <1>2, <1>3, <1>4, <1>5, <1>6, <1>7

(* Where the bounds on the time of a boot are when it goes on. *)
LEMMA SpentNow ==
  ASSUME WifiTypeOK
  PROVE  /\ Spent(setbacks) \in Nat
         /\ Spent(setbacks + 1) = Spent(setbacks) + JoinLimit + LeaseLimit + ReconnectDelay
         /\ boot_time \in Nat /\ since \in Nat /\ waited \in Nat
         /\ JoinLimit \in Nat /\ LeaseLimit \in Nat /\ ReconnectDelay \in Nat
  BY SpentMore, ConstantTypes DEF WifiTypeOK

(* Every step keeps a boot within the time of its failures. *)
LEMMA OnTimeKeeps ==
  ASSUME WifiTypeOK, WifiTypeOK', Joining, Joining', OnTime, WifiNext
  PROVE  OnTime'
  <1> USE SpentNow, ConstantTypes DEF WifiTypeOK, OnTime, Joining, Reach, LinkUp, Stranded, WifiNext, Task, Radio, Boot
  <1>1. CASE BootTimeout
    BY <1>1, BootBegins DEF BootTimeout, Reboot
  <1>2. CASE Look
    BY <1>2 DEF Look, TaskTo, network, main
  <1>3. CASE Arm
    BY <1>3 DEF Arm, TaskTo, main
  <1>4. CASE Disconnected
    BY <1>4 DEF Disconnected, TaskTo, network, main
  <1>5. CASE EndDelay
    BY <1>5 DEF EndDelay, TaskTo, network, main
  <1>6. CASE Start
    BY <1>6 DEF Start, TaskTo, RadioTo, main, Setback
  <1>7. CASE Connecting
    BY <1>7 DEF Connecting, TaskTo, network, main
  <1>8. CASE Join
    BY <1>8 DEF Join, RadioTo, main
  <1>9. CASE JoinFails
    BY <1>9 DEF JoinFails, RadioTo, main, Setback
  <1>10. CASE Lose
    BY <1>10 DEF Lose, RadioTo, main, Setback
  <1>11. CASE Lease
    BY <1>11 DEF Lease, main
  <1>12. CASE BootDone \/ ApChanges
    BY <1>12 DEF BootDone, ApChanges, main
  <1>13. CASE Tick
    BY <1>13 DEF Tick, Ready
  <1> QED
    BY <1>1, <1>2, <1>3, <1>4, <1>5, <1>6, <1>7, <1>8, <1>9, <1>10, <1>11, <1>12, <1>13

(* A boot that is timed out has had more failures than it has time for. *)
LEMMA InTime ==
  ASSUME WifiTypeOK, Joining, OnTime
  PROVE  BootInTime
  <1> SUFFICES ASSUME Reach, boot_time = InitialTimeout, ~ Ready, ~ Stranded
               PROVE  BootBudget(setbacks) >= InitialTimeout
    BY Zenon DEF BootInTime, Reach
  <1>1. BootBudget(setbacks) = Spent(setbacks) + JoinLimit + LeaseLimit
    BY DEF BootBudget, Spent
  <1>2. boot_time <= Spent(setbacks) + JoinLimit + LeaseLimit
    BY SpentNow DEF OnTime, Joining, Stranded, LinkUp, Ready, WifiTypeOK
  <1> QED
    BY <1>1, <1>2, SpentNow

-----------------------------------------------------------------------------
(* The measurement. *)

Reading == {"bme280", "scd30", "sds011"}
Sending == {"format", "connect", "mqtt_connect", "publish"}

(* The sensors that were read when main_task is at a step. *)
ReadBefore(s) ==
  CASE s = "bme280" -> {}
    [] s = "scd30"  -> {"bme280"}
    [] s = "sds011" -> {"bme280", "scd30"}
    [] OTHER        -> Sensor

(* A sample of cycle c has the values of the sensors in S, those of scd30  *)
(* before those of bme280.                                                 *)
Whole(data, c, S) ==
  /\ DOMAIN data = UNION {Supplies(s) : s \in S}
  /\ \A k \in DOMAIN data :
       /\ data[k].cycle = c
       /\ data[k].sensor \in S /\ k \in Supplies(data[k].sensor)
       /\ "scd30" \in S /\ k \in Supplies("scd30") => data[k].sensor = "scd30"

Samples ==
  /\ step \in Reading \cup Sending => Whole(sample, cycle, ReadBefore(step) \cap Installed)
  /\ \A m \in wire : Whole(m.sample, m.cycle, Installed)

(* A measurement goes out once, and what is under way has not arrived. *)
Packets ==
  /\ \A m, n \in wire : m.cycle = n.cycle => m = n
  /\ \A m \in wire : received[m.cycle] = 0
  /\ step \in Reading \cup Sending => received[cycle] = 0 /\ ~ UnderWay
  /\ \A c \in Cycle : received[c] <= 1

(* What main_task is at, and what it has. *)
TakeTypes ==
  /\ step \in Sensor \cup {"sleep", "format", "connect", "mqtt_connect", "publish",
                           "poll", "disconnect", "cleanup", "resetting"}
  /\ booting => step = "sleep"
SampleTypes == DOMAIN sample \subseteq Key /\ \A k \in DOMAIN sample : sample[k] \in Value
PacketTypes ==
  /\ cycle \in Cycle
  /\ \A m \in wire : m.cycle \in Cycle
  /\ received \in [Cycle -> 0..2]

IInv ==
  /\ WifiTypeOK /\ TakeTypes /\ SampleTypes /\ PacketTypes
  /\ Joining /\ OnTime /\ Samples /\ Packets

(* The empty sample is that of no sensor, and adds no key. *)
LEMMA NothingRead ==
  /\ \A c : Whole(Empty, c, {})
  /\ DOMAIN Empty = {}
  BY DEF Whole, Empty

(* add_measurement for a sensor that comes after those in S. *)
LEMMA AddedToo ==
  ASSUME NEW S \in SUBSET Sensor, NEW s \in Sensor, Whole(sample, cycle, S),
         "scd30" \in S => s = "sds011"
  PROVE  Whole(Added(s), cycle, S \cup {s})
  <1> DEFINE new == Added(s)
  <1>1. DOMAIN new = DOMAIN sample \cup Supplies(s)
    BY DEF Added
  <1>2. UNION {Supplies(t) : t \in S \cup {s}} = (UNION {Supplies(t) : t \in S}) \cup Supplies(s)
    OBVIOUS
  <1>3. ASSUME NEW k \in Supplies(s)
        PROVE  /\ new[k].cycle = cycle /\ new[k].sensor = s
               /\ "scd30" \in S \cup {s} /\ k \in Supplies("scd30") => new[k].sensor = "scd30"
    BY <1>3 DEF Added, Supplies, Bme280Keys, Scd30Keys, Sds011Keys, Sensor
  <1>4. ASSUME NEW k \in DOMAIN sample, k \notin Supplies(s)
        PROVE  /\ new[k] = sample[k]
               /\ "scd30" \in S \cup {s} /\ k \in Supplies("scd30") => "scd30" \in S
    BY <1>4 DEF Added
  <1> HIDE DEF new
  <1>5. \A k \in DOMAIN new :
          /\ new[k].cycle = cycle
          /\ new[k].sensor \in S \cup {s} /\ k \in Supplies(new[k].sensor)
          /\ "scd30" \in S \cup {s} /\ k \in Supplies("scd30") => new[k].sensor = "scd30"
    <2> TAKE k \in DOMAIN new
    <2>1. CASE k \in Supplies(s)
      BY <1>3, <2>1
    <2>2. CASE k \in DOMAIN sample /\ k \notin Supplies(s)
      BY <1>4, <2>2 DEF Whole
    <2> QED
      BY <1>1, <2>1, <2>2
  <1>6. DOMAIN new = UNION {Supplies(t) : t \in S \cup {s}}
    BY <1>1, <1>2 DEF Whole
  <1> QED
    BY <1>5, <1>6 DEF Whole, new

-----------------------------------------------------------------------------
(* The steps of the measurement. *)

(* Nothing is measured: the sample is empty, and nothing new goes out. *)
LEMMA SkipKeeps ==
  ASSUME IInv, step' \in {"sleep", "resetting"}, booting' => step' = "sleep",
         sample' = Empty \/ UNCHANGED sample, UNCHANGED <<cycle, wire, received>>
  PROVE  TakeTypes' /\ SampleTypes' /\ PacketTypes' /\ Samples' /\ Packets'
  <1> USE DEF IInv
  <1>1. TakeTypes'
    BY DEF TakeTypes
  <1>2. SampleTypes'
    BY NothingRead DEF SampleTypes
  <1>3. PacketTypes'
    BY DEF PacketTypes
  <1>4. Samples'
    BY DEF Samples, Reading, Sending
  <1>5. Packets'
    BY DEF Packets, Reading, Sending
  <1> QED
    BY <1>1, <1>2, <1>3, <1>4, <1>5

(* A step on the way from the sensors to the broker. *)
LEMMA OnwardKeeps ==
  ASSUME IInv, ~ booting', UNCHANGED kept,
         \/ step = "format" /\ step' = "connect"
         \/ step = "connect" /\ step' = "mqtt_connect"
         \/ step = "mqtt_connect" /\ step' = "publish"
         \/ step = "poll" /\ step' = "disconnect"
         \/ step = "disconnect" /\ step' = "cleanup"
  PROVE  TakeTypes' /\ SampleTypes' /\ PacketTypes' /\ Samples' /\ Packets'
  <1> USE DEF IInv, kept
  <1>1. TakeTypes'
    BY DEF TakeTypes
  <1>2. SampleTypes'
    BY DEF SampleTypes
  <1>3. PacketTypes'
    BY DEF PacketTypes
  <1>4. Samples'
    BY DEF Samples, Reading, Sending, ReadBefore, Sensor
  <1>5. Packets'
    BY DEF Packets, Reading, Sending, UnderWay
  <1> QED
    BY <1>1, <1>2, <1>3, <1>4, <1>5

(* A message that goes out is the first of its measurement, and whole. *)
LEMMA SendKeeps ==
  ASSUME IInv, step = "publish", step' \in {"poll", "sleep"}, ~ booting', Send,
         sample' = Empty \/ UNCHANGED sample, UNCHANGED <<cycle, received>>
  PROVE  TakeTypes' /\ SampleTypes' /\ PacketTypes' /\ Samples' /\ Packets'
  <1> DEFINE new == Packet(NextCopy)
  <1>1. wire' = wire \cup {new} /\ new.cycle = cycle /\ new.sample = sample
    BY DEF Send, Packet
  <1>2. /\ \A m \in wire : m.cycle # cycle
        /\ received[cycle] = 0
    BY DEF IInv, Packets, Reading, Sending, UnderWay
  <1>3. Whole(new.sample, new.cycle, Installed)
    <2>1. Whole(sample, cycle, Sensor \cap Installed)
      BY DEF IInv, Samples, Sending, ReadBefore
    <2>2. Sensor \cap Installed = Installed
      BY ConstantTypes
    <2> QED
      BY <1>1, <2>1, <2>2
  <1> HIDE DEF new
  <1>4. TakeTypes'
    BY DEF TakeTypes
  <1>5. SampleTypes'
    BY NothingRead DEF IInv, SampleTypes
  <1>6. PacketTypes'
    BY <1>1 DEF IInv, PacketTypes
  <1>7. Samples'
    BY <1>1, <1>3 DEF IInv, Samples, Reading, Sending
  <1>8. Packets'
    BY <1>1, <1>2 DEF IInv, Packets, Reading, Sending
  <1> QED
    BY <1>4, <1>5, <1>6, <1>7, <1>8

(* A message that arrives, or is lost, is no longer under way. *)
LEMMA WayKeeps ==
  ASSUME IInv, NEW m \in wire, wire' = wire \ {m}, UNCHANGED <<step, sample, cycle, booting>>,
         \/ received' = [received EXCEPT ![m.cycle] = IF @ < 2 THEN @ + 1 ELSE 2]
         \/ UNCHANGED received
  PROVE  TakeTypes' /\ SampleTypes' /\ PacketTypes' /\ Samples' /\ Packets'
  <1> USE DEF IInv
  <1>1. m.cycle \in Cycle /\ received \in [Cycle -> 0..2] /\ received[m.cycle] = 0
    BY DEF PacketTypes, Packets
  <1>2. /\ received' \in [Cycle -> 0..2] /\ received'[m.cycle] \in 0..1
        /\ \A c \in Cycle \ {m.cycle} : received'[c] = received[c]
    BY <1>1
  <1>3. TakeTypes'
    BY DEF TakeTypes
  <1>4. SampleTypes'
    BY DEF SampleTypes
  <1>5. PacketTypes'
    BY <1>2 DEF PacketTypes
  <1>6. Samples'
    BY DEF Samples
  <1>7. Packets'
    <2>1. \A n \in wire' : n \in wire /\ n.cycle \in Cycle \ {m.cycle}
      BY DEF Packets, PacketTypes
    <2>2. \A n \in wire' : received'[n.cycle] = 0
      BY <1>2, <2>1 DEF Packets
    <2>3. step' \in Reading \cup Sending => received'[cycle'] = 0 /\ ~ UnderWay'
      <3> SUFFICES ASSUME step \in Reading \cup Sending
                   PROVE  received'[cycle] = 0 /\ ~ UnderWay'
        OBVIOUS
      <3>1. received[cycle] = 0 /\ (\A n \in wire : n.cycle # cycle) /\ cycle \in Cycle
        BY DEF Packets, PacketTypes, UnderWay
      <3> QED
        BY <1>2, <2>1, <3>1 DEF UnderWay
    <2>4. \A c \in Cycle : received'[c] <= 1
      BY <1>2 DEF Packets
    <2>5. \A x, y \in wire' : x.cycle = y.cycle => x = y
      BY <2>1 DEF Packets
    <2> QED
      BY <2>2, <2>3, <2>4, <2>5 DEF Packets
  <1> QED
    BY <1>3, <1>4, <1>5, <1>6, <1>7

(* A sensor that is read adds what it supplies. *)
LEMMA MeasureKeeps ==
  ASSUME IInv, NEW s \in Sensor, NEW next, MeasureSensor(s, next),
         <<s, next>> \in {<<"bme280", "scd30">>, <<"scd30", "sds011">>, <<"sds011", "format">>}
  PROVE  TakeTypes' /\ SampleTypes' /\ PacketTypes' /\ Samples' /\ Packets'
  <1>1. step = s /\ ~ booting /\ UNCHANGED <<booting, cycle, wire, received>>
    <2>1. step = s /\ UNCHANGED <<booting, cycle, wire, received>>
      BY Zenon DEF MeasureSensor, calm, main
    <2> QED
      BY <2>1 DEF IInv, TakeTypes, Sensor
  <1>2. CASE Skip
    BY <1>1, <1>2, SkipKeeps DEF Skip
  <1>3. CASE /\ step' = next
             /\ \/ s \notin Installed /\ UNCHANGED sample
                \/ s \in Installed /\ sample' = Added(s)
    <2>1. TakeTypes'
      BY <1>1, <1>3 DEF TakeTypes, Sensor
    <2>2. PacketTypes'
      BY <1>1 DEF IInv, PacketTypes
    <2>3. Packets'
      BY <1>1, <1>3 DEF IInv, Packets, Reading, Sending, UnderWay
    <2> DEFINE S == ReadBefore(s) \cap Installed
               T == ReadBefore(next) \cap Installed
    <2>4. /\ T = IF s \in Installed THEN S \cup {s} ELSE S
          /\ S \in SUBSET Sensor
          /\ "scd30" \in S => s = "sds011"
      BY DEF ReadBefore, Sensor
    <2>5. Whole(sample, cycle, S)
      BY <1>1 DEF IInv, Samples, Reading, Sensor
    <2>6. Whole(sample', cycle, T)
      <3> HIDE DEF S, T
      <3> QED
        BY <1>3, <2>4, <2>5, AddedToo
    <2>7. Samples'
      BY <1>1, <1>3, <2>6 DEF IInv, Samples
    <2>8. SampleTypes'
      <3>1. CASE UNCHANGED sample
        BY <3>1 DEF IInv, SampleTypes
      <3>2. CASE sample' = Added(s)
        BY <3>2 DEF IInv, SampleTypes, PacketTypes, Added, Supplies, Key,
           Bme280Keys, Scd30Keys, Sds011Keys, Value, Sensor
      <3> QED
        BY <1>3, <3>1, <3>2
    <2> QED
      BY <2>1, <2>2, <2>3, <2>7, <2>8
  <1>4. \/ s \notin Installed /\ step' = next /\ UNCHANGED sample
        \/ s \in Installed /\ step' = next /\ sample' = Added(s)
        \/ Skip
    BY Zenon DEF MeasureSensor
  <1> QED
    BY <1>2, <1>3, <1>4

(* A measurement begins with nothing of its own under way. *)
LEMMA BeginKeeps ==
  ASSUME IInv, BeginTake
  PROVE  TakeTypes' /\ SampleTypes' /\ PacketTypes' /\ Samples' /\ Packets'
  <1> DEFINE next == (cycle + 1) % (MaxCycle + 1)
  <1>1. /\ step = "sleep" /\ ~ booting /\ step' = "bme280" /\ sample' = Empty
        /\ cycle' = next /\ received' = [received EXCEPT ![next] = 0]
        /\ \A m \in wire : m.cycle # next
        /\ UNCHANGED <<booting, wire>>
    BY Zenon DEF BeginTake, wifi, main
  <1>2. next \in Cycle
    BY ConstantTypes DEF IInv, PacketTypes, Cycle
  <1> HIDE DEF next
  <1>3. /\ received' \in [Cycle -> 0..2] /\ received'[next] = 0
        /\ \A c \in Cycle \ {next} : received'[c] = received[c]
    BY <1>1, <1>2 DEF IInv, PacketTypes
  <1>4. TakeTypes'
    BY <1>1 DEF TakeTypes, Sensor
  <1>5. SampleTypes'
    BY <1>1, NothingRead DEF SampleTypes
  <1>6. PacketTypes'
    BY <1>1, <1>2, <1>3 DEF IInv, PacketTypes
  <1>7. Samples'
    BY <1>1, NothingRead DEF IInv, Samples, ReadBefore
  <1>8. Packets'
    BY <1>1, <1>2, <1>3 DEF IInv, Packets, PacketTypes, UnderWay
  <1> QED
    BY <1>4, <1>5, <1>6, <1>7, <1>8

(* A step of the measurement, of a packet, or a reset. *)
LEMMA TakeKeeps ==
  ASSUME IInv, Take \/ Way \/ OtherReset
  PROVE  TakeTypes' /\ SampleTypes' /\ PacketTypes' /\ Samples' /\ Packets'
  <1> USE DEF Take, Way
  <1>1. CASE BeginTake
    BY <1>1, BeginKeeps
  <1>2. CASE \/ MeasureSensor("bme280", "scd30") \/ MeasureSensor("scd30", "sds011")
             \/ MeasureSensor("sds011", "format")
    BY <1>2, MeasureKeeps DEF Sensor
  <1>3. CASE Format \/ OpenTransport \/ MqttConnect \/ Poll \/ Disconnect \/ Cleanup
    <2>1. booting' = booting /\ UNCHANGED <<cycle, wire, received>> /\ step # "sleep"
      BY <1>3, Zenon DEF Format, OpenTransport, MqttConnect, Poll, Disconnect, Cleanup,
         calm, main, kept, wifi
    <2>2. ~ booting
      BY <2>1, Zenon DEF IInv, TakeTypes
    <2>3. \/ step' \in {"sleep", "resetting"} /\ (sample' = Empty \/ UNCHANGED sample)
          \/ /\ UNCHANGED sample
             /\ \/ step = "format" /\ step' = "connect"
                \/ step = "connect" /\ step' = "mqtt_connect"
                \/ step = "mqtt_connect" /\ step' = "publish"
                \/ step = "poll" /\ step' = "disconnect"
                \/ step = "disconnect" /\ step' = "cleanup"
      BY <1>3 DEF Format, OpenTransport, MqttConnect, Poll, Disconnect, Cleanup, Skip, kept
    <2> QED
      BY <2>1, <2>2, <2>3, SkipKeeps, OnwardKeeps DEF kept
  <1>4. CASE SoftwareReset \/ OtherReset
    BY <1>4, SkipKeeps DEF SoftwareReset, OtherReset, ResetDevice
  <1>5. CASE Publish
    <2>1. /\ step = "publish" /\ UNCHANGED <<booting, cycle, received>>
          /\ \/ Send /\ step' = "poll" /\ UNCHANGED sample
             \/ Send /\ step' = "sleep" /\ sample' = Empty
             \/ UNCHANGED wire /\ step' = "sleep" /\ sample' = Empty
      BY <1>5, Zenon DEF Publish, Skip, calm, main
    <2>2. ~ booting'
      BY <2>1 DEF IInv, TakeTypes
    <2> QED
      BY <2>1, <2>2, SendKeeps, SkipKeeps
  <1>6. ASSUME NEW m \in wire, Deliver(m) \/ LosePacket(m)
        PROVE  TakeTypes' /\ SampleTypes' /\ PacketTypes' /\ Samples' /\ Packets'
    BY <1>6, WayKeeps DEF Deliver, LosePacket, wifi, calm, main
  <1> QED
    BY <1>1, <1>2, <1>3, <1>4, <1>5, <1>6

(* Parts of an unchanged network are unchanged. *)
LEMMA CalmWifi == UNCHANGED wifi => UNCHANGED calm /\ UNCHANGED faults
  <1> SUFFICES ASSUME UNCHANGED wifi PROVE UNCHANGED calm /\ UNCHANGED faults
    OBVIOUS
  <1>1. UNCHANGED <<network, task, waited, booting, boot_time, setbacks, faults>>
    BY DEF wifi
  <1> QED
    BY <1>1 DEF calm, main

(* What such a step does to the network. *)
LEMMA TakeAndWifi ==
  ASSUME IInv, Take \/ Way \/ OtherReset
  PROVE  /\ (UNCHANGED faults) \/ Fault
         /\ (UNCHANGED calm) \/ Reboot
  <1> USE DEF Take, Way
  <1>1. CASE BeginTake \/ Disconnect \/ Cleanup \/ \E m \in wire : Deliver(m)
    <2>1. UNCHANGED wifi
      BY <1>1, Zenon DEF BeginTake, Disconnect, Cleanup, Deliver
    <2> QED
      BY <2>1, CalmWifi
  <1>2. CASE \/ MeasureSensor("bme280", "scd30") \/ MeasureSensor("scd30", "sds011")
             \/ MeasureSensor("sds011", "format") \/ Format \/ OpenTransport
             \/ MqttConnect \/ Publish \/ Poll
    BY <1>2, Zenon DEF MeasureSensor, Format, OpenTransport, MqttConnect, Publish, Poll, Failure
  <1>3. CASE SoftwareReset \/ OtherReset
    BY <1>3, Zenon DEF SoftwareReset, OtherReset, ResetDevice
  <1>4. CASE \E m \in wire : LosePacket(m)
    BY <1>4, Zenon DEF LosePacket
  <1> QED
    BY <1>1, <1>2, <1>3, <1>4, Zenon

(* A reset begins a boot. *)
LEMMA RebootBegins ==
  ASSUME WifiTypeOK, Reboot
  PROVE  Joining' /\ OnTime'
  <1>1. /\ booting' = TRUE /\ radio' = "stopped" /\ task' = "look" /\ boot_time' = 0 /\ setbacks' = 0
        /\ ap' = ap
    BY DEF Reboot
  <1>2. away' = ~ ap' /\ ap' \in BOOLEAN
    BY Zenon DEF Reboot, WifiTypeOK
  <1> QED
    BY <1>1, <1>2, BootBegins

(* Every step preserves the invariant. *)
LEMMA NextInv == IInv /\ [Next]_vars => IInv'
  <1> SUFFICES ASSUME IInv, [Next]_vars PROVE IInv'
    OBVIOUS
  <1>1. CASE Take \/ Way \/ OtherReset
    <2>1. WifiTypeOK' /\ Joining' /\ OnTime'
      <3>1. CASE UNCHANGED calm
        BY <1>1, <3>1, TakeAndWifi, FailureKeeps, OtherKeeps, Zenon DEF IInv
      <3>2. CASE Reboot
        BY <1>1, <3>2, TakeAndWifi, RebootKeeps, RebootBegins, Zenon DEF IInv
      <3> QED
        BY <1>1, <3>1, <3>2, TakeAndWifi
    <2> QED
      BY <1>1, <2>1, TakeKeeps, Zenon DEF IInv
  <1>2. CASE Beside(WifiNext)
    <2>1. WifiNext /\ UNCHANGED take
      BY <1>2, Zenon DEF Beside
    <2>2. WifiTypeOK'
      BY <2>1, WifiTypes DEF IInv
    <2>3. Joining' /\ OnTime'
      BY <2>1, <2>2, JoiningKeeps, OnTimeKeeps, Zenon DEF IInv
    <2>4. UNCHANGED <<step, sample, cycle, wire, received>>
      BY <2>1 DEF take
    <2>5. SampleTypes' /\ PacketTypes' /\ Samples' /\ Packets'
      BY <2>4 DEF IInv, SampleTypes, PacketTypes, Samples, Packets, UnderWay
    <2>6. TakeTypes'
      <3>1. booting' => booting
        BY <2>1, Zenon DEF WifiNext, Task, Radio, Boot, Look, Arm, Disconnected, EndDelay, Start,
           Connecting, Join, JoinFails, Lose, Lease, BootDone, BootTimeout, Tick, ApChanges, main
      <3> QED
        BY <2>4, <3>1 DEF IInv, TakeTypes
    <2> QED
      BY <2>2, <2>3, <2>5, <2>6 DEF IInv
  <1>3. CASE UNCHANGED vars
    <2>1. UNCHANGED take /\ UNCHANGED calm /\ UNCHANGED faults
      BY <1>3, CalmWifi DEF vars
    <2>2. UNCHANGED <<step, sample, cycle, wire, received, booting>>
      BY <2>1 DEF take, calm, main
    <2>3. SampleTypes' /\ PacketTypes' /\ Samples' /\ Packets' /\ TakeTypes'
      BY <2>2 DEF IInv, SampleTypes, PacketTypes, Samples, Packets, UnderWay, TakeTypes
    <2>4. WifiTypeOK' /\ Joining' /\ OnTime'
      BY <2>1, FailureKeeps, OtherKeeps, Zenon DEF IInv
    <2> QED
      BY <2>3, <2>4 DEF IInv
  <1> QED
    BY <1>1, <1>2, <1>3, Zenon DEF Next

(* The invariant holds when the device is first powered. *)
LEMMA InitInv == Init => IInv
  <1> SUFFICES ASSUME Init PROVE IInv
    OBVIOUS
  <1>1. WifiTypeOK
    <2>1. Flags
      BY Zenon DEF Init, WifiInit, Flags
    <2>2. Counts /\ States
      BY ConstantTypes DEF Init, WifiInit, Counts, States
    <2> QED
      BY <2>1, <2>2, Zenon DEF WifiTypeOK, Counts, Flags, States
  <1>2. Joining
    <2>1. Reach => ap
      BY Zenon DEF Init, WifiInit, Reach
    <2> QED
      BY <2>1 DEF Init, WifiInit, Joining
  <1>3. OnTime
    <2>1. Spent(0) = 0
      BY SpentMore
    <2>2. boot_time <= Spent(setbacks)
      BY <2>1 DEF Init, WifiInit
    <2> QED
      BY <2>2 DEF Init, WifiInit, OnTime, LinkUp
  <1>4. TakeTypes /\ Samples
    BY DEF Init, TakeTypes, Samples, Reading, Sending
  <1>5. SampleTypes
    BY NothingRead DEF Init, SampleTypes
  <1>6. PacketTypes /\ Packets
    BY ConstantTypes DEF Init, PacketTypes, Packets, Cycle, Reading, Sending
  <1> QED
    BY <1>1, <1>2, <1>3, <1>4, <1>5, <1>6 DEF IInv

(* The invariant holds always. *)
LEMMA SpecInv == Spec => []IInv
  BY InitInv, NextInv, PTL DEF Spec

-----------------------------------------------------------------------------
(* The types are right, whatever the network and the sensors do. *)
THEOREM TypeCorrect == Spec => []TypeOK
  <1>1. IInv => TypeOK
    BY Zenon DEF IInv, TypeOK, TakeTypes, SampleTypes, PacketTypes
  <1> QED
    BY <1>1, SpecInv, PTL

(* A message has a value of its own cycle for every key of every sensor    *)
(* that is installed, and nothing else (Sensors::measure).                 *)
THEOREM SamplesComplete == Spec => []CompleteSample
  <1>1. IInv => CompleteSample
    BY Zenon DEF IInv, Samples, Whole, CompleteSample
  <1> QED
    BY <1>1, SpecInv, PTL

(* No measurement reaches the broker twice (Measurement::take).            *)
THEOREM NoneTwice == Spec => []AtMostOnce
  <1>1. IInv => AtMostOnce
    BY Zenon DEF IInv, Packets, AtMostOnce
  <1> QED
    BY <1>1, SpecInv, PTL

(* While the access point stays, a boot that is timed out has had more     *)
(* failures than it has time for (Wifi::connect and `connection`).         *)
THEOREM BootsInTime == Spec => []BootInTime
  <1>1. IInv => BootInTime
    BY InTime, Zenon DEF IInv
  <1> QED
    BY <1>1, SpecInv, PTL

-----------------------------------------------------------------------------
(* The task arms its wait only on a radio that has joined, and nobody else *)
(* makes the radio join again.                                             *)
Waiting == task \in {"arm", "waiting"} => radio \in {"connected", "started"}

(* Every step of the network keeps it so.                                  *)
LEMMA WaitingKeeps ==
  ASSUME Waiting, WifiNext
  PROVE  Waiting'
  <1>1. CASE Task
    BY <1>1 DEF Waiting, Task, Look, Arm, Disconnected, EndDelay, Start, Connecting, TaskTo,
       LinkUp, network
  <1>2. CASE Radio \/ Boot \/ Tick \/ ApChanges
    BY <1>2 DEF Waiting, Radio, Boot, Join, JoinFails, Lose, Lease, RadioTo, BootDone,
       BootTimeout, Reboot, Tick, ApChanges
  <1> QED
    BY <1>1, <1>2 DEF WifiNext

(* A stranded task notices nothing that the network does.                  *)
LEMMA StrandedKeeps ==
  ASSUME Waiting, Stranded, WifiNext
  PROVE  Stranded' \/ Reboot
  <1>1. task \in {"arm", "waiting"} /\ radio = "started" /\ ~ event
    BY DEF Waiting, Stranded, LinkUp
  <1>2. CASE Task
    <2>1. CASE Arm
      BY <1>1, <2>1 DEF Arm, TaskTo, Stranded, LinkUp
    <2> QED
      BY <1>1, <1>2, <2>1 DEF Task, Look, Disconnected, EndDelay, Start, Connecting
  <1>3. CASE Radio
    BY <1>1, <1>3 DEF Radio, Join, JoinFails, Lose, Lease, LinkUp
  <1>4. CASE Boot \/ Tick \/ ApChanges
    BY <1>1, <1>4 DEF Boot, BootDone, BootTimeout, Tick, ApChanges, Ready, Stranded, LinkUp
  <1> QED
    BY <1>2, <1>3, <1>4 DEF WifiNext

(* Without a network every step of main_task leads to the reset, or is one *)
(* more failure.                                                           *)
LEMMA OfflineNears ==
  ASSUME WifiTypeOK, ~ LinkUp, Take
  PROVE  Reboot \/ ToReset' < ToReset \/ faults < faults'
  <1>1. faults \in Nat
    BY ConstantTypes DEF WifiTypeOK
  <1>2. Fault => faults < faults'
    BY <1>1 DEF Fault
  <1>3. ~ Online
    BY DEF Online, Ready
  <1>4. CASE SoftwareReset
    BY <1>4 DEF SoftwareReset, ResetDevice
  <1>5. CASE BeginTake \/ Disconnect \/ Cleanup \/ Poll
    BY <1>5 DEF BeginTake, Disconnect, Cleanup, Poll, Skip, ToReset
  <1>6. CASE \/ MeasureSensor("bme280", "scd30") \/ MeasureSensor("scd30", "sds011")
             \/ MeasureSensor("sds011", "format") \/ Format
    BY <1>2, <1>6 DEF MeasureSensor, Format, ToReset
  <1>7. CASE OpenTransport \/ MqttConnect \/ Publish
    BY <1>3, <1>7 DEF OpenTransport, MqttConnect, Publish, Skip, ToReset
  <1> QED
    BY <1>4, <1>5, <1>6, <1>7 DEF Take

(* A missed disconnection ends with a reset, and main_task is on its way   *)
(* there at every step, whatever the delays and the network (`connection`, *)
(* main_task).                                                             *)
THEOREM ResetRecovers == Spec => OnlyResetRecovers
  <1>1. Init => Waiting
    BY DEF Init, WifiInit, Waiting
  <1>2. IInv /\ Waiting /\ [Next]_vars => Waiting'
    <2> SUFFICES ASSUME IInv, Waiting, [Next]_vars PROVE Waiting'
      OBVIOUS
    <2>1. CASE Take \/ Way \/ OtherReset
      <3>1. CASE UNCHANGED calm
        BY <3>1 DEF calm, network, Waiting
      <3>2. CASE Reboot
        BY <3>2 DEF Reboot, Waiting
      <3> QED
        BY <2>1, <3>1, <3>2, TakeAndWifi
    <2>2. CASE Beside(WifiNext)
      BY <2>2, WaitingKeeps, Zenon DEF Beside
    <2>3. CASE UNCHANGED vars
      BY <2>3, CalmWifi DEF vars, calm, network, Waiting
    <2> QED
      BY <2>1, <2>2, <2>3, Zenon DEF Next
  <1>3. IInv /\ Waiting /\ Next /\ Stranded =>
          \/ radio' = "stopped" /\ booting'
          \/ Stranded' /\ (step' = step \/ ToReset' < ToReset \/ faults < faults')
    <2> SUFFICES ASSUME IInv, Waiting, Next, Stranded, ~ Reboot
                 PROVE  Stranded' /\ (step' = step \/ ToReset' < ToReset \/ faults < faults')
      BY Zenon DEF Reboot
    <2>1. WifiTypeOK /\ ~ LinkUp
      BY Zenon DEF IInv, Stranded
    <2>2. CASE Take \/ Way \/ OtherReset
      <3>1. Stranded'
        <4>1. UNCHANGED calm
          BY <2>2, TakeAndWifi
        <4> QED
          BY <4>1 DEF calm, network, Stranded, LinkUp
      <3>2. CASE Take
        BY <2>1, <3>1, <3>2, OfflineNears, Zenon
      <3>3. CASE Way
        BY <3>1, <3>3, Zenon DEF Way, Deliver, LosePacket
      <3>4. CASE OtherReset
        BY <3>4, Zenon DEF OtherReset, ResetDevice
      <3> QED
        BY <2>2, <3>2, <3>3, <3>4
    <2>3. CASE Beside(WifiNext)
      <3>1. WifiNext /\ step' = step
        BY <2>3, Zenon DEF Beside, take
      <3> QED
        BY <3>1, StrandedKeeps
    <2> QED
      BY <2>2, <2>3, Zenon DEF Next
  <1> QED
    BY <1>1, <1>2, <1>3, SpecInv, PTL DEF Spec, OnlyResetRecovers
=============================================================================
