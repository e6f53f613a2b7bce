-------------------------------- MODULE Wifi --------------------------------
(***************************************************************************)
(* How the device gets and keeps a network (src/src/wifi.rs): the task     *)
(* `connection`, which joins the access point again whenever it is lost,   *)
(* and Wifi::connect, in which main waits for the first address or resets  *)
(* the device.  The radio runs beside the executor and may change between  *)
(* any two steps of a task, also where the task does not await.            *)
(*                                                                         *)
(* The radio, the access point and the stack are external, modelled as     *)
(* wifi.rs uses them.  A second stands for any unit of time that divides   *)
(* the delays.                                                             *)
(***************************************************************************)
EXTENDS Integers

CONSTANTS
  ConnectTimeout,  \* WIFI_CONNECT_TIMEOUT_SECS
  ReconnectDelay,  \* WIFI_RECONNECT_DELAY_MS
  InitialTimeout,  \* WIFI_INITIAL_CONNECT_TIMEOUT_SECS
  JoinLimit,       \* seconds in which the radio joins an access point in reach
  LeaseLimit,      \* seconds in which DHCP gives an address
  MaxFaults        \* bound on failures while the access point is in reach

ASSUME WifiAssumption ==
  /\ {ReconnectDelay, JoinLimit, LeaseLimit, MaxFaults} \subseteq Nat
  /\ {ConnectTimeout, InitialTimeout} \subseteq Nat \ {0}

VARIABLES
  ap,         \* whether the access point is in reach
  radio,      \* sta_state
  since,      \* seconds the radio has been in that state, the access point in reach
  lease,      \* whether the stack has an address
  task,       \* what the task `connection` is at
  waited,     \* seconds it has been there
  event,      \* StaDisconnected was raised since the task waits for it
  booting,    \* main is in Wifi::connect
  boot_time,  \* seconds since the boot
  away,       \* the access point was out of reach during the boot
  setbacks,   \* failures during the boot
  faults

network == <<ap, radio, since, lease, event, away>>
wifi == <<network, task, waited, booting, boot_time, setbacks, faults>>

WifiTypeOK ==
  /\ ap \in BOOLEAN /\ lease \in BOOLEAN /\ event \in BOOLEAN
  /\ booting \in BOOLEAN /\ away \in BOOLEAN
  /\ radio \in {"stopped", "started", "joining", "connected"}
  /\ task \in {"look", "arm", "waiting", "pause", "start", "connecting", "back_off"}
  /\ since \in Nat /\ waited \in Nat
  /\ boot_time \in 0..InitialTimeout
  /\ faults \in 0..MaxFaults /\ setbacks \in 0..faults

(* What is_link_up and config_v4 tell, and whether traffic gets through. *)
LinkUp == radio = "connected"
Ready == LinkUp /\ lease
Online == Ready /\ ap

-----------------------------------------------------------------------------
WifiInit ==
  /\ ap \in BOOLEAN /\ away = ~ ap
  /\ radio = "stopped" /\ since = 0 /\ lease = FALSE /\ event = FALSE
  /\ task = "look" /\ waited = 0
  /\ booting = TRUE /\ boot_time = 0
  /\ setbacks = 0 /\ faults = 0

(* A reset of the device: the radio and the tasks start over. *)
Reboot ==
  /\ away' = ~ ap
  /\ radio' = "stopped" /\ since' = 0 /\ lease' = FALSE /\ event' = FALSE
  /\ task' = "look" /\ waited' = 0
  /\ booting' = TRUE /\ boot_time' = 0
  /\ setbacks' = 0
  /\ UNCHANGED ap

Fault == faults < MaxFaults /\ faults' = faults + 1
Setback == Fault /\ setbacks' = IF booting THEN setbacks + 1 ELSE 0

-----------------------------------------------------------------------------
(* The access point and the radio. *)

main == <<booting, boot_time>>

ApChanges ==
  /\ ap' = ~ ap /\ away' = booting
  /\ since' = 0
  /\ UNCHANGED <<radio, lease, event, task, waited, main, setbacks, faults>>

RadioTo(state) == radio' = state /\ since' = 0

Join ==
  /\ radio = "joining" /\ ap
  /\ RadioTo("connected")
  /\ UNCHANGED <<ap, lease, event, away, task, waited, main, setbacks, faults>>

JoinFails ==
  /\ radio = "joining"
  /\ IF ap THEN Setback ELSE UNCHANGED <<setbacks, faults>>
  /\ RadioTo("started")
  /\ UNCHANGED <<ap, lease, event, away, task, waited, main>>

(* The event is seen by a task that waits for it already. *)
Lose ==
  /\ radio = "connected"
  /\ IF ap THEN Setback ELSE UNCHANGED <<setbacks, faults>>
  /\ RadioTo("started") /\ lease' = FALSE
  /\ event' = (task = "waiting")
  /\ UNCHANGED <<ap, away, task, waited, main>>

(* DHCP. *)
Lease ==
  /\ LinkUp /\ ap /\ ~ lease
  /\ lease' = TRUE
  /\ UNCHANGED <<ap, radio, since, event, away, task, waited, main, setbacks, faults>>

-----------------------------------------------------------------------------
(* The task `connection`. *)

TaskTo(state) == task' = state /\ waited' = 0

(* Mutant: the delay is not only for a connection that was lost. *)
LookPausing ==
  /\ task = "look"
  /\ TaskTo(IF LinkUp THEN "arm" ELSE "pause")
  /\ UNCHANGED <<network, main, setbacks, faults>>

Look ==
  /\ task = "look"
  /\ TaskTo(IF LinkUp THEN "arm" ELSE "start")
  /\ UNCHANGED <<network, main, setbacks, faults>>

(* wait_for_event: what was raised before does not count. *)
Arm ==
  /\ task = "arm"
  /\ TaskTo("waiting")
  /\ event' = FALSE
  /\ UNCHANGED <<ap, radio, since, lease, away, main, setbacks, faults>>

Disconnected ==
  /\ task = "waiting" /\ event
  /\ TaskTo("pause")
  /\ UNCHANGED <<network, main, setbacks, faults>>

(* The delays; the one after a disconnection goes on, the others repeat    *)
(* the loop.                                                               *)
EndDelay ==
  /\ task \in {"pause", "back_off"} /\ waited = ReconnectDelay
  /\ TaskTo(IF task = "pause" THEN "start" ELSE "look")
  /\ UNCHANGED <<network, main, setbacks, faults>>

(* A radio that is not started is configured and started, which may fail;  *)
(* then connect_async makes it join, unless it has joined meanwhile: an    *)
(* attempt that timed out goes on in the radio.                            *)
Start ==
  /\ task = "start"
  /\ \/ /\ TaskTo("connecting")
        /\ IF LinkUp THEN UNCHANGED <<radio, since>> ELSE RadioTo("joining")
        /\ UNCHANGED <<setbacks, faults>>
     \/ /\ radio = "stopped" /\ Setback
        /\ TaskTo("back_off") /\ UNCHANGED <<radio, since>>
  /\ UNCHANGED <<ap, lease, event, away, main>>

(* connect_async answers, or it times out and the radio goes on. *)
Connecting ==
  /\ task = "connecting"
  /\ \/ radio = "connected" /\ TaskTo("look")
     \/ radio = "started" /\ TaskTo("back_off")
     \/ radio = "joining" /\ waited = ConnectTimeout /\ TaskTo("back_off")
  /\ UNCHANGED <<network, main, setbacks, faults>>

-----------------------------------------------------------------------------
(* main in Wifi::connect, which looks twice a second. *)

BootDone ==
  /\ booting /\ Ready
  /\ booting' = FALSE /\ boot_time' = 0
  /\ away' = FALSE /\ setbacks' = 0
  /\ UNCHANGED <<ap, radio, since, lease, event, task, waited, faults>>

BootTimeout ==
  /\ booting /\ boot_time = InitialTimeout
  /\ Reboot
  /\ UNCHANGED faults

-----------------------------------------------------------------------------
(* A second passes: tasks that can run have run, and nothing takes longer  *)
(* than its limit.                                                         *)
Tick ==
  /\ task \notin {"look", "arm", "start"} /\ ~ (task = "waiting" /\ event)
  /\ ~ (booting /\ Ready)
  /\ task \in {"pause", "back_off"} => waited < ReconnectDelay
  /\ task = "connecting" => waited < ConnectTimeout /\ radio = "joining"
  /\ radio = "joining" /\ ap => since < JoinLimit
  /\ LinkUp /\ ap /\ ~ lease => since < LeaseLimit
  /\ booting => boot_time < InitialTimeout
  /\ waited' = IF task = "waiting" THEN 0 ELSE waited + 1
  /\ since' = IF ap /\ ~ Ready /\ radio \in {"joining", "connected"} THEN since + 1 ELSE 0
  /\ boot_time' = IF booting THEN boot_time + 1 ELSE 0
  /\ UNCHANGED <<ap, radio, lease, event, away, task, booting, setbacks, faults>>

Task == Look \/ Arm \/ Disconnected \/ EndDelay \/ Start \/ Connecting
Radio == Join \/ JoinFails \/ Lose \/ Lease
Boot == BootDone \/ BootTimeout

WifiNext == Task \/ Radio \/ Boot \/ Tick \/ ApChanges

-----------------------------------------------------------------------------
(* The task waits for a disconnection that has already happened. *)
Stranded == task \in {"arm", "waiting"} /\ ~ LinkUp /\ ~ event

(* What n failures cost at most: each the time to join and to get an       *)
(* address that was spent in vain, and the delay.                          *)
BootBudget(n) ==
  n * (JoinLimit + LeaseLimit + ReconnectDelay) + JoinLimit + LeaseLimit

(* While the access point stays in reach, and can be joined before an      *)
(* attempt times out, a boot is not timed out as long as its failures      *)
(* leave the time to try again: 20 seconds are more than the delay of one  *)
(* failed attempt and the second one.  Only the disconnection that the     *)
(* task does not see is excepted.                                          *)
BootInTime ==
  JoinLimit < ConnectTimeout /\ booting /\ boot_time = InitialTimeout /\ ~ Ready
    => away \/ Stranded \/ BootBudget(setbacks) >= InitialTimeout
=============================================================================
