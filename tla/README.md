# Verification of esp32-home-sensor

TLA+ models of the firmware of an ESP32 sensor node (`src/`), the runs that
model-check them with TLC, and proofs about them checked by TLAPS. The firmware
measures, publishes over MQTT and TLS, and replaces itself over the air; nobody
is near the device when that goes wrong. The models are about what a bench test
hardly reaches: power lost between two flash operations, a server that changes
between two requests, reads of any length, a watchdog that runs out on the
longest path of a loop.

## The system

```
              +-------------------- device -----------------------+
 OTA server <-|- Transport <- Ota::check  <- main_task -> feeds ->| watchdog
              |                 |              |                  |
              |           flash slots     Measurement::take       |
              |                 |            |        |           |
              |            bootloader     Sensors   Transport ----|-> MQTT broker
              |            WiFi connection task, network task     |
              +---------------------------------------------------+
```

Everything runs on one embassy executor: a task runs until it awaits, so that
interleavings only happen at awaits, with the network, the radio, the server,
the clock and power as the other actors. Socket and TLS buffers are shared by
the update and the measurement behind mutexes, which `main_task` never holds at
the same time.

| Component | State | Operations | Talks to | Hard because | Correct when |
|---|---|---|---|---|---|
| OTA update, `ota.rs` | session, version reply, size, bytes erased and written, write buffer; otadata and the other slot in flash | `Ota::new`, `Ota::check` (about 20 steps) | server by HTTP over Transport, flash, bootloader through otadata, main loop by its result | crashes between flash operations, partial reads, alignment, a server that changes, many error paths | the running image survives, the device always boots, what is activated is what was sent, only newer images run, updates arrive |
| Version order, `semver.rs` | none | `parse`, `is_greater_than` | decides for `ota.rs` | nested comparisons with options | a strict total order, the documented one |
| Main loop, `main.rs`, `constants.rs` | update counter, watchdog, sleep | boot, check, measure, sleep, reset | all others | one watchdog for everything; error classes decide between reset and next cycle | fed in time, never stops measuring |
| Slots and bootloader, `partitions.csv` | two slots, otadata | boot, fallback, rollback | `ota.rs` | a fallback makes the running slot another than the selected one | see OTA update |
| Transport, `transport.rs` | socket, TLS session, retries | `new`, `read`, `read_exact`, `write`, `flush`, `write_all`, `close` | OTA, MQTT | retries of what may have been done, errors that mean end of stream | all bytes once and in order, or an error |
| Certificate cache, `transport.rs` | decoded certificates | `get_or_init_cached_certs` | Transport | failing after a first part | initialised at most once |
| Measurement and MQTT, `measurement.rs`, `mqtt.rs` | message, session | `take`, `send_message`, `disconnect` | sensors, Transport, broker | lost acknowledgement, error paths that drop a session | what counts as published was sent |
| WiFi, `wifi.rs` | radio state and events | `connect`, `connection` task | radio, all network users | state read before its event is awaited | the device reconnects |
| Sensors, `sensors/` | sensor handles, sample | `new`, `measure` | I2C, UART | retries, reads without a timeout | a sample has every sensor's values or there is none |
| Configuration, `config.rs`, `build.rs` | constants | generated | all | optional values | accepted configurations run |
| Infrastructure, `infra/` | files, database users | `telegraf-init.sh` | broker, database | stops half-way | can be run again |

Every component with its status is in `PROJECT.json`, and so is every hazard,
at the line where it bites, with the properties that cover it or the reason why
none does.

## The modules

**SemVer** translates `semver.rs`. A version text is what the parser can tell
apart: its numbers or junk, and the stem and the rest of the pre-release.
`Parse`, `PreReleaseGreater` and `IsGreaterThan` follow the code.

**UpgradeChain** (on SemVer) keeps of an update only its decision and chains any
number of them. `Rank` and `LexGreater` give the documented order a second time,
independently, for `OrderIsDocumented`.

**DualSlot** is the abstract promise of two application slots: a live image, a
spare that an update may spoil and rewrite, and a swap in one step.

**OtaUpdate** (on SemVer) models `ota.rs` whole, with its environment. One action
is what `Ota::check` does between two awaits, `pc` names the step, and the
variables are the code's (`size`, `bytes_written`, `write_buf`, `erased`) or the
world's (`flash`, `selected` and `ota_state` for otadata, `srv`). A byte is the
pair of its release and its offset, so that a lost, repeated or displaced byte
shows. Flash can only clear bits: writing a cell that was not erased leaves it
`Torn`. Further points of correspondence:

- `Return` and `Fail` are the many `session.close().await; return Err(..)`; where
  the code leaves by `?` the session is `"dropped"`. `AfterCheck` is the match on
  the error in `main_task`.
- The version reply is five degrees of completeness (`Got`) and the size line may
  be cut: `SizeRead` has every number its digits can stand for.
- The size of the response is not that of the announced one if the server
  changed, and `Cut` ends a body early, which to the code is the end of the
  stream. `EndOfStream` stands for both arms that end the loop and for the close.
- `ReadChunk` has the whole round: append, aligned write, the rest moved to the
  front, and the remainder of the progress log, which panics for sizes under ten.
- External: the bootloader (`Boot`, `Bootable`), the flash (`Programmed`,
  `Wiped`), the server (`Publish`), modelled from how the code uses them. `Boot`
  runs the selected slot if its image is complete and the other one if not; with
  `Rollback` it also tries a New image only once. The repository does not say
  which bootloader is flashed, so both kinds are checked.
- A release may be any number of bytes, also none: the size line "0" is a number, nothing
  is erased for it, and an empty body passes the comparison of lengths. The slot is then
  activated with what it held before. No image is empty (`Holds`): what boots is an older
  one, or the other slot. `EmptyOffer` names this case, which OnlyUpgrades and
  ActivatedWhole except and MCOtaEmptyImage shows.
- `Twin` of the running slot is the slot written: `OtaUpdater::next_partition`
  goes by the partition that was booted.

**MainTask** models `main` and `main_task` in seconds: `pc` is what the firmware is
doing, `since_feed` the watchdog, `elapsed` the time in the present step. A timer
takes exactly its time, an operation any time up to its limit, and one without a
timeout around it may hang for good. `EndCheck` and `EndTransport` have the error
classes that reset and those that go on.

**ByteStream** is the abstract promise of the writing side of a connection: bytes
arrive in order, none twice or left out, and the next call is made when those
before have done what they reported. It says when the promise ends, too: after
an error, or after a success that was none (`void`).

**Transport** models `transport.rs` with the features `tls` and `mtls`. Between two
awaits lies one action, and every await is a call of the TLS session, which is
external: it takes any part of a buffer that its record has room for, or fails;
its flush may fail after a part and forget the rest or keep it; its reads may
give nothing. A byte is its position in its stream. Correspondence:

- `SessionWrite` and `AutoFlush` are the two awaits of `write`, and with `all` set of
  the `write` inside `write_all`; `AfterWrite` is what the loop of `write_all` does
  with the result, `Probe` its write of nothing.
- `attempt` is the counter of the operation under way, reset where the code resets
  it: `read_exact` starts again with every part that arrives, `write` with a success.
- A buffer that is read into is a sequence of cells (`into`), and the slice `session.read`
  gets is the end of it behind what was filled before (`Filled`): `Placed` puts a part
  there, `NextPart` moves the slice on, `HandOver` leaves the caller what was filled.
- `Flush` retries as the code does, but always finds an empty record buffer: every write
  flushes, and after a failed one no caller flushes. The retry can repeat nothing.
- A write of the session that fails has accepted nothing. embedded-tls may fail when a
  record fills in the middle of a call; no caller hands over that much.
- `config` has for each PEM field whether `cfg.toml` holds a text that decodes; `certs`
  is `CERTS_PTR`, `inits` counts the initialisations of the `StaticCell`, which panics at
  the second one; TypeOK bounds it by 1.
- `Gone` is the drop of a session, with or without `close`. After a failed write no
  caller writes on: `broken` in the guards of `BeginWrite` and `BeginFlush`.

**Wifi** models `wifi.rs`: the task `connection` with the points at which it looks
at the state, arms its wait for an event, pauses and connects, and `Wifi::connect`
in which `main` polls for an address or resets the device. The radio runs beside
the executor: it may change between the look at the state and the wait (`Arm`),
and goes on joining after an attempt was timed out. Radio, access point and DHCP
are external.

**Measurement** (on Wifi) models `Sensors::measure`, `Measurement::take` and the MQTT
client in the loop of `main_task`, which resets the device when a connection cannot
be made and skips the cycle on every other error. A value is where and when it was
measured, `wire` the packets under way, each copy of a measurement one of its own, and
`received` how often the broker got each measurement. A packet outlives the session that sent it, and the reset of the
device. `Poll` takes an error for an acknowledgement, as the code does.

Definitions whose comment begins with "Mutant" are deliberate mistakes, each used
in place of one definition to show that a property notices it.

## The runs

| Run | Checks | Shows |
|---|---|---|
| MCUpgradeChain | OrderIsDocumented, NeverRevisits, Trichotomy | the comparison is the documented order; a chain of updates never goes in a circle |
| MCOtaUpdate | TypeOK, RunningIntact, AlwaysBootable, ActivatedImage, BufferDiscipline, CheckAdvances, ImplementsDualSlot | with any three failures and a server that changes at any moment, the running image is not touched, the device boots, the activated bytes are those of one response, no step of a check leads back, and the whole implements DualSlot |
| MCOtaLimits | AlwaysBootable, ActivatedImage, BufferDiscipline, FactoryIsFloor, ActivatedWhole, OnlyUpgrades | the same at the limits: an image larger than a slot, whose length makes `erase_len` wrap, and an empty one; and with a server that keeps its answer during a check and a bootloader that rolls back, a whole version reply means a whole image, only a rollback or an empty release takes a device back, and nothing older than the factory image ever runs |
| MCOtaRollback | RunningIntact, FallbackKept | with a bootloader that rolls back, an image that is new or being tried has a complete one behind it until it had the chance to confirm itself |
| MCOtaLive | Updated, CheckEnds | every check ends; once the server settles, the device reaches its version or a newer one, also if a failed boot had the image rolled back first |
| MCMainTask | TypeOK, WatchdogOnlyOnHang, MeasurementNears, MeasuresAgain, ChecksAgain | within the budgets only a hang lets the watchdog fire, every step that is no reset brings the next measurement nearer, and the device always comes back to measuring and checking |
| MCTransport | TypeOK, WrittenInOrder, NothingLeftBehind, ReadInOrder, ImplementsByteStream, OperationAdvances, OperationsEnd | whatever part of each call a session does or fails to do, and however often it is retried: what is written stays whole and in order, what is read lies at its place in the caller's buffer, success leaves nothing behind, every await brings an operation nearer to its end |
| MCMeasurement | TypeOK, CompleteSample, AtMostOnce, BootInTime, OnlyResetRecovers, RecoversFromStranded, Delivers | what reaches the broker is one whole measurement, once; a boot has the time for the retries of its failures; a missed disconnection leads to a reset, and does not last; while the access point stays, measurements keep arriving |

and four that TLC must find violated, where the code does not do what the
repository says:

| Run | Says | Does |
|---|---|---|
| MCOtaSession | `ota.rs:103`: the session is closed on ALL code paths | a failed read at `ota.rs:173` returns without closing |
| MCOtaValidation | `ota.rs:239`: CRC32 and size for firmware validation | the CRC is parsed and dropped; an image of the same length published between the two requests is activated |
| MCOtaEmptyImage | `ota.rs:224`: only update if the remote version is strictly greater | a newer version with size 0 and an empty file erases nothing, passes 0 == 0 and activates the other slot, whose older image runs |
| MCMainLongInterval | `main.rs:266`: just skip this cycle | with an interval above 3600 s every cycle checks, and as long as the server has nothing for the device no cycle ever measures |

Other disagreements seen while modelling, for which no run is kept:

- `config.rs:26` calls the OTA host optional; `main.rs:219` unwraps the error of
  `Ota::new` without one, and the device resets for ever (`OtaConfigured`).
- `ota.rs:101` ends a check with a reboot. If marking the activated slot New fails
  (`ota.rs:457`) there is none: the old image goes on with the new slot selected, and its
  next check erases that slot. AlwaysBootable and RunningIntact hold through this.
- `docs/ota-firmware-upgrade.md:22` says a version mismatch is installed; only a
  greater version is.
- `ota.rs:72` says the boot is confirmed; a failure of it is dropped by `.ok()`,
  after which the fallback may be erased while the image is still unconfirmed.
- `ota.rs:303` says that yielding keeps the watchdog running; nothing feeds it
  during a check, so one that takes more than 60 s is reset however well it goes.
- `transport.rs:401` expects an error from a write of nothing; a session that accepts
  it lets `write_all` end with success and the rest of the buffer unsent (`short`).
  WrittenInOrder and NothingLeftBehind except it, and `void` in ByteStream names it.
- `measurement.rs:112` logs "published successfully" also when no acknowledgement
  came (`mqtt.rs:90`). The QoS of 1 is the packet's; the device gives at most once,
  which is what AtMostOnce states.
- `transport.rs:71` checks the private key and only logs what is wrong with it.
- `constants.rs:25` lists a sensor wait of 30 s, a handshake of 20 s and slow
  networks; they share one timeout of 60 s in `Measurement::take`. This and the
  watchdog of a check (`ota.rs:303`) are why WatchdogOnlyOnHang is stated under `Budgets`.

### Bounds

- Slots of 8 bytes, pages of 2, erase chunks of 4, alignment 2, buffer 4, up to 3
  bytes behind the header. An image of 5 or 6 bytes then needs several erases,
  several reads that straddle the buffer, an unaligned rest and a padded end, and
  5 is not a multiple of anything. `Radix` and `ProgressParts` are 2 instead of 10
  and `WordSize` 16 instead of 2^32, so that cut size lines, the panic of the
  progress log (size 1) and the wrap of `erase_len` (size 15) all happen.
- Releases: an old one, a release candidate, its release, one that is too large, one with
  an empty file, and one older than the factory image. Two are enough for what concerns
  bytes, three for the version logic, and the limits have all six. MCOtaEmptyImage needs
  three: the factory image, a newer one that runs, and the empty one; and no failure.
- `MaxFaults` bounds failures of network, flash and power: 3 in MCOtaUpdate, which
  has room for a failed marking, a crash in the erase that follows it and one more
  after the fallback boot; 2 or 1 where there are more releases or a liveness
  property. There is no other bound on the number of checks or of images
  published. The proofs need no bound.
- MCMainTask has the timeouts of `constants.rs`, an interval of 3 s and a check
  interval of 7 s, so that a few cycles lie between checks and the quotient
  truncates. The limits of operations are chosen just within `Budgets`. Five
  faults exhaust the retries of the SCD30.
- MCUpgradeChain has numbers up to 1 after a stem, every stem, and malformed texts.

- MCTransport has three attempts as the code (`MAX_RETRIES`), records of 2 bytes, so
  that a buffer of 3 takes two rounds and a full record takes nothing, and streams of
  4 in each direction, so that a second call follows the first. Failures have no
  bound. With fewer bytes no flush could fail between two parts.
- MCMeasurement has the delays of `constants.rs` in units of 2.5 s: 4 for an attempt,
  2 for a delay, 8 for the boot; joining and DHCP take up to one unit each. One
  failed attempt then leaves time for a second, and two do not. All three sensors are
  installed, so that two of them write the same keys. Two failures while the access
  point is there, and any number of times that it goes and comes, are enough for a
  lost connection during a packet and a reset behind it. `MaxCycle` 1 tells a
  measurement from the one before; `BeginTake` waits for older packets to leave.

The deadlock check is on everywhere but in MCUpgradeChain, where the newest
version accepts no offer.

### Fairness

`OtaUpdate!FairSpec` has weak fairness of `Device` as a whole: a device that can do
something does something. Every await of a check is on a socket with a timeout
(`transport.rs:129`), a flash operation or a timer, and `main_task` starts the next
check. No single action is assumed fair; in particular no read must succeed.
Crashes and publications are not fair, and failures are bounded. The server is
assumed to settle in `Updated`, as a premise.

`MainTask!FairSpec` has weak fairness of the program, the clock and the watchdog
together: time passes, and an operation that has reached its limit ends. It does
not assume that an operation that hangs ends. `CheckResults` are the results that
happen without limit: success and the errors that skip a cycle. Connection errors
are failures within the bound: a network that never comes back makes the device
reset for ever, by design (`main.rs:260`).

`Transport!FairSpec` has weak fairness of `Step`: every call of the session comes
back, well or not, because the socket has a timeout (`transport.rs:129`). Callers
need not call.

`Measurement!FairSpec` has weak fairness of each task of the executor (`Take`, `Task`,
`Boot`), of the clock, and of what the environment does in the end: a packet arrives
or is lost, and the radio joins and DHCP answers while the access point stays in
reach. Failures and the access point are not fair. That the access point stays
from some time on is a premise of `Delivers`; `RecoversFromStranded` has none.

## The proofs

All theorems hold for every value of the constants that satisfies the named
assumptions (`SemVerAssumption`, `OtaUpdateAssumption`, `MainTaskAssumption`,
`TransportAssumption`, `WifiAssumption`, `MeasurementAssumption`); no bound of the
runs remains, and `MaxFaults` is any number.

**SemVer_proofs.** `GreaterIrreflexive`, `GreaterTransitive` and `GreaterTotal` make
`is_greater_than` a strict total order on versions; `ParseType` says what a text
parses to. The proofs about chains and about updates both rest on them.

**UpgradeChain_proofs.** From the order, the invariant that the current version is the first one or newer gives
`ChainNeverRevisits`; `ChainTrichotomy` follows from totality. `ChainOrder` shows that
the nested comparison is the lexicographic one: a rank is six numbers (`RankEntries`),
of which the last three are the tie-break (`StabilityRank`, `LexSix`).

**OtaUpdate_proofs.** Three invariants on top of each other:

- `TypeInv` is TypeOK with what it needs to be inductive (the length of the write
  buffer, for the read that fills it). `TypeCorrect`.
- `Intact` says that the running slot holds `app`. It is inductive with TypeInv
  because every erase and write goes to `Target`, which is never the running slot
  (`RunningUntouched`), and a boot only chooses a slot that is complete.
  `RunningStaysIntact` and, since the running slot is complete also when power is
  off, `NeverBricked`.
- `Transfer` is the account of the download: before position `bytes_written` the
  target holds the bytes of the response, behind them up to the erased length it
  is erased, and the buffer has the bytes from `bytes_written` to `pos`. ActivatedImage
  alone is not inductive, because it says nothing until the last step. That the
  erase covers the image is `EraseLenCovers`: rounding up to a page does not wrap
  for a size that fits a slot. `WriteExtends` carries the account over a write and
  `ChunkParts` over a round of the loop. `ActivatedIsTransferred`.

**MainTask_proofs.** `WatchdogOnlyOnHang` is not inductive: it must be known how
much time can have passed when a step begins. `Spent(p, r)` is that bound for step
p after r retries, `InTime` says it holds, and `AtEnd` and `Begin` hand it from one
step to the next; `DelayGrows` has the little multiplication there is. TypeOK
needs one more fact, that a sleep under way is shorter than the interval
(`Counters`). `Budget` draws the conclusion. `TypeCorrect`,
`WatchdogIsAccommodated`.

**OtaSlots_proofs** (on OtaUpdate_proofs). What the slots and the buffer keep over
any number of checks and boots:

- `BufferKept`: to `Transfer` it adds `Aligned`, that a round of the loop leaves less
  than `WriteAlign` bytes and that sums of aligned lengths are aligned. What little
  number theory that takes is in `MultipleMod`, `DivMod` and `AlignedSum`.
- `FallbackStays`, assuming `Rollback`: New is only ever on the slot that was not
  booted, because a boot turns it into PendingVerify (`Marked`); the slot beside it is
  then the running one, which is complete (`Intact`). Until the image that was booted
  comes to its confirmation, nothing writes to the slot it came from (`Tried`).
- `UpdateRefines`: a slot holds one image at most (`OneImage`), and its first cell stays,
  is erased, is spoilt, or takes a byte of the response after an erase (`FirstCell`).
  So one image never turns into another in a step (`SpareStep`), and a boot stays or
  swaps (`BootSwaps`).

**OtaVersions_proofs** (on OtaSlots_proofs). Which versions may run. All three assume
`~ Republish`, a server that keeps its answer between the two requests of a check: of
any other the code promises nothing, as MCOtaValidation shows.

- `SameRelease` says that both replies of a check are about one release, a newer one
  from the second request on, and empty if its announced size is 0.
- `WholeImageActivated`: a version reply that came whole gives the size of that release
  (`Announced`), so that, unless it is 0, the comparison of lengths before the activation
  finds every download that was cut. With `Transfer` the target then holds all of it.
- `FloorKept`: what begins in a slot is the factory image or newer (`Floor`), because it
  was newer than what ran (`NewerAtLeastFactory`, by transitivity).
- `OnlyNewer`: what begins in a slot that is selected and was not booted is newer than
  what runs (`SelectedNewer`). A slot that is selected may be one that was written to in
  part; then its first cell is erased, spoilt, or of the response under way
  (`Begun`, `TargetClean`), which is what `ProgrammedHead`, `RunSpoils`, `WriteSpoils` and
  `SlotSpoils` show of one write, one round, and one step. The first cell is enough, as
  a slot with another image cannot be booted. Rollback is not excluded: a boot from an
  image that stayed PendingVerify is an exception the property names, and so is the offer
  of an empty release (`EmptyOffer`), after which the selected slot may hold anything.

**Transport_proofs.** `IInv` adds to TypeOK where the positions of the three streams
are: with nothing broken or short, what was sent and what is buffered is the stream
up to `asked - left` while a write is under way and up to `asked` when it is over. After
an error the order stays and the length is only bounded. The lemmas on stretches of a
stream (`After`) do the work with sequences once. For the reads (`Reads`) the buffer must
be known to be as long as the slice or longer; `PlacedFills` then shows that a part of n
bytes extends what was filled by the next n of the stream and leaves what lies before
it, which `NextPartKeeps`, `LastPartKeeps`, `EndEarlyKeeps` and `RetryReads` carry over the
ways a read goes on or ends. `TypeCorrect`, `WritesInOrder`, `NothingWaits`,
`ReadsInOrder`, and `RefinesByteStream` for the refinement: each operation maps to Progress, Ask, Reopen or a stutter.

**Measurement_proofs.** For CompleteSample the invariant must know what a partial
sample holds at each sensor (`Samples`), for AtMostOnce that a measurement is either
not yet sent, under way, or received, and no two of them (`Packets`). BootInTime needs
an account of time: `Joining` says that a radio joins only for the task, and `OnTime`
that the time since the boot is at most what the failures so far cost (`Spent`) and
the present attempt has taken. `TypeCorrect`, `SamplesComplete`, `NoneTwice`,
`BootsInTime`.

**Variants.** Four action properties say why what the liveness properties speak of must
come: each step goes down in a lexicographic order on numbers, of the stage in the code
(`Stage`), what is left of its loop, and the time or the failures that are left.

- `CheckAdvances` (`OtaUpdate_proofs!EachStepAdvances`, from TypeInv): no step of a check
  leads back, whatever the server sends, the reads return and the flash refuses.
- `OperationAdvances` (`Transport_proofs!EachStepAdvances`, from IInv): a session that
  takes or gives nothing cannot keep the loops of `write_all` and `read_exact` going.
- `MeasurementNears` (`MainTask_proofs!EachStepNears`, from WatchdogInv and `CheckCounted`):
  apart from hangs and resets every step and every second leads to the next measurement.
  It assumes that the measurement interval is not longer than that of the checks, which
  is when `NotDueAfterCheck` holds. MCMainLongInterval shows what happens otherwise.
- `OnlyResetRecovers` (`Measurement_proofs!ResetRecovers`, from IInv and `Waiting`): a task
  `connection` that has missed a disconnection notices nothing more (`StrandedKeeps`), and
  `main_task` is on its way to the reset with every step it takes (`OfflineNears`).

CheckEnds, OperationsEnd, MeasuresAgain and RecoversFromStranded then need that a step is
enabled and taken, that failures are bounded, and induction over the order. ENABLED and
theorems with an operator as parameter are out of the prover's reach, so that these
properties themselves are left to TLC.

Every safety property and every action property of the passing runs is proved. Only
model-checked are the seven liveness properties (Updated, CheckEnds, MeasuresAgain,
ChecksAgain, OperationsEnd, RecoversFromStranded, Delivers).

## Not modelled

- Sockets, TLS and HTTP as such, log lines, the texts of requests and payloads.
- The text of a payload: numbers and names written into 256 bytes. What follows from
  it, that a text that does not fit fails the cycle, is in `Format`.
- A build without `json` and `influx`, or without sensors, whose payload is empty.
- The bytes of the SDS011 before its frame; its driver is a library.
- An image published under another version than it was compiled with, which is
  downloaded again after every boot; the release process lies outside `src/`.
- A measurement interval of 0, which divides by zero at the start of `main_task`.
- Deployment scripts and the server of updates, of which only the answers are
  modelled.
- Builds without the features `ota` or `tls`.

## Plan

The order is by what is lost when it goes wrong.

1. Done: SemVer and UpgradeChain; DualSlot and OtaUpdate; MainTask.
2. Done: ByteStream and Transport; Wifi and Measurement.
3. Done: the proofs above.
4. Next: the update counter as a schedule, that a check is never put off by more than
   `CheckEvery` measurements; the variant of Updated, from the stages of a check and the
   versions between; Transport under Ota::check, to show that the account of `Transfer`
   needs no more than what ByteStream and ReadInOrder promise.
