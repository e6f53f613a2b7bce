------------------------------ MODULE OtaUpdate ------------------------------
(***************************************************************************)
(* The over-the-air update of the firmware (src/src/ota.rs): one device,   *)
(* its flash with two application slots, the update server it polls, and   *)
(* the bootloader that chooses the slot to run.  One action per step of    *)
(* Ota::check between two awaits; the server publishes and the device may  *)
(* fail or lose power between any two of them.                             *)
(*                                                                         *)
(* A byte of a release is the pair of the release and its offset, so that  *)
(* a byte written at the wrong place, twice or never is told apart.        *)
(***************************************************************************)
EXTENDS SemVer, FiniteSets

CONSTANTS
  Release,        \* firmware images a server may publish
  Factory,        \* the image flashed over serial into slot 0
  VersionOf,      \* the SemVer each image was compiled with (VERSION)
  NoFirmware,     \* what a server without an image for the device serves
  SizeOf,         \* length in bytes of what is served
  Capacity,       \* bytes in an application slot (partitions.csv)
  Page,           \* 4096, the unit of erase_len
  EraseChunk,     \* ERASE_CHUNK_SIZE
  WriteAlign,     \* WRITE_ALIGN
  ChunkBuf,       \* OTA_CHUNK_BUFFER_SIZE
  HeaderBuf,      \* bytes of body that fit in buf behind the response header
  Radix,          \* 10, the base of the size line
  ProgressParts,  \* 10, the steps of the progress log
  WordSize,       \* 2^32, the range of usize
  Rollback,       \* whether the bootloader was built with rollback
  OtaConfigured,  \* whether cfg.toml has ota_hostname and ota_port
  Republish,      \* whether the server may change between the two requests
  MaxFaults,      \* bound on failures of the network, the flash and power
  Erased,         \* a flash cell after an erase
  Torn            \* a flash cell written twice since its erase

Served == Release \cup {NoFirmware}

ASSUME OtaUpdateAssumption ==
  /\ Factory \in Release /\ NoFirmware \notin Release
  /\ VersionOf \in [Release -> SemVer]
  /\ {Capacity, Page, EraseChunk, WriteAlign, ChunkBuf, HeaderBuf,
      Radix, ProgressParts, WordSize} \subseteq Nat \ {0}
  /\ SizeOf \in [Served -> 0..(WordSize - 1)]
  /\ SizeOf[Factory] \in 1..Capacity
  /\ HeaderBuf < ChunkBuf /\ WriteAlign <= ChunkBuf
  /\ Capacity + Page <= WordSize
  /\ {Rollback, OtaConfigured, Republish} \subseteq BOOLEAN
  /\ MaxFaults \in Nat
  /\ None \notin Served
  /\ Erased # Torn /\ {Erased, Torn} \cap (Served \X Nat) = {}

Slot   == {0, 1}
Offset == 0..(Capacity - 1)
Byte   == Served \X Nat
Cell   == Byte \cup {Erased, Torn}

Twin(s) == 1 - s
Least(m, n) == IF m < n THEN m ELSE n
AlignDown(n, a) == n - (n % a)
AlignUp(n, a) == AlignDown(n + a - 1, a)

VARIABLES
  srv,            \* what the server serves now
  flash,          \* the cells of the two slots
  selected,       \* the slot otadata selects
  ota_state,      \* the image state in that otadata entry
  running,        \* the slot the device last booted from
  app,            \* the image it executes
  pc,             \* the step the device is at
  session,        \* the Transport of the check
  info,           \* what the version reply describes
  got,            \* how much of the version reply was read, see Got
  size,           \* size parsed from it
  served,         \* what the firmware request is answered with
  length,         \* bytes of it that will arrive
  pos,            \* bytes of it that were read
  erased,         \* bytes erased in the target slot
  bytes_written,
  write_buf,
  faults          \* failures so far

server == <<srv>>
otadata == <<selected, ota_state>>
boot == <<running, app>>
reply == <<info, got, size>>
download == <<served, length, pos, erased, bytes_written, write_buf>>
vars == <<server, flash, otadata, boot, pc, session, reply, download, faults>>

(* The version reply is three lines: version, CRC and size.  0: not yet a  *)
(* whole version line; 1: the version line; 2: the CRC line too; 3: some   *)
(* digits of the size too; 4: everything.  The reading loop needs the two  *)
(* line feeds of 2.  A reply without firmware is a single line, which      *)
(* never gets past 0.                                                      *)
Got == 0..4

OtaState == {"Undefined", "New", "PendingVerify", "Valid"}

CheckPc == {"info_request", "info_header", "info_body", "parse_info",
            "fw_request", "fw_header", "open_partition", "erase",
            "download", "verify", "activate", "mark_new", "reset"}
Pc == {"off", "booting", "idle", "panicked"} \cup CheckPc

TypeOK ==
  /\ srv \in Served
  /\ flash \in [Slot -> [Offset -> Cell]]
  /\ selected \in Slot /\ ota_state \in OtaState
  /\ running \in Slot /\ app \in Release
  /\ pc \in Pc
  /\ session \in {"closed", "open", "dropped"}
  /\ info \in Served \cup {None} /\ got \in Got
  /\ size \in 0..(WordSize - 1)
  /\ served \in Served \cup {None}
  /\ length \in Nat /\ pos \in Nat /\ erased \in Nat /\ bytes_written \in Nat
  /\ write_buf \in Seq(Byte)
  /\ faults \in 0..MaxFaults

-----------------------------------------------------------------------------
(* Slots and images. *)

(* Slot s holds the complete image r.  A release whose file is empty is no *)
(* image: the bootloader looks for a header in the slot.                   *)
Holds(s, r) ==
  /\ SizeOf[r] \in 1..Capacity
  /\ \A o \in 0..(SizeOf[r] - 1) : flash[s][o] = <<r, o>>

Bootable(s) == \E r \in Release : Holds(s, r)

(* Mutants: the slot after the selected one; the running slot. *)
TargetOfOtadata == Twin(selected)
TargetInPlace == running

(* next_partition never returns the slot that was booted. *)
Target == Twin(running)

(* Writing bs at offset off.  Flash can only clear bits: a cell that is    *)
(* not erased does not take the new byte.  Padding is 0xFF, the value of   *)
(* an erased cell, and changes nothing.                                    *)
Programmed(cells, off, bs) ==
  [o \in Offset |-> IF o \notin off..(off + Len(bs) - 1) THEN cells[o]
                    ELSE IF cells[o] = Erased THEN bs[o - off + 1] ELSE Torn]

Wiped(cells, from, to) ==
  [o \in Offset |-> IF o \in from..(to - 1) THEN Erased ELSE cells[o]]

(* Mutant: round down. *)
EraseLenDown(n) == AlignDown(n % WordSize, Page)

(* Round up to a page, in usize arithmetic. *)
EraseLen(n) == AlignDown((n + Page - 1) % WordSize, Page)

-----------------------------------------------------------------------------
Init ==
  /\ srv \in Served
  /\ flash = [s \in Slot |-> [o \in Offset |->
                IF s = 0 /\ o < SizeOf[Factory] THEN <<Factory, o>> ELSE Erased]]
  /\ selected = 0 /\ ota_state = "Undefined"
  /\ running = 0 /\ app = Factory
  /\ pc = "off"
  /\ session = "closed"
  /\ info = None /\ got = 0 /\ size = 0
  /\ served = None /\ length = 0 /\ pos = 0 /\ erased = 0 /\ bytes_written = 0
  /\ write_buf = << >>
  /\ faults = 0

Fault == faults < MaxFaults /\ faults' = faults + 1

Clear ==
  /\ info' = None /\ got' = 0 /\ size' = 0
  /\ served' = None /\ length' = 0 /\ pos' = 0 /\ erased' = 0 /\ bytes_written' = 0
  /\ write_buf' = << >>

(* main_task: Connection and Firmware errors reset the device, any other   *)
(* result lets it go on to the next check.                                 *)
AfterCheck(result) ==
  IF result \in {"Connection", "Firmware"} THEN "reset" ELSE "idle"

(* Ota::check returns; the session is closed first or only dropped. *)
Return(result, how) ==
  /\ pc' = AfterCheck(result)
  /\ session' = how
  /\ Clear

Fail(error) == Return(error, "closed") /\ UNCHANGED <<server, flash, otadata, boot>>

-----------------------------------------------------------------------------
(* The server. *)

(* Another image, or none, is published.  Version and firmware are asked   *)
(* for by requests of their own, and it may come between them.             *)
Publish(r) ==
  /\ srv # r
  /\ Republish \/ info = None \/ served # None
  /\ srv' = r
  /\ UNCHANGED <<flash, otadata, boot, pc, session, reply, download, faults>>

-----------------------------------------------------------------------------
(* The version request. *)

Connect ==
  /\ pc = "idle"
  /\ \/ /\ pc' = "info_request"
        /\ session' = "open"
        /\ UNCHANGED <<server, flash, otadata, boot, reply, download, faults>>
     \/ Fault /\ Fail("Connection")

(* The server answers with what it serves when the request arrives. *)
SendInfoRequest ==
  /\ pc = "info_request"
  /\ \/ /\ pc' = "info_header"
        /\ info' = srv
        /\ UNCHANGED <<server, flash, otadata, boot, session, got, size, download, faults>>
     \/ Fault /\ Fail("Connection")

(* How far reads can get; one that stops short is within the fault budget. *)
Arriving == IF info = NoFirmware THEN {0}
            ELSE {n \in Got : n = 3 => SizeOf[info] >= Radix}
Whole(n) == n = 4 \/ info = NoFirmware

(* The header comes with any part of the body. *)
ReadInfoHeader ==
  /\ pc = "info_header"
  /\ \/ \E n \in Arriving :
          /\ pc' = "info_body"
          /\ got' = n
          /\ IF Whole(n) THEN UNCHANGED faults ELSE Fault
          /\ UNCHANGED <<server, flash, otadata, boot, session, info, size, download>>
     \/ Fault /\ Fail("Info")

(* The loop that waits for two line feeds.  It ends when they are there,   *)
(* at the end of the stream, or with an error: a full buffer, or a read    *)
(* that fails, whose `?` leaves without closing the session.  A reply of   *)
(* one line on a connection kept alive always ends in a failed read.       *)
ReadInfoBody ==
  /\ pc = "info_body"
  /\ \/ /\ got >= 2
        /\ pc' = "parse_info"
        /\ UNCHANGED <<server, flash, otadata, boot, session, reply, download, faults>>
     \/ /\ got < 2
        /\ \E n \in Arriving :
             /\ n > got
             /\ got' = n
             /\ IF Whole(n) THEN UNCHANGED faults ELSE Fault
        /\ UNCHANGED <<server, flash, otadata, boot, pc, session, info, size, download>>
     \/ /\ got < 2 /\ Fault
        /\ pc' = "parse_info"
        /\ UNCHANGED <<server, flash, otadata, boot, session, reply, download>>
     \/ got < 2 /\ Fault /\ Fail("Info")
     \/ /\ got < 2
        /\ IF info = NoFirmware THEN UNCHANGED faults ELSE Fault
        /\ Return("Info", "dropped")
        /\ UNCHANGED <<server, flash, otadata, boot>>

(* The numbers the digits of the size line read so far can stand for; "0"  *)
(* is a number like any other.                                             *)
SizeRead == IF got = 4 THEN {SizeOf[info]}
            ELSE {n \in 1..(SizeOf[info] - 1) :
                    \E k \in 1..SizeOf[info] : n = SizeOf[info] \div Radix^k}

(* Mutants: any other version; numbers only. *)
NewerOrOlder(r) == VersionOf[r] # VersionOf[app]
NewerCore(r) ==
  IsGreaterThan([VersionOf[r] EXCEPT !.pre_release = None],
                [VersionOf[app] EXCEPT !.pre_release = None])

Newer(r) == IsGreaterThan(VersionOf[r], VersionOf[app])

(* The lines are parsed in order, and the version compared between the     *)
(* first and the second.  A version line cut short may parse as another    *)
(* version: whether it is newer or not, no size follows it.  The CRC is    *)
(* parsed and not used.                                                    *)
ParseInfo ==
  /\ pc = "parse_info"
  /\ \/ info = NoFirmware /\ Fail("Info") /\ UNCHANGED faults
     \/ info # NoFirmware /\ got = 0 /\ UNCHANGED faults /\ (Fail("Ok") \/ Fail("Info"))
     \/ /\ info # NoFirmware /\ got > 0
        /\ IF ~ Newer(info) THEN Fail("Ok")
           ELSE IF got < 3 THEN Fail("Info")
           ELSE /\ size' \in SizeRead
                /\ pc' = "fw_request"
                /\ UNCHANGED <<server, flash, otadata, boot, session, info, got, download>>
        /\ UNCHANGED faults

-----------------------------------------------------------------------------
(* The firmware request, on the same session. *)

RequestFirmware ==
  /\ pc = "fw_request"
  /\ \/ /\ pc' = "fw_header"
        /\ served' = srv /\ length' = SizeOf[srv]
        /\ UNCHANGED <<server, flash, otadata, boot, session, reply,
                       pos, erased, bytes_written, write_buf, faults>>
     \/ Fault /\ Fail("Connection")

Bytes(from, n) == [i \in 1..n |-> <<served, from + i - 1>>]

(* Mutant: the bytes that came with the header are forgotten. *)
ReadFirmwareHeaderOnly ==
  /\ pc = "fw_header"
  /\ \E n \in 0..Least(length, HeaderBuf) :
       /\ pc' = "open_partition"
       /\ pos' = n
       /\ UNCHANGED <<server, flash, otadata, boot, session, reply,
                      served, length, erased, bytes_written, write_buf, faults>>

(* The status line is not looked at; the bytes of the body that came with  *)
(* the header are kept for the download loop.                              *)
ReadFirmwareHeader ==
  /\ pc = "fw_header"
  /\ \/ \E n \in 0..Least(length, HeaderBuf) :
          /\ pc' = "open_partition"
          /\ pos' = n
          /\ write_buf' = Bytes(0, n)
          /\ UNCHANGED <<server, flash, otadata, boot, session, reply,
                         served, length, erased, bytes_written, faults>>
     \/ Fault /\ Fail("Firmware")

(* OtaUpdater::new and next_partition read the partition table. *)
OpenPartition ==
  /\ pc = "open_partition"
  /\ \/ /\ pc' = "erase"
        /\ UNCHANGED <<server, flash, otadata, boot, session, reply, download, faults>>
     \/ Fault /\ Fail("Ota")

(* One round of the erase loop, or its end. *)
Erase ==
  /\ pc = "erase"
  /\ IF erased >= EraseLen(size)
     THEN /\ pc' = "download"
          /\ UNCHANGED <<server, flash, otadata, boot, session, reply, download, faults>>
     ELSE LET end == erased + Least(EraseChunk, EraseLen(size) - erased)
          IN  \/ /\ end <= Capacity
                 /\ flash' = [flash EXCEPT ![Target] = Wiped(@, erased, end)]
                 /\ erased' = end
                 /\ UNCHANGED <<server, otadata, boot, pc, session, reply,
                                served, length, pos, bytes_written, write_buf, faults>>
              \/ /\ end > Capacity
                 /\ Fail("Ota")
                 /\ UNCHANGED faults
              \/ Fault /\ Fail("Ota")

-----------------------------------------------------------------------------
(* The download. *)

(* next_app_partition.write(bytes_written, bs), bs padded to WriteAlign:   *)
(* it is refused beyond the slot, and a failure may leave a prefix.        *)
Fits(bs) == bytes_written + AlignUp(Len(bs), WriteAlign) <= Capacity

Write(bs) == /\ Fits(bs)
             /\ flash' = [flash EXCEPT ![Target] = Programmed(@, bytes_written, bs)]
             /\ bytes_written' = bytes_written + Len(bs)

WriteFails(bs) ==
  /\ bs # << >>
  /\ \/ ~ Fits(bs) /\ UNCHANGED <<flash, faults>>
     \/ /\ Fits(bs) /\ Fault
        /\ \E n \in 0..(Len(bs) - 1) :
             flash' = [flash EXCEPT ![Target] =
                         Programmed(@, bytes_written, SubSeq(bs, 1, n))]
  /\ Return("Ota", "closed")
  /\ UNCHANGED <<server, otadata, boot>>

(* A read that returns n bytes: they are appended, the aligned part is     *)
(* written and the rest moved to the front.  The progress log then takes   *)
(* a remainder modulo size / 10, which is 0 for a size below 10.           *)
ReadChunk ==
  /\ pc = "download"
  /\ \E n \in 1..Least(ChunkBuf - Len(write_buf), length - pos) :
       LET buf     == write_buf \o Bytes(pos, n)
           aligned == AlignDown(Len(buf), WriteAlign)
           out     == SubSeq(buf, 1, aligned)
       IN  \/ /\ Write(out)
              /\ write_buf' = SubSeq(buf, aligned + 1, Len(buf))
              /\ pos' = pos + n
              /\ pc' = IF size > 0 /\ size \div ProgressParts = 0
                       THEN "panicked" ELSE pc
              /\ UNCHANGED <<server, otadata, boot, session, reply,
                             served, length, erased, faults>>
           \/ WriteFails(out)

(* The connection is lost, and looks to the loop like the end of the body. *)
Cut ==
  /\ pc = "download" /\ pos < length
  /\ Fault
  /\ length' = pos
  /\ UNCHANGED <<server, flash, otadata, boot, pc, session, reply,
                 served, pos, erased, bytes_written, write_buf>>

(* Ok(0), also when there was no room to read into, or an error named like *)
(* the end of a stream: the buffered bytes are written, padded, and the    *)
(* session closed.                                                         *)
EndOfStream ==
  /\ pc = "download"
  /\ pos = length \/ Len(write_buf) = ChunkBuf
  /\ \/ /\ Write(write_buf)
        /\ write_buf' = << >>
        /\ pc' = "verify"
        /\ session' = "closed"
        /\ UNCHANGED <<server, otadata, boot, reply, served, length, pos, erased, faults>>
     \/ WriteFails(write_buf)

(* Any other read error. *)
ReadError == pc = "download" /\ Fault /\ Fail("Firmware")

-----------------------------------------------------------------------------
(* Switching over. *)

(* Mutants: the length is not compared; a short image is asked for again. *)
VerifyNothing ==
  /\ pc = "verify"
  /\ pc' = "activate"
  /\ UNCHANGED <<server, flash, otadata, boot, session, reply, download, faults>>

VerifyRetries ==
  /\ pc = "verify"
  /\ IF bytes_written # size
     THEN /\ pc' = "fw_request"
          /\ pos' = 0 /\ erased' = 0 /\ bytes_written' = 0
          /\ UNCHANGED <<served, length, write_buf>>
     ELSE pc' = "activate" /\ UNCHANGED download
  /\ UNCHANGED <<server, flash, otadata, boot, session, reply, faults>>

Verify ==
  /\ pc = "verify"
  /\ IF bytes_written # size
     THEN Fail("Firmware")
     ELSE /\ pc' = "activate"
          /\ UNCHANGED <<server, flash, otadata, boot, session, reply, download>>
  /\ UNCHANGED faults

(* Mutant: the next slot, without going around. *)
ActivateNext ==
  /\ pc = "activate"
  /\ pc' = "mark_new"
  /\ selected' = selected + 1 /\ ota_state' = "Undefined"
  /\ UNCHANGED <<server, flash, boot, session, reply, download, faults>>

Activate ==
  /\ pc = "activate"
  /\ \/ /\ pc' = "mark_new"
        /\ selected' = Target /\ ota_state' = "Undefined"
        /\ UNCHANGED <<server, flash, boot, session, reply, download, faults>>
     \/ Fault /\ Fail("Ota")

(* When this fails the slot is selected all the same and the device goes   *)
(* on with the old image.                                                  *)
MarkNew ==
  /\ pc = "mark_new"
  /\ \/ /\ pc' = "reset"
        /\ ota_state' = "New"
        /\ Clear
        /\ UNCHANGED <<server, flash, selected, boot, session, faults>>
     \/ Fault /\ Fail("Ota")

-----------------------------------------------------------------------------
(* Resets and boot. *)

PowerDown ==
  /\ pc' = "off"
  /\ session' = "closed"
  /\ Clear
  /\ UNCHANGED <<server, flash, otadata, boot>>

(* software_reset, or the watchdog after a panic. *)
Reset == pc \in {"reset", "panicked"} /\ PowerDown /\ UNCHANGED faults

(* Power lost, or a watchdog reset, anywhere. *)
Crash == pc # "off" /\ Fault /\ PowerDown

(* The bootloader.  With rollback an image is tried once: New becomes      *)
(* PendingVerify, and PendingVerify the other slot.  The preferred slot    *)
(* runs if its image is complete, the other one otherwise.                 *)
Boot ==
  /\ pc = "off"
  /\ LET reject == Rollback /\ ota_state = "PendingVerify"
         first  == IF reject THEN Twin(selected) ELSE selected
         slot   == IF Bootable(first) THEN first ELSE Twin(first)
     IN  /\ selected' = first
         /\ ota_state' = IF reject THEN "Valid"
                         ELSE IF Rollback /\ ota_state = "New" THEN "PendingVerify"
                         ELSE ota_state
         /\ Bootable(slot)
         /\ running' = slot
         /\ app' = CHOOSE r \in Release : Holds(slot, r)
  /\ pc' = "booting"
  /\ UNCHANGED <<server, flash, session, reply, download, faults>>

(* main up to Ota::new: a sensor or the network does not come up. *)
BootFails == pc = "booting" /\ Fault /\ PowerDown

(* Ota::new: the running image is marked Valid, a failure of which is      *)
(* ignored; then a missing hostname or port makes main panic.              *)
Startup ==
  /\ pc = "booting"
  /\ \/ ota_state' = "Valid" /\ UNCHANGED faults
     \/ ota_state' = ota_state /\ Fault
  /\ pc' = IF OtaConfigured THEN "idle" ELSE "panicked"
  /\ UNCHANGED <<server, flash, selected, boot, session, reply, download>>

(* OtaUpdater::new fails in Ota::new. *)
StartupFails ==
  /\ pc = "booting"
  /\ Fault
  /\ pc' = "panicked"
  /\ UNCHANGED <<server, flash, otadata, boot, session, reply, download>>

-----------------------------------------------------------------------------
Device ==
  \/ Connect \/ SendInfoRequest \/ ReadInfoHeader \/ ReadInfoBody \/ ParseInfo
  \/ RequestFirmware \/ ReadFirmwareHeader \/ OpenPartition \/ Erase
  \/ ReadChunk \/ Cut \/ EndOfStream \/ ReadError
  \/ Verify \/ Activate \/ MarkNew
  \/ Reset \/ Boot \/ Startup \/ StartupFails \/ BootFails

Environment == Crash \/ \E r \in Served : Publish(r)

Next == Device \/ Environment

Spec == Init /\ [][Next]_vars

(* The firmware never blocks for good: every await of a check ends in an   *)
(* answer or a timeout, and main_task starts the next check.               *)
FairSpec == Spec /\ WF_vars(Device)

-----------------------------------------------------------------------------
(* The slot that runs holds the complete image it was booted from, from    *)
(* the boot to the next one, whatever a check does to the flash: the code  *)
(* is executed in place, and a device that loses power boots again.        *)
RunningIntact == pc # "off" => Holds(running, app)

(* A device that is off finds an image to run, whichever slot is selected  *)
(* and however far an update had come.                                     *)
AlwaysBootable == Bootable(selected) \/ Bootable(Twin(selected))

(* When the new slot is activated it holds, from its first byte to the     *)
(* announced size, the bytes of one response in their order: none lost,    *)
(* repeated or displaced by the header's leftover bytes, by reads of any   *)
(* length or by the alignment of writes.                                   *)
ActivatedImage ==
  pc \in {"activate", "mark_new"} =>
    /\ pos = size
    /\ \A o \in 0..(size - 1) : flash[Target][o] = <<served, o>>

(* The buffer of a download always has room when a read is issued, so      *)
(* Ok(0) is the end of the stream and never an empty slice; every write    *)
(* but the last starts and ends at a multiple of WriteAlign, and only      *)
(* erased flash is written.                                                *)
BufferDiscipline ==
  pc = "download" =>
    /\ Len(write_buf) < ChunkBuf
    /\ bytes_written % WriteAlign = 0
    /\ bytes_written + Len(write_buf) = pos
    /\ size <= Capacity => \A o \in bytes_written..(size - 1) : flash[Target][o] = Erased

(* A newer release of zero bytes: nothing is erased or written for it, and *)
(* what the other slot held before is activated in its place.              *)
EmptyOffer ==
  \E r \in Release : SizeOf[r] = 0 /\ IsGreaterThan(VersionOf[r], VersionOf[app])

(* A device only moves on to a newer image: no crash, no boot from the     *)
(* other slot and no failed activation takes it back.  Only a bootloader   *)
(* with rollback does, from an image that was not confirmed, or the offer  *)
(* of an empty release.  (Of a server that does not change between the two *)
(* requests.)                                                              *)
OnlyUpgrades ==
  [][app' # app => \/ IsGreaterThan(VersionOf[app'], VersionOf[app])
                   \/ Rollback /\ ota_state = "PendingVerify"
                   \/ EmptyOffer]_vars

(* However many updates are taken back, and whatever was selected, erased  *)
(* or half written in between, nothing older than the factory image runs.  *)
(* (Of the same servers.)                                                  *)
FactoryIsFloor ==
  app # Factory => IsGreaterThan(VersionOf[app], VersionOf[Factory])

(* If the version reply came whole, what is activated is the whole image   *)
(* it described: a download that was cut never has the announced length.   *)
(* (Of the same servers; see ActivatedMatchesInfo for the others, and      *)
(* OnlyNewerRuns for an announced size of 0.)                              *)
ActivatedWhole ==
  pc \in {"activate", "mark_new"} /\ got = 4 /\ size > 0 => Holds(Target, info)

(* A new image has a complete image to fall back to in the other slot,     *)
(* from its activation until it had the chance to confirm itself, whatever *)
(* happens in between.                                                     *)
FallbackKept ==
  (pc = "off" /\ ota_state = "New") \/ (pc = "booting" /\ ota_state = "PendingVerify")
    => Bootable(Twin(selected))

(* The image that was installed, seen as two slots. *)
Spare == IF Bootable(Twin(running))
         THEN CHOOSE r \in Release : Holds(Twin(running), r) ELSE None
Abstract == INSTANCE DualSlot WITH live <- app, spare <- Spare
ImplementsDualSlot == Abstract!Spec

(* Whatever the server settles on, the device ends at a version that is    *)
(* not older, if the image fits a slot and is not too small for the        *)
(* progress log: failed checks are repeated, by the next cycle or after a  *)
(* reset, until one succeeds.                                              *)
Installable(r) == SizeOf[r] <= Capacity /\ SizeOf[r] \div ProgressParts > 0
Updated ==
  \A r \in Release :
    Installable(r) /\ <>[](srv = r) => <>[](~ IsGreaterThan(VersionOf[r], VersionOf[app]))

(* How far a step is from the end of a check, and how much of the loop of  *)
(* that step is left.                                                      *)
Stage == CASE pc = "info_request"   -> 13 [] pc = "info_header" -> 12
           [] pc = "info_body"      -> 11 [] pc = "parse_info"  -> 10
           [] pc = "fw_request"     -> 9  [] pc = "fw_header"   -> 8
           [] pc = "open_partition" -> 7  [] pc = "erase"       -> 6
           [] pc = "download"       -> 5  [] pc = "verify"      -> 4
           [] pc = "activate"       -> 3  [] pc = "mark_new"    -> 2
           [] OTHER                 -> 1
Left == CASE pc = "info_body" -> 4 - got
          [] pc = "erase"     -> EraseLen(size) - erased
          [] pc = "download"  -> length - pos
          [] OTHER            -> 0

(* No step of a check leads back: it goes on to a later one, or the loop   *)
(* it is in has less left to do, whatever the server sends and the reads   *)
(* return.  Nothing is asked for or written a second time, and a check has *)
(* finitely many steps.                                                    *)
CheckAdvances ==
  [][{pc, pc'} \subseteq CheckPc =>
       \/ Stage' < Stage
       \/ pc' = pc /\ Left' < Left /\ Left' \in Nat]_<<pc, reply, download>>

(* A check that started comes to an end: back to the main loop, or a reset *)
(* of the device.                                                          *)
CheckEnds == pc \in CheckPc ~> pc \in {"idle", "off"}

-----------------------------------------------------------------------------
(* What comments and documents say. *)

(* ota.rs:103: the session is closed on all code paths of a check. *)
SessionClosedOnReturn == pc \in {"idle", "reset"} => session = "closed"

(* ota.rs:239: CRC and size are for firmware validation: what is activated *)
(* is the image the version reply described.                               *)
ActivatedMatchesInfo == pc \in {"activate", "mark_new"} => Holds(Target, info)

(* ota.rs:224: only update if the remote version is strictly greater: a    *)
(* bootloader without rollback never runs an older image than it did.      *)
OnlyNewerRuns ==
  [][app' # app => IsGreaterThan(VersionOf[app'], VersionOf[app])]_vars
=============================================================================
