-------------------------- MODULE OtaVersions_proofs --------------------------
(***************************************************************************)
(* Which images a device runs and activates over any number of checks,     *)
(* failures, boots and rollbacks, when the server does not change between  *)
(* the two requests of a check.                                            *)
(***************************************************************************)
EXTENDS OtaSlots_proofs

-----------------------------------------------------------------------------
(* One release in both replies. *)

FirmwarePc == {"fw_header", "open_partition", "erase", "download",
               "verify", "activate", "mark_new"}

(* A server that does not change between the requests answers both with    *)
(* one release, and from the firmware request on it is a newer one, whose  *)
(* size is 0 only if it is empty.                                          *)
SameRelease ==
  /\ pc \notin FirmwarePc \cup {"panicked"} => served = None
  /\ pc \in {"info_header", "info_body", "parse_info", "fw_request"} => srv = info
  /\ pc \in {"fw_request"} \cup FirmwarePc =>
       info \in Release /\ Newer(info) /\ (size = 0 => SizeOf[info] = 0)
  /\ pc \in FirmwarePc => served = info

(* Every step keeps the two replies about one release. *)
LEMMA SameReleaseStep ==
  ASSUME ~ Republish, TypeInv, SameRelease, [Next]_vars
  PROVE  SameRelease'
  <1> USE DEF SameRelease, FirmwarePc, Newer, server, boot, reply, download
  <1>n. None \notin Served
    BY OtaUpdateAssumption
  <1>c. ASSUME Clear,
               pc' \notin {"info_header", "info_body", "parse_info", "fw_request"} \cup FirmwarePc
        PROVE  SameRelease'
    BY <1>c DEF Clear
  <1>r. \A result, how : Return(result, how) => SameRelease'
    BY <1>c DEF Return, AfterCheck
  <1>f. \A e : Fail(e) => SameRelease'
    BY <1>r DEF Fail
  <1>w. \A bs : WriteFails(bs) => SameRelease'
    BY <1>r DEF WriteFails
  <1>p. PowerDown => SameRelease'
    BY <1>c DEF PowerDown
  <1>s. CASE /\ pc' \in FirmwarePc => pc \in FirmwarePc
             /\ pc' = "panicked" \/ pc' \in FirmwarePc \/ pc \notin FirmwarePc \cup {"panicked"}
             /\ pc' \in {"info_header", "info_body", "parse_info"} =>
                  pc \in {"info_header", "info_body", "parse_info"}
             /\ pc' # "fw_request"
             /\ UNCHANGED <<srv, app, info, size, served>>
    BY <1>s
  <1>1. CASE SendInfoRequest
    BY <1>1, <1>f DEF SendInfoRequest
  <1>2. CASE ReadInfoBody
    BY <1>2, <1>f, <1>r, <1>s DEF ReadInfoBody
  <1>3. CASE ParseInfo
    <2>1. CASE \E e : Fail(e)
      BY <2>1, <1>f
    <2>2. CASE /\ info # NoFirmware /\ Newer(info) /\ size' \in SizeRead
               /\ pc' = "fw_request" /\ UNCHANGED <<srv, app, info, served>>
      <3>1. info \in Release /\ pc = "parse_info"
        BY <1>3, <2>2 DEF ParseInfo, TypeInv, Answered, Served
      <3>2. size' = 0 => SizeOf[info] = 0
        <4>1. SizeOf[info] \in Nat
          BY <3>1, SizeType DEF Served
        <4>2. \A n \in SizeRead : n = SizeOf[info] \/ n >= 1
          BY <4>1 DEF SizeRead
        <4> QED
          BY <2>2, <4>2
      <3> QED
        BY <2>2, <3>1, <3>2
    <2> QED
      BY <1>3, <2>1, <2>2 DEF ParseInfo
  <1>4. CASE RequestFirmware
    BY <1>4, <1>f DEF RequestFirmware
  <1>5. CASE ReadChunk
    BY <1>5, <1>w, <1>s DEF ReadChunk
  <1>6. CASE EndOfStream
    BY <1>6, <1>w, <1>s DEF EndOfStream
  <1>7. CASE MarkNew
    BY <1>7, <1>f, <1>c DEF MarkNew
  <1>8. CASE Boot
    BY <1>8, <1>s DEF Boot
  <1>9. CASE \E r \in Served : Publish(r)
    BY <1>9, <1>n DEF Publish, TypeInv, Answered, Served
  <1>10. CASE Connect \/ ReadInfoHeader \/ ReadFirmwareHeader \/ OpenPartition
    BY <1>10, <1>f, <1>s DEF Connect, ReadInfoHeader, ReadFirmwareHeader, OpenPartition
  <1>11. CASE Erase \/ Cut \/ ReadError \/ Verify \/ Activate
    BY <1>11, <1>f, <1>s DEF Erase, Cut, ReadError, Verify, Activate
  <1>12. CASE Startup \/ StartupFails \/ UNCHANGED vars
    BY <1>12, <1>s DEF Startup, StartupFails, vars
  <1> QED
    BY <1>p, <1>1, <1>2, <1>3, <1>4, <1>5, <1>6, <1>7, <1>8, <1>9, <1>10, <1>11, <1>12
    DEF Next, Device, Environment, Reset, BootFails, Crash

(* After a whole reply the size is that of the release, not a part of its  *)
(* digits.                                                                 *)
Announced == pc \in {"fw_request"} \cup FirmwarePc /\ got = 4 => size = SizeOf[info]

(* The size is read once. *)
LEMMA AnnouncedStep == Announced /\ [Next]_vars => Announced'
  <1> SUFFICES ASSUME Announced, [Next]_vars, pc' \in {"fw_request"} \cup FirmwarePc, got' = 4
               PROVE  size' = SizeOf[info']
    BY DEF Announced
  <1>1. CASE ParseInfo
    <2>1. size' \in SizeRead /\ UNCHANGED <<info, got>>
      BY <1>1 DEF ParseInfo, Fail, Return, AfterCheck, FirmwarePc
    <2> QED
      BY <2>1 DEF SizeRead
  <1>2. CASE pc \in {"fw_request"} \cup FirmwarePc /\ UNCHANGED reply
    BY <1>2 DEF Announced, reply
  <1> QED
    BY <1>1, <1>2
    DEF Next, Device, Environment, vars, Connect, SendInfoRequest, ReadInfoHeader,
        ReadInfoBody, RequestFirmware, ReadFirmwareHeader, OpenPartition, Erase,
        ReadChunk, EndOfStream, Cut, WriteFails, ReadError, Verify, Activate, MarkNew,
        Reset, Boot, Startup, StartupFails, BootFails, Crash, Publish, Fail, Return,
        AfterCheck, PowerDown, FirmwarePc

(* Of a server that keeps its answer, what is activated after a whole      *)
(* version reply is the whole image: the comparison of lengths finds every *)
(* download that was cut.  An image of size 0 is none.                     *)
THEOREM WholeImageActivated ==
  ASSUME ~ Republish
  PROVE  Spec => []ActivatedWhole
  <1>1. Init => SameRelease /\ Announced
    BY DEF Init, SameRelease, Announced, FirmwarePc
  <1>2. TransferInv /\ SameRelease /\ Announced /\ [Next]_vars => SameRelease' /\ Announced'
    BY SameReleaseStep, AnnouncedStep DEF TransferInv
  <1>3. TransferInv /\ SameRelease /\ Announced => ActivatedWhole
    <2> SUFFICES ASSUME TransferInv, SameRelease, Announced,
                        pc \in {"activate", "mark_new"}, got = 4, size > 0
                 PROVE  Holds(Target, info)
      BY DEF ActivatedWhole
    <2>1. served = info /\ size = SizeOf[info] /\ info \in Release
      BY DEF SameRelease, Announced, FirmwarePc
    <2>2. bytes_written = size /\ size <= Capacity /\ size \in Nat
      BY ConstantTypes DEF TransferInv, TypeInv, TypeOK, Transfer, Written, Complete
    <2>3. ASSUME NEW o \in 0..(size - 1) PROVE flash[Target][o] = <<served, o>>
      <3>1. o \in Offset /\ o < size
        BY <2>2, ConstantTypes DEF Offset
      <3> QED
        BY <2>2, <3>1 DEF TransferInv, Transfer, Written
    <2> QED
      BY <2>1, <2>2, <2>3 DEF Holds
  <1> QED
    BY <1>1, <1>2, <1>3, TransferInvariant, PTL DEF Spec

-----------------------------------------------------------------------------
(* Nothing older than the factory image. *)

AtLeastFactory(r) == r = Factory \/ IsGreaterThan(VersionOf[r], VersionOf[Factory])

(* What runs and what the other slot begins with. *)
Floor ==
  /\ AtLeastFactory(app)
  /\ \A r \in Release : flash[Target][0] = <<r, 0>> => AtLeastFactory(r)

(* What is newer than an image that is recent enough is recent enough. *)
LEMMA NewerAtLeastFactory ==
  ASSUME NEW r \in Release, app \in Release, AtLeastFactory(app), Newer(r)
  PROVE  AtLeastFactory(r)
  <1>1. VersionOf[r] \in SemVer /\ VersionOf[app] \in SemVer /\ VersionOf[Factory] \in SemVer
    BY OtaUpdateAssumption
  <1> QED
    BY <1>1, GreaterTransitive DEF AtLeastFactory, Newer

(* No step brings an older image into a slot. *)
LEMMA FloorStep ==
  ASSUME TransferInv, Intact, SameRelease, Floor, [Next]_vars
  PROVE  Floor'
  <1>1. app \in Release /\ running \in Slot /\ selected \in Slot /\ Holds(running, app)
    BY DEF TransferInv, TypeInv, TypeOK, Intact
  <1>2. CASE Boot
    <2>1. UNCHANGED flash
      BY <1>2 DEF Boot
    <2>2. PICK slot \in Slot : /\ Bootable(slot)
                               /\ running' = slot
                               /\ app' = CHOOSE r \in Release : Holds(slot, r)
      BY <1>1, <1>2 DEF Boot, Twin, Slot
    <2>3. app' \in Release /\ Holds(slot, app')
      BY <2>2 DEF Bootable
    <2>4. flash[running][0] = <<app, 0>> /\ flash[slot][0] = <<app', 0>>
      BY <1>1, <2>3, FirstByte
    <2>5. CASE slot = running
      <3>1. app' = app /\ Target' = Target
        BY <1>1, <2>2, <2>3, <2>5, OneImage DEF Target, Twin
      <3> QED
        BY <2>1, <3>1 DEF Floor, AtLeastFactory
    <2>6. CASE slot # running
      <3>1. slot = Target /\ Target' = running
        BY <1>1, <2>2, <2>6 DEF Target, Twin, Slot
      <3>2. AtLeastFactory(app')
        BY <2>3, <2>4, <3>1 DEF Floor
      <3>3. \A r \in Release : flash[running][0] = <<r, 0>> => AtLeastFactory(r)
        BY <2>4 DEF Floor
      <3> QED
        BY <2>1, <3>1, <3>2, <3>3 DEF Floor, AtLeastFactory
    <2> QED
      BY <2>5, <2>6
  <1>3. CASE UNCHANGED boot
    <2>1. app' = app /\ Target' = Target
      BY <1>3 DEF boot, Target, Twin
    <2> SUFFICES ASSUME NEW r \in Release, flash'[Target][0] = <<r, 0>>
                 PROVE  AtLeastFactory(r)
      BY <2>1 DEF Floor, AtLeastFactory
    <2>2. <<r, 0>> \notin {Erased, Torn}
      <3>1. <<r, 0>> \in Served \X Nat
        BY DEF Served
      <3> QED
        BY <3>1, OtaUpdateAssumption
    <2>3. CASE flash[Target][0] = <<r, 0>>
      BY <2>3 DEF Floor
    <2>4. CASE pc = "download" /\ <<r, 0>> \in {served} \X Nat
      <3>1. r = served
        BY <2>4
      <3>2. Newer(r)
        BY <2>4, <3>1 DEF SameRelease, FirmwarePc
      <3> QED
        BY <1>1, <3>2, NewerAtLeastFactory DEF Floor
    <2> QED
      BY <2>2, <2>3, <2>4, FirstCell
  <1> QED
    BY <1>2, <1>3, BootOrNot

(* However many updates were taken back, a device never runs an image that *)
(* is older than the one it left the factory with.                         *)
THEOREM FloorKept ==
  ASSUME ~ Republish
  PROVE  Spec => []FactoryIsFloor
  <1> DEFINE Inv == TransferInv /\ Intact
  <1>1. Init => SameRelease /\ Floor
    <2> SUFFICES ASSUME Init PROVE SameRelease /\ Floor
      OBVIOUS
    <2>1. flash[Target][0] = Erased
      BY ConstantTypes DEF Init, Slot, Offset, Target, Twin
    <2>2. ASSUME NEW r \in Release PROVE <<r, 0>> # Erased
      <3>1. <<r, 0>> \in Served \X Nat
        BY DEF Served
      <3> QED
        BY <3>1, OtaUpdateAssumption
    <2> QED
      BY <2>1, <2>2 DEF Init, SameRelease, FirmwarePc, Floor, AtLeastFactory
  <1>2. Inv /\ SameRelease /\ Floor /\ [Next]_vars => SameRelease' /\ Floor'
    BY SameReleaseStep, FloorStep DEF TransferInv
  <1>3. Floor => FactoryIsFloor
    BY DEF Floor, AtLeastFactory, FactoryIsFloor
  <1>4. Spec => []Inv
    BY TransferInvariant, IntactInvariant, PTL DEF IntactInv
  <1> QED
    BY <1>1, <1>2, <1>3, <1>4, PTL DEF Spec

-----------------------------------------------------------------------------
(* Newer images. *)

(* What a run of bytes does to the beginning of a slot. *)
LEMMA ProgrammedHead ==
  ASSUME NEW cells \in [Offset -> Cell], NEW off \in Nat, NEW bs \in Seq(Byte)
  PROVE  /\ Len(bs) = 0 => Programmed(cells, off, bs) = cells
         /\ off > 0 => Programmed(cells, off, bs)[0] = cells[0]
         /\ off = 0 /\ Len(bs) > 0 => Programmed(cells, off, bs)[0] \in {Torn, bs[1]}
  <1>1. 0 \in Offset /\ Len(bs) \in Nat
    BY ConstantTypes DEF Offset
  <1>2. ASSUME Len(bs) = 0 PROVE Programmed(cells, off, bs) = cells
    <2>1. \A o \in Offset : o \notin off..(off + Len(bs) - 1)
      BY <1>2 DEF Offset
    <2>2. Programmed(cells, off, bs) = [o \in Offset |-> cells[o]]
      BY <2>1 DEF Programmed
    <2> QED
      BY <2>2
  <1>3. ASSUME off > 0 PROVE Programmed(cells, off, bs)[0] = cells[0]
    BY <1>1, <1>3 DEF Programmed
  <1>4. ASSUME off = 0, Len(bs) > 0 PROVE Programmed(cells, off, bs)[0] \in {Torn, bs[1]}
    <2>1. 0 \in off..(off + Len(bs) - 1) /\ 0 - off + 1 = 1
      BY <1>1, <1>4
    <2> QED
      BY <1>1, <2>1 DEF Programmed
  <1> QED
    BY <1>2, <1>3, <1>4

(* A byte of the response, or a spoilt one. *)
Spoilt == {Torn} \cup ({served} \X Nat)

(* Once something was written, the slot does not begin with another image. *)
Begun == pc = "download" /\ bytes_written > 0 => flash[Target][0] \in Spoilt

(* A run of bytes of the response leaves the target as it was, or spoils   *)
(* what it held.                                                           *)
LEMMA RunSpoils ==
  ASSUME TransferInv, Begun, pc = "download", NEW bs \in Seq(Byte), OfResponse(bs),
         flash' = [flash EXCEPT ![Target] = Programmed(@, bytes_written, bs)]
  PROVE  /\ bytes_written + Len(bs) > 0 => flash'[Target][0] \in Spoilt
         /\ bytes_written + Len(bs) = 0 => flash'[Target] = flash[Target]
  <1>1. /\ flash \in [Slot -> [Offset -> Cell]] /\ Target \in Slot
        /\ bytes_written \in Nat /\ Len(bs) \in Nat
    BY TargetSlot DEF TransferInv, TypeInv, TypeOK
  <1>2. flash[Target] \in [Offset -> Cell]
    BY <1>1
  <1>3. flash'[Target] = Programmed(flash[Target], bytes_written, bs)
    BY <1>1
  <1>4. CASE bytes_written > 0
    BY <1>1, <1>2, <1>3, <1>4, ProgrammedHead DEF Begun
  <1>5. CASE bytes_written = 0 /\ Len(bs) > 0
    <2>1. bs[1] \in Spoilt
      BY <1>1, <1>5 DEF OfResponse, Spoilt
    <2> QED
      BY <1>1, <1>2, <1>3, <1>5, <2>1, ProgrammedHead DEF Spoilt
  <1>6. CASE bytes_written = 0 /\ Len(bs) = 0
    <2>1. flash'[Target] = flash[Target]
      BY <1>1, <1>2, <1>3, <1>6, ProgrammedHead
    <2> QED
      BY <1>1, <1>6, <2>1
  <1> QED
    BY <1>1, <1>4, <1>5, <1>6

(* A round of the download, or its last write. *)
LEMMA WriteSpoils ==
  ASSUME TransferInv, Begun, pc = "download", NEW bs \in Seq(Byte), OfResponse(bs),
         Write(bs) \/ WriteFails(bs)
  PROVE  /\ flash'[Target] = flash[Target] \/ flash'[Target][0] \in Spoilt
         /\ Write(bs) /\ bytes_written' > 0 => flash'[Target][0] \in Spoilt
  <1>1. bytes_written \in Nat /\ Len(bs) \in Nat
    BY DEF TransferInv, TypeInv, TypeOK
  <1>2. CASE Write(bs)
    <2>1. /\ flash' = [flash EXCEPT ![Target] = Programmed(@, bytes_written, bs)]
          /\ bytes_written' = bytes_written + Len(bs)
      BY <1>2 DEF Write
    <2>2. /\ bytes_written + Len(bs) > 0 => flash'[Target][0] \in Spoilt
          /\ bytes_written + Len(bs) = 0 => flash'[Target] = flash[Target]
      BY <2>1, RunSpoils
    <2> QED
      BY <1>1, <2>1, <2>2
  <1>3. CASE WriteFails(bs)
    <2>1. bytes_written' = 0 /\ ~ (bytes_written' > 0)
      BY <1>3 DEF WriteFails, Return, Clear
    <2>2. ASSUME NEW n \in 0..(Len(bs) - 1),
                 flash' = [flash EXCEPT ![Target] =
                             Programmed(@, bytes_written, SubSeq(bs, 1, n))]
          PROVE  flash'[Target] = flash[Target] \/ flash'[Target][0] \in Spoilt
      <3>1. /\ SubSeq(bs, 1, n) \in Seq(Byte) /\ OfResponse(SubSeq(bs, 1, n))
            /\ Len(SubSeq(bs, 1, n)) \in Nat
        BY SubSeqBytes DEF OfResponse
      <3> QED
        <4> DEFINE part == SubSeq(bs, 1, n)
        <4> HIDE DEF part
        <4>1. /\ part \in Seq(Byte) /\ OfResponse(part) /\ Len(part) \in Nat
              /\ flash' = [flash EXCEPT ![Target] = Programmed(@, bytes_written, part)]
          BY <2>2, <3>1 DEF part
        <4>2. /\ bytes_written + Len(part) > 0 => flash'[Target][0] \in Spoilt
              /\ bytes_written + Len(part) = 0 => flash'[Target] = flash[Target]
          BY <4>1, RunSpoils
        <4> QED
          BY <1>1, <4>1, <4>2
    <2> QED
      BY <1>3, <2>1, <2>2 DEF WriteFails
  <1> QED
    BY <1>2, <1>3

(* A step leaves the target as it was, or it begins erased or spoilt.      *)
LEMMA SlotSpoils ==
  ASSUME TransferInv, Begun, [Next]_vars
  PROVE  \/ flash'[Target] = flash[Target]
         \/ flash'[Target][0] = Erased
         \/ pc = "download" /\ flash'[Target][0] \in Spoilt
  <1>1. /\ flash \in [Slot -> [Offset -> Cell]] /\ Target \in Slot /\ 0 \in Offset
        /\ erased \in Nat /\ EraseLen(size) \in Nat
    BY TargetSlot, EraseLenType, ConstantTypes DEF TransferInv, TypeInv, TypeOK, Offset
  <1>2. CASE Erase
    <2>1. ASSUME NEW end \in Nat, end > erased,
                 flash' = [flash EXCEPT ![Target] = Wiped(@, erased, end)]
          PROVE  flash'[Target][0] = Erased
      <3>1. flash'[Target][0] = IF 0 \in erased..(end - 1) THEN Erased ELSE flash[Target][0]
        BY <1>1, <2>1 DEF Wiped
      <3>2. erased > 0 => flash[Target][0] = Erased
        BY <1>1, <1>2 DEF Erase, TransferInv, Transfer, Erasing
      <3>3. erased = 0 => 0 \in erased..(end - 1)
        BY <2>1
      <3> QED
        BY <1>1, <3>1, <3>2, <3>3
    <2>2. erased < EraseLen(size) =>
            /\ erased + Least(EraseChunk, EraseLen(size) - erased) \in Nat
            /\ erased + Least(EraseChunk, EraseLen(size) - erased) > erased
      BY <1>1, ConstantTypes DEF Least
    <2> QED
      BY <1>1, <1>2, <2>1, <2>2 DEF Erase, Fail
  <1>3. CASE ReadChunk
    <2>1. pc = "download"
      BY <1>3 DEF ReadChunk
    <2>2. PICK n \in 1..Least(ChunkBuf - Len(write_buf), length - pos) :
                 LET buf == write_buf \o Bytes(pos, n)
                     out == SubSeq(buf, 1, AlignDown(Len(buf), WriteAlign))
                 IN  Write(out) \/ WriteFails(out)
      BY <1>3 DEF ReadChunk
    <2> QED
      BY <2>1, <2>2, ChunkOfResponse, WriteSpoils
  <1>4. CASE EndOfStream
    <2>1. pc = "download" /\ (Write(write_buf) \/ WriteFails(write_buf))
      BY <1>4 DEF EndOfStream
    <2> QED
      BY <2>1, BufferOfResponse, WriteSpoils
  <1>5. CASE UNCHANGED flash
    BY <1>5
  <1> QED
    BY <1>2, <1>3, <1>4, <1>5
    DEF Next, Device, Environment, vars, Connect, SendInfoRequest, ReadInfoHeader,
        ReadInfoBody, ParseInfo, RequestFirmware, ReadFirmwareHeader, OpenPartition, Cut,
        ReadError, Verify, Activate, MarkNew, Reset, Boot, Startup, StartupFails,
        BootFails, Crash, Publish, Fail, PowerDown

(* A step of the download keeps what was begun. *)
LEMMA BegunStep ==
  ASSUME TransferInv, Begun, [Next]_vars
  PROVE  Begun'
  <1> SUFFICES ASSUME pc' = "download", bytes_written' > 0
               PROVE  flash'[Target'][0] \in {Torn} \cup ({served'} \X Nat)
    BY DEF Begun, Spoilt
  <1>1. CASE ReadChunk
    <2>1. pc = "download" /\ UNCHANGED <<served, boot>>
      BY <1>1 DEF ReadChunk, WriteFails, Return, AfterCheck
    <2>2. PICK n \in 1..Least(ChunkBuf - Len(write_buf), length - pos) :
                 Write(SubSeq(write_buf \o Bytes(pos, n), 1,
                              AlignDown(Len(write_buf \o Bytes(pos, n)), WriteAlign)))
      BY <1>1 DEF ReadChunk, WriteFails, Return, AfterCheck
    <2>3. flash'[Target][0] \in Spoilt
      BY <2>1, <2>2, ChunkOfResponse, WriteSpoils
    <2> QED
      BY <2>1, <2>3 DEF Spoilt, Target, Twin, boot
  <1>2. CASE pc = "erase"
    <2>1. bytes_written = 0
      BY <1>2 DEF TransferInv, Transfer, Erasing
    <2>2. bytes_written' = bytes_written
      BY <1>2 DEF Next, Device, Environment, vars, download, Connect, SendInfoRequest,
          ReadInfoHeader, ReadInfoBody, ParseInfo, RequestFirmware, ReadFirmwareHeader,
          OpenPartition, Erase, ReadChunk, EndOfStream, Cut, ReadError, Verify, Activate,
          MarkNew, Reset, Boot, Startup, StartupFails, BootFails, Crash, Publish, Fail,
          Return, AfterCheck, PowerDown
    <2> QED
      BY <2>1, <2>2
  <1>3. CASE pc = "download" /\ UNCHANGED <<flash, boot, served, bytes_written>>
    BY <1>3 DEF Begun, Spoilt, Target, Twin, boot
  <1> QED
    BY <1>1, <1>2, <1>3
    DEF Next, Device, Environment, vars, download, Connect, SendInfoRequest, ReadInfoHeader,
        ReadInfoBody, ParseInfo, RequestFirmware, ReadFirmwareHeader, OpenPartition, Erase,
        EndOfStream, Cut, WriteFails, ReadError, Verify, Activate, MarkNew,
        Reset, Boot, Startup, StartupFails, BootFails, Crash, Publish, Fail, Return,
        AfterCheck, PowerDown

(* What the other slot begins with is newer, or a whole image: the one     *)
(* that ran before, until it is erased.                                    *)
TargetClean ==
  \A r \in Release : flash[Target][0] = <<r, 0>> => Newer(r) \/ Holds(Target, r)

(* No step leaves a part of an older image at the start of the slot. *)
LEMMA TargetCleanStep ==
  ASSUME TransferInv, Intact, SameRelease, Begun, TargetClean, [Next]_vars
  PROVE  TargetClean'
  <1>1. app \in Release /\ running \in Slot /\ selected \in Slot /\ Holds(running, app)
    BY DEF TransferInv, TypeInv, TypeOK, Intact
  <1>2. CASE Boot
    <2>1. UNCHANGED flash
      BY <1>2 DEF Boot
    <2>2. PICK slot \in Slot : /\ Bootable(slot)
                               /\ running' = slot
                               /\ app' = CHOOSE r \in Release : Holds(slot, r)
      BY <1>1, <1>2 DEF Boot, Twin, Slot
    <2>3. app' \in Release /\ Holds(slot, app')
      BY <2>2 DEF Bootable
    <2>4. CASE slot = running
      <3>1. app' = app /\ Target' = Target
        BY <1>1, <2>2, <2>3, <2>4, OneImage DEF Target, Twin
      <3> QED
        BY <2>1, <3>1 DEF TargetClean, Newer, Holds
    <2>5. CASE slot # running
      <3>1. Target' = running
        BY <1>1, <2>2, <2>5 DEF Target, Twin, Slot
      <3>2. flash[running][0] = <<app, 0>>
        BY <1>1, FirstByte
      <3>3. \A r \in Release : flash[running][0] = <<r, 0>> => Holds(running, r)
        BY <1>1, <3>2
      <3> QED
        BY <2>1, <3>1, <3>3 DEF TargetClean, Holds
    <2> QED
      BY <2>4, <2>5
  <1>3. CASE UNCHANGED boot
    <2>1. app' = app /\ Target' = Target
      BY <1>3 DEF boot, Target, Twin
    <2> SUFFICES ASSUME NEW r \in Release, flash'[Target][0] = <<r, 0>>
                 PROVE  Newer(r) \/ Holds(Target, r)'
      BY <2>1 DEF TargetClean, Newer, Holds
    <2>2. <<r, 0>> \notin {Erased, Torn}
      <3>1. <<r, 0>> \in Served \X Nat
        BY DEF Served
      <3> QED
        BY <3>1, OtaUpdateAssumption
    <2>3. CASE flash'[Target] = flash[Target]
      BY <2>1, <2>3 DEF TargetClean, Holds
    <2>4. CASE pc = "download" /\ <<r, 0>> \in {served} \X Nat
      <3>1. r = served
        BY <2>4
      <3> QED
        BY <2>4, <3>1 DEF SameRelease, FirmwarePc
    <2> QED
      BY <2>2, <2>3, <2>4, SlotSpoils DEF Spoilt
  <1> QED
    BY <1>2, <1>3, BootOrNot

(* If the slot that was not booted is selected, what begins there is the   *)
(* beginning of a newer image, or an empty release was offered.            *)
SelectedNewer ==
  selected = Target =>
    EmptyOffer \/ \A r \in Release : flash[Target][0] = <<r, 0>> => Newer(r)

(* Every step keeps what may be booted next newer. *)
LEMMA SelectedNewerStep ==
  ASSUME TransferInv, Intact, SameRelease, TargetClean, SelectedNewer, [Next]_vars
  PROVE  SelectedNewer'
  <1>1. CASE Boot
    <2> DEFINE reject == Rollback /\ ota_state = "PendingVerify"
               first  == IF reject THEN Twin(selected) ELSE selected
               slot   == IF Bootable(first) THEN first ELSE Twin(first)
    <2>1. /\ running \in Slot /\ selected \in Slot /\ app \in Release
          /\ Holds(running, app)
      BY DEF TransferInv, TypeInv, TypeOK, Intact
    <2>2. /\ UNCHANGED flash /\ selected' = first /\ running' = slot /\ Bootable(slot)
          /\ app' = CHOOSE r \in Release : Holds(slot, r)
      BY <1>1 DEF Boot
    <2>3. first \in Slot
      BY <2>1 DEF Twin, Slot
    <2> HIDE DEF first
    <2>4. CASE Bootable(first)
      <3>1. selected' # Target'
        BY <2>2, <2>3, <2>4 DEF Target, Twin, Slot
      <3> QED
        BY <3>1 DEF SelectedNewer
    <2>5. CASE ~ Bootable(first)
      <3>1. first = Target /\ slot = running
        BY <2>1, <2>3, <2>5 DEF Bootable, Target, Twin, Slot
      <3>2. app' \in Release /\ Holds(running, app')
        BY <2>2, <3>1 DEF Bootable
      <3>3. app' = app /\ Target' = Target
        BY <2>1, <2>2, <3>1, <3>2, OneImage DEF Target, Twin
      <3>4. \A r \in Release : ~ Holds(Target, r)
        BY <2>5, <3>1 DEF Bootable
      <3> QED
        BY <2>2, <3>3, <3>4 DEF SelectedNewer, TargetClean, Newer
    <2> QED
      BY <2>4, <2>5
  <1>2. CASE Activate /\ pc' = "mark_new"
    <2>1. /\ flash' = flash /\ running' = running /\ app' = app
          /\ pc = "activate"
      BY <1>2 DEF Activate, Fail, Return, AfterCheck, boot
    <2>2. /\ info \in Release /\ Newer(info) /\ served = info
          /\ (size = 0 => SizeOf[info] = 0) /\ size \in Nat /\ size <= Capacity
      BY <2>1, ConstantTypes
      DEF SameRelease, FirmwarePc, TransferInv, TypeInv, TypeOK, Transfer, Written, Complete
    <2>3. CASE size = 0
      BY <2>1, <2>2, <2>3 DEF SelectedNewer, EmptyOffer, Newer
    <2>4. CASE size > 0
      <3>1. 0 \in Offset /\ 0 < size
        BY <2>2, <2>4, ConstantTypes DEF Offset
      <3>2. flash[Target][0] = <<info, 0>>
        BY <2>1, <2>2, <3>1 DEF TransferInv, Transfer, Written, Complete
      <3> QED
        BY <2>1, <2>2, <3>2 DEF SelectedNewer, Target, Twin, Newer
    <2> QED
      BY <2>2, <2>3, <2>4
  <1>3. CASE UNCHANGED <<selected, boot>>
    <2> SUFFICES ASSUME selected = Target, ~ EmptyOffer,
                        NEW r \in Release, flash'[Target][0] = <<r, 0>>
                 PROVE  Newer(r)
      BY <1>3 DEF SelectedNewer, EmptyOffer, Target, Twin, Newer, boot
    <2>1. <<r, 0>> \in Served \X Nat
      BY DEF Served
    <2>2. <<r, 0>> \notin {Erased, Torn}
      BY <2>1, OtaUpdateAssumption
    <2>3. CASE flash[Target][0] = <<r, 0>>
      BY <2>3 DEF SelectedNewer
    <2>4. CASE pc = "download" /\ <<r, 0>> \in {served} \X Nat
      <3>1. r = served
        BY <2>4
      <3> QED
        BY <2>4, <3>1 DEF SameRelease, FirmwarePc
    <2> QED
      BY <2>2, <2>3, <2>4, FirstCell
  <1> QED
    BY <1>1, <1>2, <1>3
    DEF Next, Device, Environment, vars, otadata, Connect, SendInfoRequest, ReadInfoHeader,
        ReadInfoBody, ParseInfo, RequestFirmware, ReadFirmwareHeader, OpenPartition, Erase,
        ReadChunk, EndOfStream, Cut, WriteFails, ReadError, Verify, Activate, MarkNew,
        Reset, Startup, StartupFails, BootFails, Crash, Publish, Fail, PowerDown

(* A boot that changes what runs goes to a newer image, unless it takes an *)
(* image back that was not confirmed or an empty release was offered.      *)
LEMMA BootUpgrades ==
  ASSUME TransferInv, Intact, SelectedNewer, Boot, app' # app
  PROVE  \/ IsGreaterThan(VersionOf[app'], VersionOf[app])
         \/ Rollback /\ ota_state = "PendingVerify"
         \/ EmptyOffer
  <1> SUFFICES ASSUME ~ (Rollback /\ ota_state = "PendingVerify"), ~ EmptyOffer
               PROVE  IsGreaterThan(VersionOf[app'], VersionOf[app])
    OBVIOUS
  <1>1. /\ running \in Slot /\ selected \in Slot /\ app \in Release
        /\ Holds(running, app)
    BY DEF TransferInv, TypeInv, TypeOK, Intact
  <1>2. /\ running' = IF Bootable(selected) THEN selected ELSE Twin(selected)
        /\ app' \in Release /\ Holds(running', app')
    BY DEF Boot, Bootable
  <1>3. running' # running
    BY <1>1, <1>2, OneImage
  <1>4. selected = Target /\ running' = Target
    BY <1>1, <1>2, <1>3 DEF Bootable, Target, Twin, Slot
  <1>5. flash[Target][0] = <<app', 0>>
    BY <1>2, <1>4, FirstByte
  <1> QED
    BY <1>2, <1>4, <1>5 DEF SelectedNewer, Newer

(* Of a server that does not change between its two replies, what a device *)
(* boots is what it ran, or newer, or what rollback goes back to, unless   *)
(* the server offers it an empty release.                                  *)
THEOREM OnlyNewer ==
  ASSUME ~ Republish
  PROVE  Spec => OnlyUpgrades
  <1> DEFINE Inv  == TransferInv /\ Intact
             Ours == SameRelease /\ Begun /\ TargetClean /\ SelectedNewer
  <1>1. Init => Ours
    <2> SUFFICES ASSUME Init PROVE Ours
      OBVIOUS
    <2>1. flash[Target][0] = Erased /\ selected # Target
      BY ConstantTypes DEF Init, Slot, Offset, Target, Twin
    <2>2. ASSUME NEW r \in Release PROVE <<r, 0>> # Erased
      <3>1. <<r, 0>> \in Served \X Nat
        BY DEF Served
      <3> QED
        BY <3>1, OtaUpdateAssumption
    <2> QED
      BY <2>1, <2>2
      DEF Init, SameRelease, FirmwarePc, Begun, TargetClean, SelectedNewer
  <1>2. Inv /\ Ours /\ [Next]_vars => Ours'
    BY SameReleaseStep, BegunStep, TargetCleanStep, SelectedNewerStep DEF TransferInv
  <1>3. Inv /\ Ours /\ [Next]_vars =>
          [app' # app => \/ IsGreaterThan(VersionOf[app'], VersionOf[app])
                         \/ Rollback /\ ota_state = "PendingVerify"
                         \/ EmptyOffer]_vars
    BY BootUpgrades, BootOrNot DEF boot
  <1>4. Spec => []Inv
    BY TransferInvariant, IntactInvariant, PTL DEF IntactInv
  <1> QED
    BY <1>1, <1>2, <1>3, <1>4, PTL DEF Spec, OnlyUpgrades
=============================================================================
