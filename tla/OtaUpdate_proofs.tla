-------------------------- MODULE OtaUpdate_proofs --------------------------
(***************************************************************************)
(* What holds of an update for every size of slot, page, buffer and        *)
(* release, every server, and any number of failures.                      *)
(***************************************************************************)
EXTENDS OtaUpdate, SemVer_proofs

(* The variables that only have a meaning in some steps have it there. *)
Answered ==
  /\ pc \in {"info_header", "info_body", "parse_info"} => info \in Served
  /\ pc \in {"fw_header", "open_partition", "erase", "download",
             "verify", "activate", "mark_new"} => served \in Served

(* The types of the constants, one by one. *)
LEMMA ConstantTypes ==
  /\ Capacity \in Nat \ {0} /\ Page \in Nat \ {0} /\ EraseChunk \in Nat \ {0}
  /\ WriteAlign \in Nat \ {0} /\ ChunkBuf \in Nat \ {0} /\ HeaderBuf \in Nat \ {0}
  /\ WordSize \in Nat \ {0} /\ MaxFaults \in Nat
  BY OtaUpdateAssumption

(* The announced size of a release is a number. *)
LEMMA SizeType ==
  ASSUME NEW r \in Served
  PROVE  SizeOf[r] \in 0..(WordSize - 1) /\ SizeOf[r] \in Nat
  BY ConstantTypes, OtaUpdateAssumption

(* The arithmetic of the alignments. *)
LEMMA AlignDownBounds ==
  ASSUME NEW n \in Nat, NEW a \in Nat \ {0}
  PROVE  AlignDown(n, a) \in Nat /\ AlignDown(n, a) <= n /\ n - AlignDown(n, a) < a
  BY n % a \in 0..(a - 1), n % a <= n DEF AlignDown

(* Rounding up adds less than a unit. *)
LEMMA AlignUpBounds ==
  ASSUME NEW n \in Nat, NEW a \in Nat \ {0}
  PROVE  AlignUp(n, a) \in Nat /\ n <= AlignUp(n, a)
  <1>1. n + a - 1 \in Nat
    OBVIOUS
  <1> QED
    BY <1>1, AlignDownBounds DEF AlignUp

-----------------------------------------------------------------------------
(* Types. *)

(* The erased length is a number. *)
LEMMA EraseLenType ==
  ASSUME size \in 0..(WordSize - 1)
  PROVE  EraseLen(size) \in Nat
  <1>1. (size + Page - 1) % WordSize \in Nat
    BY ConstantTypes
  <1> QED
    BY <1>1, AlignDownBounds, ConstantTypes DEF EraseLen

(* The bytes of an image are bytes. *)
LEMMA BytesType ==
  ASSUME served \in Served, NEW from \in Nat, NEW n \in Nat
  PROVE  Bytes(from, n) \in Seq(Byte) /\ Len(Bytes(from, n)) = n
  BY DEF Bytes, Byte

(* Programming bytes into a slot leaves a slot of flash. *)
LEMMA ProgrammedType ==
  ASSUME NEW cells \in [Offset -> Cell], NEW off \in Nat, NEW bs \in Seq(Byte)
  PROVE  Programmed(cells, off, bs) \in [Offset -> Cell]
  <1> SUFFICES ASSUME NEW o \in Offset, o \in off..(off + Len(bs) - 1)
               PROVE  bs[o - off + 1] \in Byte
    BY DEF Programmed, Cell
  <1>1. o - off + 1 \in 1..Len(bs)
    BY DEF Offset
  <1> QED
    BY <1>1

(* Erasing the head of a slot leaves a slot of flash. *)
LEMMA WipedType ==
  ASSUME NEW cells \in [Offset -> Cell], NEW from \in Nat, NEW to \in Nat
  PROVE  Wiped(cells, from, to) \in [Offset -> Cell]
  BY DEF Wiped, Cell

(* The update goes to the other slot. *)
LEMMA TargetSlot == running \in Slot => Target \in Slot /\ Target # running
  BY DEF Target, Twin, Slot

TypeInv == TypeOK /\ Answered

(* Returning from a check keeps the types. *)
LEMMA ReturnType ==
  ASSUME TypeInv, NEW result, NEW how \in {"closed", "dropped"}, Return(result, how),
         UNCHANGED <<server, otadata, boot>>,
         flash' \in [Slot -> [Offset -> Cell]], faults' \in 0..MaxFaults
  PROVE  TypeInv'
  <1> USE DEF TypeInv, Return
  <1>1. pc' \in {"reset", "idle"}
    BY DEF AfterCheck
  <1>2. Answered'
    BY <1>1 DEF Answered
  <1>3. /\ srv' \in Served /\ selected' \in Slot /\ ota_state' \in OtaState
        /\ running' \in Slot /\ app' \in Release
    BY DEF TypeOK, server, otadata, boot
  <1>4. /\ info' \in Served \cup {None} /\ got' \in Got /\ size' \in 0..(WordSize - 1)
        /\ served' \in Served \cup {None}
        /\ length' \in Nat /\ pos' \in Nat /\ erased' \in Nat /\ bytes_written' \in Nat
        /\ write_buf' \in Seq(Byte)
    BY ConstantTypes DEF Clear, Got
  <1>5. pc' \in Pc /\ session' \in {"closed", "open", "dropped"}
    BY <1>1 DEF Pc, CheckPc
  <1> QED
    BY <1>2, <1>3, <1>4, <1>5 DEF TypeOK

(* Failing a check keeps the types. *)
LEMMA FailType ==
  ASSUME TypeInv, NEW error, Fail(error), UNCHANGED faults \/ Fault
  PROVE  TypeInv'
  <1>1. faults' \in 0..MaxFaults
    <2>1. faults \in 0..MaxFaults
      BY DEF TypeInv, TypeOK
    <2> QED
      BY <2>1, ConstantTypes DEF Fault
  <1> QED
    BY <1>1, ReturnType DEF Fail, TypeInv, TypeOK

(* Losing power keeps the types. *)
LEMMA PowerDownType ==
  ASSUME TypeInv, PowerDown, faults' \in 0..MaxFaults
  PROVE  TypeInv'
  BY ConstantTypes
  DEF TypeInv, TypeOK, Answered, PowerDown, Clear, server, otadata, boot, Pc, Got

(* A write that the flash accepts keeps the types. *)
LEMMA WriteType ==
  ASSUME TypeInv, NEW bs \in Seq(Byte), Write(bs)
  PROVE  flash' \in [Slot -> [Offset -> Cell]] /\ bytes_written' \in Nat
  <1>1. bytes_written \in Nat /\ flash \in [Slot -> [Offset -> Cell]] /\ Target \in Slot
    BY TargetSlot DEF TypeInv, TypeOK
  <1>2. Programmed(flash[Target], bytes_written, bs) \in [Offset -> Cell]
    BY <1>1, ProgrammedType
  <1>3. bytes_written' = bytes_written + Len(bs) /\ Len(bs) \in Nat
    BY DEF Write
  <1>4. flash' = [flash EXCEPT ![Target] = Programmed(flash[Target], bytes_written, bs)]
    BY DEF Write
  <1> QED
    BY <1>1, <1>2, <1>3, <1>4

(* Two runs of bytes make a run of bytes. *)
LEMMA ConcatBytes ==
  ASSUME NEW a \in Seq(Byte), NEW b \in Seq(Byte)
  PROVE  /\ a \o b \in Seq(Byte) /\ Len(a \o b) = Len(a) + Len(b)
         /\ \A i \in 1..Len(a) : (a \o b)[i] = a[i]
         /\ \A i \in (Len(a) + 1)..Len(a \o b) : (a \o b)[i] = b[i - Len(a)]
  OBVIOUS

(* A part of a run of bytes is a run of bytes. *)
LEMMA SubSeqBytes ==
  ASSUME NEW bs \in Seq(Byte), NEW m \in 1..(Len(bs) + 1), NEW n \in 0..Len(bs), m <= n + 1
  PROVE  /\ SubSeq(bs, m, n) \in Seq(Byte)
         /\ Len(SubSeq(bs, m, n)) = n - m + 1
         /\ \A i \in 1..(n - m + 1) : SubSeq(bs, m, n)[i] = bs[m + i - 1]
  OBVIOUS

(* A write that the flash refuses keeps the types. *)
LEMMA WriteFailsType ==
  ASSUME TypeInv, NEW bs \in Seq(Byte), WriteFails(bs)
  PROVE  TypeInv'
  <1>1. flash' \in [Slot -> [Offset -> Cell]]
    <2>1. CASE UNCHANGED flash
      BY <2>1 DEF TypeInv, TypeOK
    <2>2. ASSUME NEW n \in 0..(Len(bs) - 1),
                 flash' = [flash EXCEPT ![Target] =
                             Programmed(@, bytes_written, SubSeq(bs, 1, n))]
          PROVE  flash' \in [Slot -> [Offset -> Cell]]
      <3>1. SubSeq(bs, 1, n) \in Seq(Byte)
        BY SubSeqBytes
      <3> QED
        BY <2>2, <3>1, ProgrammedType, TargetSlot DEF TypeInv, TypeOK
    <2> QED
      BY <2>1, <2>2 DEF WriteFails
  <1>2. faults' \in 0..MaxFaults
    BY ConstantTypes DEF WriteFails, Fault, TypeInv, TypeOK
  <1>3. Return("Ota", "closed") /\ UNCHANGED <<server, otadata, boot>>
    BY DEF WriteFails
  <1> QED
    BY <1>1, <1>2, <1>3, ReturnType

(* The parts of the buffer in one round of the download loop. *)
LEMMA ChunkParts ==
  ASSUME TypeInv, served \in Served,
         NEW n \in 1..Least(ChunkBuf - Len(write_buf), length - pos),
         NEW buf, buf = write_buf \o Bytes(pos, n),
         NEW aligned, aligned = AlignDown(Len(buf), WriteAlign)
  PROVE  /\ n \in Nat
         /\ buf \in Seq(Byte) /\ Len(buf) = Len(write_buf) + n
         /\ \A i \in 1..Len(write_buf) : buf[i] = write_buf[i]
         /\ \A i \in (Len(write_buf) + 1)..Len(buf) :
              buf[i] = <<served, pos + i - Len(write_buf) - 1>>
         /\ aligned \in 0..Len(buf)
         /\ SubSeq(buf, 1, aligned) \in Seq(Byte)
         /\ SubSeq(buf, aligned + 1, Len(buf)) \in Seq(Byte)
  <1>1. n \in Nat /\ pos \in Nat /\ write_buf \in Seq(Byte)
    BY ConstantTypes DEF Least, TypeInv, TypeOK
  <1>2. Bytes(pos, n) \in Seq(Byte) /\ Len(Bytes(pos, n)) = n
    BY <1>1, BytesType
  <1>3. buf \in Seq(Byte) /\ Len(buf) = Len(write_buf) + n
    BY <1>1, <1>2, ConcatBytes
  <1>4. \A i \in 1..Len(write_buf) : buf[i] = write_buf[i]
    BY <1>1, <1>2, ConcatBytes
  <1>5. ASSUME NEW i \in (Len(write_buf) + 1)..Len(buf)
        PROVE  buf[i] = <<served, pos + i - Len(write_buf) - 1>>
    <2>1. buf[i] = Bytes(pos, n)[i - Len(write_buf)]
      BY <1>1, <1>2, ConcatBytes
    <2>2. i - Len(write_buf) \in 1..n
      BY <1>1, <1>3
    <2> QED
      BY <1>1, <2>1, <2>2 DEF Bytes
  <1>6. aligned \in 0..Len(buf)
    BY <1>3, AlignDownBounds, ConstantTypes
  <1>7. /\ SubSeq(buf, 1, aligned) \in Seq(Byte)
        /\ SubSeq(buf, aligned + 1, Len(buf)) \in Seq(Byte)
    BY <1>3, <1>6, SubSeqBytes
  <1> QED
    BY <1>1, <1>3, <1>4, <1>5, <1>6, <1>7

(* Every step preserves the type invariant. *)
LEMMA TypeStep == TypeInv /\ [Next]_vars => TypeInv'
  <1> SUFFICES ASSUME TypeInv, [Next]_vars PROVE TypeInv'
    OBVIOUS
  <1> USE DEF TypeInv, server, otadata, boot, reply, download
  <1>f. Fault => faults' \in 0..MaxFaults
    BY ConstantTypes DEF TypeOK, Fault
  <1>c. CASE UNCHANGED vars
    BY <1>c DEF vars, TypeOK, Answered
  <1>1. CASE Connect
    BY <1>1, <1>f, FailType DEF Connect, TypeOK, Answered, Pc, CheckPc
  <1>2. CASE SendInfoRequest
    BY <1>2, <1>f, FailType DEF SendInfoRequest, TypeOK, Answered, Pc, CheckPc
  <1>3. CASE ReadInfoHeader
    BY <1>3, <1>f, FailType DEF ReadInfoHeader, Arriving, TypeOK, Answered, Pc, CheckPc, Got
  <1>4. CASE ReadInfoBody
    BY <1>4, <1>f, FailType, ReturnType DEF ReadInfoBody, Arriving, TypeOK, Answered, Pc, CheckPc, Got
  <1>5. CASE ParseInfo
    <2>1. info \in Served
      BY <1>5 DEF ParseInfo, Answered
    <2>2. SizeRead \subseteq 0..(WordSize - 1)
      BY <2>1, SizeType, ConstantTypes DEF SizeRead
    <2>3. CASE \E e : Fail(e) /\ UNCHANGED faults
      BY <2>3, FailType
    <2>4. CASE /\ size' \in SizeRead
               /\ pc' = "fw_request"
               /\ UNCHANGED <<server, flash, otadata, boot, session, info, got, download, faults>>
      BY <2>2, <2>4 DEF TypeOK, Answered, Pc, CheckPc
    <2> QED
      BY <1>5, <2>3, <2>4 DEF ParseInfo
  <1>6. CASE RequestFirmware
    BY <1>6, <1>f, FailType, SizeType DEF RequestFirmware, TypeOK, Answered, Pc, CheckPc
  <1>7. CASE ReadFirmwareHeader
    <2>1. CASE Fault /\ Fail("Firmware")
      BY <2>1, FailType
    <2>2. ASSUME NEW n \in 0..Least(length, HeaderBuf),
                 pos' = n, write_buf' = Bytes(0, n), pc' = "open_partition",
                 UNCHANGED <<server, flash, otadata, boot, session, reply,
                             served, length, erased, bytes_written, faults>>
          PROVE  TypeInv'
      <3>1. n \in Nat /\ served \in Served
        BY <1>7, ConstantTypes DEF ReadFirmwareHeader, Answered, TypeOK, Least
      <3>2. write_buf' \in Seq(Byte)
        BY <2>2, <3>1, BytesType
      <3> QED
        BY <2>2, <3>1, <3>2 DEF TypeOK, Answered, Pc, CheckPc
    <2> QED
      BY <1>7, <2>1, <2>2 DEF ReadFirmwareHeader
  <1>8. CASE OpenPartition
    BY <1>8, <1>f, FailType DEF OpenPartition, TypeOK, Answered, Pc, CheckPc
  <1>9. CASE Erase
    <2> DEFINE end == erased + Least(EraseChunk, EraseLen(size) - erased)
    <2>1. CASE \E e : Fail(e) /\ (UNCHANGED faults \/ Fault)
      BY <2>1, FailType
    <2>2. CASE /\ pc' = "download"
               /\ UNCHANGED <<server, flash, otadata, boot, session, reply, download, faults>>
      BY <1>9, <2>2 DEF Erase, TypeOK, Answered, Pc, CheckPc
    <2>3. CASE /\ erased < EraseLen(size)
               /\ flash' = [flash EXCEPT ![Target] = Wiped(@, erased, end)]
               /\ erased' = end
               /\ UNCHANGED <<server, otadata, boot, pc, session, reply,
                              served, length, pos, bytes_written, write_buf, faults>>
      <3>1. end \in Nat /\ erased \in Nat
        BY <2>3, EraseLenType, ConstantTypes DEF TypeOK, Least
      <3>2. flash' \in [Slot -> [Offset -> Cell]]
        BY <2>3, <3>1, WipedType, TargetSlot DEF TypeOK
      <3> QED
        BY <2>3, <3>1, <3>2 DEF TypeOK, Answered
    <2>4. erased \in Nat /\ EraseLen(size) \in Nat
      BY EraseLenType DEF TypeOK
    <2> QED
      BY <1>9, <2>1, <2>2, <2>3, <2>4 DEF Erase
  <1>10. CASE ReadChunk
    <2>1. PICK n \in 1..Least(ChunkBuf - Len(write_buf), length - pos) :
               LET buf     == write_buf \o Bytes(pos, n)
                   aligned == AlignDown(Len(buf), WriteAlign)
                   out     == SubSeq(buf, 1, aligned)
               IN  \/ /\ Write(out)
                      /\ write_buf' = SubSeq(buf, aligned + 1, Len(buf))
                      /\ pos' = pos + n
                      /\ pc' \in {"panicked", pc}
                      /\ UNCHANGED <<server, otadata, boot, session, reply,
                                     served, length, erased, faults>>
                   \/ WriteFails(out)
      BY <1>10 DEF ReadChunk
    <2> DEFINE buf     == write_buf \o Bytes(pos, n)
               aligned == AlignDown(Len(buf), WriteAlign)
               out     == SubSeq(buf, 1, aligned)
    <2>2. served \in Served /\ pc = "download"
      BY <1>10 DEF ReadChunk, Answered
    <2>3. n \in Nat /\ out \in Seq(Byte) /\ SubSeq(buf, aligned + 1, Len(buf)) \in Seq(Byte)
      BY <2>2, ChunkParts
    <2>4. CASE WriteFails(out)
      BY <2>3, <2>4, WriteFailsType
    <2>5. CASE /\ Write(out)
               /\ write_buf' = SubSeq(buf, aligned + 1, Len(buf))
               /\ pos' = pos + n
               /\ pc' \in {"panicked", pc}
               /\ UNCHANGED <<server, otadata, boot, session, reply,
                              served, length, erased, faults>>
      <3> HIDE DEF buf, aligned, out
      <3>1. flash' \in [Slot -> [Offset -> Cell]] /\ bytes_written' \in Nat
        BY <2>3, <2>5, WriteType
      <3>2. write_buf' \in Seq(Byte) /\ pos' \in Nat
        BY <2>3, <2>5 DEF TypeOK
      <3> QED
        BY <2>2, <2>5, <3>1, <3>2 DEF TypeOK, Answered, Pc
    <2> QED
      BY <2>1, <2>4, <2>5
  <1>11. CASE Cut
    BY <1>11, <1>f DEF Cut, TypeOK, Answered
  <1>12. CASE EndOfStream
    <2>1. write_buf \in Seq(Byte)
      BY DEF TypeOK
    <2>2. CASE WriteFails(write_buf)
      BY <2>1, <2>2, WriteFailsType
    <2>3. CASE /\ Write(write_buf)
               /\ write_buf' = << >>
               /\ pc' = "verify"
               /\ session' = "closed"
               /\ UNCHANGED <<server, otadata, boot, reply, served, length, pos, erased, faults>>
      <3>1. flash' \in [Slot -> [Offset -> Cell]] /\ bytes_written' \in Nat
        BY <2>1, <2>3, WriteType
      <3>2. write_buf' \in Seq(Byte) /\ served \in Served
        BY <1>12, <2>3 DEF EndOfStream, Answered
      <3> QED
        BY <2>3, <3>1, <3>2 DEF TypeOK, Answered, Pc, CheckPc
    <2> QED
      BY <1>12, <2>2, <2>3 DEF EndOfStream
  <1>13. CASE ReadError
    BY <1>13, <1>f, FailType DEF ReadError
  <1>14. CASE Verify
    BY <1>14, <1>f, FailType DEF Verify, TypeOK, Answered, Pc, CheckPc
  <1>15. CASE Activate
    BY <1>15, <1>f, FailType, TargetSlot DEF Activate, TypeOK, Answered, Pc, CheckPc, OtaState
  <1>16. CASE MarkNew
    <2>1. CASE Fault /\ Fail("Ota")
      BY <2>1, FailType
    <2>2. CASE /\ pc' = "reset"
               /\ ota_state' = "New"
               /\ Clear
               /\ UNCHANGED <<server, flash, selected, boot, session, faults>>
      <3>1. Answered'
        BY <2>2 DEF Answered
      <3> QED
        BY <2>2, <3>1, ConstantTypes DEF Clear, TypeOK, Pc, CheckPc, OtaState, Got
    <2> QED
      BY <1>16, <2>1, <2>2 DEF MarkNew
  <1>17. CASE Reset
    BY <1>17, PowerDownType DEF Reset, TypeOK
  <1>18. CASE Boot
    <2> DEFINE reject == Rollback /\ ota_state = "PendingVerify"
               first  == IF reject THEN Twin(selected) ELSE selected
               slot   == IF Bootable(first) THEN first ELSE Twin(first)
    <2>1. first \in Slot /\ slot \in Slot
      BY DEF TypeOK, Twin, Slot
    <2>2. app' \in Release
      BY <1>18 DEF Boot, Bootable
    <2>3. selected' \in Slot /\ running' \in Slot
      BY <1>18, <2>1 DEF Boot
    <2>4. ota_state' \in OtaState
      BY <1>18 DEF Boot, TypeOK, OtaState
    <2>5. pc' = "booting" /\ UNCHANGED <<server, flash, session, reply, download, faults>>
      BY <1>18 DEF Boot
    <2> QED
      BY <2>2, <2>3, <2>4, <2>5 DEF TypeOK, Answered, Pc
  <1>19. CASE Startup
    BY <1>19, <1>f DEF Startup, TypeOK, Answered, Pc, CheckPc, OtaState
  <1>20. CASE StartupFails
    BY <1>20, <1>f DEF StartupFails, TypeOK, Answered, Pc, CheckPc
  <1>21. CASE BootFails
    BY <1>21, <1>f, PowerDownType DEF BootFails
  <1>22. CASE Crash
    BY <1>22, <1>f, PowerDownType DEF Crash
  <1>23. CASE \E r \in Served : Publish(r)
    BY <1>23 DEF Publish, TypeOK, Answered
  <1> QED
    BY <1>c, <1>1, <1>2, <1>3, <1>4, <1>5, <1>6, <1>7, <1>8, <1>9, <1>10, <1>11, <1>12,
       <1>13, <1>14, <1>15, <1>16, <1>17, <1>18, <1>19, <1>20, <1>21, <1>22, <1>23
    DEF Next, Device, Environment

(* The type invariant holds at the factory. *)
LEMMA TypeInit == Init => TypeInv
  BY OtaUpdateAssumption, ConstantTypes, SizeType
  DEF Init, TypeInv, TypeOK, Answered, Served, Slot, Offset, Cell, Byte, OtaState, Pc, Got

(* Every reachable state has the types TypeOK gives it: in particular no   *)
(* flash cell ever holds anything but a served byte, whatever the lengths  *)
(* of reads and of the release.                                            *)
THEOREM TypeCorrect == Spec => []TypeOK
  <1>1. TypeInv => TypeOK
    BY DEF TypeInv
  <1> QED
    BY <1>1, TypeInit, TypeStep, PTL DEF Spec

-----------------------------------------------------------------------------
(* The slot that runs. *)

(* Only the target slot is erased or written. *)
LEMMA RunningUntouched ==
  TypeInv /\ [Next]_vars => flash'[running] = flash[running]
  <1> SUFFICES ASSUME TypeInv, [Next]_vars PROVE flash'[running] = flash[running]
    OBVIOUS
  <1>1. \A cells : flash' = [flash EXCEPT ![Target] = cells] => flash'[running] = flash[running]
    BY TargetSlot DEF TypeInv, TypeOK
  <1>2. CASE UNCHANGED flash
    BY <1>2
  <1>3. CASE Erase
    BY <1>1, <1>3 DEF Erase, Fail
  <1>4. CASE ReadChunk
    BY <1>1, <1>4 DEF ReadChunk, Write, WriteFails
  <1>5. CASE EndOfStream
    BY <1>1, <1>5 DEF EndOfStream, Write, WriteFails
  <1> QED
    BY <1>2, <1>3, <1>4, <1>5
    DEF Next, Device, Environment, vars, Connect, SendInfoRequest, ReadInfoHeader,
        ReadInfoBody, ParseInfo, RequestFirmware, ReadFirmwareHeader, OpenPartition, Cut,
        ReadError, Verify, Activate, MarkNew, Reset, Boot, Startup, StartupFails,
        BootFails, Crash, Publish, Fail, PowerDown

(* The booted slot holds the image the device executes, powered or not. *)
Intact == Holds(running, app)

(* Every step leaves the image that runs as it was. *)
LEMMA IntactStep == TypeInv /\ Intact /\ [Next]_vars => Intact'
  <1> SUFFICES ASSUME TypeInv, Intact, [Next]_vars PROVE Intact'
    OBVIOUS
  <1>1. CASE UNCHANGED boot
    BY <1>1, RunningUntouched DEF Intact, Holds, boot
  <1>2. CASE Boot
    <2>1. \E slot \in Slot : /\ Bootable(slot)
                             /\ running' = slot
                             /\ app' = CHOOSE r \in Release : Holds(slot, r)
      BY <1>2 DEF Boot, TypeInv, TypeOK, Twin, Slot
    <2>2. Holds(running', app') /\ UNCHANGED flash
      BY <1>2, <2>1 DEF Bootable, Boot
    <2> QED
      BY <2>2 DEF Intact, Holds
  <1> QED
    BY <1>1, <1>2
    DEF Next, Device, Environment, vars, Connect, SendInfoRequest, ReadInfoHeader,
        ReadInfoBody, ParseInfo, RequestFirmware, ReadFirmwareHeader, OpenPartition, Erase,
        ReadChunk, EndOfStream, Cut, WriteFails,
        ReadError, Verify, Activate, MarkNew, Reset, Startup, StartupFails,
        BootFails, Crash, Publish, Fail, PowerDown

IntactInv == TypeInv /\ Intact

(* The inductive invariant about the image that runs. *)
LEMMA IntactInvariant == Spec => []IntactInv
  <1>1. Init => IntactInv
    <2> SUFFICES ASSUME Init PROVE IntactInv
      OBVIOUS
    <2>1. TypeInv
      BY TypeInit
    <2>2. SizeOf[Factory] \in 1..Capacity
      BY OtaUpdateAssumption
    <2>3. Intact
      BY <2>2, ConstantTypes DEF Init, Intact, Holds, Slot, Offset
    <2> QED
      BY <2>1, <2>3 DEF IntactInv
  <1>2. IntactInv /\ [Next]_vars => IntactInv'
    BY TypeStep, IntactStep DEF IntactInv
  <1> QED
    BY <1>1, <1>2, PTL DEF Spec

(* Whatever a check has done to the flash, the slot the device runs from   *)
(* holds its image, complete.                                              *)
THEOREM RunningStaysIntact == Spec => []RunningIntact
  <1>1. IntactInv => RunningIntact
    BY DEF IntactInv, Intact, RunningIntact
  <1> QED
    BY <1>1, IntactInvariant, PTL

(* There is no point of an update at which the loss of power leaves a      *)
(* device the bootloader finds no image for.                               *)
THEOREM NeverBricked == Spec => []AlwaysBootable
  <1>1. IntactInv => AlwaysBootable
    BY DEF IntactInv, TypeInv, TypeOK, Intact, AlwaysBootable, Bootable, Twin, Slot
  <1> QED
    BY <1>1, IntactInvariant, PTL

-----------------------------------------------------------------------------
(* The image that is activated. *)

(* Until the erase begins there is nothing to account for. *)
Fresh == pc \notin {"erase", "download", "verify", "activate", "mark_new", "panicked"} =>
           erased = 0 /\ bytes_written = 0

(* The bytes read are those written followed by those in the buffer. *)
Buffered ==
  pc \in {"open_partition", "erase", "download"} =>
    /\ pos = bytes_written + Len(write_buf)
    /\ \A i \in 1..Len(write_buf) : write_buf[i] = <<served, bytes_written + i - 1>>

Erasing ==
  pc = "erase" => /\ bytes_written = 0
                  /\ \A o \in Offset : o < erased => flash[Target][o] = Erased

(* Within the announced size, everything before bytes_written is the       *)
(* image and everything from there on is erased.                           *)
Written ==
  pc \in {"download", "verify", "activate", "mark_new"} =>
    /\ bytes_written <= Capacity
    /\ \A o \in Offset : size <= Capacity /\ o < size =>
         /\ o < bytes_written => flash[Target][o] = <<served, o>>
         /\ pc = "download" /\ o >= bytes_written => flash[Target][o] = Erased

Complete ==
  /\ pc \in {"verify", "activate", "mark_new"} => pos = bytes_written
  /\ pc \in {"activate", "mark_new"} => bytes_written = size

Transfer == Fresh /\ Buffered /\ Erasing /\ Written /\ Complete

TransferInv == TypeInv /\ Transfer

(* A slot that could take the image is erased as far as the image goes. *)
LEMMA EraseLenCovers ==
  ASSUME NEW n \in Nat, n <= Capacity
  PROVE  EraseLen(n) \in Nat /\ n <= EraseLen(n)
  <1>1. n + Page - 1 \in 0..(WordSize - 1)
    BY ConstantTypes, OtaUpdateAssumption
  <1>2. (n + Page - 1) % WordSize = n + Page - 1
    BY <1>1, ConstantTypes
  <1>3. /\ AlignDown(n + Page - 1, Page) \in Nat
        /\ n + Page - 1 - AlignDown(n + Page - 1, Page) < Page
    BY <1>1, AlignDownBounds, ConstantTypes
  <1> QED
    BY <1>2, <1>3, ConstantTypes DEF EraseLen

(* Returning from a check ends the transfer. *)
LEMMA ReturnTransfer ==
  ASSUME NEW result, NEW how, Return(result, how)
  PROVE  Transfer'
  BY DEF Return, AfterCheck, Clear, Transfer, Fresh, Buffered, Erasing, Written, Complete

(* Losing power ends the transfer. *)
LEMMA PowerDownTransfer == PowerDown => Transfer'
  BY DEF PowerDown, Clear, Transfer, Fresh, Buffered, Erasing, Written, Complete

(* A write of bytes that continue the image keeps the account. *)
LEMMA WriteExtends ==
  ASSUME TransferInv, pc = "download", NEW bs \in Seq(Byte), Write(bs),
         \A i \in 1..Len(bs) : bs[i] = <<served, bytes_written + i - 1>>
  PROVE  /\ bytes_written' = bytes_written + Len(bs)
         /\ bytes_written' <= Capacity
         /\ \A o \in Offset : size <= Capacity /\ o < size =>
              /\ o < bytes_written' => flash'[Target][o] = <<served, o>>
              /\ o >= bytes_written' => flash'[Target][o] = Erased
  <1>1. /\ bytes_written \in Nat /\ Len(bs) \in Nat /\ size \in Nat
        /\ flash \in [Slot -> [Offset -> Cell]] /\ Target \in Slot
    BY TargetSlot, ConstantTypes DEF TransferInv, TypeInv, TypeOK
  <1>2. bytes_written' = bytes_written + Len(bs)
    BY DEF Write
  <1>3. bytes_written' <= Capacity
    <2>1. AlignUp(Len(bs), WriteAlign) \in Nat /\ Len(bs) <= AlignUp(Len(bs), WriteAlign)
      BY <1>1, AlignUpBounds, ConstantTypes
    <2>2. bytes_written + AlignUp(Len(bs), WriteAlign) <= Capacity
      BY DEF Write, Fits
    <2> QED
      BY <1>1, <1>2, <2>1, <2>2, ConstantTypes
  <1>4. flash'[Target] = Programmed(flash[Target], bytes_written, bs)
    BY <1>1 DEF Write
  <1>5. ASSUME NEW o \in Offset, size <= Capacity, o < size
        PROVE  /\ o < bytes_written' => flash'[Target][o] = <<served, o>>
               /\ o >= bytes_written' => flash'[Target][o] = Erased
    <2>1. o \in Nat
      BY ConstantTypes DEF Offset
    <2>2. /\ o < bytes_written => flash[Target][o] = <<served, o>>
          /\ o >= bytes_written => flash[Target][o] = Erased
      BY <1>5 DEF TransferInv, Transfer, Written
    <2>3. CASE o \in bytes_written..(bytes_written + Len(bs) - 1)
      <3>1. bs[o - bytes_written + 1] = <<served, o>>
        <4> DEFINE i == o - bytes_written + 1
        <4>1. i \in 1..Len(bs)
          BY <1>1, <2>1, <2>3
        <4>2. bytes_written + i - 1 = o
          BY <1>1, <2>1
        <4> HIDE DEF i
        <4>3. bs[i] = <<served, bytes_written + i - 1>>
          BY <4>1
        <4>4. bs[i] = <<served, o>>
          BY <4>2, <4>3
        <4> QED
          BY <4>4 DEF i
      <3>2. flash'[Target][o] = bs[o - bytes_written + 1]
        BY <1>1, <1>4, <2>1, <2>2, <2>3 DEF Programmed
      <3> QED
        BY <1>1, <1>2, <2>1, <2>3, <3>1, <3>2
    <2>4. CASE o \notin bytes_written..(bytes_written + Len(bs) - 1)
      <3>1. flash'[Target][o] = flash[Target][o]
        BY <1>4, <2>4 DEF Programmed
      <3> QED
        BY <1>1, <1>2, <2>1, <2>2, <2>4, <3>1
    <2> QED
      BY <2>3, <2>4
  <1> QED
    BY <1>2, <1>3, <1>5

(* Every step keeps the account of where the bytes of the image are. *)
LEMMA TransferStep == TransferInv /\ [Next]_vars => Transfer'
  <1> SUFFICES ASSUME TransferInv, [Next]_vars PROVE Transfer'
    OBVIOUS
  <1> USE DEF TransferInv, server, otadata, boot, reply, download
  <1>r. \A result, how : Return(result, how) => Transfer'
    BY ReturnTransfer
  <1>f. \A e : Fail(e) => Transfer'
    BY ReturnTransfer DEF Fail
  <1>s. UNCHANGED <<flash, boot, reply, download>> /\ pc' = pc => Transfer'
    BY DEF Transfer, Fresh, Buffered, Erasing, Written, Complete, Target, Twin
  <1>e. ASSUME pc \notin {"erase", "download", "verify", "activate", "mark_new", "panicked"},
               UNCHANGED <<served, pos, erased, bytes_written, write_buf>>,
               pc' \notin {"erase", "download", "verify", "activate", "mark_new", "open_partition"}
        PROVE  Transfer'
    BY <1>e DEF Transfer, Fresh, Buffered, Erasing, Written, Complete
  <1>1. CASE Connect
    BY <1>1, <1>f, <1>e DEF Connect
  <1>2. CASE SendInfoRequest
    BY <1>2, <1>f, <1>e DEF SendInfoRequest
  <1>3. CASE ReadInfoHeader
    BY <1>3, <1>f, <1>e DEF ReadInfoHeader
  <1>4. CASE ReadInfoBody
    BY <1>4, <1>f, <1>r, <1>e DEF ReadInfoBody
  <1>5. CASE ParseInfo
    BY <1>5, <1>f, <1>e DEF ParseInfo
  <1>6. CASE RequestFirmware
    BY <1>6, <1>f DEF RequestFirmware, Transfer, Fresh, Buffered, Erasing, Written, Complete
  <1>7. CASE ReadFirmwareHeader
    <2>1. served \in Served /\ erased = 0 /\ bytes_written = 0
      BY <1>7 DEF ReadFirmwareHeader, TypeInv, Answered, Transfer, Fresh
    <2>2. ASSUME NEW n \in 0..Least(length, HeaderBuf),
                 pos' = n, write_buf' = Bytes(0, n), pc' = "open_partition",
                 UNCHANGED <<served, erased, bytes_written>>
          PROVE  Transfer'
      <3>1. n \in Nat
        BY ConstantTypes DEF TypeInv, TypeOK, Least
      <3>2. Len(Bytes(0, n)) = n /\ \A i \in 1..n : Bytes(0, n)[i] = <<served, 0 + i - 1>>
        BY <2>1, <3>1, BytesType DEF Bytes
      <3> HIDE DEF TransferInv
      <3> QED
        BY <2>1, <2>2, <3>1, <3>2 DEF Transfer, Fresh, Buffered, Erasing, Written, Complete
    <2> QED
      BY <1>7, <1>f, <2>2 DEF ReadFirmwareHeader
  <1>8. CASE OpenPartition
    <2>1. CASE /\ pc = "open_partition" /\ pc' = "erase"
               /\ UNCHANGED <<flash, boot, reply, download>>
      <3>1. erased = 0 /\ bytes_written = 0
        BY <2>1 DEF Transfer, Fresh
      <3>2. Buffered'
        BY <2>1 DEF Transfer, Buffered
      <3>3. Fresh' /\ Written' /\ Complete'
        BY <2>1 DEF Fresh, Written, Complete
      <3>4. Erasing'
        BY <2>1, <3>1 DEF Erasing, Offset
      <3> QED
        BY <3>2, <3>3, <3>4 DEF Transfer
    <2> QED
      BY <1>8, <1>f, <2>1 DEF OpenPartition
  <1>9. CASE Erase
    <2> DEFINE end == erased + Least(EraseChunk, EraseLen(size) - erased)
    <2>1. pc = "erase" /\ erased \in Nat /\ size \in 0..(WordSize - 1) /\ EraseLen(size) \in Nat
      BY <1>9, EraseLenType DEF Erase, TypeInv, TypeOK
    <2>2. bytes_written = 0 /\ \A o \in Offset : o < erased => flash[Target][o] = Erased
      BY <2>1 DEF Transfer, Erasing
    <2>3. CASE /\ erased >= EraseLen(size) /\ pc' = "download"
               /\ UNCHANGED <<flash, boot, reply, download>>
      <3>1. ASSUME NEW o \in Offset, size <= Capacity, o < size
            PROVE  flash[Target][o] = Erased
        <4>1. size <= EraseLen(size)
          BY <2>1, <3>1, EraseLenCovers, ConstantTypes
        <4>2. o < erased
          BY <2>1, <2>3, <3>1, <4>1, ConstantTypes DEF Offset
        <4> QED
          BY <2>2, <4>2
      <3>2. Written'
        BY <2>2, <2>3, <3>1, ConstantTypes DEF Written, Target, Twin, Offset
      <3>3. Buffered'
        BY <2>1, <2>3 DEF Transfer, Buffered
      <3>4. Fresh' /\ Erasing' /\ Complete'
        BY <2>3 DEF Fresh, Erasing, Complete
      <3> QED
        BY <3>2, <3>3, <3>4 DEF Transfer
    <2>4. CASE /\ flash' = [flash EXCEPT ![Target] = Wiped(@, erased, end)]
               /\ erased' = end
               /\ UNCHANGED <<boot, pc, served, pos, bytes_written, write_buf>>
      <3>1. end \in Nat
        BY <2>1, <1>9, ConstantTypes DEF Least, Erase
      <3>2. flash'[Target] = Wiped(flash[Target], erased, end)
        BY <2>4, TargetSlot DEF TypeInv, TypeOK
      <3>3. ASSUME NEW o \in Offset, o < end
            PROVE  flash'[Target][o] = Erased
        BY <2>1, <2>2, <3>1, <3>2, <3>3, ConstantTypes DEF Wiped, Offset
      <3>4. Target' = Target
        BY <2>4 DEF Target, Twin
      <3> HIDE DEF end
      <3>5. Erasing'
        BY <2>2, <2>4, <3>3, <3>4 DEF Erasing
      <3>6. Buffered'
        BY <2>1, <2>4 DEF Transfer, Buffered
      <3>7. Fresh' /\ Written' /\ Complete'
        BY <2>1, <2>4 DEF Fresh, Written, Complete
      <3> QED
        BY <3>5, <3>6, <3>7 DEF Transfer
    <2> QED
      BY <1>9, <1>f, <2>3, <2>4 DEF Erase
  <1>10. CASE ReadChunk
    <2>1. PICK n \in 1..Least(ChunkBuf - Len(write_buf), length - pos) :
               LET buf     == write_buf \o Bytes(pos, n)
                   aligned == AlignDown(Len(buf), WriteAlign)
                   out     == SubSeq(buf, 1, aligned)
               IN  \/ /\ Write(out)
                      /\ write_buf' = SubSeq(buf, aligned + 1, Len(buf))
                      /\ pos' = pos + n
                      /\ pc' \in {"panicked", pc}
                      /\ UNCHANGED <<running, size, served>>
                   \/ WriteFails(out)
      BY <1>10 DEF ReadChunk
    <2> DEFINE buf     == write_buf \o Bytes(pos, n)
               aligned == AlignDown(Len(buf), WriteAlign)
               out     == SubSeq(buf, 1, aligned)
               rest    == SubSeq(buf, aligned + 1, Len(buf))
    <2>2. /\ pc = "download" /\ served \in Served
          /\ pos \in Nat /\ bytes_written \in Nat /\ Len(write_buf) \in Nat
      BY <1>10 DEF ReadChunk, TypeInv, TypeOK, Answered
    <2>3. /\ n \in Nat
          /\ buf \in Seq(Byte) /\ Len(buf) = Len(write_buf) + n
          /\ \A i \in 1..Len(write_buf) : buf[i] = write_buf[i]
          /\ \A i \in (Len(write_buf) + 1)..Len(buf) :
               buf[i] = <<served, pos + i - Len(write_buf) - 1>>
          /\ aligned \in 0..Len(buf)
      BY <2>2, ChunkParts
    <2>4. /\ pos = bytes_written + Len(write_buf)
          /\ \A i \in 1..Len(write_buf) : write_buf[i] = <<served, bytes_written + i - 1>>
      BY <2>2 DEF Transfer, Buffered
    <2> HIDE DEF buf, aligned
    <2>5. ASSUME NEW i \in 1..Len(buf)
          PROVE  buf[i] = <<served, bytes_written + i - 1>>
      <3>1. CASE i \in 1..Len(write_buf)
        BY <2>3, <2>4, <3>1
      <3>2. CASE i \in (Len(write_buf) + 1)..Len(buf)
        <4>1. pos + i - Len(write_buf) - 1 = bytes_written + i - 1
          BY <2>2, <2>4
        <4> QED
          BY <2>3, <3>2, <4>1
      <3> QED
        BY <2>2, <2>3, <3>1, <3>2
    <2>6. /\ out \in Seq(Byte) /\ Len(out) = aligned
          /\ \A i \in 1..aligned : out[i] = buf[i]
      BY <2>3, SubSeqBytes
    <2>7. /\ rest \in Seq(Byte) /\ Len(rest) = Len(buf) - aligned
          /\ \A i \in 1..(Len(buf) - aligned) : rest[i] = buf[aligned + i]
      <3>1. /\ aligned + 1 \in 1..(Len(buf) + 1) /\ aligned + 1 <= Len(buf) + 1
            /\ Len(buf) \in 0..Len(buf) /\ Len(buf) \in Nat /\ aligned \in Nat
        BY <2>3
      <3>2. /\ rest \in Seq(Byte) /\ Len(rest) = Len(buf) - (aligned + 1) + 1
            /\ \A i \in 1..(Len(buf) - (aligned + 1) + 1) : rest[i] = buf[(aligned + 1) + i - 1]
        BY <2>3, <3>1, SubSeqBytes
      <3>3. Len(buf) - (aligned + 1) + 1 = Len(buf) - aligned
        BY <3>1
      <3>4. \A i \in 1..(Len(buf) - aligned) : (aligned + 1) + i - 1 = aligned + i
        BY <3>1
      <3> QED
        BY <3>2, <3>3, <3>4
    <2> HIDE DEF out, rest
    <2>8. CASE WriteFails(out)
      BY <1>r, <2>8 DEF WriteFails
    <2>9. CASE /\ Write(out) /\ write_buf' = rest /\ pos' = pos + n
               /\ pc' \in {"panicked", pc}
               /\ UNCHANGED <<running, size, served>>
      <3>1. \A i \in 1..Len(out) : out[i] = <<served, bytes_written + i - 1>>
        BY <2>3, <2>5, <2>6
      <3>2. /\ bytes_written' = bytes_written + aligned
            /\ bytes_written' <= Capacity
            /\ \A o \in Offset : size <= Capacity /\ o < size =>
                 /\ o < bytes_written' => flash'[Target][o] = <<served, o>>
                 /\ o >= bytes_written' => flash'[Target][o] = Erased
        BY <2>2, <2>6, <2>9, <3>1, WriteExtends
      <3>3. Target' = Target
        BY <2>9 DEF Target, Twin
      <3>4. Written'
        BY <2>9, <3>2, <3>3 DEF Written
      <3>5. pos' = bytes_written' + Len(write_buf')
        <4>1. Len(write_buf') = Len(write_buf) + n - aligned /\ aligned \in Nat
          BY <2>2, <2>3, <2>7, <2>9
        <4> QED
          BY <2>2, <2>3, <2>4, <2>9, <3>2, <4>1
      <3>6. ASSUME NEW i \in 1..Len(write_buf')
            PROVE  write_buf'[i] = <<served', bytes_written' + i - 1>>
        <4>1. aligned + i \in 1..Len(buf) /\ i \in 1..(Len(buf) - aligned)
          BY <2>3, <2>7, <2>9
        <4>2. rest[i] = <<served, bytes_written + (aligned + i) - 1>>
          BY <2>5, <2>7, <4>1
        <4>3. bytes_written + (aligned + i) - 1 = bytes_written' + i - 1
          BY <2>2, <2>3, <3>2, <4>1
        <4> QED
          BY <2>9, <4>2, <4>3
      <3>7. Buffered'
        BY <3>5, <3>6 DEF Buffered
      <3>8. Fresh' /\ Erasing' /\ Complete'
        BY <2>2, <2>9 DEF Fresh, Erasing, Complete
      <3> QED
        BY <3>4, <3>7, <3>8 DEF Transfer
    <2> QED
      BY <2>1, <2>8, <2>9 DEF buf, aligned, out, rest
  <1>11. CASE Cut
    BY <1>11 DEF Cut, Transfer, Fresh, Buffered, Erasing, Written, Complete, Target, Twin
  <1>12. CASE EndOfStream
    <2>1. CASE WriteFails(write_buf)
      BY <1>r, <2>1 DEF WriteFails
    <2>2. CASE /\ Write(write_buf) /\ write_buf' = << >> /\ pc' = "verify"
               /\ UNCHANGED <<running, size, served, pos>>
      <3>1. /\ pc = "download" /\ write_buf \in Seq(Byte)
            /\ pos = bytes_written + Len(write_buf)
            /\ \A i \in 1..Len(write_buf) : write_buf[i] = <<served, bytes_written + i - 1>>
        BY <1>12 DEF EndOfStream, TypeInv, TypeOK, Transfer, Buffered
      <3>2. /\ bytes_written' = bytes_written + Len(write_buf)
            /\ bytes_written' <= Capacity
            /\ \A o \in Offset :
                 size <= Capacity /\ o < size
                   => (o < bytes_written' => flash'[Target][o] = <<served, o>>)
        BY <2>2, <3>1, WriteExtends
      <3>3. Target' = Target
        BY <2>2 DEF Target, Twin
      <3>4. Written'
        BY <2>2, <3>2, <3>3 DEF Written
      <3>5. Fresh' /\ Buffered' /\ Erasing' /\ Complete'
        BY <2>2, <3>1, <3>2 DEF Fresh, Buffered, Erasing, Complete
      <3> QED
        BY <3>4, <3>5 DEF Transfer
    <2> QED
      BY <1>12, <2>1, <2>2 DEF EndOfStream
  <1>13. CASE ReadError
    BY <1>13, <1>f DEF ReadError
  <1>14. CASE Verify
    BY <1>14, <1>f DEF Verify, Transfer, Fresh, Buffered, Erasing, Written, Complete, Target, Twin
  <1>15. CASE Activate
    BY <1>15, <1>f DEF Activate, Transfer, Fresh, Buffered, Erasing, Written, Complete, Target, Twin
  <1>16. CASE MarkNew
    BY <1>16, <1>f
    DEF MarkNew, Clear, Transfer, Fresh, Buffered, Erasing, Written, Complete
  <1>17. CASE PowerDown
    BY <1>17, PowerDownTransfer
  <1>18. CASE Boot
    BY <1>18, <1>e DEF Boot
  <1>19. CASE Startup
    BY <1>19, <1>e DEF Startup
  <1>20. CASE StartupFails
    BY <1>20, <1>e DEF StartupFails
  <1>21. CASE UNCHANGED vars \/ \E r \in Served : Publish(r)
    BY <1>21, <1>s DEF vars, Publish
  <1> QED
    BY <1>1, <1>2, <1>3, <1>4, <1>5, <1>6, <1>7, <1>8, <1>9, <1>10, <1>11, <1>12,
       <1>13, <1>14, <1>15, <1>16, <1>17, <1>18, <1>19, <1>20, <1>21
    DEF Next, Device, Environment, Reset, BootFails, Crash

(* The inductive invariant of the download. *)
LEMMA TransferInvariant == Spec => []TransferInv
  <1>1. Init => TransferInv
    BY TypeInit DEF Init, TransferInv, Transfer, Fresh, Buffered, Erasing, Written, Complete
  <1>2. TransferInv /\ [Next]_vars => TransferInv'
    BY TypeStep, TransferStep DEF TransferInv
  <1> QED
    BY <1>1, <1>2, PTL DEF Spec

(* What is activated is, byte for byte up to the announced size, what one  *)
(* response carried, for every length of read, header, buffer and page.    *)
THEOREM ActivatedIsTransferred == Spec => []ActivatedImage
  <1>1. TransferInv => ActivatedImage
    <2> SUFFICES ASSUME TransferInv, pc \in {"activate", "mark_new"}
                 PROVE  /\ pos = size
                        /\ \A o \in 0..(size - 1) : flash[Target][o] = <<served, o>>
      BY DEF ActivatedImage
    <2>1. pos = size /\ bytes_written = size /\ size <= Capacity /\ size \in Nat
      BY ConstantTypes DEF TransferInv, TypeInv, TypeOK, Transfer, Written, Complete
    <2>2. ASSUME NEW o \in 0..(size - 1) PROVE flash[Target][o] = <<served, o>>
      <3>1. o \in Offset /\ o < size
        BY <2>1, ConstantTypes DEF Offset
      <3> QED
        BY <2>1, <3>1 DEF TransferInv, Transfer, Written
    <2> QED
      BY <2>1, <2>2
  <1> QED
    BY <1>1, TransferInvariant, PTL

-----------------------------------------------------------------------------
(* Progress. *)

(* One step forward of a check. *)
Advance ==
  \/ Stage' < Stage
  \/ pc' = pc /\ Left' < Left /\ Left' \in Nat

(* A check that returns goes back to the main loop or on to the reset. *)
LEMMA ReturnAdvances ==
  ASSUME pc \in CheckPc \ {"reset"}, pc' \in CheckPc, NEW result, NEW how, Return(result, how)
  PROVE  Advance
  <1>1. pc' = "reset"
    BY DEF Return, AfterCheck, CheckPc
  <1> QED
    BY <1>1 DEF Advance, Stage, CheckPc

(* No step of a check leads back, and its loops have a number of rounds    *)
(* that their first one knows: with a device that keeps running it is why  *)
(* a check ends.                                                           *)
THEOREM EachStepAdvances == Spec => CheckAdvances
  <1>1. TypeInv /\ [Next]_vars =>
          [{pc, pc'} \subseteq CheckPc => Advance]_<<pc, reply, download>>
    <2> SUFFICES ASSUME TypeInv, [Next]_vars, pc \in CheckPc, pc' \in CheckPc,
                        ~ UNCHANGED <<pc, reply, download>>
                 PROVE  Advance
      OBVIOUS
    <2> USE DEF reply, download
    <2>r. ASSUME NEW result, NEW how, Return(result, how), pc # "reset"
          PROVE  Advance
      BY <2>r, ReturnAdvances
    <2>f. \A e : Fail(e) /\ pc # "reset" => Advance
      BY <2>r DEF Fail
    <2>1. CASE SendInfoRequest \/ ReadInfoHeader
      BY <2>1, <2>f DEF SendInfoRequest, ReadInfoHeader, Advance, Stage
    <2>2. CASE ReadInfoBody
      <3>1. CASE pc = "info_body" /\ pc' = "parse_info"
        BY <3>1 DEF Advance, Stage
      <3>2. CASE pc = "info_body" /\ pc' = pc /\ \E n \in Arriving : n > got /\ got' = n
        <4>1. got \in 0..4 /\ got' \in 0..4 /\ got' > got
          BY <3>2 DEF Arriving, Got, TypeInv, TypeOK
        <4>2. Left = 4 - got /\ Left' = 4 - got'
          BY <3>2 DEF Left
        <4> QED
          BY <3>2, <4>1, <4>2 DEF Advance
      <3> QED
        BY <2>2, <2>f, <2>r, <3>1, <3>2 DEF ReadInfoBody
    <2>3. CASE ParseInfo
      BY <2>3, <2>f DEF ParseInfo, Advance, Stage
    <2>4. CASE RequestFirmware \/ ReadFirmwareHeader \/ OpenPartition
      BY <2>4, <2>f DEF RequestFirmware, ReadFirmwareHeader, OpenPartition, Advance, Stage
    <2>5. CASE Erase
      <3> DEFINE end == erased + Least(EraseChunk, EraseLen(size) - erased)
      <3>1. pc = "erase" /\ erased \in Nat /\ EraseLen(size) \in Nat
        BY <2>5, EraseLenType DEF Erase, TypeInv, TypeOK
      <3>2. CASE pc' = "download"
        BY <3>1, <3>2 DEF Advance, Stage
      <3>3. CASE erased < EraseLen(size) /\ erased' = end /\ UNCHANGED <<pc, size>>
        <4>1. end \in Nat /\ end > erased /\ end <= EraseLen(size)
          BY <3>1, <3>3, ConstantTypes DEF Least
        <4>2. Left = EraseLen(size) - erased /\ Left' = EraseLen(size) - end
          BY <3>1, <3>3 DEF Left
        <4> HIDE DEF end
        <4> QED
          BY <3>1, <3>3, <4>1, <4>2 DEF Advance
      <3> QED
        BY <2>5, <2>f, <3>1, <3>2, <3>3 DEF Erase
    <2>6. CASE ReadChunk
      <3>1. PICK n \in 1..Least(ChunkBuf - Len(write_buf), length - pos) :
                 \/ /\ pos' = pos + n /\ length' = length
                    /\ pc' \in {"panicked", pc}
                 \/ \E how : Return("Ota", how)
        BY <2>6 DEF ReadChunk, WriteFails
      <3>2. pc = "download" /\ length \in Nat /\ pos \in Nat
        BY <2>6 DEF ReadChunk, TypeInv, TypeOK
      <3>3. CASE pos' = pos + n /\ length' = length /\ pc' = pc
        <4>1. n \in Nat \ {0} /\ pos + n <= length
          BY <3>1, <3>2, ConstantTypes DEF Least, TypeInv, TypeOK
        <4>2. Left = length - pos /\ Left' = length - (pos + n)
          BY <3>2, <3>3 DEF Left
        <4> QED
          BY <3>2, <3>3, <4>1, <4>2 DEF Advance
      <3> QED
        BY <2>r, <3>1, <3>2, <3>3 DEF CheckPc
    <2>7. CASE Cut
      <3>1. /\ pc = "download" /\ pc' = pc /\ pos < length /\ length' = pos /\ pos' = pos
            /\ length \in Nat /\ pos \in Nat
        BY <2>7 DEF Cut, TypeInv, TypeOK
      <3>2. Left = length - pos /\ Left' = pos - pos
        BY <3>1 DEF Left
      <3> QED
        BY <3>1, <3>2 DEF Advance
    <2>8. CASE EndOfStream \/ ReadError
      BY <2>8, <2>f, <2>r DEF EndOfStream, ReadError, WriteFails, Advance, Stage
    <2>9. CASE Verify \/ Activate \/ MarkNew
      BY <2>9, <2>f DEF Verify, Activate, MarkNew, Advance, Stage
    <2>10. CASE PowerDown
      BY <2>10 DEF PowerDown, CheckPc
    <2>11. CASE Connect \/ Boot \/ Startup \/ StartupFails \/ BootFails
      BY <2>11 DEF Connect, Boot, Startup, StartupFails, BootFails, CheckPc
    <2>12. CASE UNCHANGED vars \/ \E r \in Served : Publish(r)
      BY <2>12 DEF vars, Publish
    <2> QED
      BY <2>1, <2>2, <2>3, <2>4, <2>5, <2>6, <2>7, <2>8, <2>9, <2>10, <2>11, <2>12
      DEF Next, Device, Environment, Reset, Crash
  <1>2. Spec => []TypeInv
    BY TypeInit, TypeStep, PTL DEF Spec
  <1> QED
    BY <1>1, <1>2, PTL DEF Spec, CheckAdvances, Advance
=============================================================================
