--------------------------- MODULE OtaSlots_proofs ---------------------------
(***************************************************************************)
(* What the two slots and the buffer of an update keep through any number  *)
(* of checks, failures and boots: the discipline of the writes, the image  *)
(* to fall back to, and the promise of DualSlot.  It rests on the          *)
(* invariants of OtaUpdate_proofs.                                         *)
(***************************************************************************)
EXTENDS OtaUpdate_proofs

-----------------------------------------------------------------------------
(* The buffer. *)

(* Multiples have no remainder. *)
LEMMA MultipleMod ==
  ASSUME NEW a \in Nat \ {0}, NEW k \in Int, k * a \in Nat
  PROVE  (k * a) % a = 0
  <1> DEFINE q == (k * a) \div a
             r == (k * a) % a
             d == k - q
  <1>1. q \in Int /\ r \in 0..(a - 1) /\ k * a = a * q + r
    OBVIOUS
  <1> HIDE DEF q, r
  <1>2. d \in Int /\ a * d = r
    BY <1>1
  <1> HIDE DEF d
  <1>3. d >= 1 => a * d >= a
    BY <1>2
  <1>4. d <= -1 => a * d <= -a
    BY <1>2
  <1>5. d = 0
    BY <1>1, <1>2, <1>3, <1>4
  <1>6. r = 0
    BY <1>2, <1>5
  <1> QED
    BY <1>6 DEF r

(* A number is its quotient and its remainder. *)
LEMMA DivMod ==
  ASSUME NEW a \in Nat \ {0}, NEW n \in Nat
  PROVE  n \div a \in Int /\ n % a \in 0..(a - 1) /\ n = (n \div a) * a + (n % a)
  <1> DEFINE q == n \div a
             r == n % a
  <1>1. q \in Int /\ r \in 0..(a - 1) /\ n = a * q + r
    OBVIOUS
  <1> HIDE DEF q, r
  <1>2. a * q = q * a
    BY <1>1
  <1>3. q \in Int /\ r \in 0..(a - 1) /\ n = q * a + r
    BY <1>1, <1>2
  <1> QED
    BY <1>3 DEF q, r

(* Aligned bytes behind aligned bytes end aligned. *)
LEMMA AlignedSum ==
  ASSUME NEW a \in Nat \ {0}, NEW m \in Nat, NEW n \in Nat, m % a = 0
  PROVE  (m + AlignDown(n, a)) % a = 0
  <1> DEFINE p == m \div a
             q == n \div a
  <1>1. p \in Int /\ q \in Int /\ m = p * a /\ AlignDown(n, a) = q * a
    BY DivMod DEF AlignDown
  <1>2. m + AlignDown(n, a) \in Nat
    BY AlignDownBounds
  <1> HIDE DEF p, q
  <1>3. m + AlignDown(n, a) = (p + q) * a /\ p + q \in Int
    BY <1>1
  <1> QED
    BY <1>2, <1>3, MultipleMod

(* From the header on there is room in the buffer, and what is written     *)
(* ends at a multiple of WriteAlign.                                       *)
Aligned ==
  pc \in {"open_partition", "erase", "download"} =>
    Len(write_buf) < ChunkBuf /\ bytes_written % WriteAlign = 0

(* A round of the loop leaves less than WriteAlign bytes. *)
LEMMA ChunkAligned ==
  ASSUME TransferInv, Aligned, ReadChunk, pc' # "idle", pc' # "reset"
  PROVE  Aligned'
  <1>1. PICK n \in 1..Least(ChunkBuf - Len(write_buf), length - pos) :
               LET buf     == write_buf \o Bytes(pos, n)
                   aligned == AlignDown(Len(buf), WriteAlign)
               IN  Write(SubSeq(buf, 1, aligned)) /\ write_buf' = SubSeq(buf, aligned + 1, Len(buf))
    BY DEF ReadChunk, WriteFails, Return, AfterCheck
  <1> DEFINE buf     == write_buf \o Bytes(pos, n)
             aligned == AlignDown(Len(buf), WriteAlign)
  <1>2. /\ served \in Served /\ TypeInv /\ bytes_written \in Nat
        /\ bytes_written % WriteAlign = 0
    BY DEF ReadChunk, TransferInv, TypeInv, TypeOK, Answered, Aligned
  <1>3. buf \in Seq(Byte) /\ aligned \in 0..Len(buf) /\ Len(buf) \in Nat
    <2>1. buf \in Seq(Byte) /\ aligned \in 0..Len(buf)
      BY <1>2, ChunkParts
    <2> HIDE DEF buf
    <2> QED
      BY <2>1
  <1>4. Len(buf) - aligned < WriteAlign /\ (bytes_written + aligned) % WriteAlign = 0
    BY <1>2, <1>3, AlignDownBounds, AlignedSum, ConstantTypes
  <1> HIDE DEF buf, aligned
  <1>5. Len(SubSeq(buf, 1, aligned)) = aligned
    BY <1>3, SubSeqBytes
  <1>6. bytes_written' = bytes_written + aligned
    BY <1>1, <1>5 DEF Write, buf, aligned
  <1>7. Len(write_buf') = Len(buf) - aligned
    <2>1. /\ aligned + 1 \in 1..(Len(buf) + 1) /\ aligned + 1 <= Len(buf) + 1
          /\ Len(buf) \in 0..Len(buf)
      BY <1>3
    <2>2. Len(SubSeq(buf, aligned + 1, Len(buf))) = Len(buf) - (aligned + 1) + 1
      BY <1>3, <2>1, SubSeqBytes
    <2> QED
      BY <1>1, <1>3, <2>2 DEF buf, aligned
  <1>8. WriteAlign <= ChunkBuf
    BY OtaUpdateAssumption
  <1> QED
    BY <1>3, <1>4, <1>6, <1>7, <1>8, ConstantTypes DEF Aligned

(* So does every other step. *)
LEMMA AlignedStep == TransferInv /\ Aligned /\ [Next]_vars => Aligned'
  <1> SUFFICES ASSUME TransferInv, Aligned, [Next]_vars,
                      pc' \in {"open_partition", "erase", "download"}
               PROVE  Aligned'
    BY DEF Aligned
  <1>1. CASE ReadChunk
    BY <1>1, ChunkAligned
  <1>2. CASE ReadFirmwareHeader
    <2>1. PICK n \in 0..Least(length, HeaderBuf) :
                 write_buf' = Bytes(0, n) /\ UNCHANGED bytes_written
      BY <1>2 DEF ReadFirmwareHeader, Fail, Return, AfterCheck
    <2>2. bytes_written = 0 /\ served \in Served /\ length \in Nat
      BY <1>2 DEF ReadFirmwareHeader, TransferInv, Transfer, Fresh, TypeInv, TypeOK, Answered
    <2>3. n \in Nat /\ n <= HeaderBuf
      BY <2>2, ConstantTypes DEF Least
    <2>4. Len(write_buf') = n
      BY <2>1, <2>2, <2>3, BytesType
    <2>5. HeaderBuf < ChunkBuf
      BY OtaUpdateAssumption
    <2>6. 0 % WriteAlign = 0
      BY ConstantTypes
    <2> QED
      BY <2>1, <2>2, <2>3, <2>4, <2>5, <2>6, ConstantTypes DEF Aligned
  <1>3. CASE /\ pc \in {"open_partition", "erase", "download"}
             /\ UNCHANGED <<write_buf, bytes_written>>
    BY <1>3 DEF Aligned
  <1> QED
    BY <1>1, <1>2, <1>3
    DEF Next, Device, Environment, vars, download, Connect, SendInfoRequest, ReadInfoHeader,
        ReadInfoBody, ParseInfo, RequestFirmware, OpenPartition, Erase, EndOfStream, Cut,
        WriteFails, ReadError, Verify, Activate, MarkNew, Reset, Boot, Startup, StartupFails,
        BootFails, Crash, Publish, Fail, Return, AfterCheck, PowerDown

(* Whenever the download loop reads, there is room to read into, what is   *)
(* written ends aligned, and what is not written yet is erased.            *)
THEOREM BufferKept == Spec => []BufferDiscipline
  <1>1. Init => Aligned
    BY DEF Init, Aligned
  <1>2. TransferInv /\ Aligned /\ [Next]_vars => Aligned'
    BY AlignedStep
  <1>3. TransferInv /\ Aligned => BufferDiscipline
    <2> SUFFICES ASSUME TransferInv, Aligned, pc = "download"
                 PROVE  /\ Len(write_buf) < ChunkBuf
                        /\ bytes_written % WriteAlign = 0
                        /\ bytes_written + Len(write_buf) = pos
                        /\ size <= Capacity =>
                             \A o \in bytes_written..(size - 1) : flash[Target][o] = Erased
      BY DEF BufferDiscipline
    <2>1. bytes_written \in Nat /\ size \in Nat /\ Capacity \in Nat
      BY ConstantTypes DEF TransferInv, TypeInv, TypeOK
    <2>2. ASSUME size <= Capacity, NEW o \in bytes_written..(size - 1)
          PROVE  flash[Target][o] = Erased
      <3>1. o \in Offset /\ o < size /\ o >= bytes_written
        BY <2>1, <2>2 DEF Offset
      <3> QED
        BY <2>2, <3>1 DEF TransferInv, Transfer, Written
    <2> QED
      BY <2>2 DEF Aligned, TransferInv, Transfer, Buffered
  <1> QED
    BY <1>1, <1>2, <1>3, TransferInvariant, PTL DEF Spec

-----------------------------------------------------------------------------
(* The image to fall back to. *)

(* A slot is only marked New after it was selected, and with rollback the  *)
(* mark does not outlive the next boot.                                    *)
Marked ==
  /\ pc = "mark_new" => selected = Target
  /\ ota_state = "New" => pc \in {"reset", "off"} /\ selected = Target

(* Every step keeps New on the slot that was not booted. *)
LEMMA MarkedStep ==
  ASSUME Rollback, TypeInv, Marked, [Next]_vars
  PROVE  Marked'
  <1> USE DEF Marked, otadata, boot, Target
  <1>f. \A e : Fail(e) /\ ota_state # "New" => Marked'
    BY DEF Fail, Return, AfterCheck
  <1>p. PowerDown => Marked'
    BY DEF PowerDown
  <1>s. CASE pc \notin {"reset", "off"} /\ pc' # "mark_new" /\ UNCHANGED <<otadata, boot>>
    BY <1>s
  <1>1. CASE Activate
    BY <1>1, <1>f DEF Activate
  <1>2. CASE MarkNew
    BY <1>2, <1>f DEF MarkNew
  <1>3. CASE Boot
    BY <1>3 DEF Boot
  <1>4. CASE Startup
    BY <1>4 DEF Startup
  <1>5. CASE UNCHANGED <<pc, otadata, boot>>
    BY <1>5
  <1> QED
    BY <1>p, <1>s, <1>1, <1>2, <1>3, <1>4, <1>5
    DEF Next, Device, Environment, vars, Connect, SendInfoRequest, ReadInfoHeader,
        ReadInfoBody, ParseInfo, RequestFirmware, ReadFirmwareHeader, OpenPartition, Erase,
        ReadChunk, EndOfStream, Cut, WriteFails, ReadError, Verify, Reset, StartupFails,
        BootFails, Crash, Publish, Fail, Return, AfterCheck

(* The image that is tried has one beside it. *)
Tried == pc = "booting" /\ ota_state = "PendingVerify" => Bootable(Twin(selected))

(* The bootloader tries the image that was marked New, or falls back to    *)
(* the one before, and in both cases the latter stays complete.            *)
LEMMA TriedStep ==
  ASSUME Rollback, IntactInv, Marked, Tried, [Next]_vars
  PROVE  Tried'
  <1>1. CASE Boot
    <2> SUFFICES ASSUME ota_state' = "PendingVerify"
                 PROVE  Bootable(Twin(selected))'
      BY DEF Tried
    <2>1. /\ running \in Slot /\ selected \in Slot /\ app \in Release
          /\ Holds(running, app) /\ UNCHANGED flash
      BY <1>1 DEF IntactInv, TypeInv, TypeOK, Intact, Boot
    <2>2. ota_state = "New"
      BY <1>1 DEF Boot
    <2>3. selected = Target /\ selected' = selected
      BY <1>1, <2>2 DEF Boot, Marked
    <2>4. Twin(selected)' = running
      BY <2>1, <2>3 DEF Target, Twin, Slot
    <2> QED
      BY <2>1, <2>4 DEF Bootable, Holds
  <1>2. CASE pc' = "booting" /\ UNCHANGED <<pc, flash, otadata>>
    BY <1>2 DEF Tried, Bootable, Holds, Twin, otadata
  <1>3. CASE pc' # "booting"
    BY <1>3 DEF Tried
  <1> QED
    BY <1>1, <1>2, <1>3
    DEF Next, Device, Environment, vars, Connect, SendInfoRequest, ReadInfoHeader,
        ReadInfoBody, ParseInfo, RequestFirmware, ReadFirmwareHeader, OpenPartition, Erase,
        ReadChunk, EndOfStream, Cut, WriteFails, ReadError, Verify, Activate, MarkNew, Reset,
        Startup, StartupFails, BootFails, Crash, Publish, Fail, Return, AfterCheck, PowerDown

(* With rollback, an image that is new or being tried always has a         *)
(* complete image beside it.                                               *)
THEOREM FallbackStays ==
  ASSUME Rollback
  PROVE  Spec => []FallbackKept
  <1>1. Init => Marked /\ Tried
    BY DEF Init, Marked, Tried
  <1>2. IntactInv /\ Marked /\ Tried /\ [Next]_vars => Marked' /\ Tried'
    BY MarkedStep, TriedStep DEF IntactInv
  <1>3. IntactInv /\ Marked /\ Tried => FallbackKept
    <2> SUFFICES ASSUME IntactInv, Marked, pc = "off", ota_state = "New"
                 PROVE  Bootable(Twin(selected))
      BY DEF FallbackKept, Tried
    <2>1. Twin(selected) = running
      BY DEF IntactInv, TypeInv, TypeOK, Marked, Target, Twin, Slot
    <2> QED
      BY <2>1 DEF IntactInv, TypeInv, TypeOK, Intact, Bootable
  <1> QED
    BY <1>1, <1>2, <1>3, IntactInvariant, PTL DEF Spec

-----------------------------------------------------------------------------
(* Two slots. *)

(* A slot holds one image at most. *)
LEMMA OneImage ==
  ASSUME NEW s, NEW q \in Release, NEW r \in Release, Holds(s, q), Holds(s, r)
  PROVE  q = r
  <1>1. 0 \in 0..(SizeOf[q] - 1) /\ 0 \in 0..(SizeOf[r] - 1)
    BY ConstantTypes DEF Holds
  <1> QED
    BY <1>1 DEF Holds

(* An image begins with its first byte. *)
LEMMA FirstByte ==
  ASSUME NEW s, NEW r \in Release, Holds(s, r)
  PROVE  flash[s][0] = <<r, 0>>
  <1>1. 0 \in 0..(SizeOf[r] - 1)
    BY ConstantTypes DEF Holds
  <1> QED
    BY <1>1 DEF Holds

(* What a run of bytes does to the first cell. *)
LEMMA ProgrammedFirst ==
  ASSUME NEW cells \in [Offset -> Cell], NEW off \in Nat, NEW bs \in Seq(Byte)
  PROVE  \/ Programmed(cells, off, bs)[0] \in {cells[0], Torn}
         \/ /\ cells[0] = Erased
            /\ \E i \in 1..Len(bs) : Programmed(cells, off, bs)[0] = bs[i]
  <1>1. 0 \in Offset
    BY ConstantTypes DEF Offset
  <1>2. CASE 0 \notin off..(off + Len(bs) - 1) \/ cells[0] # Erased
    BY <1>1, <1>2 DEF Programmed
  <1>3. CASE 0 \in off..(off + Len(bs) - 1) /\ cells[0] = Erased
    <2>1. 0 - off + 1 \in 1..Len(bs)
      BY <1>3
    <2>2. Programmed(cells, off, bs)[0] = bs[0 - off + 1]
      BY <1>1, <1>3 DEF Programmed
    <2> QED
      BY <1>3, <2>1, <2>2
  <1> QED
    BY <1>2, <1>3

(* What is written are bytes of the response. *)
OfResponse(bs) == \A i \in 1..Len(bs) : bs[i] \in {served} \X Nat

(* The buffer of a download holds bytes of the response. *)
LEMMA BufferOfResponse ==
  ASSUME TransferInv, pc = "download"
  PROVE  write_buf \in Seq(Byte) /\ OfResponse(write_buf)
  <1>1. write_buf \in Seq(Byte) /\ bytes_written \in Nat
    BY DEF TransferInv, TypeInv, TypeOK
  <1>2. ASSUME NEW i \in 1..Len(write_buf)
        PROVE  write_buf[i] \in {served} \X Nat
    <2>1. write_buf[i] = <<served, bytes_written + i - 1>>
      BY DEF TransferInv, Transfer, Buffered
    <2>2. bytes_written + i - 1 \in Nat
      BY <1>1
    <2>3. \A k \in Nat : <<served, k>> \in {served} \X Nat
      OBVIOUS
    <2> QED
      BY <2>1, <2>2, <2>3
  <1> QED
    BY <1>1, <1>2 DEF OfResponse

(* So does what is written of it and of the next read. *)
LEMMA ChunkOfResponse ==
  ASSUME TransferInv, pc = "download",
         NEW n \in 1..Least(ChunkBuf - Len(write_buf), length - pos)
  PROVE  LET buf == write_buf \o Bytes(pos, n)
             out == SubSeq(buf, 1, AlignDown(Len(buf), WriteAlign))
         IN  out \in Seq(Byte) /\ OfResponse(out)
  <1> DEFINE buf     == write_buf \o Bytes(pos, n)
             aligned == AlignDown(Len(buf), WriteAlign)
             out     == SubSeq(buf, 1, aligned)
  <1>1. TypeInv /\ served \in Served /\ pos \in Nat /\ Len(write_buf) \in Nat
    BY DEF TransferInv, TypeInv, TypeOK, Answered
  <1>2. /\ buf \in Seq(Byte) /\ Len(buf) = Len(write_buf) + n /\ n \in Nat
        /\ \A i \in 1..Len(write_buf) : buf[i] = write_buf[i]
        /\ \A i \in (Len(write_buf) + 1)..Len(buf) :
             buf[i] = <<served, pos + i - Len(write_buf) - 1>>
        /\ aligned \in 0..Len(buf)
    BY <1>1, ChunkParts
  <1> HIDE DEF buf, aligned
  <1>3. ASSUME NEW i \in 1..Len(buf)
        PROVE  buf[i] \in {served} \X Nat
    <2>1. CASE i \in 1..Len(write_buf)
      BY <1>2, <2>1, BufferOfResponse DEF OfResponse
    <2>2. CASE i \in (Len(write_buf) + 1)..Len(buf)
      <3>1. pos + i - Len(write_buf) - 1 \in Nat
        BY <1>1, <2>2
      <3>2. buf[i] = <<served, pos + i - Len(write_buf) - 1>>
        BY <1>2, <2>2
      <3>3. \A k \in Nat : <<served, k>> \in {served} \X Nat
        OBVIOUS
      <3> QED
        BY <3>1, <3>2, <3>3
    <2> QED
      BY <1>1, <1>2, <2>1, <2>2
  <1>4. /\ out \in Seq(Byte) /\ Len(out) = aligned
        /\ \A i \in 1..aligned : out[i] = buf[i]
    BY <1>2, SubSeqBytes
  <1>5. OfResponse(out)
    BY <1>2, <1>3, <1>4 DEF OfResponse
  <1> QED
    BY <1>4, <1>5 DEF buf, aligned

(* The first cell of the target stays, is erased, is spoilt, or takes a    *)
(* byte of the response after an erase: one image never turns into another *)
(* in one step.                                                            *)
LEMMA FirstCell ==
  ASSUME TransferInv, [Next]_vars
  PROVE  \/ flash'[Target][0] \in {flash[Target][0], Erased, Torn}
         \/ /\ pc = "download" /\ flash[Target][0] = Erased
            /\ flash'[Target][0] \in {served} \X Nat
  <1>1. flash \in [Slot -> [Offset -> Cell]] /\ Target \in Slot /\ 0 \in Offset
    BY TargetSlot, ConstantTypes DEF TransferInv, TypeInv, TypeOK, Offset
  <1>2. ASSUME pc = "download", NEW bs \in Seq(Byte), OfResponse(bs),
               flash' = [flash EXCEPT ![Target] = Programmed(@, bytes_written, bs)]
        PROVE  \/ flash'[Target][0] \in {flash[Target][0], Torn}
               \/ flash[Target][0] = Erased /\ flash'[Target][0] \in {served} \X Nat
    <2>1. flash'[Target] = Programmed(flash[Target], bytes_written, bs)
      BY <1>1, <1>2
    <2>2. bytes_written \in Nat /\ flash[Target] \in [Offset -> Cell]
      BY <1>1 DEF TransferInv, TypeInv, TypeOK
    <2>3. \/ flash'[Target][0] \in {flash[Target][0], Torn}
          \/ /\ flash[Target][0] = Erased
             /\ \E i \in 1..Len(bs) : flash'[Target][0] = bs[i]
      BY <1>2, <2>1, <2>2, ProgrammedFirst
    <2> QED
      BY <1>2, <2>3 DEF OfResponse
  <1>3. ASSUME pc = "download", NEW bs \in Seq(Byte), OfResponse(bs),
               Write(bs) \/ WriteFails(bs)
        PROVE  \/ flash'[Target][0] \in {flash[Target][0], Torn}
               \/ flash[Target][0] = Erased /\ flash'[Target][0] \in {served} \X Nat
    <2>1. CASE Write(bs)
      BY <1>2, <1>3, <2>1 DEF Write
    <2>2. CASE UNCHANGED flash
      BY <2>2
    <2>3. ASSUME NEW n \in 0..(Len(bs) - 1),
                 flash' = [flash EXCEPT ![Target] =
                             Programmed(@, bytes_written, SubSeq(bs, 1, n))]
          PROVE  \/ flash'[Target][0] \in {flash[Target][0], Torn}
                 \/ flash[Target][0] = Erased /\ flash'[Target][0] \in {served} \X Nat
      <3>1. SubSeq(bs, 1, n) \in Seq(Byte) /\ OfResponse(SubSeq(bs, 1, n))
        BY <1>3, SubSeqBytes DEF OfResponse
      <3> QED
        BY <1>2, <1>3, <2>3, <3>1
    <2> QED
      BY <1>3, <2>1, <2>2, <2>3 DEF WriteFails
  <1>4. CASE Erase
    <2>1. ASSUME NEW m, NEW n, flash' = [flash EXCEPT ![Target] = Wiped(@, m, n)]
          PROVE  flash'[Target][0] \in {flash[Target][0], Erased}
      BY <1>1, <2>1 DEF Wiped
    <2> QED
      BY <1>4, <2>1 DEF Erase, Fail
  <1>5. CASE ReadChunk
    <2>1. pc = "download"
      BY <1>5 DEF ReadChunk
    <2>2. PICK n \in 1..Least(ChunkBuf - Len(write_buf), length - pos) :
                 LET buf == write_buf \o Bytes(pos, n)
                     out == SubSeq(buf, 1, AlignDown(Len(buf), WriteAlign))
                 IN  Write(out) \/ WriteFails(out)
      BY <1>5 DEF ReadChunk
    <2> QED
      BY <1>3, <2>1, <2>2, ChunkOfResponse
  <1>6. CASE EndOfStream
    <2>1. pc = "download" /\ (Write(write_buf) \/ WriteFails(write_buf))
      BY <1>6 DEF EndOfStream
    <2> QED
      BY <1>3, <2>1, BufferOfResponse
  <1>7. CASE UNCHANGED flash
    BY <1>7
  <1> QED
    BY <1>4, <1>5, <1>6, <1>7
    DEF Next, Device, Environment, vars, Connect, SendInfoRequest, ReadInfoHeader,
        ReadInfoBody, ParseInfo, RequestFirmware, ReadFirmwareHeader, OpenPartition, Cut,
        ReadError, Verify, Activate, MarkNew, Reset, Boot, Startup, StartupFails,
        BootFails, Crash, Publish, Fail, PowerDown

(* Only the bootloader changes what runs. *)
LEMMA BootOrNot == [Next]_vars => Boot \/ UNCHANGED boot
  BY DEF Next, Device, Environment, vars, Connect, SendInfoRequest, ReadInfoHeader,
      ReadInfoBody, ParseInfo, RequestFirmware, ReadFirmwareHeader, OpenPartition, Erase,
      ReadChunk, EndOfStream, Cut, WriteFails, ReadError, Verify, Activate, MarkNew,
      Reset, Startup, StartupFails, BootFails, Crash, Publish, Fail, PowerDown

(* The image of the other slot, or none. *)
LEMMA SpareImage ==
  /\ Spare # None => Spare \in Release /\ Holds(Twin(running), Spare)
  /\ Spare = None => ~ Bootable(Twin(running))
  BY OtaUpdateAssumption DEF Spare, Bootable, Served

SpareInv == TransferInv /\ Intact

(* A step that boots nothing installs or spoils the image of the other     *)
(* slot, or does nothing to it.                                            *)
LEMMA SpareStep ==
  ASSUME SpareInv, [Next]_vars, UNCHANGED boot
  PROVE  Abstract!Spoil \/ (\E r \in Release : Abstract!Install(r)) \/ UNCHANGED <<app, Spare>>
  <1>1. app' = app /\ Twin(running)' = Twin(running) /\ Target = Twin(running)
    BY DEF boot, Twin, Target
  <1>2. Spare' # None => Spare' \in Release /\ flash'[Twin(running)][0] = <<Spare', 0>>
    <2> SUFFICES ASSUME Spare' # None
                 PROVE  Spare' \in Release /\ flash'[Twin(running)][0] = <<Spare', 0>>
      OBVIOUS
    <2>1. \E r \in Release : Holds(Twin(running), r)'
      BY <1>1 DEF Spare, Bootable
    <2>2. Spare' = CHOOSE r \in Release : Holds(Twin(running), r)'
      BY <1>1, <2>1 DEF Spare, Bootable
    <2>3. Spare' \in Release /\ Holds(Twin(running), Spare)'
      BY <2>1, <2>2
    <2>4. 0 \in 0..(SizeOf[Spare'] - 1)
      BY <2>3, ConstantTypes DEF Holds
    <2> QED
      BY <1>1, <2>3, <2>4 DEF Holds
  <1>3. CASE Spare = None
    BY <1>1, <1>2, <1>3 DEF Abstract!Install
  <1>4. CASE Spare # None
    <2>1. flash[Target][0] = <<Spare, 0>> /\ Spare \in Release
      BY <1>1, <1>4, SpareImage, FirstByte
    <2>2. <<Spare, 0>> \notin {Erased, Torn}
      BY <2>1, OtaUpdateAssumption DEF Served
    <2>3. flash'[Target][0] \in {<<Spare, 0>>, Erased, Torn}
      BY <2>1, <2>2, FirstCell DEF SpareInv
    <2>4. CASE Spare' = None
      BY <1>1, <1>4, <2>4 DEF Abstract!Spoil
    <2>5. CASE Spare' # None
      <3>1. <<Spare', 0>> \in {<<Spare, 0>>, Erased, Torn} /\ Spare' \in Release
        BY <1>1, <1>2, <2>3, <2>5
      <3>2. <<Spare', 0>> \notin {Erased, Torn}
        BY <3>1, OtaUpdateAssumption DEF Served
      <3> QED
        BY <1>1, <3>1, <3>2
    <2> QED
      BY <2>4, <2>5
  <1> QED
    BY <1>3, <1>4

(* A boot stays in its slot or swaps the two. *)
LEMMA BootSwaps ==
  ASSUME SpareInv, Boot
  PROVE  Abstract!Swap \/ UNCHANGED <<app, Spare>>
  <1>1. /\ running \in Slot /\ app \in Release /\ selected \in Slot
        /\ Holds(running, app) /\ UNCHANGED flash
    BY DEF SpareInv, TransferInv, TypeInv, TypeOK, Intact, Boot
  <1>2. PICK slot \in Slot : /\ Bootable(slot)
                             /\ running' = slot
                             /\ app' = CHOOSE r \in Release : Holds(slot, r)
    BY <1>1 DEF Boot, Twin, Slot
  <1>3. app' \in Release /\ Holds(slot, app')
    BY <1>2 DEF Bootable
  <1>4. CASE slot = running
    <2>1. app' = app
      BY <1>1, <1>3, <1>4, OneImage
    <2>2. Twin(running)' = Twin(running)
      BY <1>2, <1>4 DEF Twin
    <2>3. Spare' = Spare
      BY <1>1, <2>2 DEF Spare, Bootable, Holds
    <2> QED
      BY <2>1, <2>3
  <1>5. CASE slot # running
    <2>1. slot = Twin(running) /\ Twin(running)' = running
      BY <1>1, <1>2, <1>5 DEF Twin, Slot
    <2>2. app' = Spare /\ Spare # None
      BY <1>2, <1>3, <2>1, OtaUpdateAssumption DEF Spare, Served
    <2>3. Spare' = CHOOSE r \in Release : Holds(running, r)
      <3>1. Bootable(running)
        BY <1>1 DEF Bootable
      <3>2. Bootable(Twin(running))'
        BY <1>1, <2>1, <3>1 DEF Bootable, Holds
      <3> QED
        BY <1>1, <2>1, <3>2 DEF Spare, Holds
    <2>4. Spare' = app
      <3>1. Spare' \in Release /\ Holds(running, Spare')
        BY <1>1, <2>3
      <3> QED
        BY <1>1, <3>1, OneImage
    <2> QED
      BY <2>2, <2>4 DEF Abstract!Swap
  <1> QED
    BY <1>4, <1>5

(* The slots keep the promise of DualSlot: an update spoils and rewrites   *)
(* the spare slot only, and a boot is the one step that changes what runs, *)
(* to a complete image.                                                    *)
THEOREM UpdateRefines == Spec => ImplementsDualSlot
  <1>1. Init => Abstract!Init
    <2> SUFFICES ASSUME Init PROVE app = Factory /\ Spare = None
      BY DEF Abstract!Init
    <2>1. Twin(running) = 1
      BY DEF Init, Twin
    <2>2. ASSUME NEW r \in Release PROVE <<r, 0>> # Erased
      <3>1. <<r, 0>> \in Served \X Nat
        BY DEF Served
      <3> QED
        BY <3>1, OtaUpdateAssumption
    <2>3. flash[1][0] = Erased
      BY ConstantTypes DEF Init, Slot, Offset
    <2>4. ~ Bootable(Twin(running))
      BY <2>1, <2>2, <2>3, FirstByte DEF Bootable
    <2> QED
      BY <2>4 DEF Init, Spare
  <1>2. SpareInv /\ [Next]_vars => [Abstract!Next]_(Abstract!vars)
    <2> SUFFICES ASSUME SpareInv, [Next]_vars
                 PROVE  [Abstract!Next]_(Abstract!vars)
      OBVIOUS
    <2>1. CASE Boot
      BY <2>1, BootSwaps DEF Abstract!Next, Abstract!vars
    <2>2. CASE UNCHANGED boot
      BY <2>2, SpareStep DEF Abstract!Next, Abstract!vars
    <2> QED
      BY <2>1, <2>2, BootOrNot
  <1>3. Spec => []SpareInv
    BY TransferInvariant, IntactInvariant, PTL DEF SpareInv, IntactInv
  <1> QED
    BY <1>1, <1>2, <1>3, PTL DEF Spec, ImplementsDualSlot, Abstract!Spec

=============================================================================
