-------------------------- MODULE Transport_proofs --------------------------
(***************************************************************************)
(* What holds of a connection for every size of records, buffers and       *)
(* streams, and any number of retries.                                     *)
(***************************************************************************)
EXTENDS Transport, SequenceTheorems, TLAPS

(* The types of the constants, one by one. *)
LEMMA ConstantTypes ==
  /\ MaxRetries \in Nat \ {0} /\ Room \in Nat \ {0}
  /\ MaxBuf \in Nat \ {0} /\ MaxStream \in Nat \ {0}
  BY TransportAssumption

-----------------------------------------------------------------------------
(* Stretches of a stream. *)

(* A stretch of a stream that ends within the bound is a sequence of its   *)
(* bytes.                                                                  *)
LEMMA AfterType ==
  ASSUME NEW p \in Nat, NEW n \in Nat, p + n <= MaxStream
  PROVE  After(p, n) \in Seq(1..MaxStream) /\ Len(After(p, n)) = n
  <1>1. \A i \in 1..n : p + i \in 1..MaxStream
    BY ConstantTypes
  <1> QED
    BY <1>1 DEF After

(* The head of a stream is the stretch after nothing. *)
LEMMA StreamIsAfter == \A n \in Nat : Stream(n) = After(0, n)
  BY DEF Stream, After

(* No bytes are the empty sequence. *)
LEMMA AfterNothing == \A p \in Nat : After(p, 0) = << >>
  BY DEF After

(* Concatenation and equality of the sequences at hand. *)
LEMMA Concat ==
  ASSUME NEW s \in Seq(1..MaxStream), NEW t \in Seq(1..MaxStream)
  PROVE  /\ s \o t \in Seq(1..MaxStream)
         /\ Len(s \o t) = Len(s) + Len(t)
         /\ \A i \in 1..(Len(s) + Len(t)) :
              (s \o t)[i] = IF i <= Len(s) THEN s[i] ELSE t[i - Len(s)]
  BY ConcatProperties

(* Sequences with the same elements are equal. *)
LEMMA Equal ==
  ASSUME NEW s \in Seq(1..MaxStream), NEW t \in Seq(1..MaxStream),
         Len(s) = Len(t), \A i \in 1..Len(s) : s[i] = t[i]
  PROVE  s = t
  BY SeqEqual

(* A stretch, and the one that follows it, are one stretch. *)
LEMMA AfterConcat ==
  ASSUME NEW p \in Nat, NEW m \in Nat, NEW n \in Nat, p + m + n <= MaxStream
  PROVE  After(p, m) \o After(p + m, n) = After(p, m + n)
  <1> DEFINE s == After(p, m)
             t == After(p + m, n)
             u == After(p, m + n)
  <1>1. s \in Seq(1..MaxStream) /\ Len(s) = m
    <2>1. p + m <= MaxStream
      BY ConstantTypes
    <2> QED
      BY <2>1, AfterType
  <1>2. t \in Seq(1..MaxStream) /\ Len(t) = n
    <2>1. p + m \in Nat /\ (p + m) + n <= MaxStream
      BY ConstantTypes
    <2> QED
      BY <2>1, AfterType
  <1>3. u \in Seq(1..MaxStream) /\ Len(u) = m + n
    <2>1. m + n \in Nat /\ p + (m + n) <= MaxStream
      BY ConstantTypes
    <2> QED
      BY <2>1, AfterType
  <1>4. /\ s \o t \in Seq(1..MaxStream) /\ Len(s \o t) = m + n
        /\ \A i \in 1..(m + n) : (s \o t)[i] = IF i <= m THEN s[i] ELSE t[i - m]
    <2> HIDE DEF s, t
    <2> QED
      BY <1>1, <1>2, Concat
  <1>5. \A i \in 1..(m + n) : (IF i <= m THEN s[i] ELSE t[i - m]) = u[i]
    BY DEF After
  <1> HIDE DEF s, t, u
  <1>6. s \o t = u
    BY <1>3, <1>4, <1>5, Equal
  <1> QED
    BY <1>6 DEF s, t, u

(* A part of a stretch is a stretch. *)
LEMMA AfterSubSeq ==
  ASSUME NEW p \in Nat, NEW n \in Nat, p + n <= MaxStream,
         NEW j \in 0..n, NEW k \in j..n
  PROVE  SubSeq(After(p, n), j + 1, k) = After(p + j, k - j)
  <1> DEFINE s == After(p, n)
             t == After(p + j, k - j)
  <1>1. s \in Seq(1..MaxStream) /\ Len(s) = n
    BY AfterType
  <1>2. SubSeq(s, j + 1, k) = [i \in 1..(k - j) |-> s[i + j]]
    <2> HIDE DEF s
    <2>1. SubSeq(s, j + 1, k) = [i \in 1..(1 + k - (j + 1)) |-> s[i + (j + 1) - 1]]
      BY <1>1
    <2>2. 1 + k - (j + 1) = k - j /\ \A i \in 1..(k - j) : i + (j + 1) - 1 = i + j
      OBVIOUS
    <2> QED
      BY <2>1, <2>2
  <1>3. \A i \in 1..(k - j) : s[i + j] = t[i]
    BY DEF After
  <1>4. t = [i \in 1..(k - j) |-> t[i]]
    BY DEF After
  <1> HIDE DEF s, t
  <1>5. SubSeq(s, j + 1, k) = t
    BY <1>2, <1>3, <1>4
  <1> QED
    BY <1>5 DEF s, t

(* No bytes are a sequence of bytes. *)
LEMMA EmptyType == << >> \in Seq(1..MaxStream)
  OBVIOUS

(* Parts of a sequence of bytes. *)
LEMMA SubSeqType ==
  ASSUME NEW s \in Seq(1..MaxStream), NEW j \in 0..Len(s), NEW k \in j..Len(s)
  PROVE  SubSeq(s, j + 1, k) \in Seq(1..MaxStream)
  <1>1. SubSeq(s, j + 1, k) = [i \in 1..(1 + k - (j + 1)) |-> s[i + (j + 1) - 1]]
    OBVIOUS
  <1>2. 1 + k - (j + 1) = k - j /\ k - j \in Nat
    OBVIOUS
  <1>3. \A i \in 1..(k - j) : s[i + (j + 1) - 1] \in 1..MaxStream
    <2>1. \A i \in 1..(k - j) : i + (j + 1) - 1 \in 1..Len(s)
      OBVIOUS
    <2>2. \A i \in 1..Len(s) : s[i] \in 1..MaxStream
      BY ElementOfSeq
    <2> QED
      BY <2>1, <2>2
  <1>4. [i \in 1..(k - j) |-> s[i + (j + 1) - 1]] \in Seq(1..MaxStream)
    BY <1>2, <1>3
  <1> QED
    BY <1>1, <1>2, <1>4

-----------------------------------------------------------------------------
(* The invariant. *)

Making == {"dns", "tcp", "certs", "handshake"}
Writing == {"write", "auto_flush", "probe"}
Reading == {"read", "read_exact"}

(* The static is initialised when the pointer is stored. *)
Certs == inits = IF certs THEN 1 ELSE 0

(* Without a session there are no streams. *)
Lifecycle ==
  /\ session = "open" <=> pc \notin Making /\ session # "none"
  /\ session = "none" =>
       /\ pc \in Making \cup {"idle"}
       /\ asked = 0 /\ buffered = << >> /\ sent = << >> /\ ~ short /\ ~ broken
       /\ consumed = 0 /\ taken = << >>

(* Only a write has something in the record buffer, or one that failed,    *)
(* and after a failure nothing is written.                                 *)
Records ==
  /\ pc \in Writing \cup {"flush"} => ~ broken
  /\ pc \in {"write", "probe"} => buffered = << >>
  /\ pc \notin Writing /\ ~ broken => buffered = << >>
  /\ pc \in Writing => left <= asked

(* What is buffered follows what is sent. *)
Lengths == Len(sent) + Len(buffered)
InLine ==
  /\ sent = After(0, Len(sent))
  /\ buffered = After(Len(sent), Len(buffered))
  /\ Lengths <= MaxStream

(* Both are what was asked for, up to what the write under way still has   *)
(* to hand over.                                                           *)
Written ==
  ~ short =>
    /\ InLine
    /\ Lengths <= asked
    /\ pc \in Writing => Lengths = asked - left
    /\ pc \notin Writing /\ ~ broken => Len(sent) = asked

(* The callers have what was read before the operation under way, and the  *)
(* filled part of its buffer follows.                                      *)
Reads ==
  /\ pc \notin Reading => into = << >> /\ taken = After(0, consumed)
  /\ pc = "read" => left = Len(into)
  /\ pc \in Reading =>
       /\ left <= Len(into) /\ Filled <= consumed
       /\ taken = After(0, consumed - Filled)
       /\ \A i \in 1..Filled : into[i] = (consumed - Filled) + i

IInv == TypeOK /\ Certs /\ Lifecycle /\ Records /\ Written /\ Reads

(* A session that is gone leaves nothing behind. *)
LEMMA GoneKeeps ==
  ASSUME IInv, Gone, UNCHANGED static
  PROVE  IInv'
  <1> USE ConstantTypes DEF IInv, Gone, static
  <1>1. TypeOK'
    <2>1. config' \in [Field -> BOOLEAN] /\ certs' \in BOOLEAN /\ inits' \in 0..1
      BY DEF TypeOK
    <2>2. attempt' \in 0..(MaxRetries - 1) /\ left' \in 0..MaxBuf
          /\ asked' \in 0..MaxStream /\ consumed' \in 0..MaxStream
      OBVIOUS
    <2>3. buffered' \in Seq(1..MaxStream) /\ sent' \in Seq(1..MaxStream)
          /\ taken' \in Seq(1..MaxStream) /\ into' \in Seq(0..MaxStream)
      BY EmptyType
    <2> QED
      BY <2>1, <2>2, <2>3 DEF TypeOK
  <1>2. Certs'
    BY DEF Certs
  <1>3. Lifecycle' /\ Records'
    BY DEF Lifecycle, Records, Making, Writing
  <1>4. Written'
    BY DEF Written, InLine, Lengths, After, Writing
  <1>5. Reads'
    BY DEF Reads, Reading, After
  <1> QED
    BY <1>1, <1>2, <1>3, <1>4, <1>5

(* The invariant holds at the start. *)
LEMMA InitInv == Init => IInv
  <1> SUFFICES ASSUME Init PROVE IInv
    OBVIOUS
  <1> USE ConstantTypes DEF Init
  <1>1. TypeOK
    <2>1. attempt \in 0..(MaxRetries - 1) /\ left \in 0..MaxBuf
          /\ asked \in 0..MaxStream /\ consumed \in 0..MaxStream
      OBVIOUS
    <2>2. buffered \in Seq(1..MaxStream) /\ sent \in Seq(1..MaxStream)
          /\ taken \in Seq(1..MaxStream) /\ into \in Seq(0..MaxStream)
      BY EmptyType
    <2>3. inits \in 0..1
      OBVIOUS
    <2>4. config \in [Field -> BOOLEAN] /\ certs \in BOOLEAN /\ session \in {"none", "open"}
          /\ all \in BOOLEAN /\ short \in BOOLEAN /\ broken \in BOOLEAN
      OBVIOUS
    <2> QED
      BY <2>1, <2>2, <2>3, <2>4 DEF TypeOK
  <1>2. Certs
    BY DEF Certs
  <1>3. Lifecycle /\ Records
    BY DEF Lifecycle, Records, Making, Writing
  <1>4. Written
    BY DEF Written, InLine, Lengths, After, Writing
  <1>5. Reads
    BY DEF Reads, Reading, After
  <1> QED
    BY <1>1, <1>2, <1>3, <1>4, <1>5 DEF IInv

(* Making a connection. *)
LEMMA MakingKeeps ==
  ASSUME IInv, Connect \/ Establish("dns", "tcp") \/ Establish("tcp", "certs")
               \/ LoadCerts \/ Handshake
  PROVE  IInv'
  <1> USE DEF IInv
  <1>1. CASE Gone /\ UNCHANGED static
    BY <1>1, GoneKeeps
  <1>2. CASE ~ (Gone /\ UNCHANGED static)
    <2>1. /\ pc' \in Making \cup {"idle"} /\ (pc' = "idle" => session' = "open")
          /\ (session' = "open" => pc' = "idle")
          /\ session' \in {"none", "open"}
          /\ UNCHANGED <<config, attempt, left, writing, reading>>
          /\ session = "none"
      <3>1. session = "none"
        <4>1. pc \in Making \/ session = "none"
          BY DEF Connect, Establish, LoadCerts, Handshake, Making
        <4> QED
          BY <4>1 DEF Lifecycle, TypeOK
      <3>2. CASE Connect
        BY <3>1, <3>2 DEF Connect, Making, static
      <3>3. CASE Establish("dns", "tcp") \/ Establish("tcp", "certs")
        BY <1>2, <3>1, <3>3 DEF Establish, Making, static
      <3>4. CASE LoadCerts
        BY <1>2, <3>1, <3>4 DEF LoadCerts, Making, static
      <3>5. CASE Handshake
        BY <1>2, <3>1, <3>5 DEF Handshake, Making, static
      <3> QED
        BY <3>2, <3>3, <3>4, <3>5
    <2>2. Certs' /\ inits' \in 0..1 /\ certs' \in BOOLEAN
      <3>1. CASE UNCHANGED static
        BY <3>1 DEF Certs, static, TypeOK
      <3>2. CASE ~ certs /\ certs' = TRUE /\ inits' = inits + 1
        BY <3>2 DEF Certs, TypeOK
      <3> QED
        BY <1>2, <3>1, <3>2 DEF Connect, Establish, LoadCerts, Handshake, static
    <2>3. TypeOK'
      BY <2>1, <2>2 DEF TypeOK, Making, writing, reading
    <2>4. Lifecycle' /\ Records'
      BY <2>1 DEF Lifecycle, Records, Making, Writing, writing, reading
    <2>5. Written'
      BY <2>1 DEF Written, InLine, Lengths, Lifecycle, Making, Writing, writing, After
    <2>6. Reads'
      BY <2>1 DEF Reads, Reading, Lifecycle, Making, reading
    <2> QED
      BY <2>2, <2>3, <2>4, <2>5, <2>6
  <1> QED
    BY <1>1, <1>2

-----------------------------------------------------------------------------
(* Flushes. *)

(* A flush moves the record buffer to the peer. *)
LEMMA FlushedMoves ==
  ASSUME TypeOK, Flushed
  PROVE  /\ sent' \in Seq(1..MaxStream) /\ Len(sent') = Lengths
         /\ buffered' = << >>
         /\ InLine => sent' = After(0, Lengths)
  <1>1. sent \in Seq(1..MaxStream) /\ buffered \in Seq(1..MaxStream)
    BY DEF TypeOK
  <1>2. Len(sent) \in Nat /\ Len(buffered) \in Nat
    BY <1>1
  <1>3. sent' = sent \o buffered /\ buffered' = << >>
    BY DEF Flushed
  <1>4. sent \o buffered \in Seq(1..MaxStream) /\ Len(sent \o buffered) = Lengths
    BY <1>1, Concat DEF Lengths
  <1>5. ASSUME InLine PROVE sent' = After(0, Lengths)
    <2>1. 0 + Len(sent) + Len(buffered) <= MaxStream /\ 0 + Len(sent) = Len(sent)
      BY <1>2, <1>5 DEF InLine, Lengths
    <2>2. After(0, Len(sent)) \o After(0 + Len(sent), Len(buffered))
            = After(0, Len(sent) + Len(buffered))
      BY <1>2, <2>1, AfterConcat
    <2> QED
      BY <1>3, <1>5, <2>1, <2>2 DEF InLine, Lengths
  <1> QED
    BY <1>3, <1>4, <1>5

(* A flush that fails has moved a part, and what it kept is in line.       *)
LEMMA FlushFailedMoves ==
  ASSUME TypeOK, FlushFailed
  PROVE  /\ sent' \in Seq(1..MaxStream) /\ buffered' \in Seq(1..MaxStream)
         /\ Len(sent) <= Len(sent') /\ Lengths' <= Lengths
         /\ InLine => InLine'
         /\ buffered = << >> => buffered' = << >> /\ sent' = sent
  <1>1. sent \in Seq(1..MaxStream) /\ buffered \in Seq(1..MaxStream)
    BY DEF TypeOK
  <1>2. Len(sent) \in Nat /\ Len(buffered) \in Nat
    BY <1>1
  <1>3. PICK k \in 0..Len(buffered) :
          /\ sent' = sent \o SubSeq(buffered, 1, k)
          /\ buffered' \in {SubSeq(buffered, k + 1, Len(buffered)), << >>}
    BY DEF FlushFailed
  <1> DEFINE s == SubSeq(buffered, 1, k)
             t == SubSeq(buffered, k + 1, Len(buffered))
  <1>4. s \in Seq(1..MaxStream) /\ Len(s) = k
    <2>1. 0 \in 0..Len(buffered) /\ k \in 0..Len(buffered) /\ 0 + 1 = 1
      BY <1>2
    <2>2. s \in Seq(1..MaxStream)
      BY <1>1, <2>1, SubSeqType
    <2>3. Len(s) = k
      BY <1>1
    <2> QED
      BY <2>2, <2>3
  <1>5. t \in Seq(1..MaxStream) /\ Len(t) = Len(buffered) - k
    <2>1. k \in 0..Len(buffered) /\ Len(buffered) \in k..Len(buffered)
      BY <1>2
    <2>2. t \in Seq(1..MaxStream)
      BY <1>1, <2>1, SubSeqType
    <2>3. Len(t) = Len(buffered) - k
      BY <1>1, <1>2
    <2> QED
      BY <2>2, <2>3
  <1>6. sent' \in Seq(1..MaxStream) /\ Len(sent') = Len(sent) + k
    <2> HIDE DEF s, t
    <2> QED
      BY <1>1, <1>3, <1>4, Concat DEF s
  <1>7. buffered' \in Seq(1..MaxStream) /\ Len(buffered') \in {0, Len(buffered) - k}
    BY <1>3, <1>5, EmptyType
  <1>8. Len(sent) <= Len(sent') /\ Lengths' <= Lengths
    BY <1>2, <1>6, <1>7 DEF Lengths
  <1>9. ASSUME InLine PROVE InLine'
    <2> DEFINE p == Len(sent)
               n == Len(buffered)
    <2>1. /\ p \in Nat /\ n \in Nat /\ p + n <= MaxStream
          /\ 0 \in 0..n /\ k \in 0..n /\ n \in k..n
          /\ 0 + 1 = 1 /\ p + 0 = p /\ k - 0 = k /\ 0 + p = p
      BY <1>2, <1>9 DEF InLine, Lengths
    <2>2. buffered = After(p, n) /\ sent = After(0, p)
      BY <1>9 DEF InLine
    <2>3. s = After(p, k)
      <3> HIDE DEF p, n
      <3>1. SubSeq(After(p, n), 0 + 1, k) = After(p + 0, k - 0)
        BY <2>1, AfterSubSeq
      <3> QED
        BY <2>1, <2>2, <3>1
    <2>4. t = After(p + k, n - k)
      <3>1. SubSeq(After(p, n), k + 1, n) = After(p + k, n - k)
        <4> HIDE DEF p, n
        <4> QED
          BY <2>1, AfterSubSeq
      <3> QED
        BY <2>2, <3>1
    <2>5. sent' = After(0, p + k)
      <3>1. k \in Nat /\ 0 + p + k <= MaxStream
        BY <2>1, ConstantTypes
      <3>2. After(0, p) \o After(0 + p, k) = After(0, p + k)
        <4> HIDE DEF p, n
        <4> QED
          BY <2>1, <3>1, AfterConcat
      <3> QED
        BY <1>3, <2>1, <2>2, <2>3, <3>2
    <2>6. Len(sent') = p + k
      BY <1>6
    <2>7. buffered' = After(Len(sent'), Len(buffered'))
      <3>1. CASE buffered' = << >>
        <4>1. Len(buffered') = 0 /\ Len(sent') \in Nat
          BY <1>6, <3>1
        <4> QED
          BY <3>1, <4>1, AfterNothing
      <3>2. CASE buffered' = t
        BY <1>5, <2>4, <2>6, <3>2
      <3> QED
        BY <1>3, <3>1, <3>2
    <2>8. Lengths' <= MaxStream
      BY <1>6, <1>7, <2>1, ConstantTypes DEF Lengths
    <2> QED
      BY <2>5, <2>6, <2>7, <2>8 DEF InLine
  <1>10. ASSUME buffered = << >> PROVE buffered' = << >> /\ sent' = sent
    <2>1. k = 0 /\ Len(buffered) = 0
      BY <1>10
    <2>2. s = << >> /\ t = << >>
      <3>1. s \in Seq(1..MaxStream) /\ Len(s) = 0
        BY <1>4, <2>1
      <3>2. t \in Seq(1..MaxStream) /\ Len(t) = 0
        BY <1>5, <2>1
      <3> HIDE DEF s, t
      <3> QED
        BY <3>1, <3>2, EmptySeq
    <2>3. sent \o << >> = sent
      BY <1>1, ConcatEmptySeq
    <2> QED
      BY <1>3, <2>2, <2>3
  <1> QED
    BY <1>6, <1>7, <1>8, <1>9, <1>10

-----------------------------------------------------------------------------
(* Writing. *)

(* The writing side of the invariant, and the rest of it. *)
Kept == /\ config' \in [Field -> BOOLEAN] /\ certs' \in BOOLEAN /\ inits' \in 0..1
        /\ session' = session /\ session = "open" /\ Certs'

(* What a step of a session leaves alone. *)
LEMMA KeepsStatic ==
  ASSUME IInv, UNCHANGED <<static, session>>, session = "open"
  PROVE  Kept
  BY DEF IInv, TypeOK, Certs, static, Kept

(* The types of the writing side. *)
Counts ==
  /\ pc \in Writing \cup {"idle", "flush"}
  /\ attempt \in 0..(MaxRetries - 1) /\ left \in 0..MaxBuf
  /\ asked \in 0..MaxStream
  /\ buffered \in Seq(1..MaxStream) /\ sent \in Seq(1..MaxStream)
Flags == all \in BOOLEAN /\ short \in BOOLEAN /\ broken \in BOOLEAN

(* The steps of a session that do not read. *)
LEMMA WriterKeeps ==
  ASSUME IInv, UNCHANGED <<static, session, reading>>, session = "open",
         pc \notin {"read", "read_exact"}, Counts', Flags', Records', Written'
  PROVE  IInv'
  <1>1. Kept
    BY KeepsStatic DEF IInv
  <1>2. TypeOK'
    <2>1. consumed' \in 0..MaxStream /\ taken' \in Seq(1..MaxStream)
          /\ into' \in Seq(0..MaxStream)
      BY DEF IInv, TypeOK, reading
    <2>2. pc' \in {"idle", "dns", "tcp", "certs", "handshake",
                   "write", "auto_flush", "probe", "flush", "read", "read_exact"}
      BY DEF Counts, Writing
    <2> QED
      BY <1>1, <2>1, <2>2 DEF TypeOK, Kept, Counts, Flags
  <1>3. Lifecycle'
    BY <1>1 DEF Lifecycle, Kept, Counts, Making, Writing
  <1>4. Reads'
    BY DEF IInv, Reads, Reading, Counts, Writing, reading
  <1> QED
    BY <1>1, <1>2, <1>3, <1>4 DEF IInv, Kept

(* A session is open wherever one of its operations is under way. *)
LEMMA UnderWayOpen ==
  ASSUME IInv, pc \notin Making \cup {"idle"}
  PROVE  session = "open"
  BY DEF IInv, Lifecycle, TypeOK

(* A write begins. *)
LEMMA BeginWriteKeeps ==
  ASSUME IInv, NEW n \in 0..MaxBuf, NEW whole \in BOOLEAN, BeginWrite(n, whole)
  PROVE  IInv'
  <1> USE DEF BeginWrite, Ready
  <1>1. /\ asked \in Nat /\ sent \in Seq(1..MaxStream) /\ buffered \in Seq(1..MaxStream)
        /\ attempt \in 0..(MaxRetries - 1) /\ short \in BOOLEAN
    BY DEF IInv, TypeOK
  <1>2. buffered = << >> /\ ~ broken
    BY DEF IInv, Records, Writing
  <1>3. asked' = asked + n /\ asked' \in 0..MaxStream /\ left' = n
    BY <1>1, ConstantTypes
  <1>4. Records'
    BY <1>1, <1>2, <1>3 DEF Records, Writing
  <1>5. Written'
    <2> SUFFICES ASSUME ~ short PROVE Written'
      BY DEF Written
    <2>1. InLine /\ Len(sent) = asked
      BY <1>2 DEF IInv, Written, Writing
    <2>2. Len(buffered) = 0
      BY <1>2
    <2>3. InLine' /\ Lengths' = asked
      BY <1>1, <2>1, <2>2 DEF InLine, Lengths
    <2>4. Len(sent') = asked
      BY <2>1
    <2> QED
      BY <1>1, <1>3, <2>3, <2>4 DEF Written, Writing
  <1>6. Flags'
    BY DEF IInv, TypeOK, Flags
  <1>7. Counts'
    BY <1>1, <1>2, <1>3 DEF Counts, Writing
  <1> QED
    BY <1>4, <1>5, <1>6, <1>7, WriterKeeps

(* The session takes a part of the buffer, or fails. *)
LEMMA SessionWriteKeeps ==
  ASSUME IInv, SessionWrite
  PROVE  IInv'
  <1> USE DEF SessionWrite
  <1>1. /\ asked \in 0..MaxStream /\ left \in 0..MaxBuf /\ left <= asked
        /\ sent \in Seq(1..MaxStream) /\ buffered = << >>
        /\ attempt \in 0..(MaxRetries - 1) /\ all \in BOOLEAN
        /\ short \in BOOLEAN /\ broken = FALSE /\ session = "open"
    BY UnderWayOpen DEF IInv, TypeOK, Records, Writing, Making
  <1>2. CASE Retry /\ UNCHANGED writing
    <2>1. attempt' \in 0..(MaxRetries - 1)
      BY <1>1, <1>2, ConstantTypes DEF Retry
    <2>2. UNCHANGED <<pc, left, all, asked, buffered, sent, short, broken>>
      BY <1>2 DEF Retry, writing
    <2>3. Records' /\ Written'
      BY <2>2 DEF IInv, Records, Written, InLine, Lengths
    <2>4. Flags' /\ Counts'
      BY <1>1, <2>1, <2>2, EmptyType DEF IInv, TypeOK, Flags, Counts, Writing
    <2> QED
      BY <1>1, <2>3, <2>4, WriterKeeps
  <1>3. CASE LastAttempt /\ Done /\ broken' = TRUE
             /\ UNCHANGED <<all, asked, buffered, sent, short>>
    <2>1. pc' = "idle" /\ attempt' = 0 /\ left' = 0
      BY <1>3 DEF Done
    <2>2. Records'
      BY <1>3, <2>1 DEF Records, Writing
    <2>3. Written'
      BY <1>3, <2>1 DEF IInv, Written, InLine, Lengths, Writing
    <2>4. Flags'
      BY <1>3 DEF IInv, TypeOK, Flags
    <2>5. Counts'
      BY <1>1, <1>3, <2>1, ConstantTypes, EmptyType DEF Counts
    <2> QED
      BY <1>1, <2>2, <2>3, <2>4, <2>5, WriterKeeps
  <1>4. ASSUME NEW n \in 0..Least(left, Room - Len(buffered)),
               buffered' = buffered \o After(asked - left, n),
               left' = left - n, pc' = "auto_flush", attempt' = 0,
               UNCHANGED <<all, asked, sent, short, broken>>
        PROVE  IInv'
    <2>1. n \in Nat /\ n <= left /\ left' \in 0..MaxBuf /\ left' <= asked
          /\ asked - left \in Nat /\ (asked - left) + n <= MaxStream
      <3>1. Len(buffered) = 0
        BY <1>1
      <3> QED
        BY <1>1, <1>4, <3>1, ConstantTypes DEF Least
    <2>2. After(asked - left, n) \in Seq(1..MaxStream) /\ Len(After(asked - left, n)) = n
      BY <2>1, AfterType
    <2>3. buffered' = After(asked - left, n)
      BY <1>1, <1>4, <2>2, ConcatEmptySeq
    <2>4. Records'
      BY <1>1, <1>4, <2>1 DEF Records, Writing
    <2>5. Written'
      <3> SUFFICES ASSUME ~ short PROVE Written'
        BY <1>4 DEF Written
      <3>1. InLine /\ Lengths = asked - left
        BY DEF IInv, Written, Writing
      <3>2. Len(buffered) = 0
        BY <1>1
      <3>3. Len(sent) = asked - left
        BY <1>1, <3>1, <3>2 DEF Lengths
      <3>4. Lengths' = asked' - left' /\ Lengths' <= asked' /\ Lengths' <= MaxStream
        <4>1. Lengths' = (asked - left) + n /\ asked' = asked /\ left' = left - n
          BY <1>4, <2>2, <2>3, <3>3 DEF Lengths
        <4> HIDE DEF SessionWrite
        <4> QED
          BY <1>1, <2>1, <4>1, ConstantTypes
      <3>5. InLine'
        BY <1>4, <2>2, <2>3, <3>1, <3>3, <3>4 DEF InLine
      <3>6. pc' \in Writing
        BY <1>4 DEF Writing
      <3> QED
        BY <3>4, <3>5, <3>6 DEF Written
    <2>6. Flags'
      BY <1>4 DEF IInv, TypeOK, Flags
    <2>7. Counts'
      BY <1>1, <1>4, <2>1, <2>2, <2>3, ConstantTypes DEF Counts, Writing
    <2> QED
      BY <1>1, <2>4, <2>5, <2>6, <2>7, WriterKeeps
  <1> QED
    BY <1>2, <1>3, <1>4

(* The flush after a write. *)
LEMMA AutoFlushKeeps ==
  ASSUME IInv, AutoFlush
  PROVE  IInv'
  <1>1. /\ asked \in 0..MaxStream /\ left \in 0..MaxBuf /\ left <= asked
        /\ session = "open" /\ pc = "auto_flush" /\ TypeOK
        /\ attempt \in 0..(MaxRetries - 1) /\ broken = FALSE
        /\ sent \in Seq(1..MaxStream) /\ buffered \in Seq(1..MaxStream)
    BY UnderWayOpen DEF AutoFlush, AfterWrite, IInv, TypeOK, Records, Writing, Making
  <1>2. ASSUME ~ short PROVE InLine /\ Lengths = asked - left /\ Lengths <= asked
    BY <1>1, <1>2 DEF IInv, Written, Writing
  <1>3. UNCHANGED <<static, session, reading, all, short>>
    BY DEF AutoFlush, AfterWrite
  <1>4. CASE FlushFailed /\ Done /\ broken' = TRUE /\ UNCHANGED asked
    <2>1. pc' = "idle" /\ attempt' = 0 /\ left' = 0
      BY <1>4 DEF Done
    <2>2. /\ sent' \in Seq(1..MaxStream) /\ buffered' \in Seq(1..MaxStream)
          /\ Lengths' <= Lengths /\ (InLine => InLine')
      BY <1>1, <1>4, FlushFailedMoves
    <2>3. Lengths \in Nat /\ Lengths' \in Nat
      BY <1>1, <2>2 DEF Lengths
    <2>4. Written'
      BY <1>1, <1>2, <1>3, <1>4, <2>1, <2>2, <2>3 DEF Written, Writing
    <2>5. Records'
      BY <1>4, <2>1 DEF Records, Writing
    <2>6. Counts'
      BY <1>1, <1>4, <2>1, <2>2, ConstantTypes DEF Counts
    <2>7. Flags'
      BY <1>3, <1>4 DEF IInv, TypeOK, Flags
    <2> QED
      BY <1>1, <1>3, <2>4, <2>5, <2>6, <2>7, WriterKeeps
  <1>5. CASE Flushed /\ UNCHANGED broken
             /\ pc' \in {"write", "probe"} /\ UNCHANGED <<attempt, left, asked>>
    <2>1. /\ sent' \in Seq(1..MaxStream) /\ Len(sent') = Lengths
          /\ buffered' = << >> /\ (InLine => sent' = After(0, Lengths))
      BY <1>1, <1>5, FlushedMoves
    <2>2. Written'
      <3> SUFFICES ASSUME ~ short PROVE Written'
        BY <1>3 DEF Written
      <3>1. Len(buffered') = 0 /\ Lengths \in Nat
        BY <1>1, <2>1 DEF Lengths
      <3>2. Lengths' = Lengths
        BY <2>1, <3>1 DEF Lengths
      <3>3. InLine'
        BY <1>2, <2>1, <3>1, <3>2, AfterNothing DEF InLine
      <3> QED
        BY <1>2, <1>5, <3>2, <3>3 DEF Written, Writing
    <2>3. Records'
      BY <1>1, <1>5, <2>1 DEF Records, Writing
    <2>4. Counts'
      BY <1>1, <1>5, <2>1, EmptyType DEF Counts, Writing
    <2>5. Flags'
      BY <1>3, <1>5 DEF IInv, TypeOK, Flags
    <2> QED
      BY <1>1, <1>3, <2>2, <2>3, <2>4, <2>5, WriterKeeps
  <1>6. CASE Flushed /\ UNCHANGED broken /\ Done
             /\ (asked' = asked - left \/ (left = 0 /\ UNCHANGED asked))
    <2>1. pc' = "idle" /\ attempt' = 0 /\ left' = 0 /\ asked' = asked - left
      BY <1>1, <1>6 DEF Done
    <2>2. /\ sent' \in Seq(1..MaxStream) /\ Len(sent') = Lengths
          /\ buffered' = << >> /\ (InLine => sent' = After(0, Lengths))
      BY <1>1, <1>6, FlushedMoves
    <2>3. Written'
      <3> SUFFICES ASSUME ~ short PROVE Written'
        BY <1>3 DEF Written
      <3>1. Len(buffered') = 0 /\ Lengths \in Nat
        BY <1>1, <2>2 DEF Lengths
      <3>2. Lengths' = Lengths
        BY <2>2, <3>1 DEF Lengths
      <3>3. InLine'
        BY <1>2, <2>2, <3>1, <3>2, AfterNothing DEF InLine
      <3> QED
        BY <1>2, <2>1, <2>2, <3>1, <3>2, <3>3 DEF Written, Writing
    <2>4. Records'
      BY <2>1, <2>2 DEF Records, Writing
    <2>5. Counts'
      BY <1>1, <2>1, <2>2, EmptyType, ConstantTypes DEF Counts
    <2>6. Flags'
      BY <1>3, <1>6 DEF IInv, TypeOK, Flags
    <2> QED
      BY <1>1, <1>3, <2>3, <2>4, <2>5, <2>6, WriterKeeps
  <1>7. ASSUME Flushed, UNCHANGED broken
        PROVE  \/ pc' \in {"write", "probe"} /\ UNCHANGED <<attempt, left, asked>>
               \/ Done /\ (asked' = asked - left \/ (left = 0 /\ UNCHANGED asked))
               \/ FlushFailed /\ Done /\ broken' = TRUE /\ UNCHANGED asked
    <2>1. CASE FlushFailed /\ Done /\ broken' = TRUE /\ UNCHANGED asked
      BY <2>1
    <2>2. CASE pc' = "write" /\ UNCHANGED <<attempt, left, asked>>
      BY <2>2
    <2>3. CASE pc' = "probe" /\ UNCHANGED <<attempt, left, asked>>
      BY <2>3
    <2> QED
      BY <2>1, <2>2, <2>3, Zenon DEF AutoFlush, AfterWrite
  <1>8. \/ Flushed /\ UNCHANGED broken
        \/ FlushFailed /\ Done /\ broken' = TRUE /\ UNCHANGED asked
    BY Zenon DEF AutoFlush, AfterWrite
  <1> QED
    BY <1>4, <1>5, <1>6, <1>7, <1>8, Zenon

(* The write of nothing. *)
LEMMA ProbeKeeps ==
  ASSUME IInv, Probe
  PROVE  IInv'
  <1>1. /\ session = "open" /\ pc = "probe" /\ buffered = << >>
        /\ asked \in 0..MaxStream /\ sent \in Seq(1..MaxStream)
    BY UnderWayOpen DEF Probe, IInv, TypeOK, Records, Making
  <1>2. pc' = "idle" /\ attempt' = 0 /\ left' = 0
        /\ UNCHANGED <<static, session, all, asked, buffered, sent, reading>>
    BY DEF Probe, Done
  <1>3. (broken' = TRUE /\ UNCHANGED short) \/ (short' = TRUE /\ UNCHANGED broken)
    BY Zenon DEF Probe
  <1>4. Written'
    BY <1>2, <1>3 DEF IInv, Written, InLine, Lengths, Writing
  <1>5. Records'
    BY <1>1, <1>2 DEF Records, Writing
  <1>6. Counts'
    BY <1>1, <1>2, EmptyType, ConstantTypes DEF Counts
  <1>7. Flags'
    BY <1>2, <1>3 DEF IInv, TypeOK, Flags
  <1> QED
    BY <1>1, <1>2, <1>4, <1>5, <1>6, <1>7, WriterKeeps

(* A flush of its own begins. *)
LEMMA BeginFlushKeeps ==
  ASSUME IInv, BeginFlush
  PROVE  IInv'
  <1>1. session = "open" /\ pc = "idle" /\ broken = FALSE /\ pc' = "flush"
        /\ UNCHANGED <<static, session, attempt, left, writing, reading>>
    BY DEF BeginFlush, Ready, IInv, TypeOK
  <1>2. UNCHANGED <<all, asked, buffered, sent, short, broken>>
    BY <1>1 DEF writing
  <1>3. Written'
    BY <1>1, <1>2 DEF IInv, Written, InLine, Lengths, Writing
  <1>4. Records'
    BY <1>1, <1>2 DEF IInv, Records, Writing
  <1>5. Counts'
    BY <1>1, <1>2 DEF IInv, TypeOK, Counts
  <1>6. Flags'
    BY <1>2 DEF IInv, TypeOK, Flags
  <1> QED
    BY <1>1, <1>3, <1>4, <1>5, <1>6, WriterKeeps

(* A flush finds nothing to send. *)
LEMMA FlushKeeps ==
  ASSUME IInv, Flush
  PROVE  IInv'
  <1>1. /\ session = "open" /\ pc = "flush" /\ buffered = << >> /\ broken = FALSE /\ TypeOK
        /\ asked \in 0..MaxStream /\ left \in 0..MaxBuf /\ attempt \in 0..(MaxRetries - 1)
        /\ sent \in Seq(1..MaxStream)
    BY UnderWayOpen DEF Flush, IInv, TypeOK, Records, Writing, Making
  <1>2. UNCHANGED <<static, session, all, asked, short, reading>>
    BY DEF Flush
  <1>3. UNCHANGED <<buffered, sent>>
    <2>1. CASE Flushed
      BY <1>1, <2>1, ConcatEmptySeq DEF Flushed
    <2>2. CASE FlushFailed
      BY <1>1, <2>2, FlushFailedMoves
    <2> QED
      BY <2>1, <2>2 DEF Flush
  <1>4. /\ pc' \in {"flush", "idle"}
        /\ attempt' \in 0..(MaxRetries - 1) /\ left' \in 0..MaxBuf
        /\ pc' = "flush" => broken' = FALSE
        /\ broken' \in BOOLEAN
    <2>1. CASE Done /\ UNCHANGED broken
      <3>1. attempt' \in 0..(MaxRetries - 1) /\ left' \in 0..MaxBuf /\ pc' = "idle"
        BY <2>1, ConstantTypes DEF Done
      <3> QED
        BY <1>1, <2>1, <3>1, Zenon
    <2>2. CASE Retry /\ UNCHANGED broken
      <3>1. attempt' \in 0..(MaxRetries - 1) /\ left' \in 0..MaxBuf /\ pc' = "flush"
        BY <1>1, <2>2, ConstantTypes DEF Retry
      <3> QED
        BY <1>1, <2>2, <3>1, Zenon
    <2>3. CASE Done /\ broken' = TRUE
      BY <1>1, <2>3, ConstantTypes DEF Done
    <2> QED
      BY <2>1, <2>2, <2>3, Zenon DEF Flush
  <1>5. Written'
    BY <1>1, <1>2, <1>3, <1>4 DEF IInv, Written, InLine, Lengths, Writing
  <1>6. Records'
    BY <1>1, <1>3, <1>4 DEF Records, Writing
  <1>7. Counts'
    BY <1>1, <1>2, <1>3, <1>4, EmptyType DEF Counts
  <1>8. Flags'
    BY <1>2, <1>4 DEF IInv, TypeOK, Flags
  <1> QED
    BY <1>1, <1>2, <1>5, <1>6, <1>7, <1>8, WriterKeeps

-----------------------------------------------------------------------------
(* Reading. *)

(* The types of the reading side. *)
Taken == /\ consumed \in 0..MaxStream /\ taken \in Seq(1..MaxStream)
         /\ into \in Seq(0..MaxStream)

(* A buffer with another part at the start of its slice: the filled part   *)
(* goes on with the stream.                                                *)
LEMMA PlacedFills ==
  ASSUME IInv, pc \in Reading, NEW n \in 0..left, consumed + n <= MaxStream
  PROVE  /\ Placed(n) \in Seq(0..MaxStream) /\ Len(Placed(n)) = Len(into)
         /\ Filled \in Nat /\ Filled + n <= Len(into)
         /\ \A i \in 1..(Filled + n) : Placed(n)[i] = (consumed - Filled) + i
  <1>1. /\ into \in Seq(0..MaxStream) /\ Len(into) \in Nat /\ left \in Nat /\ left <= Len(into)
        /\ consumed \in Nat /\ Filled = Len(into) - left
        /\ \A i \in 1..Filled : into[i] = (consumed - Filled) + i
    BY DEF IInv, TypeOK, Reads, Filled
  <1>2. Filled \in Nat /\ Filled + n <= Len(into)
    BY <1>1
  <1>3. ASSUME NEW i \in 1..Len(into)
        PROVE  /\ Placed(n)[i] \in 0..MaxStream
               /\ i <= Filled + n => Placed(n)[i] = (consumed - Filled) + i
    <2>1. into[i] \in 0..MaxStream
      BY <1>1, ElementOfSeq
    <2>2. CASE i \in (Filled + 1)..(Filled + n)
      <3>1. Placed(n)[i] = consumed + (i - Filled)
        BY <2>2 DEF Placed
      <3> QED
        BY <1>1, <1>2, <2>2, <3>1, ConstantTypes
    <2>3. CASE i \notin (Filled + 1)..(Filled + n)
      <3>1. Placed(n)[i] = into[i]
        BY <2>3 DEF Placed
      <3>2. i <= Filled + n => i \in 1..Filled
        BY <1>2, <2>3
      <3> QED
        BY <1>1, <2>1, <3>1, <3>2
    <2> QED
      BY <2>2, <2>3
  <1>4. Placed(n) = [i \in 1..Len(into) |-> Placed(n)[i]]
    BY DEF Placed
  <1>5. Placed(n) \in Seq(0..MaxStream) /\ Len(Placed(n)) = Len(into)
    <2> DEFINE f == [i \in 1..Len(into) |-> Placed(n)[i]]
    <2>1. f \in Seq(0..MaxStream) /\ Len(f) = Len(into)
      BY <1>1, <1>3
    <2> HIDE DEF f
    <2>2. Placed(n) = f
      BY <1>4 DEF f
    <2> QED
      BY <2>1, <2>2
  <1> QED
    BY <1>2, <1>3, <1>5

(* The position before the last n of p bytes. *)
LEMMA Before ==
  ASSUME NEW p \in Nat, p <= MaxStream, NEW n \in Nat, n <= p
  PROVE  /\ p - n \in Nat /\ (p - n) + n = p
         /\ 0 + (p - n) + n <= MaxStream /\ 0 + (p - n) = p - n /\ 0 + p <= MaxStream
  BY ConstantTypes

(* What is handed over follows what was. *)
LEMMA HandOverKeeps ==
  ASSUME IInv, NEW buf \in Seq(0..MaxStream), NEW n \in 0..Len(buf), HandOver(buf, n),
         consumed' \in 0..MaxStream, n <= consumed', taken = After(0, consumed' - n),
         \A i \in 1..n : buf[i] = (consumed' - n) + i
  PROVE  Taken' /\ Reads'
  <1> DEFINE c == consumed' - n
  <1>0. Len(buf) \in Nat /\ n \in 0..Len(buf)
    OBVIOUS
  <1>1. c \in Nat /\ n \in Nat /\ c + n = consumed' /\ 0 + c + n <= MaxStream /\ 0 + c = c
        /\ consumed' \in Nat /\ 0 + consumed' <= MaxStream
    <2>1. n \in Nat /\ consumed' \in Nat /\ consumed' <= MaxStream /\ n <= consumed'
      BY <1>0, ConstantTypes
    <2> QED
      BY <2>1, Before
  <1>2. SubSeq(buf, 1, n) = After(c, n)
    <2>1. SubSeq(buf, 1, n) = [i \in 1..(1 + n - 1) |-> buf[i + 1 - 1]]
      OBVIOUS
    <2>2. 1 + n - 1 = n /\ \A i \in 1..n : i + 1 - 1 = i
      BY <1>1
    <2>3. SubSeq(buf, 1, n) = [i \in 1..n |-> buf[i]]
      BY <2>1, <2>2
    <2> QED
      BY <2>3 DEF After
  <1>3. taken' = After(0, consumed') /\ into' = << >> /\ pc' = "idle"
    <2> HIDE DEF c
    <2>1. After(0, c) \o After(0 + c, n) = After(0, c + n)
      BY <1>1, AfterConcat
    <2>2. taken = After(0, c)
      BY DEF c
    <2>3. taken' = taken \o SubSeq(buf, 1, n) /\ into' = << >> /\ pc' = "idle"
      BY DEF HandOver, Done
    <2>4. taken' = After(0, c) \o After(0 + c, n)
      BY <1>1, <1>2, <2>2, <2>3
    <2> QED
      BY <1>1, <2>1, <2>3, <2>4
  <1>4. taken' \in Seq(1..MaxStream)
    BY <1>1, <1>3, AfterType
  <1> QED
    BY <1>3, <1>4 DEF Taken, Reads, Reading

(* A part that does not fill the buffer. *)
LEMMA NextPartKeeps ==
  ASSUME IInv, pc \in Reading, pc # "read", NEW n \in 0..left, Receive(n), NextPart(n)
  PROVE  Taken' /\ Reads'
  <1>1. /\ consumed \in Nat /\ consumed' = consumed + n /\ consumed' <= MaxStream
        /\ left \in Nat /\ Filled <= consumed /\ taken = After(0, consumed - Filled)
        /\ taken \in Seq(1..MaxStream)
    BY DEF IInv, TypeOK, Reads, Receive
  <1>2. /\ into' = Placed(n) /\ left' = left - n /\ UNCHANGED <<pc, taken>>
    BY DEF NextPart
  <1>3. /\ into' \in Seq(0..MaxStream) /\ Len(into') = Len(into)
        /\ Filled \in Nat /\ Filled + n <= Len(into)
        /\ \A i \in 1..(Filled + n) : into'[i] = (consumed - Filled) + i
    BY <1>1, <1>2, PlacedFills
  <1>4. Len(into) \in Nat /\ Filled = Len(into) - left
    BY DEF IInv, TypeOK, Filled
  <1>5. Filled' = Filled + n
    BY <1>1, <1>2, <1>3, <1>4 DEF Filled
  <1>6. consumed' - Filled' = consumed - Filled
    BY <1>1, <1>3, <1>5
  <1>7. left' <= Len(into') /\ Filled' <= consumed' /\ consumed' \in 0..MaxStream
    BY <1>1, <1>2, <1>3, <1>4, <1>5, ConstantTypes
  <1>8. Taken'
    BY <1>1, <1>2, <1>3, <1>7 DEF Taken
  <1>9. Reads'
    BY <1>1, <1>2, <1>3, <1>5, <1>6, <1>7 DEF Reads
  <1> QED
    BY <1>8, <1>9

(* The steps of a session that do not write. *)
LEMMA ReaderKeeps ==
  ASSUME IInv, UNCHANGED <<static, session, writing>>, session = "open",
         pc \in Reading \cup {"idle"}, pc' \in Reading \cup {"idle"},
         attempt' \in 0..(MaxRetries - 1), left' \in 0..MaxBuf,
         Taken', Reads'
  PROVE  IInv'
  <1>1. Kept
    BY KeepsStatic DEF IInv
  <1>2. UNCHANGED <<all, asked, buffered, sent, short, broken>>
    BY DEF writing
  <1>3. TypeOK'
    <2>1. pc' \in {"idle", "dns", "tcp", "certs", "handshake",
                   "write", "auto_flush", "probe", "flush", "read", "read_exact"}
      BY DEF Reading
    <2>2. asked' \in 0..MaxStream /\ buffered' \in Seq(1..MaxStream) /\ sent' \in Seq(1..MaxStream)
      BY <1>2 DEF IInv, TypeOK
    <2>3. Flags'
      BY <1>2 DEF IInv, TypeOK, Flags
    <2> QED
      BY <1>1, <2>1, <2>2, <2>3 DEF TypeOK, Kept, Flags, Taken
  <1>4. Lifecycle'
    BY <1>1 DEF Lifecycle, Kept, Making, Reading
  <1>5. Records'
    BY <1>2 DEF IInv, Records, Reading, Writing
  <1>6. Written'
    BY <1>2 DEF IInv, Written, InLine, Lengths, Reading, Writing
  <1> QED
    BY <1>1, <1>3, <1>4, <1>5, <1>6 DEF IInv, Kept

(* The counters of the loops. *)
LEMMA DoneReads ==
  Done => pc' = "idle" /\ attempt' \in 0..(MaxRetries - 1) /\ left' \in 0..MaxBuf
  BY ConstantTypes DEF Done

(* A read that is made again finds its buffer as it was. *)
LEMMA RetryReads ==
  ASSUME IInv, pc \in Reading, Retry, UNCHANGED reading
  PROVE  /\ pc' = pc /\ attempt' \in 0..(MaxRetries - 1) /\ left' \in 0..MaxBuf
         /\ Taken' /\ Reads'
  <1>1. /\ UNCHANGED <<pc, left, consumed, taken, into>>
        /\ attempt' \in 0..(MaxRetries - 1) /\ left' \in 0..MaxBuf
    BY ConstantTypes DEF IInv, TypeOK, Retry, reading
  <1>2. Filled' = Filled
    BY <1>1 DEF Filled
  <1> QED
    BY <1>1, <1>2 DEF IInv, TypeOK, Taken, Reads

(* A read that ends early leaves what it had filled. *)
LEMMA EndEarlyKeeps ==
  ASSUME IInv, pc \in Reading, HandOver(into, Filled), UNCHANGED consumed
  PROVE  Taken' /\ Reads'
  <1>1. /\ into \in Seq(0..MaxStream) /\ consumed' = consumed /\ consumed' \in 0..MaxStream
        /\ Len(into) \in Nat /\ left \in Nat /\ left <= Len(into) /\ Filled = Len(into) - left
    BY DEF IInv, TypeOK, Reads, Filled
  <1>2. Filled \in 0..Len(into)
    BY <1>1
  <1>3. /\ Filled <= consumed /\ taken = After(0, consumed - Filled)
        /\ \A i \in 1..Filled : into[i] = (consumed - Filled) + i
    BY DEF IInv, Reads
  <1> DEFINE n == Filled
  <1> HIDE DEF n
  <1>4. /\ n \in 0..Len(into) /\ HandOver(into, n) /\ n <= consumed'
        /\ taken = After(0, consumed' - n)
        /\ \A i \in 1..n : into[i] = (consumed' - n) + i
    BY <1>1, <1>2, <1>3 DEF n
  <1> QED
    BY <1>1, <1>4, HandOverKeeps

(* A part that ends the read. *)
LEMMA LastPartKeeps ==
  ASSUME IInv, pc \in Reading, NEW n \in 0..left, Receive(n),
         HandOver(Placed(n), Filled + n)
  PROVE  Taken' /\ Reads'
  <1>1. /\ consumed \in Nat /\ consumed' = consumed + n /\ consumed' \in 0..MaxStream
        /\ left \in Nat /\ Filled <= consumed /\ taken = After(0, consumed - Filled)
    BY ConstantTypes DEF IInv, TypeOK, Reads, Receive
  <1>2. /\ Placed(n) \in Seq(0..MaxStream) /\ Len(Placed(n)) = Len(into)
        /\ Filled \in Nat /\ Filled + n <= Len(into)
        /\ \A i \in 1..(Filled + n) : Placed(n)[i] = (consumed - Filled) + i
    BY <1>1, PlacedFills DEF Receive
  <1> DEFINE m == Filled + n
             buf == Placed(n)
  <1>3. consumed' - m = consumed - Filled /\ m <= consumed'
    BY <1>1, <1>2
  <1>4. /\ buf \in Seq(0..MaxStream) /\ m \in 0..Len(buf) /\ HandOver(buf, m)
        /\ taken = After(0, consumed' - m)
        /\ \A i \in 1..m : buf[i] = (consumed' - m) + i
    <2>1. Len(into) \in Nat
      BY DEF IInv, TypeOK
    <2> QED
      BY <1>1, <1>2, <1>3, <2>1
  <1> HIDE DEF m, buf
  <1> QED
    BY <1>1, <1>3, <1>4, HandOverKeeps

(* The reads. *)
LEMMA ReadKeeps ==
  ASSUME IInv, Read \/ ReadExact \/ \E n \in 0..MaxBuf, exact \in BOOLEAN : BeginRead(n, exact)
  PROVE  IInv'
  <1>1. CASE \E n \in 0..MaxBuf, exact \in BOOLEAN : BeginRead(n, exact)
    <2>1. PICK n \in 0..MaxBuf, exact \in BOOLEAN : BeginRead(n, exact)
      BY <1>1
    <2>2. /\ session = "open" /\ pc = "idle" /\ left' = n
          /\ UNCHANGED <<static, session, attempt, writing, consumed, taken>>
          /\ into' = [i \in 1..n |-> 0]
      BY <2>1 DEF BeginRead, Ready
    <2>3. pc' \in Reading \cup {"idle"} /\ (pc' = "idle" => n = 0)
      BY <2>1, Zenon DEF BeginRead, Reading
    <2>4. attempt' \in 0..(MaxRetries - 1)
      BY <2>2 DEF IInv, TypeOK
    <2>5. /\ into' \in Seq(0..MaxStream) /\ Len(into') = n /\ (n = 0 => into' = << >>)
          /\ consumed \in Nat /\ taken = After(0, consumed)
      BY <2>2, ConstantTypes DEF IInv, TypeOK, Reads, Reading
    <2>6. Filled' = 0 /\ consumed' - Filled' = consumed
      BY <2>2, <2>5 DEF Filled
    <2>7. Taken'
      BY <2>2, <2>5 DEF Taken, IInv, TypeOK
    <2>8. Reads'
      BY <2>2, <2>3, <2>5, <2>6 DEF Reads, Reading
    <2> QED
      BY <2>2, <2>3, <2>4, <2>7, <2>8, ReaderKeeps
  <1>2. CASE Read \/ ReadExact
    <2>1. /\ session = "open" /\ pc \in Reading /\ left \in 0..MaxBuf
          /\ UNCHANGED <<static, session, writing>>
          /\ Filled = Len(into) - left /\ Len(into) \in Nat
      BY <1>2, UnderWayOpen DEF Read, ReadExact, Making, Reading, IInv, TypeOK, Filled
    <2>2. CASE Retry /\ UNCHANGED reading
      <3>1. /\ pc' = pc /\ attempt' \in 0..(MaxRetries - 1) /\ left' \in 0..MaxBuf
            /\ Taken' /\ Reads'
        BY <2>1, <2>2, RetryReads
      <3> QED
        BY <2>1, <3>1, ReaderKeeps
    <2>3. CASE Done /\ Taken' /\ Reads'
      BY <2>1, <2>3, DoneReads, ReaderKeeps
    <2>4. ASSUME NEW n \in 1..left, Receive(n), NextPart(n), pc # "read"
          PROVE  IInv'
      <3>1. pc' = pc /\ attempt' \in 0..(MaxRetries - 1) /\ left' \in 0..MaxBuf /\ n \in 0..left
        BY <2>1, <2>4, ConstantTypes DEF NextPart
      <3>2. Taken' /\ Reads'
        BY <2>1, <2>4, <3>1, NextPartKeeps
      <3> QED
        BY <2>1, <3>1, <3>2, ReaderKeeps
    <2>5. CASE Read
      <3>1. pc = "read" /\ Filled = 0
        BY <2>1, <2>5 DEF Read, IInv, TypeOK, Reads
      <3>2. ASSUME NEW n \in 0..left, Receive(n), HandOver(Placed(n), n)
            PROVE  Done /\ Taken' /\ Reads'
        <4>1. Filled + n = n
          BY <2>1, <3>1
        <4> QED
          BY <2>1, <3>2, <4>1, LastPartKeeps DEF HandOver
      <3>3. ASSUME HandOver(into, 0), UNCHANGED consumed
            PROVE  Done /\ Taken' /\ Reads'
        BY <2>1, <3>1, <3>3, EndEarlyKeeps DEF HandOver
      <3> QED
        BY <2>2, <2>3, <2>5, <3>2, <3>3 DEF Read
    <2>6. CASE ReadExact
      <3>1. pc = "read_exact"
        BY <2>6 DEF ReadExact
      <3>2. ASSUME NEW n \in 1..left, Receive(n), n = left, HandOver(Placed(n), Len(into))
            PROVE  Done /\ Taken' /\ Reads'
        <4>1. Filled + n = Len(into) /\ n \in 0..left
          BY <2>1, <3>2
        <4> QED
          BY <2>1, <3>2, <4>1, LastPartKeeps DEF HandOver
      <3>3. ASSUME HandOver(into, Filled), UNCHANGED consumed
            PROVE  Done /\ Taken' /\ Reads'
        BY <2>1, <3>3, EndEarlyKeeps DEF HandOver
      <3> QED
        BY <2>2, <2>3, <2>4, <2>6, <3>1, <3>2, <3>3 DEF ReadExact
    <2> QED
      BY <1>2, <2>5, <2>6
  <1> QED
    BY <1>1, <1>2

-----------------------------------------------------------------------------
(* The theorems. *)

(* The invariant is inductive. *)
LEMMA NextInv == IInv /\ [Next]_vars => IInv'
  <1> SUFFICES ASSUME IInv, [Next]_vars PROVE IInv'
    OBVIOUS
  <1>1. CASE UNCHANGED vars
    BY <1>1
    DEF vars, static, writing, reading, IInv, TypeOK, Certs, Lifecycle, Records,
        Written, InLine, Lengths, Reads, Filled
  <1>2. CASE Step
    BY <1>2, MakingKeeps, SessionWriteKeeps, AutoFlushKeeps, ProbeKeeps, FlushKeeps, ReadKeeps
    DEF Step
  <1>3. CASE Caller
    <2>1. CASE Close
      BY <2>1, GoneKeeps DEF Close
    <2>2. CASE Connect \/ BeginFlush
      BY <2>2, MakingKeeps, BeginFlushKeeps
    <2>3. ASSUME NEW n \in 0..MaxBuf, BeginWrite(n, FALSE) \/ BeginWrite(n, TRUE)
          PROVE  IInv'
      BY <2>3, BeginWriteKeeps
    <2>4. ASSUME NEW n \in 0..MaxBuf, BeginRead(n, FALSE) \/ BeginRead(n, TRUE)
          PROVE  IInv'
      BY <2>4, ReadKeeps
    <2> QED
      BY <1>3, <2>1, <2>2, <2>3, <2>4 DEF Caller
  <1> QED
    BY <1>1, <1>2, <1>3 DEF Next

(* The invariant holds always. *)
LEMMA SpecInv == Spec => []IInv
  BY InitInv, NextInv, PTL DEF Spec

(* The types are right and the retries bounded, whatever the session does. *)
THEOREM TypeCorrect == Spec => []TypeOK
  <1>1. IInv => TypeOK
    BY DEF IInv
  <1> QED
    BY <1>1, SpecInv, PTL

(* What the peer has and what is buffered is a stretch of what was handed  *)
(* over, from its first byte on (write and write_all, after a flush).      *)
THEOREM WritesInOrder == Spec => []WrittenInOrder
  <1>1. IInv => WrittenInOrder
    <2> SUFFICES ASSUME IInv, ~ short PROVE WrittenInOrder
      BY DEF WrittenInOrder
    <2> DEFINE p == Len(sent)
               n == Len(buffered)
    <2>1. /\ p \in Nat /\ n \in Nat /\ asked \in Nat /\ p + n <= asked /\ p + n <= MaxStream
          /\ sent = After(0, p) /\ buffered = After(p, n)
      BY DEF IInv, TypeOK, Written, InLine, Lengths
    <2>2. 0 \in Nat /\ 0 + p = p /\ 0 + p + n <= MaxStream /\ p + n \in Nat
      BY <2>1, ConstantTypes
    <2>3. sent \o buffered = After(0, p + n)
      <3>1. After(0, p) \o After(0 + p, n) = After(0, p + n)
        <4> HIDE DEF p, n
        <4> QED
          BY <2>1, <2>2, AfterConcat
      <3> QED
        BY <2>1, <2>2, <3>1
    <2> QED
      BY <2>1, <2>2, <2>3, StreamIsAfter DEF WrittenInOrder
  <1> QED
    BY <1>1, SpecInv, PTL

(* A call that returned without an error left nothing in the record buffer *)
(* (the flush of write, and write_all).                                    *)
THEOREM NothingWaits == Spec => []NothingLeftBehind
  <1>1. IInv => NothingLeftBehind
    <2> SUFFICES ASSUME IInv, Ready, ~ broken, ~ short PROVE sent = Stream(asked)
      BY DEF NothingLeftBehind
    <2>1. sent = After(0, asked) /\ asked \in Nat
      BY DEF IInv, TypeOK, Written, InLine, Writing, Ready
    <2> QED
      BY <2>1, StreamIsAfter
  <1> QED
    BY <1>1, SpecInv, PTL

(* What was read is in the callers' buffers in the order of the stream,    *)
(* from one read to the next and from one part of a buffer to the next     *)
(* (read, and read_exact with its slice and its retries).                  *)
THEOREM ReadsInOrder == Spec => []ReadInOrder
  <1>1. IInv => ReadInOrder
    <2> SUFFICES ASSUME IInv PROVE ReadInOrder
      OBVIOUS
    <2>t. /\ consumed \in 0..MaxStream /\ into \in Seq(0..MaxStream) /\ left \in Nat
          /\ taken \in Seq(1..MaxStream) /\ Filled = Len(into) - left
      BY DEF IInv, TypeOK, Filled
    <2>1. CASE pc \notin Reading
      <3>1. into = << >> /\ taken = After(0, consumed) /\ 1 + Filled - 1 <= 0
        BY <2>t, <2>1 DEF IInv, Reads
      <3>2. SubSeq(into, 1, Filled) = << >>
        BY <2>t, <3>1
      <3> QED
        BY <2>t, <3>1, <3>2, ConcatEmptySeq, StreamIsAfter DEF ReadInOrder
    <2>2. CASE pc \in Reading
      <3> DEFINE n == Filled
                 c == consumed - n
      <3>1. /\ n \in 0..Len(into) /\ n <= consumed /\ taken = After(0, c)
            /\ \A i \in 1..n : into[i] = c + i
        BY <2>t, <2>2 DEF IInv, Reads
      <3>2. n \in Nat /\ c \in Nat /\ 0 + c = c /\ c + n = consumed /\ 0 + c + n <= MaxStream
        BY <2>t, <3>1, ConstantTypes
      <3>3. SubSeq(into, 1, n) = After(c, n)
        <4>1. SubSeq(into, 1, n) = [i \in 1..(1 + n - 1) |-> into[i + 1 - 1]]
          BY <2>t, <3>1
        <4>2. 1 + n - 1 = n /\ \A i \in 1..n : i + 1 - 1 = i
          BY <3>2
        <4> HIDE DEF n, c
        <4>3. SubSeq(into, 1, n) = [i \in 1..n |-> into[i]]
          BY <4>1, <4>2
        <4> QED
          BY <3>1, <4>3 DEF After
      <3>4. After(0, c) \o After(0 + c, n) = After(0, c + n)
        <4> HIDE DEF n, c
        <4> QED
          BY <3>2, AfterConcat
      <3>5. taken \o SubSeq(into, 1, n) = Stream(consumed)
        <4> HIDE DEF n, c
        <4>1. taken \o SubSeq(into, 1, n) = After(0, c) \o After(0 + c, n)
          BY <3>1, <3>2, <3>3
        <4>2. After(0, c) \o After(0 + c, n) = After(0, consumed)
          BY <3>2, <3>4
        <4>3. consumed \in Nat
          BY <2>t, ConstantTypes
        <4> QED
          BY <4>1, <4>2, <4>3, StreamIsAfter
      <3> QED
        BY <3>5 DEF ReadInOrder
    <2> QED
      BY <2>1, <2>2
  <1> QED
    BY <1>1, SpecInv, PTL

-----------------------------------------------------------------------------
(* The refinement of ByteStream. *)

(* The two modules mean the same stretch. *)
LEMMA SameStream == \A n \in Nat : Abstract!Stream(n) = After(0, n)
  BY DEF Abstract!Stream, After

(* A step of a write or a flush is progress of the stream. *)
LEMMA Progresses ==
  ASSUME IInv, ~ short,
         sent' = After(0, Len(sent')), Len(sent') \in Len(sent)..asked,
         asked' \in Len(sent')..asked,
         short' \in BOOLEAN, (UNCHANGED broken) \/ broken' = TRUE
  PROVE  Abstract!Progress
  <1>1. Len(sent) \in Nat /\ asked \in Nat
    BY DEF IInv, TypeOK
  <1>2. sent' = Abstract!Stream(Len(sent'))
    BY <1>1, SameStream
  <1>3. broken' \in {broken, TRUE}
    OBVIOUS
  <1> QED
    BY <1>2, <1>3, Zenon DEF Abstract!Progress

(* Every step of an operation is progress, or nothing the caller sees. *)
LEMMA StepRefines ==
  ASSUME IInv, IInv', ~ short, SessionWrite \/ AutoFlush \/ Probe \/ Flush
  PROVE  Abstract!Progress
  <1>1. /\ Len(sent) \in Nat /\ Len(buffered) \in Nat /\ asked \in Nat
        /\ sent = After(0, Len(sent)) /\ InLine /\ Lengths <= asked
        /\ Len(sent) <= asked /\ TypeOK
    <2>1. TypeOK /\ InLine /\ Lengths <= asked
      BY Zenon DEF IInv, Written
    <2>2. Len(sent) \in Nat /\ Len(buffered) \in Nat /\ asked \in Nat
      BY <2>1 DEF TypeOK
    <2>3. sent = After(0, Len(sent))
      BY <2>1, Zenon DEF InLine
    <2>4. Len(sent) <= asked
      BY <2>1, <2>2 DEF Lengths
    <2> QED
      BY <2>1, <2>2, <2>3, <2>4, Zenon
  <1>2. CASE UNCHANGED <<asked, sent>> /\ short' \in BOOLEAN
             /\ ((UNCHANGED broken) \/ broken' = TRUE)
    <2>1. sent' = sent /\ asked' = asked
      BY <1>2
    <2>2. sent' = After(0, Len(sent'))
      BY <1>1, <2>1
    <2>3. Len(sent') \in Len(sent)..asked /\ asked' \in Len(sent')..asked
      BY <1>1, <2>1
    <2>4. short' \in BOOLEAN /\ ((UNCHANGED broken) \/ broken' = TRUE)
      BY <1>2, Zenon
    <2> QED
      BY <2>2, <2>3, <2>4, Progresses, Zenon
  <1>3. CASE SessionWrite
    <2>1. UNCHANGED <<asked, sent, short>> /\ ((UNCHANGED broken) \/ broken' = TRUE)
      BY <1>3, Zenon DEF SessionWrite, writing
    <2> QED
      BY <1>2, <2>1 DEF IInv, TypeOK
  <1>4. CASE Probe
    <2>1. UNCHANGED <<asked, sent>> /\ ((UNCHANGED broken) \/ broken' = TRUE)
      BY <1>4, Zenon DEF Probe
    <2> QED
      BY <1>2, <2>1 DEF IInv, TypeOK
  <1>5. CASE Flush
    <2>1. UNCHANGED <<asked, short>> /\ ((UNCHANGED broken) \/ broken' = TRUE)
      BY <1>5, Zenon DEF Flush
    <2>2. buffered = << >>
      BY <1>5 DEF IInv, Records, Flush, Writing
    <2>3. sent \o << >> = sent
      BY <1>1, ConcatEmptySeq DEF TypeOK
    <2>4. UNCHANGED sent
      <3>1. CASE Flushed
        BY <2>2, <2>3, <3>1 DEF Flushed
      <3>2. CASE FlushFailed
        BY <1>1, <2>2, <3>2, FlushFailedMoves
      <3> QED
        BY <1>5, <3>1, <3>2, Zenon DEF Flush
    <2> QED
      BY <1>2, <2>1, <2>4 DEF IInv, TypeOK
  <1>6. CASE AutoFlush
    <2>1. UNCHANGED short /\ ((UNCHANGED broken) \/ broken' = TRUE)
      BY <1>6, Zenon DEF AutoFlush, AfterWrite
    <2>2. Flushed \/ FlushFailed
      BY <1>6, Zenon DEF AutoFlush, AfterWrite
    <2>3. /\ Len(sent') \in Nat /\ Len(sent') <= Lengths /\ Len(sent) <= Len(sent')
          /\ sent' = After(0, Len(sent'))
      <3>1. CASE Flushed
        BY <1>1, <3>1, FlushedMoves DEF Lengths
      <3>2. CASE FlushFailed
        <4>1. /\ sent' \in Seq(1..MaxStream) /\ buffered' \in Seq(1..MaxStream)
              /\ Len(sent) <= Len(sent') /\ Lengths' <= Lengths /\ InLine'
          BY <1>1, <3>2, FlushFailedMoves
        <4>2. Len(sent') \in Nat /\ Len(buffered') \in Nat
          BY <4>1
        <4> QED
          BY <1>1, <4>1, <4>2 DEF InLine, Lengths
      <3> QED
        BY <2>2, <3>1, <3>2
    <2>4. asked' \in Nat /\ asked' <= asked
      <3>1. left \in Nat /\ asked' \in Nat /\ (asked' = asked \/ asked' = asked - left)
        <4>1. asked' = asked \/ asked' = asked - left
          BY <1>6, Zenon DEF AutoFlush, AfterWrite
        <4> QED
          BY <4>1 DEF IInv, TypeOK
      <3> QED
        BY <1>1, <3>1
    <2>5. Len(sent') <= asked'
      <3>1. ~ short'
        BY <2>1
      <3>2. Lengths' <= asked' /\ buffered' \in Seq(1..MaxStream)
        BY <3>1 DEF IInv, TypeOK, Written
      <3>3. Len(buffered') \in Nat
        BY <3>2
      <3> QED
        BY <2>3, <2>4, <3>2, <3>3 DEF Lengths
    <2>6. Len(sent') \in Len(sent)..asked /\ asked' \in Len(sent')..asked
      BY <1>1, <2>3, <2>4, <2>5
    <2>7. short' \in BOOLEAN
      BY DEF IInv, TypeOK
    <2> QED
      BY <2>1, <2>3, <2>6, <2>7, Progresses
  <1> QED
    BY <1>3, <1>4, <1>5, <1>6

(* A step of the connection is a step of the stream, or none of its own.   *)
LEMMA NextRefines ==
  ASSUME IInv, IInv', [Next]_vars
  PROVE  [Abstract!Next]_(Abstract!vars)
  <1> USE DEF Abstract!Next, Abstract!vars
  <1>1. CASE Gone
    BY <1>1 DEF Gone, Abstract!Reopen
  <1>2. CASE UNCHANGED <<asked, sent, short, broken>>
    BY <1>2
  <1>3. CASE SessionWrite \/ AutoFlush \/ Probe \/ Flush
    <2>1. CASE ~ short
      BY <1>3, <2>1, StepRefines
    <2>2. CASE short
      <3>1. UNCHANGED short \/ short' = TRUE
        BY <1>3, Zenon DEF SessionWrite, AutoFlush, AfterWrite, Probe, Flush, writing
      <3> QED
        BY <2>2, <3>1, Zenon
    <2> QED
      BY <2>1, <2>2
  <1>4. ASSUME NEW n \in 0..MaxBuf, NEW whole \in BOOLEAN, BeginWrite(n, whole)
        PROVE  Abstract!Next
    <2>1. UNCHANGED <<sent, short, broken>> /\ ~ broken /\ asked' = asked + n
      BY <1>4 DEF BeginWrite
    <2>2. CASE short
      BY <2>1, <2>2, Zenon
    <2>3. CASE ~ short
      <3>1. asked \in Nat /\ asked' \in Nat /\ asked' >= asked
        BY <2>1 DEF IInv, TypeOK
      <3>2. sent = After(0, asked)
        BY <1>4, <2>3 DEF IInv, Written, InLine, Writing, BeginWrite, Ready
      <3>3. sent = Abstract!Stream(asked)
        BY <3>1, <3>2, SameStream
      <3> QED
        BY <2>1, <2>3, <3>1, <3>3, Zenon DEF Abstract!Ask
    <2> QED
      BY <2>2, <2>3
  <1>5. CASE Connect \/ Establish("dns", "tcp") \/ Establish("tcp", "certs")
             \/ LoadCerts \/ Handshake
    <2>1. Gone \/ UNCHANGED writing
      BY <1>5, Zenon DEF Connect, Establish, LoadCerts, Handshake
    <2> QED
      BY <1>1, <1>2, <2>1 DEF writing
  <1>6. CASE BeginFlush \/ Read \/ ReadExact
             \/ \E n \in 0..MaxBuf : BeginRead(n, FALSE) \/ BeginRead(n, TRUE)
    <2>1. UNCHANGED writing
      BY <1>6, Zenon DEF BeginFlush, Read, ReadExact, BeginRead
    <2> QED
      BY <1>2, <2>1 DEF writing
  <1>7. CASE UNCHANGED vars
    BY <1>2, <1>7 DEF vars, writing
  <1>8. CASE Close
    BY <1>1, <1>8 DEF Close
  <1>9. CASE \E n \in 0..MaxBuf : BeginWrite(n, FALSE) \/ BeginWrite(n, TRUE)
    BY <1>4, <1>9
  <1> QED
    BY <1>3, <1>5, <1>6, <1>7, <1>8, <1>9, Zenon DEF Next, Step, Caller

(* The transport keeps the promise of a byte stream: every run of it is    *)
(* one of ByteStream, if what it reports and what arrived is all that one  *)
(* looks at.                                                               *)
THEOREM RefinesByteStream == Spec => ImplementsByteStream
  <1>1. Init => Abstract!Init
    BY DEF Init, Abstract!Init
  <1>2. IInv /\ IInv' /\ [Next]_vars => [Abstract!Next]_(Abstract!vars)
    BY NextRefines
  <1> QED
    BY <1>1, <1>2, SpecInv, PTL DEF Spec, ImplementsByteStream, Abstract!Spec

-----------------------------------------------------------------------------
(* Progress. *)

(* One step forward of an operation. *)
Advance ==
  \/ left' < left
  \/ left' = left /\ Stage' < Stage
  \/ left' = left /\ Stage' = Stage /\ attempt < attempt' /\ attempt' < MaxRetries

(* A retry is a step forward, as their number is bounded. *)
LEMMA RetryAdvances ==
  ASSUME IInv, Retry, pc \in {"write", "flush", "read", "read_exact"}
  PROVE  Advance
  <1>1. /\ attempt \in Nat /\ attempt' = attempt + 1 /\ attempt + 1 < MaxRetries
        /\ pc' = pc /\ left' = left
    BY ConstantTypes DEF IInv, TypeOK, Retry
  <1>2. Stage' = Stage
    BY <1>1 DEF Stage
  <1> QED
    BY <1>1, <1>2 DEF Advance

(* Every await of an operation that does not end it takes it forward: the  *)
(* loops of write_all and read_exact and every sequence of retries end,    *)
(* whatever the session does.  With calls of the session that come back it *)
(* is why operations end.                                                  *)
THEOREM EachStepAdvances == Spec => OperationAdvances
  <1>1. IInv /\ [Next]_vars => [pc # "idle" /\ pc' # "idle" => Advance]_vars
    <2> SUFFICES ASSUME IInv, Next, pc # "idle", pc' # "idle"
                 PROVE  Advance
      OBVIOUS
    <2>t. left \in Nat /\ attempt \in Nat
      BY ConstantTypes DEF IInv, TypeOK
    <2>1. CASE Caller
      BY <2>1 DEF Caller, Connect, Close, BeginFlush, BeginWrite, BeginRead, Ready
    <2>2. CASE Establish("dns", "tcp") \/ Establish("tcp", "certs") \/ LoadCerts \/ Handshake
      BY <2>2 DEF Establish, LoadCerts, Handshake, Gone, Advance, Stage
    <2>3. CASE SessionWrite
      <3>1. CASE Retry
        BY <2>3, <3>1, RetryAdvances DEF SessionWrite
      <3>2. ASSUME NEW n \in 0..Least(left, Room - Len(buffered)),
                   buffered' = buffered \o After(asked - left, n),
                   left' = left - n, pc' = "auto_flush", attempt' = 0
            PROVE  Advance
        <4>1. pc = "write" /\ buffered = << >> /\ asked - left \in Nat
          BY <2>3, ConstantTypes DEF SessionWrite, IInv, TypeOK, Records, Writing
        <4>2. n \in Nat
          BY <3>2
        <4>3. CASE n > 0
          BY <2>t, <3>2, <4>2, <4>3 DEF Advance
        <4>4. CASE n = 0
          <5>1. buffered' = << >>
            BY <3>2, <4>1, <4>4, AfterNothing
          <5> QED
            BY <2>t, <3>2, <4>1, <4>4, <5>1 DEF Advance, Stage
        <4> QED
          BY <4>2, <4>3, <4>4
      <3> QED
        BY <2>3, <3>1, <3>2 DEF SessionWrite, Done
    <2>4. CASE AutoFlush
      <3>1. /\ pc = "auto_flush" /\ left' = left
            /\ \/ buffered # << >> /\ pc' = "write"
               \/ buffered = << >> /\ pc' = "probe"
        BY <2>4 DEF AutoFlush, AfterWrite, Done
      <3> QED
        BY <3>1 DEF Advance, Stage
    <2>5. CASE Probe
      BY <2>5 DEF Probe, Done
    <2>6. CASE Flush \/ Read
      BY <2>6, RetryAdvances DEF Flush, Read, HandOver, Done
    <2>7. CASE ReadExact
      <3>1. CASE Retry
        BY <2>7, <3>1, RetryAdvances DEF ReadExact
      <3>2. ASSUME NEW n \in 1..left, left' = left - n
            PROVE  Advance
        BY <2>t, <3>2 DEF Advance
      <3> QED
        BY <2>7, <3>1, <3>2 DEF ReadExact, HandOver, NextPart, Done
    <2> QED
      BY <2>1, <2>2, <2>3, <2>4, <2>5, <2>6, <2>7 DEF Next, Step
  <1> QED
    BY <1>1, SpecInv, PTL DEF Spec, OperationAdvances, Advance
=============================================================================
