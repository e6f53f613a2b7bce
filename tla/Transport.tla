------------------------------ MODULE Transport ------------------------------
(***************************************************************************)
(* The connection under the update and the measurement                     *)
(* (src/src/transport.rs): how it is made, its reads and writes with their *)
(* retries, and how it ends.  Between two awaits lies one action; every    *)
(* await is a call of the TLS session, which may do part of what it was    *)
(* asked for, or fail.                                                     *)
(*                                                                         *)
(* The session is external.  It collects what is written in a record       *)
(* buffer until it is flushed.  A write or a read that fails has accepted  *)
(* or consumed nothing; a flush that fails may have sent a part, and may   *)
(* have forgotten the rest.  A byte is its position in its stream, so that *)
(* one that is lost, repeated or out of order shows.                       *)
(***************************************************************************)
EXTENDS Integers, Sequences

CONSTANTS
  MaxRetries,  \* MAX_RETRIES
  Room,        \* bytes a TLS record takes
  MaxBuf,      \* bytes of the longest buffer a caller passes
  MaxStream    \* bound on the bytes of a connection, each way

ASSUME TransportAssumption == {MaxRetries, Room, MaxBuf, MaxStream} \subseteq Nat \ {0}

VARIABLES
  config,    \* whether cfg.toml has each PEM text and it decodes
  certs,     \* CERTS_PTR: whether the decoded certificates are cached
  inits,     \* how often CACHED_CERTS was initialised
  session,   \* "none" or "open"
  pc,        \* the await the connection is at
  all,       \* whether the write under way belongs to write_all
  attempt,   \* retries so far
  left,      \* bytes of the caller's buffer still to write or to fill
  asked,     \* bytes handed to write and write_all
  buffered,  \* what the session has accepted and not sent
  sent,      \* what the peer received
  short,     \* a write_all ended well with a part of its buffer unsent
  broken,    \* a write, or a flush, reported an error
  consumed,  \* bytes read from the session
  taken,     \* what read and read_exact left in their callers' buffers
  into       \* the caller's buffer while it is read into, 0 where it is as it was

static == <<config, certs, inits>>
writing == <<all, asked, buffered, sent, short, broken>>
reading == <<consumed, taken, into>>
vars == <<static, session, pc, attempt, left, writing, reading>>

Field == {"tls_ca", "tls_cert", "tls_key"}

TypeOK ==
  /\ config \in [Field -> BOOLEAN]
  /\ certs \in BOOLEAN /\ inits \in 0..1
  /\ session \in {"none", "open"}
  /\ pc \in {"idle", "dns", "tcp", "certs", "handshake",
             "write", "auto_flush", "probe", "flush", "read", "read_exact"}
  /\ attempt \in 0..(MaxRetries - 1)
  /\ left \in 0..MaxBuf
  /\ all \in BOOLEAN /\ short \in BOOLEAN /\ broken \in BOOLEAN
  /\ asked \in 0..MaxStream /\ consumed \in 0..MaxStream
  /\ buffered \in Seq(1..MaxStream) /\ sent \in Seq(1..MaxStream)
  /\ taken \in Seq(1..MaxStream) /\ into \in Seq(0..MaxStream)

Least(m, n) == IF m < n THEN m ELSE n

(* The first n bytes of a stream, and the n bytes after position p. *)
Stream(n) == [i \in 1..n |-> i]
After(p, n) == [i \in 1..n |-> p + i]

-----------------------------------------------------------------------------
Init ==
  /\ config \in [Field -> BOOLEAN]
  /\ certs = FALSE /\ inits = 0
  /\ session = "none" /\ pc = "idle"
  /\ attempt = 0 /\ left = 0 /\ all = FALSE
  /\ asked = 0 /\ buffered = << >> /\ sent = << >>
  /\ short = FALSE /\ broken = FALSE
  /\ consumed = 0 /\ taken = << >> /\ into = << >>

(* The session is gone, and all its streams with it. *)
Gone ==
  /\ session' = "none" /\ pc' = "idle"
  /\ attempt' = 0 /\ left' = 0 /\ all' = FALSE
  /\ asked' = 0 /\ buffered' = << >> /\ sent' = << >>
  /\ short' = FALSE /\ broken' = FALSE
  /\ consumed' = 0 /\ taken' = << >> /\ into' = << >>

-----------------------------------------------------------------------------
(* Transport::new. *)

Connect ==
  /\ session = "none" /\ pc = "idle"
  /\ pc' = "dns"
  /\ UNCHANGED <<static, session, attempt, left, writing, reading>>

(* The step at p succeeds, or new returns one of its errors. *)
Establish(p, next) ==
  /\ pc = p
  /\ \/ pc' = next /\ UNCHANGED <<static, session, attempt, left, writing, reading>>
     \/ Gone /\ UNCHANGED static

(* decode_pem gives every text of cfg.toml that CachedCerts needs. *)
Decodable == \A f \in Field : config[f]

(* get_or_init_cached_certs: decoded on first use, all or none of them.   *)
(* A key that decodes and is no SEC1 key is only logged.                   *)
LoadCerts ==
  /\ pc = "certs"
  /\ \/ /\ certs
        /\ pc' = "handshake"
        /\ UNCHANGED <<static, session, attempt, left, writing, reading>>
     \/ /\ ~ certs /\ Decodable
        /\ certs' = TRUE /\ inits' = inits + 1
        /\ pc' = "handshake"
        /\ UNCHANGED <<config, session, attempt, left, writing, reading>>
     \/ /\ ~ certs /\ ~ Decodable
        /\ Gone /\ UNCHANGED static

Handshake ==
  /\ pc = "handshake"
  /\ \/ /\ session' = "open" /\ pc' = "idle"
        /\ UNCHANGED <<static, attempt, left, writing, reading>>
     \/ Gone /\ UNCHANGED static

-----------------------------------------------------------------------------
(* What callers do between two operations.  After a failed write they only *)
(* end the session: Ota::check closes it, Measurement::take drops it.      *)
Ready == pc = "idle" /\ session = "open"

(* Transport::write with a buffer of n bytes, or write_all.  The loop of   *)
(* write_all does not begin for an empty buffer.                           *)
BeginWrite(n, whole) ==
  /\ Ready /\ ~ broken
  /\ asked + n <= MaxStream
  /\ asked' = asked + n
  /\ left' = n
  /\ all' = whole
  /\ pc' = IF n = 0 /\ whole THEN "idle" ELSE "write"
  /\ UNCHANGED <<static, session, attempt, buffered, sent, short, broken, reading>>

(* Mutant: one attempt too many. *)
RetryOnceMore == attempt + 1 <= MaxRetries /\ attempt' = attempt + 1 /\ UNCHANGED <<pc, left>>

(* A call that failed is made again, MAX_RETRIES times in all. *)
Retry == attempt + 1 < MaxRetries /\ attempt' = attempt + 1 /\ UNCHANGED <<pc, left>>
LastAttempt == attempt + 1 = MaxRetries

Done == pc' = "idle" /\ attempt' = 0 /\ left' = 0

(* session.write takes any part of the buffer that has room, or fails. *)
SessionWrite ==
  /\ pc = "write"
  /\ \/ \E n \in 0..Least(left, Room - Len(buffered)) :
          /\ buffered' = buffered \o After(asked - left, n)
          /\ left' = left - n
          /\ pc' = "auto_flush" /\ attempt' = 0
          /\ UNCHANGED <<all, asked, sent, short, broken>>
     \/ Retry /\ UNCHANGED writing
     \/ /\ LastAttempt /\ Done
        /\ broken' = TRUE
        /\ UNCHANGED <<all, asked, buffered, sent, short>>
  /\ UNCHANGED <<static, session, reading>>

(* session.flush sends what is buffered.  When it fails any part of it was *)
(* sent, and the rest is kept or forgotten.                                *)
Flushed == sent' = sent \o buffered /\ buffered' = << >>
FlushFailed ==
  \E k \in 0..Len(buffered) :
    /\ sent' = sent \o SubSeq(buffered, 1, k)
    /\ buffered' \in {SubSeq(buffered, k + 1, Len(buffered)), << >>}

(* Mutants: write does not flush; a flush that fails is made again. *)
AutoFlushNone ==
  /\ pc = "auto_flush"
  /\ IF all /\ left > 0 /\ Len(buffered) < Room
     THEN pc' = "write" /\ UNCHANGED <<attempt, left, asked>>
     ELSE Done /\ asked' = asked - left
  /\ UNCHANGED <<static, session, all, short, broken, buffered, sent, reading>>

AutoFlushRetried ==
  /\ pc = "auto_flush"
  /\ \/ /\ Flushed
        /\ IF all /\ left > 0
           THEN pc' = "write" /\ UNCHANGED <<attempt, left, asked>>
           ELSE Done /\ asked' = asked - left
        /\ UNCHANGED broken
     \/ FlushFailed /\ Retry /\ UNCHANGED <<asked, broken>>
     \/ FlushFailed /\ LastAttempt /\ Done /\ broken' = TRUE /\ UNCHANGED asked
  /\ UNCHANGED <<static, session, all, short, reading>>

(* Mutant: a session that takes nothing is asked again. *)
AfterWriteUnprobed ==
  \/ all /\ left > 0 /\ pc' = "write" /\ UNCHANGED <<attempt, left, asked>>
  \/ all /\ left = 0 /\ Done /\ UNCHANGED asked
  \/ ~ all /\ Done /\ asked' = asked - left

(* What follows a write that ended well: write returns what was taken;     *)
(* write_all goes on with the rest, or probes a session that took nothing. *)
AfterWrite ==
  \/ all /\ left > 0 /\ buffered # << >> /\ pc' = "write" /\ UNCHANGED <<attempt, left, asked>>
  \/ all /\ left > 0 /\ buffered = << >> /\ pc' = "probe" /\ UNCHANGED <<attempt, left, asked>>
  \/ all /\ left = 0 /\ Done /\ UNCHANGED asked
  \/ ~ all /\ Done /\ asked' = asked - left

(* The flush at the end of write, which is not made again. *)
AutoFlush ==
  /\ pc = "auto_flush"
  /\ \/ Flushed /\ AfterWrite /\ UNCHANGED broken
     \/ /\ FlushFailed /\ Done
        /\ broken' = TRUE
        /\ UNCHANGED asked
  /\ UNCHANGED <<static, session, all, short, reading>>

(* write_all writes nothing, to get the error of the session.  There may   *)
(* be none: then it ends well with the rest of its buffer unsent.          *)
Probe ==
  /\ pc = "probe"
  /\ Done
  /\ \/ broken' = TRUE /\ UNCHANGED short
     \/ short' = TRUE /\ UNCHANGED broken
  /\ UNCHANGED <<static, session, all, asked, buffered, sent, reading>>

BeginFlush ==
  /\ Ready /\ ~ broken
  /\ pc' = "flush"
  /\ UNCHANGED <<static, session, attempt, left, writing, reading>>

(* Transport::flush.  Every write has flushed what it was given, and after *)
(* one that failed nothing is flushed, so that the record buffer is empty. *)
Flush ==
  /\ pc = "flush"
  /\ \/ Flushed /\ Done /\ UNCHANGED broken
     \/ FlushFailed /\ Retry /\ UNCHANGED broken
     \/ FlushFailed /\ LastAttempt /\ Done /\ broken' = TRUE
  /\ UNCHANGED <<static, session, all, asked, short, reading>>

-----------------------------------------------------------------------------
(* Transport::read and read_exact with a buffer of n bytes. *)
BeginRead(n, exact) ==
  /\ Ready
  /\ left' = n
  /\ into' = [i \in 1..n |-> 0]
  /\ pc' = IF ~ exact THEN "read" ELSE IF n = 0 THEN "idle" ELSE "read_exact"
  /\ UNCHANGED <<static, session, attempt, writing, consumed, taken>>

(* The slice that is handed to session.read is the end of the caller's     *)
(* buffer: what is in front of it was filled by the reads before.          *)
Filled == Len(into) - left

(* session.read hands over n bytes, in the order they came. *)
Receive(n) == consumed + n <= MaxStream /\ consumed' = consumed + n

(* Mutant: a part is put over the one before it. *)
PlacedAtFront(n) ==
  [i \in 1..Len(into) |-> IF i <= n THEN consumed + i ELSE into[i]]

(* The caller's buffer with n bytes at the start of the slice. *)
Placed(n) ==
  [i \in 1..Len(into) |-> IF i \in (Filled + 1)..(Filled + n)
                          THEN consumed + (i - Filled) ELSE into[i]]

(* The operation returns, and leaves n bytes in the buffer. *)
HandOver(buf, n) == Done /\ taken' = taken \o SubSeq(buf, 1, n) /\ into' = << >>

(* Some bytes, none at the end of the stream, or an error: one that means  *)
(* the end of the stream is returned at once, any other after the retries. *)
Read ==
  /\ pc = "read"
  /\ \/ \E n \in 0..left : Receive(n) /\ HandOver(Placed(n), n)
     \/ Retry /\ UNCHANGED reading
     \/ HandOver(into, 0) /\ UNCHANGED consumed
  /\ UNCHANGED <<static, session, writing>>

(* A part that does not fill the buffer: the slice becomes what is behind  *)
(* it, and the retries start again.                                        *)
NextPart(n) ==
  /\ into' = Placed(n)
  /\ left' = left - n
  /\ attempt' = 0
  /\ UNCHANGED <<pc, taken>>

(* Mutant: the counter wraps around before its limit. *)
ReadExactUncounted ==
  /\ pc = "read_exact"
  /\ \/ \E n \in 1..left :
          Receive(n) /\ IF n = left THEN HandOver(Placed(n), Len(into)) ELSE NextPart(n)
     \/ attempt' = (attempt + 1) % (MaxRetries - 1) /\ UNCHANGED <<pc, left, reading>>
     \/ HandOver(into, Filled) /\ UNCHANGED consumed
  /\ UNCHANGED <<static, session, writing>>

(* An error, or the end of the stream, leaves the buffer filled in part. *)
ReadExact ==
  /\ pc = "read_exact"
  /\ \/ \E n \in 1..left :
          Receive(n) /\ IF n = left THEN HandOver(Placed(n), Len(into)) ELSE NextPart(n)
     \/ Retry /\ UNCHANGED reading
     \/ HandOver(into, Filled) /\ UNCHANGED consumed
  /\ UNCHANGED <<static, session, writing>>

-----------------------------------------------------------------------------
(* Transport::close: the session flushes, or aborts the socket; or it is   *)
(* only dropped.                                                           *)
Close == Ready /\ Gone /\ UNCHANGED static

-----------------------------------------------------------------------------
Caller ==
  \/ Connect \/ Close \/ BeginFlush
  \/ \E n \in 0..MaxBuf : \/ n > 0 /\ BeginWrite(n, FALSE)
                          \/ BeginWrite(n, TRUE)
                          \/ n > 0 /\ BeginRead(n, FALSE)
                          \/ BeginRead(n, TRUE)

Step ==
  \/ Establish("dns", "tcp") \/ Establish("tcp", "certs") \/ LoadCerts \/ Handshake
  \/ SessionWrite \/ AutoFlush \/ Probe \/ Flush \/ Read \/ ReadExact

Next == Caller \/ Step

Spec == Init /\ [][Next]_vars

(* Every call of the session comes back: the socket has a timeout. *)
FairSpec == Spec /\ WF_vars(Step)

-----------------------------------------------------------------------------
(* The peer and the record buffer hold the bytes handed over, from the     *)
(* first one on, none twice and none left out, through parts accepted,     *)
(* retries of writes and flushes that sent only a part; unless write_all   *)
(* ended well without its whole buffer, after which they hold a gap.       *)
WrittenInOrder ==
  ~ short =>
    /\ Len(sent) + Len(buffered) <= asked
    /\ sent \o buffered = Stream(Len(sent) + Len(buffered))

(* When a call has returned without an error, everything it was given or   *)
(* says it took is with the peer, and nothing waits for a flush that no    *)
(* one will ask for.                                                       *)
NothingLeftBehind ==
  Ready /\ ~ broken /\ ~ short => sent = Stream(asked)

(* Every byte read from the session is where its caller finds it, in the   *)
(* order of the stream: what the reads before filled is neither read over  *)
(* nor left out by the parts and the retries that follow it.               *)
ReadInOrder == taken \o SubSeq(into, 1, Filled) = Stream(consumed)

(* The writing side keeps the promise of a byte stream. *)
Abstract == INSTANCE ByteStream WITH carried <- sent, void <- short, failed <- broken
ImplementsByteStream == Abstract!Spec

(* The step of an operation within one part of its buffer; what a write    *)
(* left to flush comes before the next call of write, an empty flush after *)
(* it.                                                                     *)
Stage == CASE pc = "dns" -> 7 [] pc = "tcp" -> 6
           [] pc = "certs" -> 5 [] pc = "handshake" -> 4
           [] pc = "auto_flush" /\ buffered # << >> -> 3
           [] pc = "write" -> 2
           [] pc = "auto_flush" /\ buffered = << >> -> 1
           [] OTHER -> 0

(* Every await of an operation brings it nearer to its end: some of its    *)
(* buffer is done, or it is at a later step of the part under way, or has  *)
(* one retry less.  A session that takes nothing or gives nothing cannot   *)
(* keep the loops of write_all and read_exact going.                       *)
OperationAdvances ==
  [][pc # "idle" /\ pc' # "idle" =>
       \/ left' < left
       \/ left' = left /\ Stage' < Stage
       \/ left' = left /\ Stage' = Stage /\ attempt < attempt' /\ attempt' < MaxRetries]_vars

(* Every operation returns: the retries and the loops are bounded however  *)
(* often the session fails.                                                *)
OperationsEnd == pc # "idle" ~> pc = "idle"
=============================================================================
