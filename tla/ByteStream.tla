----------------------------- MODULE ByteStream -----------------------------
(***************************************************************************)
(* What a connection promises to those who write to it: bytes arrive in    *)
(* the order they were handed over, none twice and none left out, and the  *)
(* next call is made when the bytes of the earlier ones have arrived.      *)
(* Neither holds any more once the promise is void.  A byte is its         *)
(* position in the stream.                                                 *)
(***************************************************************************)
EXTENDS Integers, Sequences

VARIABLES
  asked,    \* bytes handed over so far
  carried,  \* the bytes that arrived
  void,     \* success was reported for bytes that will not arrive
  failed    \* a call reported an error, and no other one follows

vars == <<asked, carried, void, failed>>

Stream(n) == [i \in 1..n |-> i]

Init == asked = 0 /\ carried = << >> /\ void = FALSE /\ failed = FALSE

(* Bytes arrive in order.  A call that reports having taken less than it   *)
(* was given takes the others back; one that fails is the last.            *)
Progress ==
  /\ ~ void
  /\ \E n \in Len(carried)..asked :
       /\ carried' = Stream(n)
       /\ asked' \in n..asked
  /\ void' \in BOOLEAN
  /\ failed' \in {failed, TRUE}

(* The next call, when the earlier ones have done what they reported. *)
Ask ==
  /\ ~ void /\ ~ failed
  /\ carried = Stream(asked)
  /\ asked' \in Nat /\ asked' >= asked
  /\ UNCHANGED <<carried, void, failed>>

Reopen == asked' = 0 /\ carried' = << >> /\ void' = FALSE /\ failed' = FALSE

Next == Progress \/ Ask \/ Reopen \/ (void /\ void')

Spec == Init /\ [][Next]_vars
=============================================================================
