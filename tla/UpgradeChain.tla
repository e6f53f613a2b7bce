---------------------------- MODULE UpgradeChain ----------------------------
(***************************************************************************)
(* What the version order means over a device's lifetime: the server may   *)
(* offer any text, in any order, and the device moves to an offer only     *)
(* when ota.rs finds it strictly newer.  Everything else of an update is   *)
(* in OtaUpdate; here only the sequence of versions is kept.               *)
(***************************************************************************)
EXTENDS SemVer

CONSTANT Texts   \* the texts a server may answer with

VARIABLES
  start,         \* text of the firmware flashed over serial
  current        \* text compiled into the running firmware (VERSION)

vars == <<start, current>>

Valid == {t \in Texts : Parse(t) # None}

Init == /\ start \in Valid
        /\ current = start

(* ota.rs: both texts parse, and the remote one is strictly greater. *)
Accepts(t) == /\ Parse(t) # None
              /\ IsGreaterThan(Parse(t), Parse(current))

Offer(t) == /\ Accepts(t)
            /\ current' = t
            /\ UNCHANGED start

Next == \E t \in Texts : Offer(t)

Spec == Init /\ [][Next]_vars

-----------------------------------------------------------------------------
(***************************************************************************)
(* The order the documentation of semver.rs describes, written             *)
(* independently of the comparison: versions as tuples of numbers,         *)
(* compared at the first place where they differ.                          *)
(***************************************************************************)
Rank(v) ==
  <<v.major, v.minor, v.patch>> \o
  IF v.pre_release = None THEN <<1, 0, 0>>
  ELSE <<0, v.pre_release.kind,
         IF v.pre_release.number = None THEN 0 ELSE v.pre_release.number + 1>>

LexGreater(s, t) ==
  \E i \in DOMAIN s : /\ s[i] > t[i]
                      /\ \A j \in 1..(i - 1) : s[j] = t[j]

(* is_greater_than decides exactly the documented order alpha < beta < rc  *)
(* < other < stable, numbers after kinds and an absent number first,       *)
(* between the running version and everything a server may offer.          *)
OrderIsDocumented ==
  \A t \in Valid :
    /\ Accepts(t) <=> LexGreater(Rank(Parse(t)), Rank(Parse(current)))
    /\ IsGreaterThan(Parse(current), Parse(t))
         <=> LexGreater(Rank(Parse(current)), Rank(Parse(t)))

(* A device that only follows strictly newer offers never comes back to a  *)
(* version equal to or older than one it ran before, however many updates  *)
(* lie between: no server can make it flash in a circle.                   *)
NeverRevisits ==
  current # start =>
    /\ IsGreaterThan(Parse(current), Parse(start))
    /\ ~ Accepts(start)

(* The three outcomes ota.rs logs are exclusive and exhaustive: an offer   *)
(* that parses is newer, equal to VERSION, or older.                       *)
Trichotomy ==
  \A t \in Valid :
    LET newer == Accepts(t)
        same  == Parse(t) = Parse(current)
        older == IsGreaterThan(Parse(current), Parse(t))
    IN  /\ newer \/ same \/ older
        /\ ~ (newer /\ same) /\ ~ (newer /\ older) /\ ~ (same /\ older)
=============================================================================
