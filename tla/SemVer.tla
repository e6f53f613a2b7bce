-------------------------------- MODULE SemVer --------------------------------
(***************************************************************************)
(* Firmware versions and the order on them (src/src/semver.rs).  The OTA    *)
(* updater flashes a release only when its version is_greater_than the one  *)
(* compiled into the running image, so this order decides what a device     *)
(* will ever install.                                                       *)
(*                                                                          *)
(* A version text is abstracted to what the parser distinguishes: the       *)
(* dot-separated parts before the first '-', each a number or Junk, and an  *)
(* optional pre-release, which is a stem followed by a suffix.  White space *)
(* around the text, a 'v' or 'V' prefix, the letter case of the stem and    *)
(* the dots before the suffix are dropped by the parser and are not kept.   *)
(***************************************************************************)
EXTENDS Integers, Sequences

CONSTANTS
  None,     \* Option::None
  Junk,     \* text that does not parse as a u32
  MaxU32    \* the largest u32

ASSUME SemVerAssumption ==
  /\ MaxU32 \in Nat
  /\ None \notin Int
  /\ Junk \notin Int
  /\ Junk # None

U32 == 0..MaxU32

(* enum PreReleaseKind: the derived Ord is the order of declaration. *)
Alpha == 0
Beta  == 1
Rc    == 2
Other == 3
PreReleaseKind == {Alpha, Beta, Rc, Other}

PreRelease == [kind : PreReleaseKind, number : U32 \cup {None}]
SemVer     == [major : U32, minor : U32, patch : U32,
               pre_release : PreRelease \cup {None}]

-----------------------------------------------------------------------------
(* Parsing. *)

(* A pre-release text: the stem is the known word the text starts with,    *)
(* "" when it starts with none and is a number or empty, and "word" when   *)
(* it starts with any other word; the rest is None when empty.             *)
PreText == [stem : {"alpha", "beta", "rc", "word", ""},
            rest : Int \cup {None, Junk}]
Text    == [parts : Seq(Int \cup {Junk}), pre : PreText \cup {None}]

KindOf(stem) == CASE stem = "alpha" -> Alpha
                  [] stem = "beta"  -> Beta
                  [] stem = "rc"    -> Rc
                  [] OTHER          -> Other

(* An unknown word is not stripped before the number is parsed, so the     *)
(* number of "nightly.2" is None.                                          *)
PreReleaseParse(p) ==
  [kind   |-> KindOf(p.stem),
   number |-> IF p.stem # "word" /\ p.rest \in U32 THEN p.rest ELSE None]

Parse(t) ==
  IF Len(t.parts) = 3 /\ \A i \in 1..3 : t.parts[i] \in U32
  THEN [major |-> t.parts[1], minor |-> t.parts[2], patch |-> t.parts[3],
        pre_release |-> IF t.pre = None THEN None ELSE PreReleaseParse(t.pre)]
  ELSE None

-----------------------------------------------------------------------------
(* Comparison. *)

(* Mutant: an absent number is the greatest. *)
NumberGreaterNoneLast(m, n) ==
  /\ n # None
  /\ m # None => m > n

(* None < Some(0) < Some(1) < ... *)
NumberGreater(m, n) ==
  /\ m # None
  /\ n # None => m > n

(* PreRelease::cmp(a, b) == Ordering::Greater *)
PreReleaseGreater(a, b) ==
  \/ a.kind > b.kind
  \/ a.kind = b.kind /\ NumberGreater(a.number, b.number)

(* Mutant: two pre-releases are not compared. *)
StabilityGreaterCoarse(p, q) == p = None /\ q # None

(* The pre-release tie-break: a stable release is above every pre-release. *)
StabilityGreater(p, q) ==
  \/ p = None /\ q # None
  \/ p # None /\ q # None /\ PreReleaseGreater(p, q)

(* Mutant: a difference does not end the comparison. *)
IsGreaterThanAnywhere(a, b) ==
  \/ a.major > b.major \/ a.minor > b.minor \/ a.patch > b.patch
  \/ StabilityGreater(a.pre_release, b.pre_release)

IsGreaterThan(a, b) ==
  \/ a.major > b.major
  \/ /\ a.major = b.major
     /\ \/ a.minor > b.minor
        \/ /\ a.minor = b.minor
           /\ \/ a.patch > b.patch
              \/ a.patch = b.patch /\ StabilityGreater(a.pre_release, b.pre_release)
=============================================================================
