---------------------------- MODULE SemVer_proofs ----------------------------
(***************************************************************************)
(* is_greater_than is a strict total order on everything Parse returns,    *)
(* for every width of integers.                                            *)
(***************************************************************************)
EXTENDS SemVer, TLAPS

(* What SemVer::parse returns is a well-formed version, whatever the text. *)
LEMMA ParseType == ASSUME NEW t PROVE Parse(t) \in SemVer \cup {None}
<1>1. ASSUME NEW p PROVE PreReleaseParse(p) \in PreRelease
  <2>1. KindOf(p.stem) \in PreReleaseKind
    BY DEF KindOf, PreReleaseKind, Alpha, Beta, Rc, Other
  <2>2. QED BY <2>1 DEF PreReleaseParse, PreRelease
<1>2. QED BY <1>1 DEF Parse, SemVer

(* No version is greater than itself, so a device never flashes the        *)
(* version it runs.                                                        *)
THEOREM GreaterIrreflexive ==
  ASSUME NEW a \in SemVer PROVE ~ IsGreaterThan(a, a)
BY SemVerAssumption DEF IsGreaterThan, StabilityGreater, PreReleaseGreater,
   NumberGreater, SemVer, PreRelease, PreReleaseKind, U32, Alpha, Beta, Rc, Other

(* The tie-break on pre-releases is transitive. *)
LEMMA StabilityTransitive ==
  ASSUME NEW p \in PreRelease \cup {None}, NEW q \in PreRelease \cup {None},
         NEW r \in PreRelease \cup {None},
         StabilityGreater(p, q), StabilityGreater(q, r)
  PROVE  StabilityGreater(p, r)
BY SemVerAssumption DEF StabilityGreater, PreReleaseGreater, NumberGreater,
   PreRelease, PreReleaseKind, U32, Alpha, Beta, Rc, Other

(* "Newer than" composes over any number of updates. *)
THEOREM GreaterTransitive ==
  ASSUME NEW a \in SemVer, NEW b \in SemVer, NEW c \in SemVer,
         IsGreaterThan(a, b), IsGreaterThan(b, c)
  PROVE  IsGreaterThan(a, c)
<1>1. StabilityGreater(a.pre_release, b.pre_release)
        /\ StabilityGreater(b.pre_release, c.pre_release)
        => StabilityGreater(a.pre_release, c.pre_release)
  BY StabilityTransitive DEF SemVer
<1>2. /\ a.major \in Int /\ a.minor \in Int /\ a.patch \in Int
      /\ b.major \in Int /\ b.minor \in Int /\ b.patch \in Int
      /\ c.major \in Int /\ c.minor \in Int /\ c.patch \in Int
  BY SemVerAssumption DEF SemVer, U32
<1>3. QED BY <1>1, <1>2 DEF IsGreaterThan

(* Two versions that are not equal are ordered one way or the other. *)
THEOREM GreaterTotal ==
  ASSUME NEW a \in SemVer, NEW b \in SemVer, a # b
  PROVE  IsGreaterThan(a, b) \/ IsGreaterThan(b, a)
<1>1. ASSUME NEW p \in PreRelease \cup {None}, NEW q \in PreRelease \cup {None}, p # q
      PROVE  StabilityGreater(p, q) \/ StabilityGreater(q, p)
  BY <1>1, SemVerAssumption DEF StabilityGreater, PreReleaseGreater,
     NumberGreater, PreRelease, PreReleaseKind, U32, Alpha, Beta, Rc, Other
<1>2. /\ a.major \in Int /\ a.minor \in Int /\ a.patch \in Int
      /\ b.major \in Int /\ b.minor \in Int /\ b.patch \in Int
      /\ a.pre_release \in PreRelease \cup {None}
      /\ b.pre_release \in PreRelease \cup {None}
  BY SemVerAssumption DEF SemVer, U32
<1>3. \/ a.major # b.major \/ a.minor # b.minor \/ a.patch # b.patch
      \/ a.pre_release # b.pre_release
  BY DEF SemVer
<1>4. QED BY <1>1, <1>2, <1>3 DEF IsGreaterThan
=============================================================================
