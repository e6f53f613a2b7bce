------------------------- MODULE UpgradeChain_proofs -------------------------
(***************************************************************************)
(* A device that follows the version order never flashes in a circle,      *)
(* whatever texts the server offers, and the order is the documented one.  *)
(***************************************************************************)
EXTENDS UpgradeChain, SemVer_proofs

(* The strengthening of NeverRevisits that a step preserves: both texts     *)
(* parse, and the running version is the first one or greater than it.     *)
ChainInv ==
  /\ start \in Valid
  /\ current \in Valid
  /\ current = start \/ IsGreaterThan(Parse(current), Parse(start))

(* The inductive invariant of the chain of updates. *)
LEMMA ChainInvariant == Spec => []ChainInv
<1>1. ASSUME NEW t \in Valid PROVE Parse(t) \in SemVer
  BY ParseType DEF Valid
<1>2. Init => ChainInv
  BY DEF Init, ChainInv
<1>3. ChainInv /\ [Next]_vars => ChainInv'
  <2> SUFFICES ASSUME ChainInv, [Next]_vars PROVE ChainInv'
    OBVIOUS
  <2>1. ASSUME NEW t \in Texts, Offer(t) PROVE ChainInv'
    <3>1. t \in Valid /\ IsGreaterThan(Parse(t), Parse(current))
      BY <2>1 DEF Offer, Accepts, Valid
    <3>2. current = start \/ IsGreaterThan(Parse(t), Parse(start))
      BY <1>1, <3>1, GreaterTransitive DEF ChainInv
    <3>3. QED BY <2>1, <3>1, <3>2 DEF Offer, ChainInv, Valid
  <2>2. CASE UNCHANGED vars
    BY <2>2 DEF vars, ChainInv, Valid
  <2>3. QED BY <2>1, <2>2 DEF Next
<1>4. QED BY <1>2, <1>3, PTL DEF Spec

(* Whatever the server offers, the running version only moves up, and the  *)
(* version a device started from is never accepted again.                  *)
THEOREM ChainNeverRevisits == Spec => []NeverRevisits
<1>1. ASSUME ChainInv, current # start, Accepts(start) PROVE FALSE
  <2>1. /\ IsGreaterThan(Parse(current), Parse(start))
        /\ IsGreaterThan(Parse(start), Parse(current))
    BY <1>1 DEF ChainInv, Accepts
  <2>2. Parse(start) \in SemVer /\ Parse(current) \in SemVer
    BY <1>1, ParseType DEF ChainInv, Valid
  <2>3. QED BY <2>1, <2>2, GreaterTransitive, GreaterIrreflexive
<1>2. ChainInv => NeverRevisits
  BY <1>1 DEF NeverRevisits, ChainInv
<1>3. QED BY <1>2, ChainInvariant, PTL

(* The three outcomes the updater distinguishes are exclusive and cover    *)
(* every offer that parses.                                                *)
THEOREM ChainTrichotomy == Spec => []Trichotomy
<1>1. ASSUME ChainInv, NEW t \in Valid
      PROVE  /\ \/ IsGreaterThan(Parse(t), Parse(current))
                \/ Parse(t) = Parse(current)
                \/ IsGreaterThan(Parse(current), Parse(t))
             /\ ~ (/\ IsGreaterThan(Parse(t), Parse(current))
                   /\ Parse(t) = Parse(current))
             /\ ~ (/\ IsGreaterThan(Parse(t), Parse(current))
                   /\ IsGreaterThan(Parse(current), Parse(t)))
             /\ ~ (/\ Parse(t) = Parse(current)
                   /\ IsGreaterThan(Parse(current), Parse(t)))
  <2>1. Parse(t) \in SemVer /\ Parse(current) \in SemVer
    BY <1>1, ParseType DEF ChainInv, Valid
  <2>2. QED BY <2>1, GreaterIrreflexive, GreaterTransitive, GreaterTotal
<1>2. ChainInv => Trichotomy
  BY <1>1 DEF Trichotomy, Accepts, Valid
<1>3. QED BY <1>2, ChainInvariant, PTL

-----------------------------------------------------------------------------
(* The documented order. *)

(* The entries of a rank behind the three numbers. *)
PreRank(p) ==
  IF p = None THEN <<1, 0, 0>>
  ELSE <<0, p.kind, IF p.number = None THEN 0 ELSE p.number + 1>>

(* They are three numbers. *)
LEMMA PreRankType ==
  ASSUME NEW p \in PreRelease \cup {None}
  PROVE  PreRank(p) \in Seq(Int) /\ Len(PreRank(p)) = 3
<1>1. CASE p = None
  BY <1>1 DEF PreRank
<1>2. CASE p # None
  <2>1. p.kind \in Int /\ (p.number # None => p.number \in Int)
    BY <1>2 DEF PreRelease, PreReleaseKind, Alpha, Beta, Rc, Other, U32
  <2>2. (IF p.number = None THEN 0 ELSE p.number + 1) \in Int
    BY <2>1
  <2>3. PreRank(p) = <<0, p.kind, IF p.number = None THEN 0 ELSE p.number + 1>>
    BY <1>2 DEF PreRank
  <2>4. QED BY <2>1, <2>2, <2>3
<1>3. QED BY <1>1, <1>2

(* Two sequences of numbers, one behind the other. *)
LEMMA ConcatInts ==
  ASSUME NEW a \in Seq(Int), NEW b \in Seq(Int)
  PROVE  /\ a \o b \in Seq(Int) /\ Len(a \o b) = Len(a) + Len(b)
         /\ \A i \in 1..Len(a) : (a \o b)[i] = a[i]
         /\ \A i \in (Len(a) + 1)..Len(a \o b) : (a \o b)[i] = b[i - Len(a)]
OBVIOUS

(* A rank is six numbers. *)
LEMMA RankEntries ==
  ASSUME NEW v \in SemVer
  PROVE  /\ DOMAIN Rank(v) = 1..6
         /\ Rank(v)[1] = v.major /\ Rank(v)[2] = v.minor /\ Rank(v)[3] = v.patch
         /\ \A i \in 1..3 : Rank(v)[i + 3] = PreRank(v.pre_release)[i]
<1> DEFINE head == <<v.major, v.minor, v.patch>>
           tail == PreRank(v.pre_release)
<1>1. head \in Seq(Int) /\ Len(head) = 3
      /\ head[1] = v.major /\ head[2] = v.minor /\ head[3] = v.patch
  BY DEF SemVer, U32
<1>2. tail \in Seq(Int) /\ Len(tail) = 3
  BY PreRankType DEF SemVer
<1>3. Rank(v) = head \o tail
  BY DEF Rank, PreRank
<1> HIDE DEF head, tail
<1>4. /\ DOMAIN (head \o tail) = 1..6
      /\ \A i \in 1..3 : (head \o tail)[i] = head[i]
      /\ \A i \in 4..6 : (head \o tail)[i] = tail[i - 3]
  <2>1. /\ head \o tail \in Seq(Int) /\ Len(head \o tail) = Len(head) + Len(tail)
        /\ \A i \in 1..Len(head) : (head \o tail)[i] = head[i]
        /\ \A i \in (Len(head) + 1)..Len(head \o tail) : (head \o tail)[i] = tail[i - Len(head)]
    BY <1>1, <1>2, ConcatInts
  <2>2. DOMAIN (head \o tail) = 1..Len(head \o tail)
    BY <2>1
  <2>3. Len(head \o tail) = 6 /\ Len(head) + 1 = 4
    BY <1>1, <1>2, <2>1
  <2>4. QED BY <1>1, <2>1, <2>2, <2>3
<1>5. \A i \in 1..3 : (head \o tail)[i + 3] = tail[i]
  <2>1. \A i \in 1..3 : i + 3 \in 4..6 /\ (i + 3) - 3 = i
    OBVIOUS
  <2>2. QED BY <1>4, <2>1
<1>6. /\ DOMAIN Rank(v) = 1..6
      /\ \A i \in 1..3 : Rank(v)[i] = head[i]
      /\ \A i \in 1..3 : Rank(v)[i + 3] = tail[i]
  BY <1>3, <1>4, <1>5
<1>7. QED BY <1>1, <1>6 DEF tail

(* Six numbers are compared at the first place where they differ. *)
LEMMA LexSix ==
  ASSUME NEW s, NEW t, DOMAIN s = 1..6
  PROVE  LexGreater(s, t) <=>
           \/ s[1] > t[1]
           \/ s[1] = t[1] /\ s[2] > t[2]
           \/ s[1] = t[1] /\ s[2] = t[2] /\ s[3] > t[3]
           \/ s[1] = t[1] /\ s[2] = t[2] /\ s[3] = t[3] /\ s[4] > t[4]
           \/ s[1] = t[1] /\ s[2] = t[2] /\ s[3] = t[3] /\ s[4] = t[4] /\ s[5] > t[5]
           \/ /\ s[1] = t[1] /\ s[2] = t[2] /\ s[3] = t[3] /\ s[4] = t[4] /\ s[5] = t[5]
              /\ s[6] > t[6]
<1> DEFINE At(i) == s[i] > t[i] /\ \A j \in 1..(i - 1) : s[j] = t[j]
<1>1. LexGreater(s, t) <=> \E i \in 1..6 : At(i)
  BY DEF LexGreater
<1>2. 1..6 = {1, 2, 3, 4, 5, 6}
  OBVIOUS
<1>3. /\ At(1) <=> s[1] > t[1]
      /\ At(2) <=> s[1] = t[1] /\ s[2] > t[2]
      /\ At(3) <=> s[1] = t[1] /\ s[2] = t[2] /\ s[3] > t[3]
  OBVIOUS
<1>4. At(4) <=> s[1] = t[1] /\ s[2] = t[2] /\ s[3] = t[3] /\ s[4] > t[4]
  <2>1. 1..(4 - 1) = {1, 2, 3}
    OBVIOUS
  <2>2. QED BY <2>1
<1>5. At(5) <=> s[1] = t[1] /\ s[2] = t[2] /\ s[3] = t[3] /\ s[4] = t[4] /\ s[5] > t[5]
  <2>1. 1..(5 - 1) = {1, 2, 3, 4}
    OBVIOUS
  <2>2. QED BY <2>1
<1>6. At(6) <=> /\ s[1] = t[1] /\ s[2] = t[2] /\ s[3] = t[3] /\ s[4] = t[4] /\ s[5] = t[5]
                /\ s[6] > t[6]
  <2>1. 1..(6 - 1) = {1, 2, 3, 4, 5}
    OBVIOUS
  <2>2. QED BY <2>1
<1> HIDE DEF At
<1>7. QED BY <1>1, <1>2, <1>3, <1>4, <1>5, <1>6

(* The tie-break compares the entries for stability, kind and number. *)
LEMMA StabilityRank ==
  ASSUME NEW p \in PreRelease \cup {None}, NEW q \in PreRelease \cup {None}
  PROVE  LET s == PreRank(p)
             t == PreRank(q)
         IN  StabilityGreater(p, q) <=>
               \/ s[1] > t[1]
               \/ s[1] = t[1] /\ s[2] > t[2]
               \/ s[1] = t[1] /\ s[2] = t[2] /\ s[3] > t[3]
BY SemVerAssumption DEF PreRank, StabilityGreater, PreReleaseGreater, NumberGreater,
   PreRelease, PreReleaseKind, U32, Alpha, Beta, Rc, Other

(* is_greater_than is the lexicographic order of the ranks. *)
LEMMA GreaterIsLex ==
  ASSUME NEW a \in SemVer, NEW b \in SemVer
  PROVE  IsGreaterThan(a, b) <=> LexGreater(Rank(a), Rank(b))
<1> DEFINE s == PreRank(a.pre_release)
           t == PreRank(b.pre_release)
<1>1. /\ Rank(a)[1] = a.major /\ Rank(a)[2] = a.minor /\ Rank(a)[3] = a.patch
      /\ Rank(a)[4] = s[1] /\ Rank(a)[5] = s[2] /\ Rank(a)[6] = s[3]
      /\ DOMAIN Rank(a) = 1..6
  BY RankEntries
<1>2. /\ Rank(b)[1] = b.major /\ Rank(b)[2] = b.minor /\ Rank(b)[3] = b.patch
      /\ Rank(b)[4] = t[1] /\ Rank(b)[5] = t[2] /\ Rank(b)[6] = t[3]
  BY RankEntries
<1>3. StabilityGreater(a.pre_release, b.pre_release) <=>
        \/ s[1] > t[1]
        \/ s[1] = t[1] /\ s[2] > t[2]
        \/ s[1] = t[1] /\ s[2] = t[2] /\ s[3] > t[3]
  BY StabilityRank DEF SemVer
<1> HIDE DEF s, t
<1>4. QED BY <1>1, <1>2, <1>3, LexSix DEF IsGreaterThan

(* Between what runs and what is offered, is_greater_than is the order     *)
(* that semver.rs documents, however long the chain of updates.            *)
THEOREM ChainOrder == Spec => []OrderIsDocumented
<1>1. ASSUME ChainInv, NEW t \in Valid
      PROVE  /\ Accepts(t) <=> LexGreater(Rank(Parse(t)), Rank(Parse(current)))
             /\ IsGreaterThan(Parse(current), Parse(t))
                  <=> LexGreater(Rank(Parse(current)), Rank(Parse(t)))
  <2>1. Parse(t) \in SemVer /\ Parse(current) \in SemVer /\ Parse(t) # None
    BY <1>1, ParseType DEF ChainInv, Valid
  <2>2. QED BY <2>1, GreaterIsLex DEF Accepts
<1>2. ChainInv => OrderIsDocumented
  BY <1>1 DEF OrderIsDocumented
<1>3. QED BY <1>2, ChainInvariant, PTL
=============================================================================
