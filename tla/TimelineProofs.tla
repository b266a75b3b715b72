--------------------------- MODULE TimelineProofs ---------------------------
(***************************************************************************)
(* Proofs about Timeline: what a reader has loaded is, at every moment, an *)
(* upper part of the rows that were there when it opened the list, and the *)
(* pages of it do not overlap; for any number of rows, readers, filters    *)
(* and page lengths.  The argument rests on the order of the rows, which   *)
(* is that of the texts of their start times.  Then what a detail shows,   *)
(* where the state of a payload comes from, and what the analytics count.  *)
(***************************************************************************)
EXTENDS Timeline, FiniteSetTheorems, SequenceTheorems, TLAPS

-----------------------------------------------------------------------------
(* The order of the rows.                                                  *)

\* Every set of numbers but the empty one has a least.
LEMMA LeastOf ==
    ASSUME NEW T \in SUBSET Nat, T # {}
    PROVE  \E x \in T : \A y \in T : x <= y
<1>1. IsWellFoundedOn(OpToRel(<, Nat), Nat)
  BY NatLessThanWellFounded, Zenon
<1>2. \A x, y \in Nat : <<y, x>> \in OpToRel(<, Nat) <=> y < x
  BY Zenon DEF OpToRel
<1>3. PICK x \in T : \A y \in T : <<y, x>> \notin OpToRel(<, Nat)
  BY <1>1, WFMin, Zenon
<1>4. \A y \in T : ~(y < x)
  BY <1>2, <1>3
<1> QED BY <1>4

\* A time is a second and the digits of a fraction.
LEMMA TimeType ==
    ASSUME NEW t \in Times
    PROVE  /\ t.sec \in Int /\ t.frac \in Seq(Int)
           /\ \A i \in 1..Len(t.frac) : t.frac[i] < 10
<1> DEFINE f == t.frac
<1>1. t.sec \in Nat /\ f \in Seq(0..9)
  BY DEF Times
<1> HIDE DEF f
<1>2. f \in [1..Len(f) -> 0..9] /\ Len(f) \in Nat
  BY <1>1, LenProperties, Zenon
<1>3. /\ f \in [1..Len(f) -> Int]
      /\ \A i \in 1..Len(f) : f[i] < 10
  BY <1>2
<1>4. f \in Seq(Int)
  BY <1>2, <1>3, SeqDef, Zenon
<1> QED BY <1>1, <1>3, <1>4 DEF f

\* A text is a second, then 'Z' or else '.' and digits up to the 'Z': no text begins
\* with a whole other one.
LEMMA TextShape ==
    ASSUME NEW t \in Times
    PROVE  /\ Text(t) \in Seq(Int) /\ Len(Text(t)) >= 2
           /\ Text(t)[1] = t.sec
           /\ Text(t)[2] = IF t.frac = <<>> THEN 10 ELSE -1
           /\ \A i \in 2..(Len(Text(t)) - 1) : Text(t)[i] < 10
           /\ Text(t)[Len(Text(t))] = 10
<1> DEFINE a == Text(t)
<1>1. t.sec \in Int /\ t.frac \in Seq(Int) /\ \A i \in 1..Len(t.frac) : t.frac[i] < 10
  BY TimeType
<1>2. CASE t.frac = <<>>
  BY <1>1, <1>2 DEF Text
<1>3. CASE t.frac # <<>>
  <2>1. a = (<<t.sec>> \o (<<-1>> \o t.frac)) \o <<10>>
    BY <1>3 DEF Text
  <2>2. /\ a \in Seq(Int) /\ Len(a) = Len(t.frac) + 3
        /\ a[1] = t.sec /\ a[2] = -1 /\ a[Len(a)] = 10
    BY <1>1, <2>1
  <2>3. ASSUME NEW i \in 3..(Len(a) - 1) PROVE a[i] = t.frac[i - 2]
    BY <1>1, <2>1, <2>2
  <2> HIDE DEF a
  <2>4. Len(t.frac) \in Nat /\ Len(a) = Len(t.frac) + 3
    BY <1>1, <2>2, LenProperties, Zenon
  <2>5. ASSUME NEW i \in 2..(Len(a) - 1) PROVE a[i] < 10
    <3>1. CASE i = 2
      BY <2>2, <3>1
    <3>2. CASE i # 2
      <4>1. i \in 3..(Len(a) - 1) /\ i - 2 \in 1..Len(t.frac)
        BY <2>4, <3>2
      <4>2. a[i] = t.frac[i - 2] /\ t.frac[i - 2] < 10
        BY <1>1, <2>3, <4>1, Zenon
      <4> QED BY <4>2, Zenon
    <3> QED BY <3>1, <3>2
  <2>6. Len(a) >= 2
    BY <2>4
  <2>7. a[2] = IF t.frac = <<>> THEN 10 ELSE -1
    BY <1>3, <2>2, Zenon
  <2> QED BY <2>2, <2>5, <2>6, <2>7, Zenon DEF a
<1> QED BY <1>2, <1>3

\* Two texts that differ do so at a first place, and there one comes before the other.
LEMMA BeforeTotal ==
    ASSUME NEW x \in Times, NEW y \in Times, Text(x) # Text(y)
    PROVE  Before(x, y) \/ Before(y, x)
<1> DEFINE a == Text(x)
           b == Text(y)
<1>1. /\ a \in Seq(Int) /\ Len(a) >= 2 /\ a[Len(a)] = 10
      /\ \A i \in 2..(Len(a) - 1) : a[i] < 10
      /\ b \in Seq(Int) /\ Len(b) >= 2 /\ b[Len(b)] = 10
      /\ \A i \in 2..(Len(b) - 1) : b[i] < 10
      /\ a # b
  BY TextShape
<1>2. /\ (\E i \in DOMAIN a \intersect DOMAIN b : a[i] < b[i] /\ \A j \in 1..(i - 1) : a[j] = b[j])
            => Before(x, y)
      /\ (\E i \in DOMAIN b \intersect DOMAIN a : b[i] < a[i] /\ \A j \in 1..(i - 1) : b[j] = a[j])
            => Before(y, x)
  BY DEF Before
<1> HIDE DEF a, b
<1> DEFINE apart == {i \in 1..Len(a) : i \in 1..Len(b) /\ a[i] # b[i]}
<1>3. apart # {}
  <2>1. SUFFICES ASSUME \A i \in 1..Len(a) : i \in 1..Len(b) => a[i] = b[i] PROVE FALSE
    OBVIOUS
  <2>2. Len(a) \in Nat /\ Len(b) \in Nat
    BY <1>1
  <2>3. CASE Len(a) = Len(b)
    <3>1. \A i \in 1..Len(a) : a[i] = b[i]
      BY <2>1, <2>3
    <3> QED BY <1>1, <2>3, <3>1, SeqEqual
  <2>4. CASE Len(a) < Len(b)
    <3>1. Len(a) \in 2..(Len(b) - 1) /\ Len(a) \in 1..Len(a) /\ Len(a) \in 1..Len(b)
      BY <1>1, <2>2, <2>4
    <3>2. a[Len(a)] = b[Len(a)] /\ b[Len(a)] < 10 /\ a[Len(a)] = 10
      BY <1>1, <2>1, <3>1
    <3> QED BY <3>2
  <2>5. CASE Len(b) < Len(a)
    <3>1. Len(b) \in 2..(Len(a) - 1) /\ Len(b) \in 1..Len(a) /\ Len(b) \in 1..Len(b)
      BY <1>1, <2>2, <2>5
    <3>2. a[Len(b)] = b[Len(b)] /\ a[Len(b)] < 10 /\ b[Len(b)] = 10
      BY <1>1, <2>1, <3>1
    <3> QED BY <3>2
  <2> QED BY <2>2, <2>3, <2>4, <2>5
<1>4. apart \in SUBSET Nat
  OBVIOUS
<1>5. PICK i \in apart : \A j \in apart : i <= j
  BY <1>3, <1>4, LeastOf
<1>6. i \in DOMAIN a \intersect DOMAIN b /\ a[i] # b[i] /\ a[i] \in Int /\ b[i] \in Int
  BY <1>1
<1>7. \A j \in 1..(i - 1) : a[j] = b[j]
  <2>1. \A j \in 1..(i - 1) : j \in 1..Len(a) /\ j \in 1..Len(b) /\ ~(i <= j)
    BY <1>1
  <2> QED BY <1>5, <2>1
<1>8. a[i] < b[i] \/ b[i] < a[i]
  BY <1>6
<1> QED BY <1>2, <1>6, <1>7, <1>8

\* The order of two texts is decided once and passed on, and never against the seconds.
LEMMA BeforeIsOrder ==
    ASSUME NEW x \in Times, NEW y \in Times, NEW z \in Times
    PROVE  /\ ~(Before(x, y) /\ Before(y, x))
           /\ ~Before(x, x)
           /\ Before(x, y) /\ Before(y, z) => Before(x, z)
           /\ Before(x, y) => x.sec <= y.sec
<1> DEFINE a == Text(x)
           b == Text(y)
           c == Text(z)
           less(s, u, i) == s[i] < u[i] /\ \A j \in 1..(i - 1) : s[j] = u[j]
<1>1. /\ a \in Seq(Int) /\ Len(a) >= 2 /\ a[1] = x.sec
      /\ b \in Seq(Int) /\ Len(b) >= 2 /\ b[1] = y.sec
      /\ c \in Seq(Int)
  BY TextShape, Zenon
<1>2. /\ Before(x, y) <=> \E i \in DOMAIN a \intersect DOMAIN b : less(a, b, i)
      /\ Before(y, x) <=> \E i \in DOMAIN b \intersect DOMAIN a : less(b, a, i)
      /\ Before(x, x) <=> \E i \in DOMAIN a \intersect DOMAIN a : less(a, a, i)
      /\ Before(y, z) <=> \E i \in DOMAIN b \intersect DOMAIN c : less(b, c, i)
      /\ Before(x, z) <=> \E i \in DOMAIN a \intersect DOMAIN c : less(a, c, i)
  BY DEF Before
<1> HIDE DEF a, b, c
<1>3. /\ DOMAIN a = 1..Len(a) /\ Len(a) \in Nat /\ a \in [1..Len(a) -> Int]
      /\ DOMAIN b = 1..Len(b) /\ Len(b) \in Nat /\ b \in [1..Len(b) -> Int]
      /\ DOMAIN c = 1..Len(c) /\ Len(c) \in Nat /\ c \in [1..Len(c) -> Int]
  BY <1>1, LenProperties, Zenon
<1>4. ASSUME NEW i \in DOMAIN a \intersect DOMAIN b, less(a, b, i),
             NEW k \in DOMAIN b \intersect DOMAIN a, less(b, a, k)
      PROVE  FALSE
  <2>1. /\ i \in Nat \ {0} /\ k \in Nat \ {0}
        /\ a[i] \in Int /\ b[i] \in Int /\ a[k] \in Int /\ b[k] \in Int
    BY <1>3
  <2>2. CASE i = k
    BY <1>4, <2>1, <2>2
  <2>3. CASE i < k
    <3>1. i \in 1..(k - 1)
      BY <2>1, <2>3
    <3> QED BY <1>4, <2>1, <3>1
  <2>4. CASE k < i
    <3>1. k \in 1..(i - 1)
      BY <2>1, <2>4
    <3> QED BY <1>4, <2>1, <3>1
  <2> QED BY <2>1, <2>2, <2>3, <2>4
<1>5. ASSUME NEW i \in DOMAIN a, less(a, a, i) PROVE FALSE
  <2>1. a[i] \in Int
    BY <1>3
  <2> QED BY <1>5, <2>1
<1>6. ASSUME NEW i \in DOMAIN a \intersect DOMAIN b, less(a, b, i),
             NEW k \in DOMAIN b \intersect DOMAIN c, less(b, c, k)
      PROVE  \E m \in DOMAIN a \intersect DOMAIN c : less(a, c, m)
  <2>1. /\ i \in Nat \ {0} /\ i <= Len(a) /\ k \in Nat \ {0} /\ k <= Len(c)
        /\ a[i] \in Int /\ b[i] \in Int /\ b[k] \in Int /\ c[k] \in Int
    BY <1>3
  <2>2. CASE i = k
    <3>1. k \in DOMAIN a \intersect DOMAIN c
      BY <2>2
    <3>2. a[k] < c[k]
      BY <1>6, <2>1, <2>2
    <3>3. \A j \in 1..(k - 1) : a[j] = c[j]
      BY <1>6, <2>2
    <3> QED BY <3>1, <3>2, <3>3
  <2>3. CASE i < k
    <3>1. i \in DOMAIN a \intersect DOMAIN c
      BY <1>3, <2>1, <2>3
    <3>2. i \in 1..(k - 1) /\ \A j \in 1..(i - 1) : j \in 1..(k - 1)
      BY <2>1, <2>3
    <3>3. a[i] < c[i] /\ \A j \in 1..(i - 1) : a[j] = c[j]
      BY <1>6, <3>2
    <3> QED BY <3>1, <3>3
  <2>4. CASE k < i
    <3>1. k \in DOMAIN a \intersect DOMAIN c
      BY <1>3, <2>1, <2>4
    <3>2. k \in 1..(i - 1) /\ \A j \in 1..(k - 1) : j \in 1..(i - 1)
      BY <2>1, <2>4
    <3>3. a[k] < c[k] /\ \A j \in 1..(k - 1) : a[j] = c[j]
      BY <1>6, <3>2
    <3> QED BY <3>1, <3>3
  <2> QED BY <2>1, <2>2, <2>3, <2>4
<1>7. ASSUME NEW i \in DOMAIN a \intersect DOMAIN b, less(a, b, i)
      PROVE  x.sec <= y.sec
  <2>1. i \in Nat \ {0} /\ a[1] \in Int /\ b[1] \in Int
    BY <1>1, <1>3
  <2>2. i = 1 \/ 1 \in 1..(i - 1)
    BY <2>1
  <2>3. a[1] <= b[1]
    BY <1>7, <2>1, <2>2
  <2> QED BY <1>1, <2>3, Zenon
<1> HIDE DEF less
<1> QED BY <1>2, <1>4, <1>5, <1>6, <1>7

\* Every cut-off that deletes the second of two lines and leaves the first finds the
\* second one before the first as text.
LEMMA CutBetween ==
    ASSUME NEW x \in Times, NEW y \in Times, NEW t \in Times, Before(x, t), ~Before(y, t)
    PROVE  Before(x, y)
<1>1. CASE Text(y) = Text(t)
  BY <1>1 DEF Before
<1>2. CASE Text(y) # Text(t)
  BY <1>2, BeforeTotal, BeforeIsOrder
<1> QED BY <1>1, <1>2

\* Of two rows one comes first, for all readers the same, and what comes first did not
\* start in an earlier second.
THEOREM NewerIsOrder ==
    /\ \A d, e \in Events : d # e => Newer(d, e) \/ Newer(e, d)
    /\ \A d, e \in Events : ~(Newer(d, e) /\ Newer(e, d))
    /\ \A d, e, f \in Events : Newer(d, e) /\ Newer(e, f) => Newer(d, f)
    /\ \A d, e \in Events : Newer(d, e) => Started(e).sec <= Started(d).sec
<1> DEFINE text(e) == Text(Started(e))
           before(d, e) == Before(Started(d), Started(e))
<1>1. \A d, e \in Events : Newer(d, e) <=> before(e, d) \/ (text(d) = text(e) /\ e < d)
  BY DEF Newer, Older
<1>2. \A d, e \in Events : text(d) = text(e) => Started(d).sec = Started(e).sec
  BY TextShape, TimelineAssumption
<1>3. \A d, e, f \in Events : /\ text(d) = text(e) => (before(d, f) <=> before(e, f))
                              /\ text(d) = text(e) => (before(f, d) <=> before(f, e))
  BY DEF Before
<1>4. Events \subseteq Int /\ \A e \in Events : Started(e).sec \in Int
  BY TimelineAssumption DEF Times
<1>5. \A d, e, f \in Events :
        /\ ~(before(d, e) /\ before(e, d)) /\ ~before(d, d)
        /\ before(d, e) /\ before(e, f) => before(d, f)
        /\ before(d, e) => Started(d).sec <= Started(e).sec
        /\ text(d) # text(e) => before(d, e) \/ before(e, d)
  BY BeforeIsOrder, BeforeTotal, TimelineAssumption
<1> HIDE DEF text, before
<1>6. \A d, e \in Events : d # e => Newer(d, e) \/ Newer(e, d)
  BY <1>1, <1>4, <1>5
<1>7. \A d, e \in Events : ~(Newer(d, e) /\ Newer(e, d))
  BY <1>1, <1>3, <1>4, <1>5
<1>8. \A d, e, f \in Events : Newer(d, e) /\ Newer(e, f) => Newer(d, f)
  <2> SUFFICES ASSUME NEW d \in Events, NEW e \in Events, NEW f \in Events,
                      Newer(d, e), Newer(e, f)
               PROVE  Newer(d, f)
    OBVIOUS
  <2>1. /\ before(e, d) \/ (text(d) = text(e) /\ e < d)
        /\ before(f, e) \/ (text(e) = text(f) /\ f < e)
    BY <1>1
  <2>2. before(f, d) \/ (text(d) = text(f) /\ f < d)
    BY <1>3, <1>4, <1>5, <2>1
  <2> QED BY <1>1, <2>2
<1>9. \A d, e \in Events : Newer(d, e) => Started(e).sec <= Started(d).sec
  BY <1>1, <1>2, <1>4, <1>5
<1> QED BY <1>6, <1>7, <1>8, <1>9

-----------------------------------------------------------------------------
(* Finite sets of rows.                                                    *)

Above(found, e) == {d \in found : Newer(d, e)}
Rank(found) == [e \in found |-> Cardinality(Above(found, e))]

\* The rows above each row are counted from none to all others.
LEMMA RankType ==
    ASSUME NEW found \in SUBSET Events
    PROVE  /\ IsFiniteSet(found) /\ Cardinality(found) \in Nat
           /\ Rank(found) \in [found -> 0..(Cardinality(found) - 1)]
<1>1. IsFiniteSet(found) /\ Cardinality(found) \in Nat
  BY TimelineAssumption, FS_Subset, FS_CardinalityType
<1>2. ASSUME NEW e \in found
      PROVE  Cardinality(Above(found, e)) \in 0..(Cardinality(found) - 1)
  <2>1. Above(found, e) \in SUBSET (found \ {e})
    BY NewerIsOrder DEF Above
  <2>2. IsFiniteSet(found \ {e}) /\ Cardinality(found \ {e}) = Cardinality(found) - 1
    BY <1>1, FS_RemoveElement
  <2>3. IsFiniteSet(Above(found, e)) /\ Cardinality(Above(found, e)) <= Cardinality(found) - 1
    BY <2>1, <2>2, FS_Subset
  <2>4. Cardinality(Above(found, e)) \in Nat
    BY <2>3, FS_CardinalityType
  <2> QED BY <1>1, <2>3, <2>4
<1> QED BY <1>1, <1>2 DEF Rank

\* A newer row has a lower rank, and no two rows have the same.
LEMMA RankOrder ==
    ASSUME NEW found \in SUBSET Events, NEW d \in found, NEW e \in found, d # e
    PROVE  /\ Newer(d, e) => Rank(found)[d] < Rank(found)[e]
           /\ Rank(found)[d] # Rank(found)[e]
<1>1. ASSUME NEW x \in found, NEW y \in found, Newer(x, y)
      PROVE  Rank(found)[x] < Rank(found)[y]
  <2>1. Above(found, x) \in SUBSET Above(found, y) /\ Above(found, x) # Above(found, y)
    <3>1. Above(found, x) \in SUBSET Above(found, y)
      BY <1>1, NewerIsOrder DEF Above
    <3>2. x \in Above(found, y) /\ x \notin Above(found, x)
      BY <1>1, NewerIsOrder DEF Above
    <3> QED BY <3>1, <3>2
  <2>2. IsFiniteSet(Above(found, y))
    <3>1. Above(found, y) \in SUBSET found
      BY DEF Above
    <3> QED BY <3>1, RankType, FS_Subset
  <2>3. /\ Cardinality(Above(found, x)) <= Cardinality(Above(found, y))
        /\ Cardinality(Above(found, x)) # Cardinality(Above(found, y))
    BY <2>1, <2>2, FS_Subset
  <2>4. Rank(found)[x] \in Int /\ Rank(found)[y] \in Int
    BY RankType
  <2> QED BY <2>3, <2>4 DEF Rank
<1>2. Rank(found)[d] \in Int /\ Rank(found)[e] \in Int
  BY RankType
<1>3. Newer(d, e) \/ Newer(e, d)
  BY NewerIsOrder
<1> QED BY <1>1, <1>2, <1>3

\* There are as many ranks as rows.
LEMMA RanksOf ==
    ASSUME NEW n \in Nat
    PROVE  IsFiniteSet(0..(n - 1)) /\ Cardinality(0..(n - 1)) = n
<1>1. 0 \in Int /\ n - 1 \in Int
  OBVIOUS
<1> DEFINE lower == 0
           upper == n - 1
<1> HIDE DEF lower, upper
<1>2. lower \in Int /\ upper \in Int
  BY <1>1 DEF lower, upper
<1>3. /\ IsFiniteSet(lower..upper)
      /\ Cardinality(lower..upper) = IF lower > upper THEN 0 ELSE upper - lower + 1
  BY <1>2, FS_Interval
<1>4. (IF lower > upper THEN 0 ELSE upper - lower + 1) = n
  BY DEF lower, upper
<1>5. IsFiniteSet(lower..upper) /\ Cardinality(lower..upper) = n
  BY <1>3, <1>4
<1> QED BY <1>5 DEF lower, upper

\* Rows that are not empty have a newest and an oldest.
LEMMA Extremes ==
    ASSUME NEW found \in SUBSET Events, found # {}
    PROVE  /\ \E x \in found : Above(found, x) = {}
           /\ \E x \in found : \A y \in found : y # x => Newer(y, x)
<1> DEFINE n == Cardinality(found)
<1>1. IsFiniteSet(found) /\ n \in Nat /\ n # 0
  BY RankType, FS_EmptySet
<1>2. Rank(found) \in Surjection(found, 0..(n - 1))
  <2>1. Rank(found) \in Injection(found, 0..(n - 1))
    BY RankType, RankOrder DEF Injection, IsInjective
  <2>2. IsFiniteSet(0..(n - 1)) /\ Cardinality(0..(n - 1)) = n
    BY <1>1, RanksOf
  <2> QED BY <2>1, <2>2, FS_Injection
<1>3. \E x \in found : Above(found, x) = {}
  <2>1. PICK x \in found : Rank(found)[x] = 0
    BY <1>1, <1>2 DEF Surjection
  <2>2. Cardinality(Above(found, x)) = 0
    BY <2>1 DEF Rank
  <2>3. IsFiniteSet(Above(found, x))
    <3>1. Above(found, x) \in SUBSET found
      BY DEF Above
    <3> QED BY <1>1, <3>1, FS_Subset
  <2> QED BY <2>2, <2>3, FS_EmptySet
<1>4. \E x \in found : \A y \in found : y # x => Newer(y, x)
  <2>1. PICK x \in found : Rank(found)[x] = n - 1
    BY <1>1, <1>2 DEF Surjection
  <2>2. Cardinality(Above(found, x)) = n - 1
    BY <2>1 DEF Rank
  <2>3. Above(found, x) \in SUBSET (found \ {x})
    BY NewerIsOrder DEF Above
  <2>4. IsFiniteSet(found \ {x}) /\ Cardinality(found \ {x}) = n - 1
    BY <1>1, FS_RemoveElement
  <2>5. Above(found, x) = found \ {x}
    BY <2>2, <2>3, <2>4, FS_Subset
  <2> QED BY <2>5 DEF Above
<1> QED BY <1>3, <1>4

\* A page is the upper part of what was found, not longer than asked, and its
\* cursor is its last row if something was cut off.
LEMMA PageIsPrefix ==
    ASSUME NEW found \in SUBSET Events, NEW n \in Nat \ {0}
    PROVE  /\ Page(found, n) \subseteq found
           /\ \A e \in Page(found, n), d \in found : Newer(d, e) => d \in Page(found, n)
           /\ Cardinality(Page(found, n)) <= n
           /\ NextCursor(found, n) = NoCursor => Page(found, n) = found
           /\ NextCursor(found, n) # NoCursor =>
                /\ NextCursor(found, n) \in Page(found, n)
                /\ \A d \in Page(found, n) : d # NextCursor(found, n)
                                                => Newer(d, NextCursor(found, n))
<1> DEFINE page == Page(found, n)
<1>1. /\ page \subseteq found
      /\ \A e \in found : e \in page <=> Cardinality(Above(found, e)) < n
  BY DEF Page, Above
<1> HIDE DEF page
<1>2. \A e \in page, d \in found : Newer(d, e) => d \in page
  <2> SUFFICES ASSUME NEW e \in page, NEW d \in found, Newer(d, e) PROVE d \in page
    OBVIOUS
  <2>1. d # e
    BY NewerIsOrder
  <2>2. Rank(found)[d] < Rank(found)[e] /\ Rank(found)[e] < n
    BY <1>1, <2>1, RankOrder DEF Rank
  <2>3. Rank(found)[d] \in Int /\ Rank(found)[e] \in Int
    BY <1>1, RankType
  <2>4. Rank(found)[d] < n
    BY <2>2, <2>3
  <2> QED BY <1>1, <2>4 DEF Rank
<1>3. Cardinality(page) <= n
  <2> SUFFICES ASSUME ~(Cardinality(page) <= n) PROVE FALSE
    OBVIOUS
  <2> DEFINE rank == [e \in page |-> Rank(found)[e]]
  <2>1. IsFiniteSet(page) /\ Cardinality(page) \in Nat
    BY <1>1, TimelineAssumption, FS_Subset, FS_CardinalityType
  <2>2. IsFiniteSet(0..(n - 1)) /\ Cardinality(0..(n - 1)) = n
    BY RanksOf
  <2>3. rank \in [page -> 0..(n - 1)]
    <3>1. \A e \in page : Rank(found)[e] \in 0..(Cardinality(found) - 1) /\ Rank(found)[e] < n
      BY <1>1, RankType DEF Rank
    <3> QED BY <3>1
  <2>4. \A d, e \in page : d # e => rank[d] # rank[e]
    BY <1>1, RankOrder
  <2> HIDE DEF rank
  <2>5. Cardinality(0..(n - 1)) < Cardinality(page)
    BY <2>1, <2>2
  <2> QED BY <2>1, <2>2, <2>3, <2>4, <2>5, FS_PigeonHole
<1>4. page # found => /\ Oldest(page) \in page
                      /\ \A d \in page : d # Oldest(page) => Newer(d, Oldest(page))
  <2> SUFFICES ASSUME page # found
               PROVE  \E e \in page : \A d \in page : d # e => Newer(d, e)
    BY DEF Oldest
  <2>1. PICK x \in found : Above(found, x) = {}
    BY <1>1, Extremes
  <2>2. Cardinality(Above(found, x)) = 0
    BY <2>1, FS_EmptySet
  <2>3. x \in page
    BY <1>1, <2>2
  <2> QED BY <1>1, <2>3, Extremes
<1>5. page # found => Oldest(page) # NoCursor
  BY <1>1, <1>4, TimelineAssumption
<1> QED BY <1>1, <1>2, <1>3, <1>4, <1>5 DEF page, NextCursor

-----------------------------------------------------------------------------
(* The invariant of what readers have loaded.                              *)

Lists == [open : {TRUE}, filter : Filters, limit : Limits, since : SUBSET Events,
          shown : SUBSET Events, page : SUBSET Events, cursor : Events \union {NoCursor}]

\* What was there when the list was opened still is, the page follows what was shown
\* before, ends with the cursor, and leaves nothing out above it.
Loaded(x, present) ==
    /\ x.since \subseteq present
    /\ Cardinality(x.page) <= Limit(x.limit)
    /\ \A d \in x.shown, e \in x.page : Newer(d, e)
    /\ x.cursor # NoCursor => /\ x.cursor \in x.page
                              /\ \A e \in x.page : e = x.cursor \/ Newer(e, x.cursor)
    /\ \A e \in x.since :
         /\ Matches(e, x.filter)
         /\ x.cursor = NoCursor \/ ~Newer(x.cursor, e)
         => e \in x.shown \union x.page

TimelineInv ==
    /\ rows \subseteq Events
    /\ excerpt \in [Events -> SUBSET Nat]
    /\ reader \in [Readers -> {Closed} \union Lists]
    /\ \A r \in Readers : Loaded(reader[r], rows)

\* What Load puts together.
Fresh(filter, asked, since, shown, after) ==
    LET found == Found(filter, after) IN
    [open |-> TRUE, filter |-> filter, limit |-> asked, since |-> since,
     shown |-> shown, page |-> Page(found, Limit(asked)),
     cursor |-> NextCursor(found, Limit(asked))]

\* Whatever number is asked for, a page has room for a row.
LEMMA LimitType ==
    ASSUME NEW asked \in Int
    PROVE  Limit(asked) \in Nat \ {0}
BY TimelineAssumption DEF Limit

\* A page that starts below all that was shown keeps the invariant, if what was there
\* and is not below the old cursor was shown.
LEMMA FreshIsLoaded ==
    ASSUME NEW filter \in Filters, NEW asked \in Limits,
           rows \in SUBSET Events,
           NEW since \in SUBSET rows, NEW shown \in SUBSET Events,
           NEW after \in Events \union {NoCursor},
           \A d \in shown : after # NoCursor /\ (d = after \/ Newer(d, after)),
           \A e \in since : /\ Matches(e, filter)
                            /\ after # NoCursor
                            /\ ~Newer(after, e)
                            => e \in shown
    PROVE  /\ Fresh(filter, asked, since, shown, after) \in Lists
           /\ Loaded(Fresh(filter, asked, since, shown, after), rows)
<1> DEFINE found == Found(filter, after)
           n == Limit(asked)
           page == Page(found, n)
           cursor == NextCursor(found, n)
           x == Fresh(filter, asked, since, shown, after)
<1>1. found \in SUBSET Events /\ n \in Nat \ {0}
  BY LimitType, TimelineAssumption DEF Found
<1>2. /\ page \subseteq found
      /\ \A e \in page, d \in found : Newer(d, e) => d \in page
      /\ Cardinality(page) <= n
      /\ cursor = NoCursor => page = found
      /\ cursor # NoCursor => /\ cursor \in page
                              /\ \A d \in page : d # cursor => Newer(d, cursor)
  BY <1>1, PageIsPrefix
<1>3. x = [open |-> TRUE, filter |-> filter, limit |-> asked, since |-> since,
           shown |-> shown, page |-> page, cursor |-> cursor]
  BY DEF Fresh
<1>4. \A e \in rows : Matches(e, filter) /\ (after # NoCursor => Newer(after, e)) <=> e \in found
  BY DEF Found
<1>5. \A e \in found : after # NoCursor => Newer(after, e)
  BY DEF Found
<1> HIDE DEF found, n, page, cursor, x
<1>6. x \in Lists
  <2>1. page \in SUBSET Events /\ cursor \in Events \union {NoCursor}
    BY <1>1, <1>2
  <2> QED BY <1>3, <2>1 DEF Lists
<1>7. /\ x.since = since /\ x.shown = shown /\ x.page = page /\ x.cursor = cursor
      /\ x.filter = filter /\ x.limit = asked
  BY <1>3
<1>8. \A d \in shown, e \in page : Newer(d, e)
  BY <1>1, <1>2, <1>5, NewerIsOrder
<1>9. ASSUME NEW e \in since, Matches(e, filter), cursor = NoCursor \/ ~Newer(cursor, e)
      PROVE  e \in shown \union page
  <2>1. CASE after # NoCursor /\ ~Newer(after, e)
    BY <1>9, <2>1
  <2>2. CASE ~(after # NoCursor /\ ~Newer(after, e))
    <3>1. e \in found
      BY <1>4, <1>9, <2>2
    <3>2. CASE cursor = NoCursor
      BY <1>2, <3>1, <3>2
    <3>3. CASE cursor # NoCursor
      <4>1. e = cursor \/ Newer(e, cursor)
        BY <1>1, <1>2, <1>9, <3>1, <3>3, NewerIsOrder
      <4> QED BY <1>2, <3>1, <3>3, <4>1
    <3> QED BY <3>2, <3>3
  <2> QED BY <2>1, <2>2
<1>10. Loaded(x, rows)
  <2>1. Cardinality(x.page) <= Limit(x.limit)
    BY <1>2, <1>7 DEF n
  <2> QED BY <1>2, <1>7, <1>8, <1>9, <2>1 DEF Loaded
<1> QED BY <1>6, <1>10 DEF x

\* No reader has loaded anything yet.
LEMMA TimelineInitHolds == TimelineInit => TimelineInv
<1> SUFFICES ASSUME TimelineInit PROVE TimelineInv
  OBVIOUS
<1>1. Closed.since = {} /\ Closed.shown = {} /\ Closed.page = {} /\ Closed.cursor = NoCursor
      /\ Closed.limit = 0
  BY DEF Closed
<1>2. Cardinality({}) <= Limit(0)
  BY LimitType, FS_EmptySet
<1>3. Loaded(Closed, rows)
  BY <1>1, <1>2 DEF Loaded
<1> QED BY <1>3 DEF TimelineInit, TimelineInv

\* A row that is added or an excerpt that ages leaves what readers loaded.
LEMMA StoredKeeps ==
    ASSUME TimelineInv, rows' \in SUBSET Events, rows \subseteq rows', UNCHANGED reader,
           excerpt' \in [Events -> SUBSET Nat]
    PROVE  TimelineInv'
<1>1. ASSUME NEW r \in Readers PROVE Loaded(reader'[r], rows')
  BY DEF TimelineInv, Loaded
<1> QED BY <1>1 DEF TimelineInv

\* A reader that loads a page keeps the invariant, the others are not disturbed.
LEMMA LoadKeeps ==
    ASSUME TimelineInv, NEW r \in Readers, UNCHANGED <<rows, excerpt>>,
           NEW x \in Lists, Loaded(x, rows), reader' = [reader EXCEPT ![r] = x]
    PROVE  TimelineInv'
<1>1. reader' \in [Readers -> {Closed} \union Lists]
  BY DEF TimelineInv
<1>2. ASSUME NEW q \in Readers PROVE Loaded(reader'[q], rows')
  BY DEF TimelineInv
<1> QED BY <1>1, <1>2 DEF TimelineInv

\* Every step keeps the invariant.
LEMMA TimelineStepHolds == TimelineInv /\ [TimelineNext]_timelineVars => TimelineInv'
<1> SUFFICES ASSUME TimelineInv, [TimelineNext]_timelineVars PROVE TimelineInv'
  OBVIOUS
<1>1. ASSUME NEW e \in Events, Process(e) PROVE TimelineInv'
  <2>1. rows' \in SUBSET Events /\ rows \subseteq rows' /\ UNCHANGED reader
    BY <1>1 DEF Process, Store, TimelineInv
  <2>2. excerpt' \in [Events -> SUBSET Nat]
    BY <1>1 DEF Process, Store, KeptLines, TimelineInv
  <2> QED BY <2>1, <2>2, StoredKeeps
<1>2. ASSUME PruneRetained PROVE TimelineInv'
  <2>1. rows' \in SUBSET Events /\ rows \subseteq rows' /\ UNCHANGED reader
    BY <1>2 DEF PruneRetained, TimelineInv
  <2>2. excerpt' \in [Events -> SUBSET Nat]
    BY <1>2 DEF PruneRetained, TimelineInv
  <2> QED BY <2>1, <2>2, StoredKeeps
<1>3. ASSUME NEW r \in Readers, OpenList(r) PROVE TimelineInv'
  <2>1. PICK filter \in Filters, asked \in Limits :
            Load(r, filter, asked, rows, {}, NoCursor)
    BY <1>3 DEF OpenList
  <2> DEFINE x == Fresh(filter, asked, rows, {}, NoCursor)
  <2>2. x \in Lists /\ Loaded(x, rows)
    BY FreshIsLoaded DEF TimelineInv
  <2>3. reader' = [reader EXCEPT ![r] = x] /\ UNCHANGED <<rows, excerpt>>
    BY <2>1 DEF Load, Fresh
  <2> HIDE DEF x
  <2> QED BY <2>2, <2>3, LoadKeeps
<1>4. ASSUME NEW r \in Readers, NextPage(r) PROVE TimelineInv'
  <2> DEFINE y == reader[r]
             x == Fresh(y.filter, y.limit, y.since, y.shown \union y.page, y.cursor)
  <2>1. y.cursor # NoCursor
    BY <1>4 DEF NextPage
  <2>2. y \in Lists
    <3>1. y \in {Closed} \union Lists
      BY DEF TimelineInv
    <3> QED BY <2>1, <3>1 DEF Closed
  <2>3. /\ y.filter \in Filters /\ y.limit \in Limits /\ y.since \in SUBSET Events
        /\ y.shown \in SUBSET Events /\ y.page \in SUBSET Events
        /\ y.cursor \in Events \union {NoCursor}
    BY <2>2 DEF Lists
  <2>4. Loaded(y, rows)
    BY DEF TimelineInv
  <2>5. reader' = [reader EXCEPT ![r] = x] /\ UNCHANGED <<rows, excerpt>>
    BY <1>4 DEF NextPage, Load, Fresh
  <2> HIDE DEF y
  <2>6. y.since \in SUBSET rows
    BY <2>4 DEF Loaded
  <2>7. \A d \in y.shown \union y.page : d = y.cursor \/ Newer(d, y.cursor)
    BY <2>1, <2>3, <2>4 DEF Loaded
  <2>8. \A e \in y.since : Matches(e, y.filter) /\ ~Newer(y.cursor, e)
                             => e \in y.shown \union y.page
    BY <2>4 DEF Loaded
  <2>9. x \in Lists /\ Loaded(x, rows)
    BY <2>1, <2>3, <2>6, <2>7, <2>8, FreshIsLoaded DEF TimelineInv
  <2> HIDE DEF x
  <2> QED BY <2>5, <2>9, LoadKeeps
<1>5. CASE UNCHANGED timelineVars
  BY <1>5, StoredKeeps DEF timelineVars, TimelineInv
<1> QED BY <1>1, <1>2, <1>3, <1>4, <1>5 DEF TimelineNext

-----------------------------------------------------------------------------
(* The theorems.                                                           *)

\* The invariant holds in every reachable state, whatever workers, retention and
\* readers do in whatever order.
THEOREM TimelineInvariant == TimelineSpec => []TimelineInv
<1> QED BY TimelineInitHolds, TimelineStepHolds, PTL DEF TimelineSpec

\* A page is never longer than the limit allows and every reader's state has its
\* type (ListDeployments).
THEOREM TimelineTypeCorrect == TimelineSpec => []TimelineTypeOK
<1>1. TimelineInv => TimelineTypeOK
  BY DEF TimelineInv, TimelineTypeOK, Loaded, Lists
<1> QED BY <1>1, TimelineInvariant, PTL

\* Pages go back in time and repeat nothing, whatever is stored between the requests
\* for them (encodeCursor, decodeCursor).
THEOREM PagesSafety == TimelineSpec => []PagesGoBack
<1>1. TimelineInv => PagesGoBack
  <2> SUFFICES ASSUME TimelineInv, NEW r \in Readers,
                      NEW d \in reader[r].shown, NEW e \in reader[r].page
               PROVE  d # e /\ Started(e).sec <= Started(d).sec
    BY DEF PagesGoBack
  <2>1. Newer(d, e)
    BY DEF TimelineInv, Loaded
  <2>2. d \in Events /\ e \in Events
    <3>1. reader[r] \in {Closed} \union Lists
      BY DEF TimelineInv
    <3>2. reader[r].shown \in SUBSET Events /\ reader[r].page \in SUBSET Events
      <4>1. Closed.shown = {} /\ Closed.page = {}
        BY DEF Closed
      <4>2. CASE reader[r] \in Lists
        BY <4>2 DEF Lists
      <4> QED BY <3>1, <4>1, <4>2
    <3> QED BY <3>2
  <2> QED BY <2>1, <2>2, NewerIsOrder
<1> QED BY <1>1, TimelineInvariant, PTL

\* A reader that follows the cursors to the end has seen everything that was there
\* when it began (the extra row of ListDeployments).
THEOREM SkipSafety == TimelineSpec => []NothingSkipped
<1>1. TimelineInv => NothingSkipped
  BY DEF TimelineInv, Loaded, NothingSkipped
<1> QED BY <1>1, TimelineInvariant, PTL

-----------------------------------------------------------------------------
(* The log excerpt.                                                        *)

\* What is stored of a log are last lines of it.  After a stored line another one is
\* missing only if it sorts before that line within the same second.
Apart(log, n, i) == log[i].sec = log[n].sec /\ Before(log[i], log[n])
IsTail(lines, log) ==
    /\ lines \subseteq KeptLines(Len(log), MaxLines)
    /\ \A n \in lines : \A i \in n..Len(log) : i \in lines \/ Apart(log, n, i)

ExcerptInv == \A e \in rows : IsTail(excerpt[e], Feed[e].lines)

\* A tail is short enough for the query's limit, which therefore cuts nothing off.
LEMMA TailIsShort ==
    ASSUME NEW log, Len(log) \in Nat, NEW lines, IsTail(lines, log)
    PROVE  /\ IsFiniteSet(lines) /\ Cardinality(lines) <= MaxLines
           /\ \A i \in lines : Cardinality({m \in lines : m > i}) < MaxLines
<1> DEFINE n == Len(log)
           last == (n - MaxLines + 1)..n
<1> HIDE DEF n
<1>1. IsFiniteSet(last) /\ Cardinality(last) = MaxLines
  <2>1. n - MaxLines + 1 \in Int /\ n \in Int /\ MaxLines \in Nat
    BY TimelineAssumption DEF n
  <2>2. /\ IsFiniteSet(last)
        /\ Cardinality(last) = IF n - MaxLines + 1 > n THEN 0 ELSE n - (n - MaxLines + 1) + 1
    BY <2>1, FS_Interval
  <2> QED BY <2>1, <2>2
<1>2. lines \in SUBSET last
  BY TimelineAssumption DEF IsTail, KeptLines, n
<1> HIDE DEF last
<1>3. IsFiniteSet(lines) /\ Cardinality(lines) <= MaxLines
  BY <1>1, <1>2, FS_Subset
<1>4. ASSUME NEW i \in lines
      PROVE  Cardinality({m \in lines : m > i}) < MaxLines
  <2> DEFINE below == {m \in lines : m > i}
  <2>1. below \in SUBSET (lines \ {i})
    <3>1. ~(i > i)
      BY <1>2 DEF last
    <3> QED BY <3>1
  <2>2. IsFiniteSet(lines \ {i}) /\ Cardinality(lines \ {i}) = Cardinality(lines) - 1
    BY <1>3, FS_RemoveElement
  <2>3. Cardinality(below) <= Cardinality(lines \ {i}) /\ IsFiniteSet(below)
    BY <2>1, <2>2, FS_Subset
  <2>4. Cardinality(below) \in Nat /\ Cardinality(lines) \in Nat /\ MaxLines \in Nat
    BY <1>3, <2>3, FS_CardinalityType, TimelineAssumption
  <2> HIDE DEF below
  <2>5. Cardinality(below) < MaxLines
    BY <1>3, <2>2, <2>3, <2>4
  <2> QED BY <2>5 DEF below
<1> QED BY <1>3, <1>4

\* A log is cut at the front when it is stored, and afterwards wherever its lines are
\* before a cut-off.
LEMMA ExcerptStep ==
    ASSUME TimelineInv, ExcerptInv, [TimelineNext]_timelineVars
    PROVE  ExcerptInv'
<1>1. ASSUME NEW e \in Events, Process(e) PROVE ExcerptInv'
  <2>1. rows' = rows \union {e}
    BY <1>1 DEF Process, Store
  <2>2. \A d \in Events : excerpt'[d] = IF d = e THEN KeptLines(Len(Feed[e].lines), MaxLines)
                                        ELSE excerpt[d]
    BY <1>1 DEF Process, Store
  <2>3. IsTail(KeptLines(Len(Feed[e].lines), MaxLines), Feed[e].lines)
    <3>1. Len(Feed[e].lines) \in Nat /\ MaxLines \in Nat
      BY TimelineAssumption
    <3> QED BY <3>1 DEF IsTail, KeptLines
  <2>4. ASSUME NEW d \in rows' PROVE IsTail(excerpt'[d], Feed[d].lines)
    <3>1. d \in Events
      BY <2>1 DEF TimelineInv
    <3>2. CASE d = e
      BY <2>2, <2>3, <3>1, <3>2
    <3>3. CASE d # e
      BY <2>1, <2>2, <3>1, <3>3 DEF ExcerptInv
    <3> QED BY <3>2, <3>3
  <2> QED BY <2>4 DEF ExcerptInv
<1>2. ASSUME PruneRetained PROVE ExcerptInv'
  <2>1. PICK t \in CutOffs :
            excerpt' = [e \in Events |-> {i \in excerpt[e] : ~Before(Feed[e].lines[i], t)}]
    BY <1>2 DEF PruneRetained
  <2>2. rows' = rows /\ rows \subseteq Events /\ t \in Times
    BY <1>2, TimelineAssumption DEF PruneRetained, TimelineInv
  <2>3. ASSUME NEW d \in rows PROVE IsTail(excerpt'[d], Feed[d].lines)
    <3> DEFINE log == Feed[d].lines
               left == {i \in excerpt[d] : ~Before(log[i], t)}
    <3>1. IsTail(excerpt[d], log) /\ excerpt'[d] = left
      BY <2>1, <2>2 DEF ExcerptInv
    <3>2. /\ Len(log) \in Nat /\ DOMAIN log = 1..Len(log)
          /\ \A i \in 1..Len(log) : log[i] \in Times /\ log[i].sec \in Int
          /\ \A i, j \in DOMAIN log : i < j => log[i].sec <= log[j].sec
      <4>1. log \in Seq(Times)
        BY <2>2, TimelineAssumption
      <4>2. \A i, j \in DOMAIN log : i < j => log[i].sec <= log[j].sec
        BY <2>2, LinesAssumption
      <4> HIDE DEF log
      <4>3. log \in [1..Len(log) -> Times] /\ Len(log) \in Nat
        BY <4>1, LenProperties, Zenon
      <4>4. \A x \in Times : x.sec \in Int
        BY DEF Times
      <4>5. \A i \in 1..Len(log) : log[i] \in Times
        BY <4>3
      <4> QED BY <4>2, <4>3, <4>4, <4>5, Zenon
    <3> HIDE DEF log
    <3>3. left \subseteq KeptLines(Len(log), MaxLines)
      BY <3>1 DEF IsTail
    <3>4. ASSUME NEW n \in left, NEW i \in n..Len(log), i \notin left
          PROVE  Apart(log, n, i)
      <4>1. /\ n \in excerpt[d] /\ ~Before(log[n], t) /\ n \in 1..Len(log)
            /\ i \in 1..Len(log) /\ n <= i
        BY <3>2, <3>3, <3>4 DEF KeptLines
      <4>2. CASE i \notin excerpt[d]
        BY <3>1, <4>1, <4>2 DEF IsTail
      <4>3. CASE i \in excerpt[d]
        <5>1. Before(log[i], t)
          BY <3>4, <4>3
        <5>2. Before(log[i], log[n])
          BY <2>2, <3>2, <4>1, <5>1, CutBetween
        <5>3. log[i].sec <= log[n].sec
          BY <3>2, <4>1, <5>2, BeforeIsOrder
        <5>4. log[n].sec <= log[i].sec
          BY <3>2, <4>1
        <5> QED BY <3>2, <4>1, <5>2, <5>3, <5>4 DEF Apart
      <4> QED BY <4>2, <4>3
    <3>5. IsTail(left, log)
      BY <3>3, <3>4 DEF IsTail
    <3> QED BY <3>1, <3>5 DEF log
  <2> QED BY <2>2, <2>3 DEF ExcerptInv
<1>3. ASSUME NEW r \in Readers, OpenList(r) \/ NextPage(r) PROVE ExcerptInv'
  BY <1>3 DEF OpenList, NextPage, Load, ExcerptInv
<1>4. CASE UNCHANGED timelineVars
  BY <1>4 DEF timelineVars, ExcerptInv
<1> QED BY <1>1, <1>2, <1>3, <1>4 DEF TimelineNext

\* However long a log is and however often retention cuts it, a detail shows its end.
\* After a line that is shown, another one is missing only if it was written in the same
\* second and sorts before that line as text (redactLines, PruneRetained and the query in
\* Deployment).
THEOREM ExcerptSafety == TimelineSpec => []ExcerptIsTail
<1>1. TimelineInit => ExcerptInv
  BY DEF TimelineInit, ExcerptInv
<1>2. TimelineInv /\ ExcerptInv /\ [TimelineNext]_timelineVars => ExcerptInv'
  BY ExcerptStep
<1>3. TimelineInv /\ ExcerptInv => ExcerptIsTail
  <2> SUFFICES ASSUME TimelineInv, ExcerptInv, NEW e \in rows
               PROVE  LET log == Feed[e].lines IN
                      /\ Cardinality(LogLines(e)) <= MaxLines
                      /\ \A n \in LogLines(e) : \A i \in n..Len(log) :
                           i \in LogLines(e) \/ (log[i].sec = log[n].sec /\ Before(log[i], log[n]))
    BY DEF ExcerptIsTail
  <2>1. Len(Feed[e].lines) \in Nat /\ IsTail(excerpt[e], Feed[e].lines)
    BY TimelineAssumption DEF TimelineInv, ExcerptInv
  <2>2. LogLines(e) = excerpt[e]
    BY <2>1, TailIsShort DEF LogLines
  <2> QED BY <2>1, <2>2, TailIsShort DEF IsTail, Apart
<1> QED BY <1>1, <1>2, <1>3, TimelineInvariant, PTL DEF TimelineSpec

-----------------------------------------------------------------------------
(* The state of a payload.                                                 *)

\* The first path that holds anything decides, whatever the later ones hold.
LEMMA FirstFound ==
    ASSUME NEW payload, NEW paths, NEW k \in Nat,
           DOMAIN paths = 1..k,
           NEW i \in 1..k, StringAt(payload, paths[i]) # Empty,
           \A j \in 1..(i - 1) : StringAt(payload, paths[j]) = Empty
    PROVE  First(payload, paths) = StringAt(payload, paths[i])
<1> DEFINE found == {j \in DOMAIN paths : StringAt(payload, paths[j]) # Empty}
           least == CHOOSE j \in found : \A m \in found : j <= m
<1>1. found \subseteq 1..k /\ i \in found /\ \A m \in found : i <= m
  <2>1. found \subseteq 1..k /\ i \in found
    OBVIOUS
  <2>2. ASSUME NEW m \in found, ~(i <= m) PROVE FALSE
    <3>1. m \in 1..(i - 1)
      BY <2>1, <2>2
    <3>2. StringAt(payload, paths[m]) = Empty
      BY <3>1
    <3>3. StringAt(payload, paths[m]) # Empty
      OBVIOUS
    <3> QED BY <3>2, <3>3
  <2> QED BY <2>1, <2>2
<1>2. First(payload, paths) = IF found = {} THEN Empty ELSE payload[paths[least]]
  BY DEF First
<1> HIDE DEF found
<1>3. least \in found /\ \A m \in found : least <= m
  BY <1>1
<1> HIDE DEF least
<1>4. least = i
  BY <1>1, <1>3
<1>5. payload[paths[i]] = StringAt(payload, paths[i])
  BY DEF StringAt
<1> QED BY <1>1, <1>2, <1>4, <1>5

\* Paths that are put in front decide before those behind them.
LEMMA FirstOfJoined ==
    ASSUME NEW S, NEW own \in Seq(S), NEW generic \in Seq(S), NEW payload,
           NEW i \in 1..Len(own), StringAt(payload, own[i]) # Empty,
           \A j \in 1..(i - 1) : StringAt(payload, own[j]) = Empty
    PROVE  First(payload, own \o generic) = StringAt(payload, own[i])
<1> DEFINE paths == own \o generic
           k == Len(own) + Len(generic)
<1>1. paths \in Seq(S) /\ Len(paths) = k
  BY ConcatProperties
<1>2. \A j \in 1..k : paths[j] = IF j <= Len(own) THEN own[j] ELSE generic[j - Len(own)]
  BY ConcatProperties
<1>3. k \in Nat /\ Len(own) \in Nat /\ Len(own) <= k
  OBVIOUS
<1> HIDE DEF paths, k
<1>4. DOMAIN paths = 1..k
  BY <1>1
<1>5. \A j \in 1..i : j \in 1..k /\ paths[j] = own[j]
  BY <1>2, <1>3
<1>6. i \in 1..k /\ StringAt(payload, paths[i]) # Empty
  BY <1>5
<1>7. ASSUME NEW j \in 1..(i - 1) PROVE StringAt(payload, paths[j]) = Empty
  <2>1. j \in 1..i
    OBVIOUS
  <2> QED BY <1>5, <2>1
<1>8. First(payload, paths) = StringAt(payload, paths[i])
  BY <1>3, <1>4, <1>6, <1>7, FirstFound
<1> QED BY <1>5, <1>8 DEF paths

StatePaths(base) ==
    {<<"workflow_run", "conclusion">>, <<"workflow_run", "status">>,
     <<"object_attributes", "status">>, <<"pipeline", "status">>, <<"detail", "state">>,
     <<"status">>, <<"state">>, base \o <<"state">>, base \o <<"readyState">>,
     base \o <<"status">>}

\* Sequences of one, two and four members of a set.
LEMMA ShortSeq ==
    ASSUME NEW S, NEW w \in S, NEW x \in S, NEW y \in S, NEW z \in S
    PROVE  <<w>> \in Seq(S) /\ <<w, x>> \in Seq(S) /\ <<w, x, y, z>> \in Seq(S)
OBVIOUS

\* Every provider's paths, and the generic ones, are sequences of these.
LEMMA StatusPathsType ==
    ASSUME NEW provider \in Providers, NEW base
    PROVE  /\ StatusPaths(provider, base) \in Seq(StatePaths(base))
           /\ Generic(base).status \in Seq(StatePaths(base))
<1> DEFINE S == StatePaths(base)
           typed == StatusPaths(provider, base) \in Seq(S)
<1>1. /\ <<"workflow_run", "conclusion">> \in S /\ <<"workflow_run", "status">> \in S
      /\ <<"object_attributes", "status">> \in S /\ <<"pipeline", "status">> \in S
      /\ <<"detail", "state">> \in S /\ <<"status">> \in S /\ <<"state">> \in S
  BY Zenon DEF StatePaths
<1>2. base \o <<"state">> \in S /\ base \o <<"readyState">> \in S /\ base \o <<"status">> \in S
  BY Zenon DEF StatePaths
<1> HIDE DEF S
<1>3. ASSUME provider = "github" PROVE typed
  <2>1. StatusPaths(provider, base)
          = <<<<"workflow_run", "conclusion">>, <<"workflow_run", "status">>>>
    BY <1>3 DEF StatusPaths
  <2> QED BY <1>1, <1>2, <2>1, ShortSeq, Zenon
<1>4. ASSUME provider = "gitlab" PROVE typed
  <2>1. StatusPaths(provider, base) = <<<<"object_attributes", "status">>>>
    BY <1>4 DEF StatusPaths
  <2> QED BY <1>1, <1>2, <2>1, ShortSeq, Zenon
<1>5. ASSUME provider = "circleci" PROVE typed
  <2>1. StatusPaths(provider, base) = <<<<"pipeline", "status">>, <<"status">>>>
    BY <1>5 DEF StatusPaths
  <2> QED BY <1>1, <1>2, <2>1, ShortSeq, Zenon
<1>6. ASSUME provider = "vercel" PROVE typed
  <2>1. StatusPaths(provider, base) = <<base \o <<"state">>, base \o <<"readyState">>>>
    BY <1>6 DEF StatusPaths
  <2> QED BY <1>1, <1>2, <2>1, ShortSeq, Zenon
<1>7. ASSUME provider = "netlify" PROVE typed
  <2>1. StatusPaths(provider, base) = <<base \o <<"state">>, base \o <<"status">>>>
    BY <1>7 DEF StatusPaths
  <2> QED BY <1>1, <1>2, <2>1, ShortSeq, Zenon
<1>8. ASSUME provider = "aws-codepipeline" PROVE typed
  <2>1. StatusPaths(provider, base) = <<<<"detail", "state">>>>
    BY <1>8 DEF StatusPaths
  <2> QED BY <1>1, <1>2, <2>1, ShortSeq, Zenon
<1>9. Generic(base).status \in Seq(S)
  <2>1. Generic(base).status
          = <<base \o <<"status">>, base \o <<"state">>, <<"status">>, <<"state">>>>
    BY DEF Generic
  <2>2. <<base \o <<"status">>, base \o <<"state">>, <<"status">>, <<"state">>>> \in Seq(S)
    BY <1>1, <1>2, ShortSeq, Zenon
  <2> QED BY <2>1, <2>2, Zenon
<1>10. typed
  BY <1>3, <1>4, <1>5, <1>6, <1>7, <1>8 DEF Providers
<1> QED BY <1>9, <1>10 DEF S

\* The state comes from the first of the provider's own fields that holds one, whatever
\* copies of a state the payload has elsewhere (providerFields and parse).
THEOREM OwnStateDecides ==
    ASSUME NEW provider \in Providers, NEW payload,
           NEW i \in 1..Len(StatusPaths(provider, Base(payload))),
           StringAt(payload, StatusPaths(provider, Base(payload))[i]) # Empty,
           \A j \in 1..(i - 1) :
              StringAt(payload, StatusPaths(provider, Base(payload))[j]) = Empty
    PROVE  OriginalStatus(provider, payload)
             = StringAt(payload, StatusPaths(provider, Base(payload))[i])
<1> DEFINE own == StatusPaths(provider, Base(payload))
           generic == Generic(Base(payload)).status
           S == StatePaths(Base(payload))
<1>1. own \in Seq(S) /\ generic \in Seq(S)
  BY StatusPathsType
<1>2. OriginalStatus(provider, payload) = First(payload, own \o generic)
  BY DEF OriginalStatus
<1> HIDE DEF own, generic, S
<1>3. First(payload, own \o generic) = StringAt(payload, own[i])
  <2>1. i \in 1..Len(own) /\ StringAt(payload, own[i]) # Empty
        /\ \A j \in 1..(i - 1) : StringAt(payload, own[j]) = Empty
    BY DEF own
  <2> QED BY <1>1, <2>1, FirstOfJoined
<1> QED BY <1>2, <1>3 DEF own

\* Of a GitHub run the conclusion is the state, and its status only as long as there is
\* no conclusion: a run that has completed and failed is not stored as a success.
COROLLARY ConclusionDecides ==
    ASSUME NEW payload, NEW conclusion, NEW status,
           conclusion = StringAt(payload, <<"workflow_run", "conclusion">>),
           status = StringAt(payload, <<"workflow_run", "status">>)
    PROVE  /\ conclusion # Empty => OriginalStatus("github", payload) = conclusion
           /\ conclusion = Empty /\ status # Empty => OriginalStatus("github", payload) = status
<1> DEFINE own == StatusPaths("github", Base(payload))
<1>1. /\ own = <<<<"workflow_run", "conclusion">>, <<"workflow_run", "status">>>>
      /\ "github" \in Providers
  BY DEF StatusPaths, Providers
<1>2. Len(own) = 2 /\ StringAt(payload, own[1]) = conclusion /\ StringAt(payload, own[2]) = status
  BY <1>1
<1> HIDE DEF own
<1>3. ASSUME conclusion # Empty PROVE OriginalStatus("github", payload) = conclusion
  <2>1. 1 \in 1..Len(own) /\ StringAt(payload, own[1]) # Empty
    BY <1>2, <1>3
  <2>2. \A j \in 1..(1 - 1) : StringAt(payload, own[j]) = Empty
    OBVIOUS
  <2> QED BY <1>1, <1>2, <2>1, <2>2, OwnStateDecides DEF own
<1>4. ASSUME conclusion = Empty, status # Empty PROVE OriginalStatus("github", payload) = status
  <2>1. 2 \in 1..Len(own) /\ StringAt(payload, own[2]) # Empty
    BY <1>2, <1>4
  <2>2. \A j \in 1..(2 - 1) : j = 1
    OBVIOUS
  <2>3. \A j \in 1..(2 - 1) : StringAt(payload, own[j]) = Empty
    BY <1>2, <1>4, <2>2, Zenon
  <2> QED BY <1>1, <1>2, <2>1, <2>3, OwnStateDecides DEF own
<1> QED BY <1>3, <1>4

\* What is found is the first that holds anything.
LEMMA FirstIsFound ==
    ASSUME NEW payload, NEW paths, NEW k \in Nat, DOMAIN paths = 1..k,
           First(payload, paths) # Empty
    PROVE  \E i \in 1..k : /\ First(payload, paths) = StringAt(payload, paths[i])
                           /\ \A j \in 1..(i - 1) : StringAt(payload, paths[j]) = Empty
<1> DEFINE found == {i \in DOMAIN paths : StringAt(payload, paths[i]) # Empty}
<1>1. found \in SUBSET Nat
  OBVIOUS
<1>2. found # {}
  BY DEF First
<1>3. PICK i \in found : \A j \in found : i <= j
  BY <1>1, <1>2, LeastOf
<1>4. ASSUME NEW j \in 1..(i - 1) PROVE StringAt(payload, paths[j]) = Empty
  <2>1. j \in DOMAIN paths /\ ~(i <= j)
    OBVIOUS
  <2> QED BY <1>3, <2>1
<1>5. i \in 1..k /\ StringAt(payload, paths[i]) # Empty
  OBVIOUS
<1>6. First(payload, paths) = StringAt(payload, paths[i])
  BY <1>4, <1>5, FirstFound
<1> QED BY <1>4, <1>5, <1>6

\* providerFields reads all the fields a provider has for its state, and parse the
\* generic ones after them.
LEMMA PathsAreFields ==
    ASSUME NEW provider \in Providers, NEW base
    PROVE  /\ \A i \in 1..Len(StatusPaths(provider, base)) :
                StatusPaths(provider, base)[i] \in OwnFields(provider, base)
           /\ \A f \in OwnFields(provider, base) :
                \E i \in 1..Len(StatusPaths(provider, base)) : StatusPaths(provider, base)[i] = f
           /\ \A i \in 1..Len(Generic(base).status) : Generic(base).status[i] \in GenericFields(base)
<1> DEFINE covers(paths, fields) == /\ \A i \in 1..Len(paths) : paths[i] \in fields
                                    /\ \A f \in fields : \E i \in 1..Len(paths) : paths[i] = f
<1>1. ASSUME NEW f PROVE covers(<<f>>, {f})
  OBVIOUS
<1>2. ASSUME NEW f, NEW g PROVE covers(<<f, g>>, {g, f})
  OBVIOUS
<1>3. ASSUME NEW f, NEW g, NEW x, NEW y
      PROVE  \A i \in 1..Len(<<f, g, x, y>>) : <<f, g, x, y>>[i] \in {x, y, f, g}
  OBVIOUS
<1> HIDE DEF covers
<1>4. covers(StatusPaths(provider, base), OwnFields(provider, base))
  <2>1. CASE provider = "github"
    <3>1. /\ StatusPaths(provider, base)
               = <<<<"workflow_run", "conclusion">>, <<"workflow_run", "status">>>>
          /\ OwnFields(provider, base)
               = {<<"workflow_run", "status">>, <<"workflow_run", "conclusion">>}
      BY <2>1 DEF StatusPaths, OwnFields
    <3> QED BY <1>2, <3>1, Zenon
  <2>2. CASE provider = "gitlab"
    <3>1. /\ StatusPaths(provider, base) = <<<<"object_attributes", "status">>>>
          /\ OwnFields(provider, base) = {<<"object_attributes", "status">>}
      BY <2>2 DEF StatusPaths, OwnFields
    <3> QED BY <1>1, <3>1, Zenon
  <2>3. CASE provider = "circleci"
    <3>1. /\ StatusPaths(provider, base) = <<<<"pipeline", "status">>, <<"status">>>>
          /\ OwnFields(provider, base) = {<<"status">>, <<"pipeline", "status">>}
      BY <2>3 DEF StatusPaths, OwnFields
    <3> QED BY <1>2, <3>1, Zenon
  <2>4. CASE provider = "vercel"
    <3>1. /\ StatusPaths(provider, base) = <<base \o <<"state">>, base \o <<"readyState">>>>
          /\ OwnFields(provider, base) = {base \o <<"readyState">>, base \o <<"state">>}
      BY <2>4 DEF StatusPaths, OwnFields
    <3> QED BY <1>2, <3>1, Zenon
  <2>5. CASE provider = "netlify"
    <3>1. /\ StatusPaths(provider, base) = <<base \o <<"state">>, base \o <<"status">>>>
          /\ OwnFields(provider, base) = {base \o <<"status">>, base \o <<"state">>}
      BY <2>5 DEF StatusPaths, OwnFields
    <3> QED BY <1>2, <3>1, Zenon
  <2>6. CASE provider = "aws-codepipeline"
    <3>1. /\ StatusPaths(provider, base) = <<<<"detail", "state">>>>
          /\ OwnFields(provider, base) = {<<"detail", "state">>}
      BY <2>6 DEF StatusPaths, OwnFields
    <3> QED BY <1>1, <3>1, Zenon
  <2> QED BY <2>1, <2>2, <2>3, <2>4, <2>5, <2>6 DEF Providers
<1>5. ASSUME NEW i \in 1..Len(Generic(base).status) PROVE Generic(base).status[i] \in GenericFields(base)
  <2>1. /\ Generic(base).status
             = <<base \o <<"status">>, base \o <<"state">>, <<"status">>, <<"state">>>>
        /\ GenericFields(base)
             = {<<"status">>, <<"state">>, base \o <<"status">>, base \o <<"state">>}
    BY DEF Generic, GenericFields
  <2>2. \A j \in 1..Len(Generic(base).status) : Generic(base).status[j] \in GenericFields(base)
    BY <1>3, <2>1, Zenon
  <2> QED BY <2>2
<1> QED BY <1>4, <1>5 DEF covers

\* An event's state is what its payload reports, wherever the provider puts it and
\* whatever the payload holds beside it.
THEOREM ParsedAsReported ==
    ASSUME NEW provider \in Providers, NEW payload, NEW outcome,
           Parses(provider, payload), Reports(provider, payload, outcome)
    PROVE  NormalizeState(OriginalStatus(provider, payload)) = outcome
<1> DEFINE base == Base(payload)
           own == StatusPaths(provider, base)
           generic == Generic(base).status
           S == StatePaths(base)
           held(fields) == {f \in fields : StringAt(payload, f) # Empty}
           ownHeld == held(OwnFields(provider, base))
           conclusion == <<"workflow_run", "conclusion">>
           word == OriginalStatus(provider, payload)
           reported(f) == NormalizeState(StringAt(payload, f)) = outcome
<1>1. own \in Seq(S) /\ generic \in Seq(S)
  BY StatusPathsType
<1>2. word = First(payload, own \o generic) /\ word # Empty
  BY DEF OriginalStatus, Parses
<1>3. /\ \A i \in 1..Len(own) : own[i] \in OwnFields(provider, base)
      /\ \A f \in OwnFields(provider, base) : \E i \in 1..Len(own) : own[i] = f
      /\ \A i \in 1..Len(generic) : generic[i] \in GenericFields(base)
  BY PathsAreFields
<1>4. /\ provider = "github" /\ conclusion \in ownHeld => reported(conclusion)
      /\ ~(provider = "github" /\ conclusion \in ownHeld) => \A f \in ownHeld : reported(f)
      /\ ownHeld = {} => \A f \in held(GenericFields(base)) : reported(f)
  <2> DEFINE deciding == IF provider = "github" /\ conclusion \in ownHeld THEN {conclusion}
                         ELSE IF ownHeld # {} THEN ownHeld ELSE held(GenericFields(base))
  <2>1. \A f \in deciding : reported(f)
    BY Zenon DEF Reports
  <2> HIDE DEF ownHeld, held, conclusion, reported
  <2> QED BY <2>1
<1>5. provider = "github" => own[1] = conclusion /\ Len(own) = 2
  BY DEF StatusPaths
<1> HIDE DEF base, own, generic, S, conclusion, word
<1> DEFINE k == Len(own) + Len(generic)
           paths == own \o generic
<1>6. /\ k \in Nat /\ DOMAIN paths = 1..k
      /\ \A i \in 1..Len(own) : i \in 1..k /\ paths[i] = own[i]
      /\ \A i \in 1..k : i \notin 1..Len(own) =>
           i - Len(own) \in 1..Len(generic) /\ paths[i] = generic[i - Len(own)]
  <2>1. paths \in Seq(S) /\ Len(paths) = k
        /\ \A j \in 1..k : paths[j] = IF j <= Len(own) THEN own[j] ELSE generic[j - Len(own)]
    BY <1>1, ConcatProperties
  <2>2. Len(own) \in Nat /\ Len(generic) \in Nat
    BY <1>1
  <2> HIDE DEF paths
  <2> QED BY <2>1, <2>2
<1> HIDE DEF paths, k
<1>7. PICK i \in 1..k : /\ word = StringAt(payload, paths[i])
                        /\ \A j \in 1..(i - 1) : StringAt(payload, paths[j]) = Empty
  <2>1. word = First(payload, paths)
    BY <1>2 DEF paths
  <2>2. First(payload, paths) # Empty /\ k \in Nat /\ DOMAIN paths = 1..k
    BY <1>2, <1>6, <2>1
  <2>3. \E i \in 1..k : /\ First(payload, paths) = StringAt(payload, paths[i])
                         /\ \A j \in 1..(i - 1) : StringAt(payload, paths[j]) = Empty
    BY <2>2, FirstIsFound
  <2> QED BY <2>1, <2>3
<1>8. CASE i \in 1..Len(own)
  <2>1. paths[i] \in ownHeld
    BY <1>2, <1>3, <1>6, <1>7, <1>8
  <2>2. CASE provider = "github" /\ conclusion \in ownHeld
    <3>1. 1 \in 1..Len(own) /\ paths[1] = conclusion /\ StringAt(payload, conclusion) # Empty
      <4>1. Len(own) = 2 /\ own[1] = conclusion
        BY <1>5, <2>2
      <4>2. 1 \in 1..Len(own)
        BY <4>1
      <4> QED BY <1>6, <2>2, <4>1, <4>2
    <3>2. i = 1
      <4>1. ~(1 \in 1..(i - 1))
        BY <1>7, <3>1, Zenon
      <4> QED BY <1>8, <4>1
    <3> HIDE DEF ownHeld
    <3> QED BY <1>4, <1>7, <2>2, <3>1, <3>2 DEF reported, word
  <2>3. CASE ~(provider = "github" /\ conclusion \in ownHeld)
    <3> HIDE DEF ownHeld
    <3> QED BY <1>4, <1>7, <2>1, <2>3 DEF reported, word
  <2> QED BY <2>2, <2>3
<1>9. CASE i \notin 1..Len(own)
  <2>1. ASSUME NEW j \in 1..Len(own) PROVE StringAt(payload, own[j]) = Empty
    <3>1. j \in 1..(i - 1)
      BY <1>1, <1>6, <1>9
    <3> QED BY <1>6, <1>7, <3>1
  <2>2. ownHeld = {}
    <3>1. ASSUME NEW f \in OwnFields(provider, base) PROVE StringAt(payload, f) = Empty
      BY <1>3, <2>1
    <3> QED BY <3>1
  <2>3. paths[i] \in held(GenericFields(base))
    BY <1>2, <1>3, <1>6, <1>7, <1>9
  <2> HIDE DEF held, ownHeld
  <2> QED BY <1>4, <1>7, <2>2, <2>3 DEF reported, word
<1> QED BY <1>8, <1>9 DEF word

\* Only events with a state become deployments.
RowsParse == \A e \in rows : Parses(Feed[e].provider, Feed[e].payload)

\* Every deployment is stored with the outcome its provider reported (providerFields
\* and parse).
THEOREM OutcomeSafety == TimelineSpec => []OutcomeIsReported
<1>1. TimelineInit => RowsParse
  BY DEF TimelineInit, RowsParse
<1>2. RowsParse /\ [TimelineNext]_timelineVars => RowsParse'
  <2> SUFFICES ASSUME RowsParse, [TimelineNext]_timelineVars, NEW e \in rows'
               PROVE  Parses(Feed[e].provider, Feed[e].payload)
    BY DEF RowsParse
  <2>1. CASE rows' = rows
    BY <2>1 DEF RowsParse
  <2>2. CASE \E d \in Events : Process(d)
    BY <2>2 DEF Process, Store, RowsParse
  <2> QED BY <2>1, <2>2 DEF TimelineNext, PruneRetained, OpenList, NextPage, Load, timelineVars
<1>3. TimelineInv /\ RowsParse => OutcomeIsReported
  <2> SUFFICES ASSUME TimelineInv, RowsParse, NEW e \in rows
               PROVE  Status(e) = Feed[e].outcome
    BY DEF OutcomeIsReported
  <2>1. e \in Events
    BY DEF TimelineInv
  <2>2. Status(e) = NormalizeState(OriginalStatus(Feed[e].provider, Feed[e].payload))
    BY <2>1 DEF Status, StatusOf
  <2>3. /\ Feed[e].provider \in Providers
        /\ Parses(Feed[e].provider, Feed[e].payload)
        /\ Reports(Feed[e].provider, Feed[e].payload, Feed[e].outcome)
    BY <2>1, FeedAssumption DEF RowsParse
  <2> QED BY <2>2, <2>3, ParsedAsReported
<1> QED BY <1>1, <1>2, <1>3, TimelineInvariant, PTL DEF TimelineSpec

-----------------------------------------------------------------------------
(* Analytics.                                                              *)

\* As text, what is before a full second started in an earlier one, or in that second
\* with a fraction, since '.' comes before 'Z'.
LEMMA BeforeFullSecond ==
    ASSUME NEW t \in Times, NEW s \in Int
    PROVE  Before(t, [sec |-> s, frac |-> <<>>]) <=>
             \/ t.sec < s
             \/ t.sec = s /\ t.frac # <<>>
<1> DEFINE a == Text(t)
           b == Text([sec |-> s, frac |-> <<>>])
<1>1. t.sec \in Int
  BY TimeType
<1>2. b \in Seq(Int) /\ Len(b) = 2 /\ b[1] = s /\ b[2] = 10
  BY DEF Text
<1>3. /\ a \in Seq(Int) /\ Len(a) >= 2 /\ a[1] = t.sec
      /\ a[2] = IF t.frac = <<>> THEN 10 ELSE -1
  BY TextShape
<1>4. Before(t, [sec |-> s, frac |-> <<>>]) <=>
        \E i \in DOMAIN a \intersect DOMAIN b : a[i] < b[i] /\ \A j \in 1..(i - 1) : a[j] = b[j]
  BY DEF Before
<1> HIDE DEF a, b
<1>5. DOMAIN a \intersect DOMAIN b = {1, 2}
  BY <1>2, <1>3
<1>6. (\E i \in {1, 2} : a[i] < b[i] /\ \A j \in 1..(i - 1) : a[j] = b[j])
        <=> a[1] < b[1] \/ (a[2] < b[2] /\ a[1] = b[1])
  BY <1>2, <1>3
<1>7. Before(t, [sec |-> s, frac |-> <<>>]) <=> a[1] < b[1] \/ (a[2] < b[2] /\ a[1] = b[1])
  BY <1>4, <1>5, <1>6, Zenon
<1>8. a[2] < b[2] <=> t.frac # <<>>
  BY <1>2, <1>3
<1> QED BY <1>2, <1>3, <1>7, <1>8, Zenon

\* A second lies in a range of days if it lies between their midnights.
LEMMA DayOfSecond ==
    ASSUME NEW s \in Nat, NEW d \in Int
    PROVE  /\ s \div DayLength \in Nat
           /\ d <= s \div DayLength <=> d * DayLength <= s
<1> DEFINE q == s \div DayLength
<1>1. DayLength \in Nat \ {0}
  BY TimelineAssumption
<1>2. q \in Int /\ q * DayLength <= s /\ s < (q + 1) * DayLength
  BY <1>1
<1> HIDE DEF q
<1>3. d <= q => d * DayLength <= q * DayLength
  BY <1>1, <1>2
<1>4. d > q => d * DayLength >= (q + 1) * DayLength
  BY <1>1, <1>2
<1>5. d * DayLength \in Int /\ q * DayLength \in Int /\ (q + 1) * DayLength \in Int
  BY <1>1, <1>2
<1>6. d <= q <=> d * DayLength <= s
  BY <1>2, <1>3, <1>4, <1>5
<1>7. q >= 0
  BY <1>1, <1>2
<1> QED BY <1>2, <1>6, <1>7 DEF q

\* A state is one of the six.
LEMMA StatusType == ASSUME NEW e \in Events PROVE Status(e) \in Statuses
BY DEF Status, StatusOf, NormalizeState, Statuses

\* Analytics count the deployments of their days, on whichever day each of them falls and
\* for every number of days, save those that text order puts before the first
\* midnight; and count each with the outcome that its provider reported
\* (DeploymentAnalyticsFiltered).
THEOREM AnalyticsSafety == TimelineSpec => []AnalyticsCountWindow
<1>1. TimelineInv /\ OutcomeIsReported => AnalyticsCountWindow
  <2> SUFFICES ASSUME TimelineInv, OutcomeIsReported, NEW asked \in Asked
               PROVE
        LET early(e) == /\ Started(e).sec = (Today + 1 - Days(asked)) * DayLength
                        /\ Started(e).frac # <<>>
            due == {e \in rows : Day(e) \in Window(asked) /\ ~early(e)}
        IN  Summary(asked) = [total |-> Cardinality(due),
                              success |-> Cardinality({e \in due : Feed[e].outcome = "success"}),
                              failed |-> Cardinality({e \in due : Feed[e].outcome = "failed"})]
    BY DEF AnalyticsCountWindow
  <2> DEFINE first == Today + 1 - Days(asked)
             early(e) == Started(e).sec = first * DayLength /\ Started(e).frac # <<>>
             due == {e \in rows : Day(e) \in Window(asked) /\ ~early(e)}
  <2>1. first \in Int /\ Today \in Int /\ DayLength \in Int
    BY TimelineAssumption DEF Days
  <2>2. ASSUME NEW e \in rows
        PROVE  e \in Counted(asked) <=> e \in due
    <3>1. e \in Events /\ Started(e) \in Times /\ Started(e).sec \in Nat
      BY TimelineAssumption DEF TimelineInv, Times
    <3>2. /\ Day(e) \in Nat
          /\ first <= Day(e) <=> first * DayLength <= Started(e).sec
          /\ Today + 1 <= Day(e) <=> (Today + 1) * DayLength <= Started(e).sec
      BY <2>1, <3>1, DayOfSecond DEF Day
    <3>3. first * DayLength \in Int /\ (Today + 1) * DayLength \in Int
      BY <2>1
    <3>4. /\ Before(Started(e), Midnight(first)) <=>
               Started(e).sec < first * DayLength \/ early(e)
          /\ Started(e).sec < (Today + 1) * DayLength => Before(Started(e), Midnight(Today + 1))
      BY <3>1, <3>3, BeforeFullSecond DEF Midnight
    <3>5. Day(e) \in Window(asked) <=> first <= Day(e) /\ ~(Today + 1 <= Day(e))
      BY <2>1, <3>2 DEF Window
    <3>6. e \in Counted(asked) <=> /\ ~Before(Started(e), Midnight(first))
                                   /\ Before(Started(e), Midnight(Today + 1))
                                   /\ Day(e) \in Window(asked)
      BY DEF Counted
    <3> HIDE DEF first, early
    <3>7. e \in Counted(asked) <=> Day(e) \in Window(asked) /\ ~early(e)
      BY <3>1, <3>2, <3>3, <3>4, <3>5, <3>6
    <3> QED BY <3>7
  <2>3. Counted(asked) = due
    BY <2>2 DEF Counted
  <2> HIDE DEF due
  <2>4. \A e \in due : Status(e) \in Statuses /\ Status(e) = Feed[e].outcome
    BY StatusType DEF TimelineInv, OutcomeIsReported, due
  <2>5. /\ {e \in due : Status(e) \in Statuses} = due
        /\ {e \in due : Status(e) \in {"success"}} = {e \in due : Feed[e].outcome = "success"}
        /\ {e \in due : Status(e) \in {"failed"}} = {e \in due : Feed[e].outcome = "failed"}
    BY <2>4
  <2>6. Summary(asked) = [total |-> Cardinality(due),
                          success |-> Cardinality({e \in due : Feed[e].outcome = "success"}),
                          failed |-> Cardinality({e \in due : Feed[e].outcome = "failed"})]
    BY <2>3, <2>5 DEF Summary
  <2> QED BY <2>6 DEF due
<1> QED BY <1>1, TimelineInvariant, OutcomeSafety, PTL
=============================================================================
