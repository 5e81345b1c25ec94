------------------------- MODULE PublicationProofs -------------------------
(***************************************************************************)
(* Proofs about the registry and its clients, for any number of uploads    *)
(* and hosts, any registry, manifests, crashes and failures.               *)
(*                                                                         *)
(* First the solver, as an operator: the order of versions is total; the   *)
(* search exists, because each place it goes to is smaller than the last;  *)
(* it is sound, complete and prefers the newest version.  Then the         *)
(* protocol: Inv says what the stores and the publications under way       *)
(* know of each other, LockInv what a lock still finds in the registry,    *)
(* FusedInv that what a host prepares is the recipe of its own cells.      *)
(***************************************************************************)
EXTENDS Publication, FiniteSetTheorems, WellFoundedInduction, TLAPS

\* A set of numbers has a least one: how the proofs below do induction.
LEMMA LeastNumber ==
    ASSUME NEW T \in SUBSET Nat, T # {}
    PROVE  \E n \in T : \A m \in T : n <= m
<1> DEFINE below == OpToRel(<, Nat)
<1>1. PICK n \in T : \A m \in T : ~(<<m, n>> \in below)
  BY NatLessThanWellFounded, WFMin
<1>2. \A m \in T : n <= m
  <2> TAKE m \in T
  <2>1. m \in Nat /\ n \in Nat
    OBVIOUS
  <2>2. m < n => <<m, n>> \in below
    BY <2>1 DEF OpToRel
  <2>3. <<m, n>> \notin below
    BY <1>1
  <2> HIDE DEF below
  <2> QED
    BY <2>1, <2>2, <2>3
<1> QED
  BY <1>2

\* The least element that Min names.
LEMMA MinOf ==
    ASSUME NEW T \in SUBSET Nat, T # {}
    PROVE  Reg!Min(T) \in T /\ \A m \in T : Reg!Min(T) <= m
BY LeastNumber DEF Reg!Min

----------------------------------------------------------------------------
(* the order of versions: both as a sequence of pairs, compared at the first *)
(* place where they differ                                                   *)

Tag(v, n) ==
    CASE n = 0 -> v.major
      [] n = 1 -> v.minor
      [] n = 2 -> v.patch
      [] n = 3 -> IF v.pre = << >> THEN 1 ELSE 0
      [] n > 3 -> IF n - 3 > Len(v.pre) THEN 0 ELSE IF v.pre[n - 3].num THEN 1 ELSE 2

Val(v, n) == IF n > 3 /\ n - 3 <= Len(v.pre) THEN v.pre[n - 3].val ELSE 0

SameAt(v, o, n) == Tag(v, n) = Tag(o, n) /\ Val(v, n) = Val(o, n)
LessAt(v, o, n) == Tag(v, n) < Tag(o, n) \/ (Tag(v, n) = Tag(o, n) /\ Val(v, n) < Val(o, n))
Precedes(v, o) == \E n \in Nat : LessAt(v, o, n) /\ \A m \in 0 .. n - 1 : SameAt(v, o, m)

\* The places of a version hold numbers.
LEMMA EntryType ==
    ASSUME NEW v \in Reg!Versions, NEW n \in Nat
    PROVE  Tag(v, n) \in Nat /\ Val(v, n) \in Nat
<1>1. /\ v.major \in Nat /\ v.minor \in Nat /\ v.patch \in Nat
      /\ v.pre \in Seq([num : BOOLEAN, val : Nat])
  BY DEF Reg!Versions, Reg!Identifiers
<1>2. PICK pre : pre = v.pre
  OBVIOUS
<1>3. n > 3 /\ n - 3 <= Len(pre) => n - 3 \in 1 .. Len(pre)
  BY <1>1, <1>2
<1>4. n > 3 /\ n - 3 <= Len(pre) => pre[n - 3] \in [num : BOOLEAN, val : Nat]
  <2>1. PICK E : E = [num : BOOLEAN, val : Nat]
    OBVIOUS
  <2>2. pre \in Seq(E)
    BY <1>1, <1>2, <2>1
  <2>3. n > 3 /\ n - 3 <= Len(pre) => pre[n - 3] \in E
    BY <1>3, <2>2
  <2> QED
    BY <2>1, <2>3
<1> QED
  BY <1>1, <1>2, <1>3, <1>4 DEF Tag, Val

\* The first place where two of three versions differ decides.
LEMMA PrecedesTransitive ==
    ASSUME NEW v \in Reg!Versions, NEW o \in Reg!Versions, NEW u \in Reg!Versions,
           Precedes(v, o), Precedes(o, u)
    PROVE  Precedes(v, u)
<1>1. PICK i \in Nat : LessAt(v, o, i) /\ \A m \in 0 .. i - 1 : SameAt(v, o, m)
  BY DEF Precedes
<1>2. PICK j \in Nat : LessAt(o, u, j) /\ \A m \in 0 .. j - 1 : SameAt(o, u, m)
  BY DEF Precedes
<1>3. PICK k \in Nat : k = IF i <= j THEN i ELSE j
  BY <1>1, <1>2
<1>4. \A m \in 0 .. k - 1 : SameAt(v, u, m)
  BY <1>1, <1>2, <1>3 DEF SameAt
<1>5. LessAt(v, u, k)
  <2>1. /\ Tag(v, k) \in Nat /\ Val(v, k) \in Nat /\ Tag(o, k) \in Nat /\ Val(o, k) \in Nat
        /\ Tag(u, k) \in Nat /\ Val(u, k) \in Nat
    BY EntryType
  <2>2. LessAt(v, o, k) \/ SameAt(v, o, k)
    BY <1>1, <1>3
  <2>3. LessAt(o, u, k) \/ SameAt(o, u, k)
    BY <1>2, <1>3
  <2>4. LessAt(v, o, k) \/ LessAt(o, u, k)
    BY <1>1, <1>2, <1>3
  <2> QED
    BY <2>1, <2>2, <2>3, <2>4 DEF LessAt, SameAt
<1> QED
  BY <1>4, <1>5 DEF Precedes

\* Two versions cannot each precede the other.
LEMMA PrecedesAsymmetric ==
    ASSUME NEW v \in Reg!Versions, NEW o \in Reg!Versions, Precedes(v, o)
    PROVE  ~Precedes(o, v)
<1>1. PICK i \in Nat : LessAt(v, o, i) /\ \A m \in 0 .. i - 1 : SameAt(v, o, m)
  BY DEF Precedes
<1>2. SUFFICES ASSUME NEW j \in Nat, LessAt(o, v, j), \A m \in 0 .. j - 1 : SameAt(o, v, m)
               PROVE  FALSE
  BY DEF Precedes
<1>3. /\ Tag(v, i) \in Nat /\ Val(v, i) \in Nat /\ Tag(o, i) \in Nat /\ Val(o, i) \in Nat
      /\ Tag(v, j) \in Nat /\ Val(v, j) \in Nat /\ Tag(o, j) \in Nat /\ Val(o, j) \in Nat
  BY EntryType
<1>4. CASE i < j
  BY <1>1, <1>2, <1>3, <1>4 DEF LessAt, SameAt
<1>5. CASE j < i
  BY <1>1, <1>2, <1>3, <1>5 DEF LessAt, SameAt
<1>6. CASE i = j
  BY <1>1, <1>2, <1>3, <1>6 DEF LessAt, SameAt
<1> QED
  BY <1>4, <1>5, <1>6

\* Versions that differ anywhere are in order.
LEMMA PrecedesTotal ==
    ASSUME NEW v \in Reg!Versions, NEW o \in Reg!Versions, NEW n \in Nat, ~SameAt(v, o, n)
    PROVE  Precedes(v, o) \/ Precedes(o, v)
<1> DEFINE T == {m \in Nat : ~SameAt(v, o, m)}
<1>1. T \in SUBSET Nat /\ T # {}
  OBVIOUS
<1>2. PICK k \in T : \A m \in T : k <= m
  <2> HIDE DEF T
  <2> QED
    BY <1>1, LeastNumber
<1>3. k \in Nat /\ ~SameAt(v, o, k) /\ \A m \in 0 .. k - 1 : SameAt(v, o, m) /\ SameAt(o, v, m)
  BY <1>2 DEF SameAt
<1>4. Tag(v, k) \in Nat /\ Val(v, k) \in Nat /\ Tag(o, k) \in Nat /\ Val(o, k) \in Nat
  BY <1>3, EntryType
<1>5. LessAt(v, o, k) \/ LessAt(o, v, k)
  BY <1>3, <1>4 DEF SameAt, LessAt
<1> QED
  BY <1>3, <1>5 DEF Precedes

\* The identifiers of a pre-release are in order when they differ.
LEMMA IdentifierOrder ==
    ASSUME NEW x \in Reg!Identifiers, NEW y \in Reg!Identifiers, x # y
    PROVE  /\ Reg!CompareIdentifier(x, y) \in {-1, 1}
           /\ Reg!CompareIdentifier(x, y) = -1 <=>
                (x.num /\ ~y.num) \/ (x.num = y.num /\ x.val < y.val)
<1>1. x.num \in BOOLEAN /\ y.num \in BOOLEAN /\ x.val \in Nat /\ y.val \in Nat
  BY DEF Reg!Identifiers
<1>2. x.num = y.num => x.val # y.val
  <2>1. x = [num |-> x.num, val |-> x.val] /\ y = [num |-> y.num, val |-> y.val]
    BY DEF Reg!Identifiers
  <2> QED
    BY <2>1
<1> QED
  BY <1>1, <1>2 DEF Reg!CompareIdentifier, Reg!Sign

\* ComparePre follows the first difference.
LEMMA PreOrder ==
    ASSUME NEW v \in Reg!Versions, NEW o \in Reg!Versions,
           v.major = o.major, v.minor = o.minor, v.patch = o.patch
    PROVE  /\ Reg!ComparePre(v.pre, o.pre) \in {-1, 0, 1}
           /\ Reg!ComparePre(v.pre, o.pre) = -1 => Precedes(v, o)
           /\ Reg!ComparePre(v.pre, o.pre) = 1 => Precedes(o, v)
           /\ Reg!ComparePre(v.pre, o.pre) = 0 => \A n \in Nat : SameAt(v, o, n)
<1>1. PICK a, b : a = v.pre /\ b = o.pre
  OBVIOUS
<1>2. a \in Seq(Reg!Identifiers) /\ b \in Seq(Reg!Identifiers)
  BY <1>1 DEF Reg!Versions
<1>3. Len(a) \in Nat /\ Len(b) \in Nat
  BY <1>2
<1>4. \A m \in {0, 1, 2} : SameAt(v, o, m) /\ SameAt(o, v, m)
  BY DEF SameAt, Tag, Val
<1>5. CASE a = b
  <2>1. \A n \in Nat : SameAt(v, o, n)
    BY <1>1, <1>5 DEF SameAt, Tag, Val
  <2>2. Reg!ComparePre(v.pre, o.pre) = 0
    BY <1>1, <1>5 DEF Reg!ComparePre
  <2> QED
    BY <2>1, <2>2
<1>6. CASE a = << >> /\ b # << >>
  <2>1. LessAt(o, v, 3)
    BY <1>1, <1>6 DEF LessAt, Tag
  <2>2. Precedes(o, v)
    BY <1>4, <2>1 DEF Precedes
  <2>3. Reg!ComparePre(v.pre, o.pre) = 1
    BY <1>1, <1>6 DEF Reg!ComparePre
  <2> QED
    BY <2>2, <2>3
<1>7. CASE a # << >> /\ b = << >>
  <2>1. LessAt(v, o, 3)
    BY <1>1, <1>7 DEF LessAt, Tag
  <2>2. Precedes(v, o)
    BY <1>4, <2>1 DEF Precedes
  <2>3. Reg!ComparePre(v.pre, o.pre) = -1
    BY <1>1, <1>7 DEF Reg!ComparePre
  <2> QED
    BY <2>2, <2>3
<1>8. CASE a # b /\ a # << >> /\ b # << >>
  <2>1. PICK L : L = Reg!Min({Len(a), Len(b)})
    OBVIOUS
  <2>2. PICK differ : differ = {i \in 1 .. L : a[i] # b[i]}
    OBVIOUS
  <2>3. Reg!ComparePre(v.pre, o.pre) =
            IF differ = {} THEN (IF Len(a) < Len(b) THEN -1 ELSE 1)
            ELSE Reg!CompareIdentifier(a[Reg!Min(differ)], b[Reg!Min(differ)])
    BY <1>1, <1>8, <2>1, <2>2 DEF Reg!ComparePre
  <2>4. L = IF Len(a) <= Len(b) THEN Len(a) ELSE Len(b)
    <3>1. {Len(a), Len(b)} \in SUBSET Nat /\ {Len(a), Len(b)} # {}
      BY <1>3
    <3>2. PICK T : T = {Len(a), Len(b)}
      OBVIOUS
    <3>3. Reg!Min(T) \in T /\ \A m \in T : Reg!Min(T) <= m
      BY <3>1, <3>2, MinOf
    <3> QED
      BY <1>3, <2>1, <3>2, <3>3
  <2>5. SameAt(v, o, 3) /\ SameAt(o, v, 3)
    BY <1>1, <1>8 DEF SameAt, Tag, Val
  <2>6. CASE differ = {}
    <3>1. \A i \in 1 .. Len(a) : i <= Len(b) => a[i] = b[i]
      BY <1>3, <2>4, <2>6, <2>2
    <3>2. Len(a) # Len(b)
      BY <1>2, <1>8, <3>1
    <3>3. PICK k \in Nat : k = IF Len(a) < Len(b) THEN Len(a) + 4 ELSE Len(b) + 4
      BY <1>3
    <3>4. \A m \in 0 .. k - 1 : SameAt(v, o, m) /\ SameAt(o, v, m)
      <4> TAKE m \in 0 .. k - 1
      <4>1. CASE m <= 3
        BY <1>4, <2>5, <4>1
      <4>2. CASE m > 3
        <5>1. m - 3 \in 1 .. Len(a) /\ m - 3 <= Len(b) /\ a[m - 3] = b[m - 3]
          BY <1>3, <3>1, <3>3, <4>2
        <5> QED
          BY <1>1, <1>3, <4>2, <5>1 DEF SameAt, Tag, Val
      <4> QED
        BY <4>1, <4>2
    <3>5. CASE Len(a) < Len(b)
      <4>1. LessAt(v, o, k)
        BY <1>1, <1>3, <3>3, <3>5 DEF LessAt, Tag
      <4>2. Precedes(v, o)
        BY <3>4, <4>1 DEF Precedes
      <4> QED
        BY <2>3, <2>6, <3>5, <4>2
    <3>6. CASE ~(Len(a) < Len(b))
      <4>1. LessAt(o, v, k)
        BY <1>1, <1>3, <3>2, <3>3, <3>6 DEF LessAt, Tag
      <4>2. Precedes(o, v)
        BY <3>4, <4>1 DEF Precedes
      <4> QED
        BY <2>3, <2>6, <3>6, <4>2
    <3> QED
      BY <3>5, <3>6
  <2>7. CASE differ # {}
    <3>1. differ \in SUBSET Nat
      BY <1>3, <2>4, <2>2
    <3>2. PICK d : d = Reg!Min(differ)
      OBVIOUS
    <3>3. d \in differ /\ \A m \in differ : d <= m
      BY <2>7, <3>1, <3>2, MinOf
    <3>4. /\ d \in 1 .. Len(a) /\ d \in 1 .. Len(b) /\ a[d] # b[d]
          /\ \A i \in 1 .. d - 1 : a[i] = b[i]
      BY <1>3, <2>4, <2>2, <3>3
    <3>5. a[d] \in Reg!Identifiers /\ b[d] \in Reg!Identifiers
      BY <1>2, <3>4
    <3>6. /\ Reg!CompareIdentifier(a[d], b[d]) \in {-1, 1}
          /\ Reg!CompareIdentifier(a[d], b[d]) = -1 <=>
                (a[d].num /\ ~b[d].num) \/ (a[d].num = b[d].num /\ a[d].val < b[d].val)
      BY <3>4, <3>5, IdentifierOrder
    <3>7. PICK k \in Nat : k = d + 3
      BY <3>4
    <3>8. \A m \in 0 .. k - 1 : SameAt(v, o, m) /\ SameAt(o, v, m)
      <4> TAKE m \in 0 .. k - 1
      <4>1. CASE m <= 3
        BY <1>4, <2>5, <4>1
      <4>2. CASE m > 3
        <5>1. m - 3 \in 1 .. d - 1 /\ m - 3 <= Len(a) /\ m - 3 <= Len(b) /\ a[m - 3] = b[m - 3]
          BY <1>3, <3>4, <3>7, <4>2
        <5> QED
          BY <1>1, <1>3, <4>2, <5>1 DEF SameAt, Tag, Val
      <4> QED
        BY <4>1, <4>2
    <3>9. /\ Tag(v, k) = (IF a[d].num THEN 1 ELSE 2) /\ Val(v, k) = a[d].val
          /\ Tag(o, k) = (IF b[d].num THEN 1 ELSE 2) /\ Val(o, k) = b[d].val
      BY <1>1, <1>3, <3>4, <3>7 DEF Tag, Val
    <3>10. a[d].num \in BOOLEAN /\ b[d].num \in BOOLEAN /\ a[d].val \in Nat /\ b[d].val \in Nat
      BY <3>5 DEF Reg!Identifiers
    <3>11. CASE Reg!CompareIdentifier(a[d], b[d]) = -1
      <4>1. LessAt(v, o, k)
        BY <3>6, <3>9, <3>10, <3>11 DEF LessAt
      <4>2. Precedes(v, o)
        BY <3>8, <4>1 DEF Precedes
      <4> QED
        BY <2>3, <2>7, <3>2, <3>11, <4>2
    <3>12. CASE Reg!CompareIdentifier(a[d], b[d]) = 1
      <4>1. a[d].num = b[d].num => a[d].val # b[d].val
        <5>1. a[d] = [num |-> a[d].num, val |-> a[d].val] /\ b[d] = [num |-> b[d].num, val |-> b[d].val]
          BY <3>5 DEF Reg!Identifiers
        <5> QED
          BY <3>4, <5>1
      <4>2. LessAt(o, v, k)
        BY <3>6, <3>9, <3>10, <3>12, <4>1 DEF LessAt
      <4>3. Precedes(o, v)
        BY <3>8, <4>2 DEF Precedes
      <4> QED
        BY <2>3, <2>7, <3>2, <3>12, <4>3
    <3> QED
      BY <3>6, <3>11, <3>12
  <2> QED
    BY <2>6, <2>7
<1> QED
  BY <1>5, <1>6, <1>7, <1>8

\* Compare is the order of versions.
LEMMA CompareOrder ==
    ASSUME NEW v \in Reg!Versions, NEW o \in Reg!Versions
    PROVE  Reg!Compare(v, o) >= 0 <=> ~Precedes(v, o)
<1>1. /\ v.major \in Nat /\ v.minor \in Nat /\ v.patch \in Nat
      /\ o.major \in Nat /\ o.minor \in Nat /\ o.patch \in Nat
  BY DEF Reg!Versions
<1>2. PICK x, y : x = <<v.major, v.minor, v.patch>> /\ y = <<o.major, o.minor, o.patch>>
  OBVIOUS
<1>3. PICK differ : differ = {i \in 1 .. 3 : x[i] # y[i]}
  OBVIOUS
<1>4. Reg!Compare(v, o) = IF differ # {} THEN Reg!Sign(x[Reg!Min(differ)], y[Reg!Min(differ)])
                          ELSE Reg!ComparePre(v.pre, o.pre)
  BY <1>2, <1>3 DEF Reg!Compare, Reg!Release3
<1>5. CASE differ = {}
  <2>1. v.major = o.major /\ v.minor = o.minor /\ v.patch = o.patch
    <3>1. \A i \in 1 .. 3 : x[i] = y[i]
      BY <1>3, <1>5
    <3>2. x[1] = y[1] /\ x[2] = y[2] /\ x[3] = y[3]
      BY <3>1
    <3> QED
      BY <1>2, <3>2
  <2>2. PICK c : c = Reg!ComparePre(v.pre, o.pre)
    OBVIOUS
  <2>3. /\ c \in {-1, 0, 1}
        /\ c = -1 => Precedes(v, o)
        /\ c = 1 => Precedes(o, v)
        /\ c = 0 => \A n \in Nat : SameAt(v, o, n)
    BY <2>1, <2>2, PreOrder
  <2>4. c = 0 => ~Precedes(v, o)
    <3> SUFFICES ASSUME NEW n \in Nat, SameAt(v, o, n) PROVE ~LessAt(v, o, n)
      BY <2>3 DEF Precedes
    <3>1. Tag(v, n) \in Nat /\ Val(v, n) \in Nat /\ Tag(o, n) \in Nat /\ Val(o, n) \in Nat
      BY EntryType
    <3> QED
      BY <3>1 DEF SameAt, LessAt
  <2>5. c = 1 => ~Precedes(v, o)
    BY <2>3, PrecedesAsymmetric
  <2>6. Reg!Compare(v, o) = c
    BY <1>4, <1>5, <2>2
  <2> QED
    BY <2>3, <2>4, <2>5, <2>6
<1>6. CASE differ # {}
  <2>1. differ \in SUBSET Nat
    BY <1>3
  <2>2. PICK d : d = Reg!Min(differ)
    OBVIOUS
  <2>3. d \in differ /\ \A m \in differ : d <= m
    BY <1>6, <2>1, <2>2, MinOf
  <2>4. d \in 1 .. 3 /\ x[d] # y[d] /\ \A i \in 1 .. d - 1 : x[i] = y[i]
    BY <1>3, <2>3
  <2>5. \A i \in 1 .. 3 : Tag(v, i - 1) = x[i] /\ Tag(o, i - 1) = y[i] /\ Val(v, i - 1) = 0 /\ Val(o, i - 1) = 0
    BY <1>1, <1>2 DEF Tag, Val
  <2>6. \A i \in 1 .. 3 : x[i] \in Nat /\ y[i] \in Nat
    BY <1>1, <1>2
  <2>7. PICK n \in Nat : n = d - 1
    BY <2>4
  <2>8. \A m \in 0 .. n - 1 : SameAt(v, o, m) /\ SameAt(o, v, m)
    <3> TAKE m \in 0 .. n - 1
    <3>1. m + 1 \in 1 .. d - 1 /\ m + 1 \in 1 .. 3 /\ (m + 1) - 1 = m
      BY <2>4, <2>7
    <3>2. x[m + 1] = y[m + 1]
      BY <2>4, <3>1
    <3>3. Tag(v, m) = x[m + 1] /\ Tag(o, m) = y[m + 1] /\ Val(v, m) = 0 /\ Val(o, m) = 0
      BY <2>5, <3>1
    <3> QED
      BY <3>2, <3>3 DEF SameAt
  <2>9. Tag(v, n) = x[d] /\ Tag(o, n) = y[d]
    BY <2>4, <2>5, <2>7
  <2>10. Reg!Compare(v, o) = Reg!Sign(x[d], y[d])
    BY <1>4, <1>6, <2>2
  <2>11. x[d] \in Nat /\ y[d] \in Nat /\ x[d] # y[d]
    BY <2>4, <2>6
  <2>12. CASE x[d] < y[d]
    <3>1. LessAt(v, o, n)
      BY <2>9, <2>12 DEF LessAt
    <3>2. Precedes(v, o)
      BY <2>8, <3>1 DEF Precedes
    <3>3. Reg!Compare(v, o) = -1
      BY <2>10, <2>12 DEF Reg!Sign
    <3> QED
      BY <3>2, <3>3
  <2>13. CASE y[d] < x[d]
    <3>1. LessAt(o, v, n)
      BY <2>9, <2>13 DEF LessAt
    <3>2. Precedes(o, v)
      BY <2>8, <3>1 DEF Precedes
    <3>3. Reg!Compare(v, o) = 1
      BY <2>10, <2>11, <2>13 DEF Reg!Sign
    <3> QED
      BY <3>2, <3>3, PrecedesAsymmetric
  <2> QED
    BY <2>11, <2>12, <2>13
<1> QED
  BY <1>5, <1>6

\* Of two versions one is at least as new as the other,
LEMMA CompareTotal ==
    ASSUME NEW v \in Reg!Versions, NEW o \in Reg!Versions
    PROVE  Reg!Compare(v, o) >= 0 \/ Reg!Compare(o, v) >= 0
BY CompareOrder, PrecedesAsymmetric

\* and that is transitive.
LEMMA CompareTransitive ==
    ASSUME NEW v \in Reg!Versions, NEW o \in Reg!Versions, NEW u \in Reg!Versions,
           Reg!Compare(v, o) >= 0, Reg!Compare(o, u) >= 0
    PROVE  Reg!Compare(v, u) >= 0
<1>1. ~Precedes(v, o) /\ ~Precedes(o, u)
  BY CompareOrder
<1>2. SUFFICES ASSUME Precedes(v, u) PROVE FALSE
  BY CompareOrder
<1>3. CASE Precedes(o, v)
  BY <1>1, <1>2, <1>3, PrecedesTransitive
<1>4. CASE ~Precedes(o, v)
  <2>1. \A n \in Nat : SameAt(v, o, n)
    BY <1>1, <1>4, PrecedesTotal
  <2>2. Precedes(o, u)
    BY <1>2, <2>1 DEF Precedes, SameAt, LessAt
  <2> QED
    BY <1>1, <2>2
<1> QED
  BY <1>3, <1>4

\* A finite set has a greatest element in every total order.
LEMMA Greatest ==
    ASSUME NEW S, IsFiniteSet(S), S # {}, NEW ge,
           \A x, y \in S : <<x, y>> \in ge \/ <<y, x>> \in ge,
           \A x, y, z \in S : <<x, y>> \in ge /\ <<y, z>> \in ge => <<x, z>> \in ge
    PROVE  \E x \in S : \A y \in S : <<x, y>> \in ge
<1> DEFINE headless(A) == A # {} /\ ~\E x \in A : \A y \in A : <<x, y>> \in ge
           T == {n \in Nat : \E A \in SUBSET S : Cardinality(A) = n /\ headless(A)}
<1> SUFFICES ASSUME headless(S) PROVE FALSE
  OBVIOUS
<1>1. T \in SUBSET Nat /\ T # {}
  BY FS_CardinalityType
<1>2. PICK n \in T : \A m \in T : n <= m
  <2> HIDE DEF T
  <2> QED
    BY <1>1, LeastNumber
<1>3. PICK A \in SUBSET S : Cardinality(A) = n /\ headless(A)
  BY <1>2
<1>4. IsFiniteSet(A) /\ n \in Nat
  BY <1>1, <1>2, FS_Subset
<1>5. PICK x : x \in A
  BY <1>3
<1>6. PICK B : B = A \ {x}
  OBVIOUS
<1>7. Cardinality(B) = n - 1 /\ B \in SUBSET S /\ n - 1 \in Nat
  <2>1. IsFiniteSet(B) /\ Cardinality(B) = n - 1
    BY <1>3, <1>4, <1>5, <1>6, FS_RemoveElement
  <2>2. Cardinality(B) \in Nat
    BY <2>1, FS_CardinalityType
  <2> QED
    BY <1>6, <2>1, <2>2
<1>8. ~headless(B)
  <2> SUFFICES ASSUME headless(B) PROVE FALSE
    OBVIOUS
  <2>1. n - 1 \in T
    BY <1>7
  <2>2. n <= n - 1
    BY <1>2, <2>1
  <2> QED
    BY <1>4, <2>2
<1>9. CASE B = {}
  BY <1>3, <1>5, <1>6, <1>9
<1>10. CASE B # {}
  <2>1. PICK y \in B : \A z \in B : <<y, z>> \in ge
    BY <1>8, <1>10
  <2>2. CASE <<x, y>> \in ge
    BY <1>3, <1>5, <1>6, <2>1, <2>2
  <2>3. CASE <<y, x>> \in ge
    BY <1>3, <1>5, <1>6, <2>1, <2>3
  <2> QED
    BY <1>5, <1>6, <2>1, <2>2, <2>3
<1> QED
  BY <1>9, <1>10

----------------------------------------------------------------------------
(* the search: it exists, because the places it goes to from a place are     *)
(* smaller                                                                   *)

\* What a resolution is asked about: finitely many versions, and identities.
WellFormed(view, roots) ==
    /\ IsFiniteSet(Reg!Listed(view))
    /\ Reg!Listed(view) \subseteq Nat \X Reg!Versions
    /\ \A r \in Reg!Readable(view) : DOMAIN Reg!Deps(view, r) \subseteq Nat
    /\ \A root \in roots : root.id \in Nat

\* The places of a search, and what it may find there.
Places(view) == (SUBSET Reg!Readable(view)) \X (SUBSET Reg!Listed(view))
Answers(view) == [ok : BOOLEAN, chosen : SUBSET Reg!Readable(view), asked : SUBSET Reg!Listed(view)]

Untried(view, roots, at) == Reg!Left(view, roots, at[1], at[2])
NextTry(view, roots, at) == Reg!Candidate(Untried(view, roots, at))

Deeper(view, roots, f, at) ==
    LET r == NextTry(view, roots, at)
    IN  IF r \in Reg!Readable(view) /\ Reg!Agrees(view, at[1], r)
        THEN f[<<at[1] \cup {r}, {}>>] ELSE Reg!Unsolved

Further(view, roots, f, at) ==
    LET deeper == Deeper(view, roots, f, at)
    IN  IF deeper.ok THEN deeper ELSE f[<<at[1], at[2] \cup {NextTry(view, roots, at)}>>]

Body(view, roots, f, at) ==
    IF Reg!Open(view, roots, at[1]) = {} THEN [ok |-> TRUE, chosen |-> at[1], asked |-> {}]
    ELSE IF Untried(view, roots, at) = {} THEN Reg!Unsolved
    ELSE [Further(view, roots, f, at) EXCEPT
            !.asked = @ \cup Deeper(view, roots, f, at).asked \cup {NextTry(view, roots, at)}]

Search(view, roots) == CHOOSE f : f = [at \in Places(view) |-> Body(view, roots, f, at)]

\* The recursive function of solve.
LEMMA SolveSearches ==
    ASSUME NEW view, NEW roots
    PROVE  Reg!Solve(view, roots) = Search(view, roots)[<<{}, {}>>]
BY Zenon DEF Reg!Solve, Reg!Tried, Search, Body, Further, Deeper, NextTry, Untried, Places

\* What is still open is identified by numbers, and the first of it is open.
LEMMA OpenIsIds ==
    ASSUME NEW view, NEW roots, WellFormed(view, roots), NEW at \in Places(view),
           Reg!Open(view, roots, at[1]) # {}
    PROVE  /\ Reg!Open(view, roots, at[1]) \subseteq Nat
           /\ Reg!Min(Reg!Open(view, roots, at[1])) \in Reg!Open(view, roots, at[1])
<1>1. PICK chosen : chosen = at[1] /\ chosen \subseteq Reg!Readable(view)
  BY DEF Places
<1>2. PICK open : open = Reg!Open(view, roots, chosen)
  OBVIOUS
<1>3. open \subseteq Nat
  BY <1>1, <1>2 DEF WellFormed, Reg!Open, Reg!Required
<1> QED
  BY <1>1, <1>2, <1>3, MinOf

\* The version that is tried next is one of those left, and the newest.
LEMMA NextIsLeft ==
    ASSUME NEW view, NEW roots, WellFormed(view, roots), NEW at \in Places(view),
           Reg!Open(view, roots, at[1]) # {}, Untried(view, roots, at) # {}
    PROVE  /\ NextTry(view, roots, at) \in Untried(view, roots, at)
           /\ \A q \in Untried(view, roots, at) : Reg!Compare(NextTry(view, roots, at)[2], q[2]) >= 0
           /\ NextTry(view, roots, at) \in Reg!Listed(view) \ (at[1] \cup at[2])
<1>1. PICK left : left = Untried(view, roots, at)
  OBVIOUS
<1>2. PICK id : id = Reg!Min(Reg!Open(view, roots, at[1]))
  OBVIOUS
<1>3. /\ left \subseteq Reg!Listed(view) \ at[2]
      /\ \A r \in left : r[1] = id
  BY <1>1, <1>2 DEF Untried, Reg!Left
<1>4. id \notin Reg!IdsOf(at[1])
  BY <1>2, OpenIsIds DEF Reg!Open
<1>5. IsFiniteSet(left) /\ \A r \in left : r[2] \in Reg!Versions
  BY <1>3, FS_Subset DEF WellFormed
<1>6. PICK r \in left : \A q \in left : Reg!Compare(r[2], q[2]) >= 0
  <2> DEFINE ge == {p \in left \X left : Reg!Compare(p[1][2], p[2][2]) >= 0}
  <2>1. \A x, y \in left : <<x, y>> \in ge <=> Reg!Compare(x[2], y[2]) >= 0
    OBVIOUS
  <2> HIDE DEF ge
  <2>2. \A x, y \in left : <<x, y>> \in ge \/ <<y, x>> \in ge
    BY <1>5, <2>1, CompareTotal
  <2>3. \A x, y, z \in left : <<x, y>> \in ge /\ <<y, z>> \in ge => <<x, z>> \in ge
    BY <1>5, <2>1, CompareTransitive
  <2>4. PICK x \in left : \A y \in left : <<x, y>> \in ge
    BY <1>1, <1>5, <2>2, <2>3, Greatest
  <2> QED
    BY <2>1, <2>4
<1>7. PICK vs : vs = {q[2] : q \in left}
  OBVIOUS
<1>8. Reg!Newest(vs) \in vs /\ \A o \in vs : Reg!Compare(Reg!Newest(vs), o) >= 0
  <2>1. r[2] \in vs /\ \A o \in vs : Reg!Compare(r[2], o) >= 0
    BY <1>6, <1>7
  <2> QED
    BY <2>1 DEF Reg!Newest
<1>9. PICK c : c = Reg!Candidate(left)
  OBVIOUS
<1>10. c \in left /\ c[2] = Reg!Newest(vs)
  <2>1. \E q \in left : q[2] = Reg!Newest(vs)
    BY <1>7, <1>8
  <2> QED
    BY <1>7, <1>9, <2>1 DEF Reg!Candidate
<1>11. NextTry(view, roots, at) = c
  BY <1>1, <1>9 DEF NextTry
<1>12. \A q \in left : Reg!Compare(c[2], q[2]) >= 0
  BY <1>7, <1>8, <1>10
<1>13. c \notin at[1]
  BY <1>3, <1>4, <1>10 DEF Reg!IdsOf
<1> QED
  BY <1>1, <1>3, <1>10, <1>11, <1>12, <1>13

\* How much of a search is left at a place: first what can be chosen, then what
\* can be tried.
Size(view, at) ==
    Cardinality(Reg!Listed(view) \ at[1]) * (Cardinality(Reg!Listed(view)) + 1)
        + Cardinality(Reg!Listed(view) \ at[2])

Largest(view) ==
    Cardinality(Reg!Listed(view)) * (Cardinality(Reg!Listed(view)) + 1) + Cardinality(Reg!Listed(view))

\* Multiplication is monotone.
LEMMA Product ==
    ASSUME NEW a \in Nat, NEW b \in Nat, NEW n \in Nat, a <= b
    PROVE  a * n \in Nat /\ b * n \in Nat /\ a * n <= b * n
<1>1. PICK c \in Nat : b = a + c
  <2>1. b - a \in Nat /\ b = a + (b - a)
    OBVIOUS
  <2> QED
    BY <2>1
<1>2. b * n = a * n + c * n
  BY <1>1
<1>3. a * n \in Nat /\ c * n \in Nat
  OBVIOUS
<1> QED
  BY <1>2, <1>3

\* A place of the search has a size below the bound.
LEMMA SizeIsBounded ==
    ASSUME NEW view, NEW roots, WellFormed(view, roots), NEW at \in Places(view)
    PROVE  Size(view, at) \in Nat /\ Size(view, at) <= Largest(view) /\ Largest(view) \in Nat
<1>1. PICK L : L = Reg!Listed(view) /\ IsFiniteSet(L)
  BY DEF WellFormed
<1>2. PICK n, a, b : n = Cardinality(L) /\ a = Cardinality(L \ at[1]) /\ b = Cardinality(L \ at[2])
  OBVIOUS
<1>3. n \in Nat /\ a \in Nat /\ b \in Nat /\ a <= n /\ b <= n
  <2>1. IsFiniteSet(L \ at[1]) /\ Cardinality(L \ at[1]) <= n
    BY <1>1, <1>2, FS_Subset
  <2>2. IsFiniteSet(L \ at[2]) /\ Cardinality(L \ at[2]) <= n
    BY <1>1, <1>2, FS_Subset
  <2> QED
    BY <1>1, <1>2, <2>1, <2>2, FS_CardinalityType
<1>4. a * (n + 1) \in Nat /\ n * (n + 1) \in Nat /\ a * (n + 1) <= n * (n + 1)
  BY <1>3, Product
<1>5. Size(view, at) = a * (n + 1) + b /\ Largest(view) = n * (n + 1) + n
  BY <1>1, <1>2 DEF Size, Largest
<1>6. PICK x, y : x = a * (n + 1) /\ y = n * (n + 1)
  OBVIOUS
<1> QED
  BY <1>3, <1>4, <1>5, <1>6

\* Choosing a version and giving one up both leave less.
LEMMA SizeShrinks ==
    ASSUME NEW view, NEW roots, WellFormed(view, roots), NEW at \in Places(view),
           NEW r \in Reg!Listed(view) \ (at[1] \cup at[2])
    PROVE  /\ Size(view, <<at[1], at[2] \cup {r}>>) < Size(view, at)
           /\ Size(view, <<at[1] \cup {r}, {}>>) < Size(view, at)
<1>1. PICK L : L = Reg!Listed(view) /\ IsFiniteSet(L)
  BY DEF WellFormed
<1>2. PICK n, a, b : n = Cardinality(L) /\ a = Cardinality(L \ at[1]) /\ b = Cardinality(L \ at[2])
  OBVIOUS
<1>3. IsFiniteSet(L \ at[1]) /\ IsFiniteSet(L \ at[2])
  BY <1>1, FS_Subset
<1>4. n \in Nat /\ a \in Nat /\ b \in Nat
  BY <1>1, <1>2, <1>3, FS_CardinalityType
<1>5. Cardinality(L \ (at[1] \cup {r})) = a - 1 /\ a - 1 \in Nat
  <2>1. PICK S : S = L \ at[1]
    OBVIOUS
  <2>2. r \in S /\ L \ (at[1] \cup {r}) = S \ {r}
    BY <1>1, <2>1
  <2>3. IsFiniteSet(S \ {r}) /\ Cardinality(S \ {r}) = a - 1
    BY <1>2, <1>3, <2>1, <2>2, FS_RemoveElement
  <2> QED
    BY <2>2, <2>3, FS_CardinalityType
<1>6. Cardinality(L \ (at[2] \cup {r})) = b - 1
  <2>1. PICK S : S = L \ at[2]
    OBVIOUS
  <2>2. r \in S /\ L \ (at[2] \cup {r}) = S \ {r}
    BY <1>1, <2>1
  <2>3. IsFiniteSet(S \ {r}) /\ Cardinality(S \ {r}) = b - 1
    BY <1>2, <1>3, <2>1, <2>2, FS_RemoveElement
  <2> QED
    BY <2>2, <2>3
<1>7. Cardinality(L \ {}) = n
  <2>1. L \ {} = L
    OBVIOUS
  <2> QED
    BY <1>2, <2>1
<1>8. /\ Size(view, at) = a * (n + 1) + b
      /\ Size(view, <<at[1], at[2] \cup {r}>>) = a * (n + 1) + (b - 1)
      /\ Size(view, <<at[1] \cup {r}, {}>>) = (a - 1) * (n + 1) + n
  BY <1>1, <1>2, <1>5, <1>6, <1>7 DEF Size
<1>9. PICK x : x = (a - 1) * (n + 1)
  OBVIOUS
<1>10. x \in Nat /\ a * (n + 1) = x + (n + 1)
  BY <1>4, <1>5, <1>9
<1> QED
  BY <1>4, <1>8, <1>9, <1>10

\* The places a search goes to are places.
LEMMA PlacesGoOn ==
    ASSUME NEW view, NEW at \in Places(view), NEW r
    PROVE  /\ r \in Reg!Listed(view) => <<at[1], at[2] \cup {r}>> \in Places(view)
           /\ r \in Reg!Readable(view) => <<at[1] \cup {r}, {}>> \in Places(view)
BY DEF Places

\* What holds at a place whenever it holds at all smaller ones holds everywhere.
LEMMA SizeInduction ==
    ASSUME NEW view, NEW roots, WellFormed(view, roots), NEW P,
           \A at \in Places(view) :
                (\A b \in Places(view) : Size(view, b) < Size(view, at) => b \in P) => at \in P
    PROVE  Places(view) \subseteq P
<1> DEFINE T == {n \in Nat : \E at \in Places(view) : at \notin P /\ Size(view, at) = n}
<1> SUFFICES ASSUME NEW c \in Places(view), c \notin P PROVE FALSE
  OBVIOUS
<1>1. T \in SUBSET Nat /\ T # {}
  BY SizeIsBounded
<1>2. PICK n \in T : \A m \in T : n <= m
  <2> HIDE DEF T
  <2> QED
    BY <1>1, LeastNumber
<1>3. PICK at \in Places(view) : at \notin P /\ Size(view, at) = n
  BY <1>2
<1>4. ASSUME NEW b \in Places(view), Size(view, b) < Size(view, at) PROVE b \in P
  <2>1. Size(view, b) \in Nat /\ n \in Nat
    BY <1>2, SizeIsBounded
  <2>2. b \notin P => Size(view, b) \in T
    BY <2>1
  <2> QED
    BY <1>2, <1>3, <1>4, <2>1, <2>2
<1> QED
  BY <1>3, <1>4

\* The body of the search looks only at smaller places.
LEMMA BodyLooksDown ==
    ASSUME NEW view, NEW roots, WellFormed(view, roots), NEW at \in Places(view), NEW f, NEW g,
           \A b \in Places(view) : Size(view, b) < Size(view, at) => f[b] = g[b]
    PROVE  Body(view, roots, f, at) = Body(view, roots, g, at)
<1>1. PICK r : r = NextTry(view, roots, at)
  OBVIOUS
<1>2. CASE Reg!Open(view, roots, at[1]) # {} /\ Untried(view, roots, at) # {}
  <2>1. r \in Reg!Listed(view) \ (at[1] \cup at[2])
    BY <1>1, <1>2, NextIsLeft
  <2>2. PICK b, d : b = <<at[1], at[2] \cup {r}>> /\ d = <<at[1] \cup {r}, {}>>
    OBVIOUS
  <2>3. Size(view, b) < Size(view, at) /\ Size(view, d) < Size(view, at)
    BY <2>1, <2>2, SizeShrinks
  <2>4. b \in Places(view) /\ (r \in Reg!Readable(view) => d \in Places(view))
    BY <2>1, <2>2, PlacesGoOn
  <2>5. f[b] = g[b] /\ (r \in Reg!Readable(view) => f[d] = g[d])
    BY <2>3, <2>4
  <2>6. Deeper(view, roots, f, at) = Deeper(view, roots, g, at)
    BY <1>1, <2>2, <2>5 DEF Deeper
  <2>7. Further(view, roots, f, at) = Further(view, roots, g, at)
    BY <1>1, <2>2, <2>5, <2>6 DEF Further
  <2> QED
    BY <2>6, <2>7 DEF Body
<1> QED
  BY <1>2 DEF Body

\* A function that satisfies the recursion at the places below a size,
SolvesBelow(view, roots, g, n) ==
    /\ g = [at \in Places(view) |-> g[at]]
    /\ \A at \in Places(view) : Size(view, at) < n => g[at] = Body(view, roots, g, at)

\* exists for every size,
LEMMA PartialSearch ==
    ASSUME NEW view, NEW roots, WellFormed(view, roots), NEW n \in Nat
    PROVE  \E g : SolvesBelow(view, roots, g, n)
<1> DEFINE T == {k \in Nat : ~\E g : SolvesBelow(view, roots, g, k)}
<1> SUFFICES ASSUME T # {} PROVE FALSE
  OBVIOUS
<1>1. T \in SUBSET Nat
  OBVIOUS
<1>2. PICK k \in T : \A m \in T : k <= m
  <2> HIDE DEF T
  <2> QED
    BY <1>1, LeastNumber
<1>3. k \in Nat /\ ~\E g : SolvesBelow(view, roots, g, k)
  BY <1>2
<1>4. \A at \in Places(view) : Size(view, at) \in Nat
  BY SizeIsBounded
<1>5. CASE k = 0
  <2>1. PICK g : g = [at \in Places(view) |-> Reg!Unsolved]
    OBVIOUS
  <2>2. SolvesBelow(view, roots, g, 0)
    BY <1>4, <2>1 DEF SolvesBelow
  <2> QED
    BY <1>3, <1>5, <2>2
<1>6. CASE k # 0
  <2>1. k - 1 \in Nat /\ k - 1 \notin T
    BY <1>2, <1>3, <1>6
  <2>2. PICK g : SolvesBelow(view, roots, g, k - 1)
    BY <2>1
  <2>3. PICK h : h = [at \in Places(view) |-> IF Size(view, at) = k - 1 THEN Body(view, roots, g, at) ELSE g[at]]
    OBVIOUS
  <2>4. ASSUME NEW at \in Places(view), Size(view, at) < k PROVE h[at] = Body(view, roots, h, at)
    <3>1. \A b \in Places(view) : Size(view, b) < Size(view, at) => h[b] = g[b]
      BY <1>3, <1>4, <2>3, <2>4
    <3>2. Body(view, roots, h, at) = Body(view, roots, g, at)
      BY <3>1, BodyLooksDown
    <3>3. h[at] = Body(view, roots, g, at)
      <4>1. CASE Size(view, at) = k - 1
        BY <2>3, <4>1
      <4>2. CASE Size(view, at) # k - 1
        <5>1. Size(view, at) < k - 1
          BY <1>3, <1>4, <2>4, <4>2
        <5> QED
          BY <2>2, <2>3, <4>2, <5>1 DEF SolvesBelow
      <4> QED
        BY <4>1, <4>2
    <3> QED
      BY <3>2, <3>3
  <2>5. h = [at \in Places(view) |-> h[at]]
    BY <2>3
  <2>6. SolvesBelow(view, roots, h, k)
    BY <2>4, <2>5 DEF SolvesBelow
  <2> QED
    BY <1>3, <2>6
<1> QED
  BY <1>5, <1>6

\* and so the search exists.
LEMMA SearchExists ==
    ASSUME NEW view, NEW roots, WellFormed(view, roots)
    PROVE  Search(view, roots) = [at \in Places(view) |-> Body(view, roots, Search(view, roots), at)]
<1>1. PICK n : n = Largest(view) + 1
  OBVIOUS
<1>2. <<{}, {}>> \in Places(view)
  BY DEF Places
<1>3. n \in Nat /\ \A at \in Places(view) : Size(view, at) < n
  BY <1>1, <1>2, SizeIsBounded
<1>4. PICK g : SolvesBelow(view, roots, g, n)
  BY <1>3, PartialSearch
<1>5. g = [at \in Places(view) |-> Body(view, roots, g, at)]
  BY <1>3, <1>4 DEF SolvesBelow
<1>6. \E f : f = [at \in Places(view) |-> Body(view, roots, f, at)]
  BY <1>5
<1> QED
  BY <1>6, Zenon DEF Search

\* What it finds at a place is an answer.
LEMMA SearchAnswers ==
    ASSUME NEW view, NEW roots, WellFormed(view, roots)
    PROVE  \A at \in Places(view) : Search(view, roots)[at] \in Answers(view)
<1>1. PICK f : f = Search(view, roots)
  OBVIOUS
<1>2. \A at \in Places(view) : f[at] = Body(view, roots, f, at)
  BY <1>1, SearchExists
<1> DEFINE P == {at \in Places(view) : f[at] \in Answers(view)}
<1>3. ASSUME NEW at \in Places(view), \A b \in Places(view) : Size(view, b) < Size(view, at) => b \in P
      PROVE  at \in P
  <2>1. PICK r : r = NextTry(view, roots, at)
    OBVIOUS
  <2>2. at[1] \in SUBSET Reg!Readable(view) /\ Reg!Unsolved \in Answers(view)
    BY DEF Places, Answers, Reg!Unsolved
  <2>3. CASE Reg!Open(view, roots, at[1]) = {}
    <3>1. PICK chosen : chosen = at[1]
      OBVIOUS
    <3>2. f[at] = [ok |-> TRUE, chosen |-> chosen, asked |-> {}]
      BY <1>2, <2>3, <3>1 DEF Body
    <3>3. f[at] \in Answers(view)
      BY <2>2, <3>1, <3>2 DEF Answers
    <3> QED
      BY <3>3
  <2>4. CASE Reg!Open(view, roots, at[1]) # {} /\ Untried(view, roots, at) = {}
    BY <1>2, <2>2, <2>4 DEF Body
  <2>5. CASE Reg!Open(view, roots, at[1]) # {} /\ Untried(view, roots, at) # {}
    <3>1. r \in Reg!Listed(view) \ (at[1] \cup at[2])
      BY <2>1, <2>5, NextIsLeft
    <3>2. PICK b, d : b = <<at[1], at[2] \cup {r}>> /\ d = <<at[1] \cup {r}, {}>>
      OBVIOUS
    <3>3. Size(view, b) < Size(view, at) /\ Size(view, d) < Size(view, at)
      BY <3>1, <3>2, SizeShrinks
    <3>4. b \in Places(view) /\ (r \in Reg!Readable(view) => d \in Places(view))
      BY <3>1, <3>2, PlacesGoOn
    <3>5. f[b] \in Answers(view) /\ (r \in Reg!Readable(view) => f[d] \in Answers(view))
      BY <1>3, <3>3, <3>4
    <3>6. PICK deeper : deeper = Deeper(view, roots, f, at)
      OBVIOUS
    <3>7. deeper \in Answers(view)
      BY <2>1, <2>2, <3>2, <3>5, <3>6 DEF Deeper
    <3>8. PICK further : further = Further(view, roots, f, at)
      OBVIOUS
    <3>9. further \in Answers(view)
      BY <2>1, <3>2, <3>5, <3>6, <3>7, <3>8 DEF Further
    <3>10. f[at] = [further EXCEPT !.asked = @ \cup deeper.asked \cup {r}]
      BY <1>2, <2>1, <2>5, <3>6, <3>8 DEF Body
    <3>11. f[at] \in Answers(view)
      BY <3>1, <3>7, <3>9, <3>10 DEF Answers
    <3> QED
      BY <3>11
  <2> QED
    BY <2>3, <2>4, <2>5
<1>4. Places(view) \subseteq P
  <2> HIDE DEF P
  <2> QED
    BY <1>3, SizeInduction
<1> QED
  BY <1>1, <1>4

\* One step of the search: the version that is tried next is chosen, when the
\* search below it succeeds, or given up.
Enters(view, roots, at) ==
    LET r == NextTry(view, roots, at)
    IN  /\ r \in Reg!Readable(view) /\ Reg!Agrees(view, at[1], r)
        /\ Search(view, roots)[<<at[1] \cup {r}, {}>>].ok

\* What the search finds at a place, by what it finds at the two places after it.
LEMMA SearchStep ==
    ASSUME NEW view, NEW roots, WellFormed(view, roots), NEW at \in Places(view), NEW f, NEW r,
           f = Search(view, roots), r = NextTry(view, roots, at),
           Reg!Open(view, roots, at[1]) # {}, Untried(view, roots, at) # {}
    PROVE  /\ Enters(view, roots, at) =>
                /\ f[at].ok /\ f[at].chosen = f[<<at[1] \cup {r}, {}>>].chosen
                /\ f[at].asked = f[<<at[1] \cup {r}, {}>>].asked \cup {r}
           /\ ~Enters(view, roots, at) =>
                /\ f[at].ok = f[<<at[1], at[2] \cup {r}>>].ok
                /\ f[at].chosen = f[<<at[1], at[2] \cup {r}>>].chosen
                /\ f[<<at[1], at[2] \cup {r}>>].asked \cup {r} \subseteq f[at].asked
<1>1. r \in Reg!Listed(view) \ (at[1] \cup at[2])
  BY NextIsLeft
<1>2. PICK b, d : b = <<at[1], at[2] \cup {r}>> /\ d = <<at[1] \cup {r}, {}>>
  OBVIOUS
<1>3. b \in Places(view) /\ (r \in Reg!Readable(view) => d \in Places(view))
  BY <1>1, <1>2, PlacesGoOn
<1>4. f[b] \in Answers(view) /\ (r \in Reg!Readable(view) => f[d] \in Answers(view))
  BY <1>3, SearchAnswers
<1>5. PICK deeper, further : deeper = Deeper(view, roots, f, at) /\ further = Further(view, roots, f, at)
  OBVIOUS
<1>6. f[at] = [further EXCEPT !.asked = @ \cup deeper.asked \cup {r}]
  <2>1. f[at] = Body(view, roots, f, at)
    BY SearchExists
  <2> QED
    BY <1>5, <2>1 DEF Body
<1>7. CASE Enters(view, roots, at)
  <2>1. deeper = f[d] /\ further = f[d] /\ f[d] \in Answers(view) /\ f[d].ok
    BY <1>2, <1>4, <1>5, <1>7 DEF Enters, Deeper, Further
  <2> QED
    BY <1>2, <1>6, <1>7, <2>1 DEF Answers
<1>8. CASE ~Enters(view, roots, at)
  <2>1. ~deeper.ok
    BY <1>2, <1>5, <1>8 DEF Enters, Deeper, Reg!Unsolved
  <2>2. further = f[b]
    BY <1>2, <1>5, <2>1 DEF Further
  <2> QED
    BY <1>2, <1>4, <1>6, <1>8, <2>2 DEF Answers
<1> QED
  BY <1>7, <1>8

----------------------------------------------------------------------------
(* what the search finds *)

\* One version per module, each of which the roots and the others admit and
\* some chain of requirements leads to.
Functional(chosen) == \A q, r \in chosen : q[1] = r[1] => q = r

Closed(view, roots, chosen, S) ==
    /\ \A root \in roots : root.id \in S
    /\ \A r \in chosen : r[1] \in S => DOMAIN Reg!Deps(view, r) \subseteq S

Reached(view, roots, chosen) ==
    \A S : Closed(view, roots, chosen, S) => \A r \in chosen : r[1] \in S

Consistent(view, roots, chosen) ==
    /\ chosen \subseteq Reg!Readable(view)
    /\ Functional(chosen)
    /\ \A root \in roots : \A t \in chosen : t[1] = root.id => Reg!Matches(root.req, t[2])
    /\ \A r, t \in chosen :
            r # t /\ t[1] \in DOMAIN Reg!Deps(view, r) => Reg!Matches(Reg!Deps(view, r)[t[1]], t[2])
    /\ Reached(view, roots, chosen)

\* A version that is admitted and agrees can be chosen with the others.
LEMMA ConsistentGrows ==
    ASSUME NEW view, NEW roots, NEW chosen, NEW r, NEW id, Consistent(view, roots, chosen),
           id = Reg!Min(Reg!Open(view, roots, chosen)), id \in Reg!Open(view, roots, chosen),
           r \in Reg!Readable(view), r[1] = id, Reg!Admits(view, roots, chosen, id, r[2]),
           Reg!Agrees(view, chosen, r)
    PROVE  Consistent(view, roots, chosen \cup {r})
<1>1. \A q \in chosen : q[1] # id
  BY DEF Reg!Open, Reg!IdsOf
<1>2. Functional(chosen \cup {r})
  BY <1>1 DEF Consistent, Functional
<1>3. Reached(view, roots, chosen \cup {r})
  <2> SUFFICES ASSUME NEW S, Closed(view, roots, chosen \cup {r}, S)
               PROVE  \A q \in chosen \cup {r} : q[1] \in S
    BY DEF Reached
  <2>1. Closed(view, roots, chosen, S)
    BY DEF Closed
  <2>2. \A q \in chosen : q[1] \in S
    BY <2>1 DEF Consistent, Reached
  <2>3. id \in S
    BY <2>1, <2>2 DEF Reg!Open, Reg!Required, Closed
  <2> QED
    BY <2>2, <2>3
<1>4. \A root \in roots : \A t \in chosen \cup {r} : t[1] = root.id => Reg!Matches(root.req, t[2])
  BY DEF Consistent, Reg!Admits
<1>5. \A q, t \in chosen \cup {r} :
          q # t /\ t[1] \in DOMAIN Reg!Deps(view, q) => Reg!Matches(Reg!Deps(view, q)[t[1]], t[2])
  BY DEF Consistent, Reg!Admits, Reg!Agrees
<1> QED
  BY <1>2, <1>3, <1>4, <1>5 DEF Consistent

\* What the search finds from a consistent choice keeps it, is consistent and
\* has nothing open.
SoundAt(view, roots, at) ==
    Consistent(view, roots, at[1]) /\ Search(view, roots)[at].ok =>
        LET found == Search(view, roots)[at].chosen
        IN  /\ Consistent(view, roots, found) /\ Reg!Open(view, roots, found) = {}
            /\ at[1] \subseteq found

\* Soundness: what the search returns extends the selection it had, without a
\* conflict, and leaves nothing open.
LEMMA SearchIsSound ==
    ASSUME NEW view, NEW roots, WellFormed(view, roots)
    PROVE  \A at \in Places(view) : SoundAt(view, roots, at)
<1>1. PICK f : f = Search(view, roots)
  OBVIOUS
<1> DEFINE P == {at \in Places(view) : SoundAt(view, roots, at)}
<1>2. ASSUME NEW at \in Places(view), \A b \in Places(view) : Size(view, b) < Size(view, at) => b \in P
      PROVE  at \in P
  <2> SUFFICES ASSUME Consistent(view, roots, at[1]), f[at].ok
               PROVE  /\ Consistent(view, roots, f[at].chosen) /\ Reg!Open(view, roots, f[at].chosen) = {}
                      /\ at[1] \subseteq f[at].chosen
    BY <1>1 DEF SoundAt
  <2>1. f[at] = Body(view, roots, f, at)
    BY <1>1, SearchExists
  <2>2. CASE Reg!Open(view, roots, at[1]) = {}
    <3>1. f[at].chosen = at[1]
      BY <2>1, <2>2 DEF Body
    <3> QED
      BY <2>2, <3>1
  <2>3. CASE Reg!Open(view, roots, at[1]) # {} /\ Untried(view, roots, at) = {}
    <3>1. ~f[at].ok
      BY <2>1, <2>3 DEF Body, Reg!Unsolved
    <3> QED
      BY <3>1
  <2>4. CASE Reg!Open(view, roots, at[1]) # {} /\ Untried(view, roots, at) # {}
    <3>1. PICK r : r = NextTry(view, roots, at)
      OBVIOUS
    <3>2. r \in Untried(view, roots, at) /\ r \in Reg!Listed(view) \ (at[1] \cup at[2])
      BY <2>4, <3>1, NextIsLeft
    <3>3. PICK b, d : b = <<at[1], at[2] \cup {r}>> /\ d = <<at[1] \cup {r}, {}>>
      OBVIOUS
    <3>4. Size(view, b) < Size(view, at) /\ Size(view, d) < Size(view, at)
      BY <3>2, <3>3, SizeShrinks
    <3>5. b \in Places(view) /\ (r \in Reg!Readable(view) => d \in Places(view))
      BY <3>2, <3>3, PlacesGoOn
    <3>6. SoundAt(view, roots, b) /\ (r \in Reg!Readable(view) => SoundAt(view, roots, d))
      BY <1>2, <3>4, <3>5
    <3>7. CASE Enters(view, roots, at)
      <4>1. r \in Reg!Readable(view) /\ Reg!Agrees(view, at[1], r) /\ f[d].ok
        BY <1>1, <3>1, <3>3, <3>7 DEF Enters
      <4>2. PICK id : id = Reg!Min(Reg!Open(view, roots, at[1]))
        OBVIOUS
      <4>3. id \in Reg!Open(view, roots, at[1])
        BY <2>4, <4>2, OpenIsIds
      <4>4. r[1] = id /\ Reg!Admits(view, roots, at[1], id, r[2])
        BY <3>2, <4>2 DEF Untried, Reg!Left
      <4>5. Consistent(view, roots, at[1] \cup {r})
        BY <4>1, <4>2, <4>3, <4>4, ConsistentGrows
      <4>6. d[1] = at[1] \cup {r}
        BY <3>3
      <4>7. /\ Consistent(view, roots, f[d].chosen) /\ Reg!Open(view, roots, f[d].chosen) = {}
            /\ at[1] \cup {r} \subseteq f[d].chosen
        BY <1>1, <3>6, <4>1, <4>5, <4>6 DEF SoundAt
      <4>8. f[at].chosen = f[d].chosen
        BY <1>1, <2>4, <3>1, <3>3, <3>7, SearchStep
      <4> QED
        BY <4>7, <4>8
    <3>8. CASE ~Enters(view, roots, at)
      <4>1. f[b].ok /\ f[at].chosen = f[b].chosen
        BY <1>1, <2>4, <3>1, <3>3, <3>8, SearchStep
      <4>2. b[1] = at[1]
        BY <3>3
      <4>3. /\ Consistent(view, roots, f[b].chosen) /\ Reg!Open(view, roots, f[b].chosen) = {}
            /\ at[1] \subseteq f[b].chosen
        BY <1>1, <3>6, <4>1, <4>2 DEF SoundAt
      <4> QED
        BY <4>1, <4>3
    <3> QED
      BY <3>7, <3>8
  <2> QED
    BY <2>2, <2>3, <2>4
<1>3. Places(view) \subseteq P
  <2> HIDE DEF P
  <2> QED
    BY <1>2, SizeInduction
<1> QED
  BY <1>3

\* Releases that satisfy the roots and each other.
Covering(view, roots, T) ==
    /\ T \subseteq Reg!Readable(view)
    /\ Functional(T)
    /\ \A root \in roots : \E t \in T : t[1] = root.id /\ Reg!Matches(root.req, t[2])
    /\ \A r \in T : \A i \in DOMAIN Reg!Deps(view, r) :
            i # r[1] => \E t \in T : t[1] = i /\ Reg!Matches(Reg!Deps(view, r)[i], t[2])

\* A search that has not left them yet,
Within(view, roots, T, at) ==
    /\ at[1] \subseteq T
    /\ \A t \in T : t[1] = Reg!Min(Reg!Open(view, roots, at[1])) => t \notin at[2]

\* has one of them to try, which agrees with what is chosen.
LEMMA CoveringGoesOn ==
    ASSUME NEW view, NEW roots, WellFormed(view, roots), NEW at \in Places(view), NEW T,
           Covering(view, roots, T), Within(view, roots, T, at), Reg!Open(view, roots, at[1]) # {}
    PROVE  \E t \in T : /\ t \in Untried(view, roots, at) /\ Reg!Agrees(view, at[1], t)
                        /\ t[1] = Reg!Min(Reg!Open(view, roots, at[1]))
<1>1. PICK chosen : chosen = at[1]
  OBVIOUS
<1>2. PICK id : id = Reg!Min(Reg!Open(view, roots, chosen))
  OBVIOUS
<1>3. id \in Reg!Open(view, roots, chosen)
  BY <1>1, <1>2, OpenIsIds
<1>4. chosen \subseteq T /\ \A q \in chosen : q[1] # id
  BY <1>1, <1>3 DEF Within, Reg!Open, Reg!IdsOf
<1>5. PICK t \in T : t[1] = id
  <2>1. CASE \E root \in roots : root.id = id
    BY <2>1 DEF Covering
  <2>2. CASE \E r \in chosen : id \in DOMAIN Reg!Deps(view, r)
    BY <1>4, <2>2 DEF Covering
  <2> QED
    BY <1>3, <2>1, <2>2 DEF Reg!Open, Reg!Required
<1>6. \A q \in T : q[1] = id => q = t
  BY <1>5 DEF Covering, Functional
<1>7. Reg!Admits(view, roots, chosen, id, t[2])
  <2>1. \A root \in roots : root.id = id => Reg!Matches(root.req, t[2])
    BY <1>6 DEF Covering
  <2>2. \A r \in chosen : id \in DOMAIN Reg!Deps(view, r) => Reg!Matches(Reg!Deps(view, r)[id], t[2])
    BY <1>4, <1>6 DEF Covering
  <2> QED
    BY <2>1, <2>2 DEF Reg!Admits
<1>8. t \in Untried(view, roots, at)
  <2>1. t \in Reg!Listed(view) /\ t \notin at[2]
    BY <1>1, <1>2, <1>5 DEF Covering, Within, Reg!Readable
  <2> QED
    BY <1>1, <1>2, <1>5, <1>7, <2>1 DEF Untried, Reg!Left
<1>9. Reg!Agrees(view, chosen, t)
  BY <1>4, <1>5 DEF Covering, Functional, Reg!Agrees
<1> QED
  BY <1>1, <1>2, <1>5, <1>8, <1>9

\* So it finds something.
LEMMA SearchIsComplete ==
    ASSUME NEW view, NEW roots, WellFormed(view, roots), NEW T, Covering(view, roots, T)
    PROVE  \A at \in Places(view) : Within(view, roots, T, at) => Search(view, roots)[at].ok
<1>1. PICK f : f = Search(view, roots)
  OBVIOUS
<1> DEFINE P == {at \in Places(view) : Within(view, roots, T, at) => f[at].ok}
<1>2. ASSUME NEW at \in Places(view), \A b \in Places(view) : Size(view, b) < Size(view, at) => b \in P
      PROVE  at \in P
  <2> SUFFICES ASSUME Within(view, roots, T, at) PROVE f[at].ok
    OBVIOUS
  <2>1. CASE Reg!Open(view, roots, at[1]) = {}
    <3>1. f[at] = Body(view, roots, f, at)
      BY <1>1, SearchExists
    <3> QED
      BY <2>1, <3>1 DEF Body
  <2>2. CASE Reg!Open(view, roots, at[1]) # {}
    <3>1. PICK t \in T : /\ t \in Untried(view, roots, at) /\ Reg!Agrees(view, at[1], t)
                         /\ t[1] = Reg!Min(Reg!Open(view, roots, at[1]))
      BY <2>2, CoveringGoesOn
    <3>2. PICK r : r = NextTry(view, roots, at)
      OBVIOUS
    <3>3. r \in Untried(view, roots, at) /\ r \in Reg!Listed(view) \ (at[1] \cup at[2])
      BY <2>2, <3>1, <3>2, NextIsLeft
    <3>4. PICK b, d : b = <<at[1], at[2] \cup {r}>> /\ d = <<at[1] \cup {r}, {}>>
      OBVIOUS
    <3>5. Size(view, b) < Size(view, at) /\ Size(view, d) < Size(view, at)
      BY <3>3, <3>4, SizeShrinks
    <3>6. b \in Places(view) /\ (r \in Reg!Readable(view) => d \in Places(view))
      BY <3>3, <3>4, PlacesGoOn
    <3>7. CASE Enters(view, roots, at)
      BY <1>1, <2>2, <3>1, <3>2, <3>7, SearchStep
    <3>8. CASE ~Enters(view, roots, at)
      <4>1. f[at].ok = f[b].ok
        BY <1>1, <2>2, <3>1, <3>2, <3>4, <3>8, SearchStep
      <4>2. r # t
        <5> SUFFICES ASSUME r = t PROVE FALSE
          OBVIOUS
        <5>1. r \in Reg!Readable(view)
          BY DEF Covering
        <5>2. Within(view, roots, T, d)
          BY <3>4 DEF Within
        <5>3. f[d].ok
          BY <1>2, <3>5, <3>6, <5>1, <5>2
        <5> QED
          BY <1>1, <3>1, <3>2, <3>4, <3>8, <5>1, <5>3 DEF Enters
      <4>3. Within(view, roots, T, b)
        <5>1. b[1] = at[1] /\ b[2] = at[2] \cup {r}
          BY <3>4
        <5>2. \A q \in T : q[1] = Reg!Min(Reg!Open(view, roots, at[1])) => q = t
          BY <3>1 DEF Covering, Functional
        <5> QED
          BY <4>2, <5>1, <5>2 DEF Within
      <4>4. f[b].ok
        BY <1>2, <3>5, <3>6, <4>3
      <4> QED
        BY <4>1, <4>4
    <3> QED
      BY <3>7, <3>8
  <2> QED
    BY <2>1, <2>2
<1>3. Places(view) \subseteq P
  <2> HIDE DEF P
  <2> QED
    BY <1>2, SizeInduction
<1> QED
  BY <1>1, <1>3

\* From the start, the version of the first root that it finds is as new as any
\* that leads to a selection and was not given up.
NewestAt(view, roots, at, t) ==
    at[1] = {} /\ t \notin at[2] =>
        \E r \in Search(view, roots)[at].chosen : r[1] = t[1] /\ Reg!Compare(r[2], t[2]) >= 0

\* Preference: of the module that is settled first, no solution of the request has
\* a newer version than the one the search returns.
LEMMA SearchIsNewest ==
    ASSUME NEW view, NEW roots, WellFormed(view, roots), NEW T, Covering(view, roots, T), NEW t \in T,
           roots # {}, t[1] = Reg!Min(Reg!Open(view, roots, {}))
    PROVE  \A at \in Places(view) : NewestAt(view, roots, at, t)
<1>1. PICK f : f = Search(view, roots)
  OBVIOUS
<1> DEFINE P == {at \in Places(view) : NewestAt(view, roots, at, t)}
<1>2. Reg!Open(view, roots, {}) # {}
  BY DEF Reg!Open, Reg!Required, Reg!IdsOf
<1>3. Consistent(view, roots, {})
  BY DEF Consistent, Functional, Reached
<1>4. \A q \in T : q[1] = t[1] => q = t
  BY DEF Covering, Functional
<1>5. ASSUME NEW at \in Places(view), \A b \in Places(view) : Size(view, b) < Size(view, at) => b \in P
      PROVE  at \in P
  <2>0. SUFFICES ASSUME at[1] = {}, t \notin at[2]
                 PROVE  \E r \in f[at].chosen : r[1] = t[1] /\ Reg!Compare(r[2], t[2]) >= 0
    BY <1>1 DEF NewestAt
  <2>1. Within(view, roots, T, at)
    BY <1>4, <2>0 DEF Within
  <2>2. /\ t \in Untried(view, roots, at) /\ Reg!Open(view, roots, at[1]) # {}
        /\ Untried(view, roots, at) # {}
    <3>1. Reg!Open(view, roots, at[1]) # {} /\ t[1] = Reg!Min(Reg!Open(view, roots, at[1]))
      BY <1>2, <2>0
    <3>2. PICK q \in T : q \in Untried(view, roots, at) /\ q[1] = Reg!Min(Reg!Open(view, roots, at[1]))
      BY <2>1, <3>1, CoveringGoesOn
    <3> QED
      BY <1>4, <3>1, <3>2
  <2>3. PICK r : r = NextTry(view, roots, at)
    OBVIOUS
  <2>4. /\ r \in Untried(view, roots, at) /\ r \in Reg!Listed(view) \ (at[1] \cup at[2])
        /\ Reg!Compare(r[2], t[2]) >= 0
    BY <2>2, <2>3, NextIsLeft
  <2>5. r[1] = t[1]
    BY <2>0, <2>4 DEF Untried, Reg!Left
  <2>6. PICK b, d : b = <<at[1], at[2] \cup {r}>> /\ d = <<at[1] \cup {r}, {}>>
    OBVIOUS
  <2>7. Size(view, b) < Size(view, at)
    BY <2>4, <2>6, SizeShrinks
  <2>8. b \in Places(view) /\ (r \in Reg!Readable(view) => d \in Places(view))
    BY <2>4, <2>6, PlacesGoOn
  <2>9. CASE Enters(view, roots, at)
    <3>1. f[at].chosen = f[d].chosen /\ f[d].ok
      BY <1>1, <2>2, <2>3, <2>6, <2>9, SearchStep DEF Enters
    <3>2. r \in Reg!Readable(view) /\ Reg!Agrees(view, at[1], r)
      BY <2>3, <2>9 DEF Enters
    <3>3. Consistent(view, roots, at[1] \cup {r})
      <4>1. PICK id : id = Reg!Min(Reg!Open(view, roots, at[1]))
        OBVIOUS
      <4>2. id \in Reg!Open(view, roots, at[1])
        BY <2>2, <4>1, OpenIsIds
      <4>3. r[1] = id /\ Reg!Admits(view, roots, at[1], id, r[2])
        BY <2>4, <4>1 DEF Untried, Reg!Left
      <4> QED
        <5>1. Consistent(view, roots, at[1])
          BY <1>3, <2>0
        <5> QED
          BY <3>2, <4>1, <4>2, <4>3, <5>1, ConsistentGrows
    <3>4. d[1] = at[1] \cup {r}
      BY <2>6
    <3>5. r \in f[d].chosen
      BY <1>1, <2>8, <3>1, <3>2, <3>3, <3>4, SearchIsSound DEF SoundAt
    <3> QED
      BY <2>4, <2>5, <3>1, <3>5
  <2>10. CASE ~Enters(view, roots, at)
    <3>1. f[at].chosen = f[b].chosen
      BY <1>1, <2>2, <2>3, <2>6, <2>10, SearchStep
    <3>2. r # t
      <4> SUFFICES ASSUME r = t PROVE FALSE
        OBVIOUS
      <4>1. r \in Reg!Readable(view) /\ Reg!Agrees(view, at[1], r)
        BY <2>0 DEF Covering, Reg!Agrees
      <4>2. Within(view, roots, T, d)
        BY <2>0, <2>6 DEF Within
      <4>3. f[d].ok
        BY <1>1, <2>8, <4>1, <4>2, SearchIsComplete
      <4> QED
        BY <1>1, <2>3, <2>6, <2>10, <4>1, <4>3 DEF Enters
    <3>3. b[1] = {} /\ t \notin b[2]
      BY <2>0, <2>6, <3>2
    <3>4. NewestAt(view, roots, b, t)
      BY <1>5, <2>7, <2>8
    <3> QED
      BY <1>1, <3>1, <3>3, <3>4 DEF NewestAt
  <2> QED
    BY <2>9, <2>10
<1>6. Places(view) \subseteq P
  <2> HIDE DEF P
  <2> QED
    BY <1>5, SizeInduction
<1> QED
  BY <1>6

----------------------------------------------------------------------------
(* resolution: what the search finds, as selections and as a lock *)

\* A release is a module and a version.
LEMMA ListedIsRelease ==
    ASSUME NEW view, NEW r \in Reg!Listed(view)
    PROVE  r = <<r[1], r[2]>> /\ r[1] \in DOMAIN view.versions /\ r[2] \in view.versions[r[1]]
BY DEF Reg!Listed

\* A version in the index is listed.
LEMMA ReleaseIsListed ==
    ASSUME NEW view, NEW id \in DOMAIN view.versions, NEW v \in view.versions[id]
    PROVE  <<id, v>> \in Reg!Listed(view)
BY DEF Reg!Listed

\* The releases of a selection.
Graph(sel) == {<<id, sel[id]>> : id \in DOMAIN sel}

\* The selections, without local definitions.
IsSelection(view, roots, sel) ==
    /\ sel = [id \in DOMAIN sel |-> sel[id]]
    /\ \A id \in DOMAIN sel : <<id, sel[id]>> \in Reg!Readable(view)
    /\ \A root \in roots : root.id \in DOMAIN sel /\ Reg!Matches(root.req, sel[root.id])
    /\ \A id \in DOMAIN sel : \A d \in DOMAIN Reg!Deps(view, <<id, sel[id]>>) \ {id} :
            d \in DOMAIN sel /\ Reg!Matches(Reg!Deps(view, <<id, sel[id]>>)[d], sel[d])
    /\ \A S \in SUBSET DOMAIN sel :
            /\ {root.id : root \in roots} \subseteq S
            /\ S \cup UNION {DOMAIN Reg!Deps(view, <<id, sel[id]>>) : id \in S} = S
            => S = DOMAIN sel

\* The two definitions of a selection agree.
LEMMA SelectionsAre ==
    ASSUME NEW view, NEW roots, NEW sel
    PROVE  sel \in Reg!Selections(view, roots) <=> IsSelection(view, roots, sel)
<1> DEFINE readable(id) == {v \in view.versions[id] : <<id, v>> \in DOMAIN view.manifests}
           ids == {id \in DOMAIN view.versions : readable(id) # {}}
           maps == UNION {[S -> UNION {readable(id) : id \in S}] : S \in SUBSET ids}
           rest == /\ \A root \in roots : root.id \in DOMAIN sel /\ Reg!Matches(root.req, sel[root.id])
                   /\ \A id \in DOMAIN sel : \A d \in DOMAIN Reg!Deps(view, <<id, sel[id]>>) \ {id} :
                         d \in DOMAIN sel /\ Reg!Matches(Reg!Deps(view, <<id, sel[id]>>)[d], sel[d])
                   /\ \A S \in SUBSET DOMAIN sel :
                         /\ {root.id : root \in roots} \subseteq S
                         /\ S \cup UNION {DOMAIN Reg!Deps(view, <<id, sel[id]>>) : id \in S} = S
                         => S = DOMAIN sel
<1>1. sel \in Reg!Selections(view, roots) <=>
          sel \in maps /\ (\A id \in DOMAIN sel : sel[id] \in readable(id)) /\ rest
  BY Zenon DEF Reg!Selections, Reg!Deps
<1>2. (sel \in maps /\ \A id \in DOMAIN sel : sel[id] \in readable(id)) <=>
          (sel = [id \in DOMAIN sel |-> sel[id]] /\ \A id \in DOMAIN sel : <<id, sel[id]>> \in Reg!Readable(view))
  <2>1. ASSUME NEW S \in SUBSET ids, sel \in [S -> UNION {readable(id) : id \in S}],
               \A id \in DOMAIN sel : sel[id] \in readable(id)
        PROVE  /\ sel = [id \in DOMAIN sel |-> sel[id]]
               /\ \A id \in DOMAIN sel : <<id, sel[id]>> \in Reg!Readable(view)
    <3>1. DOMAIN sel = S /\ sel = [id \in DOMAIN sel |-> sel[id]]
      BY <2>1
    <3>2. ASSUME NEW id \in S PROVE <<id, sel[id]>> \in Reg!Readable(view)
      <4>1. id \in DOMAIN view.versions /\ sel[id] \in view.versions[id] /\ <<id, sel[id]>> \in DOMAIN view.manifests
        BY <2>1, <3>1, <3>2
      <4> QED
        BY <4>1, ReleaseIsListed DEF Reg!Readable
    <3> QED
      BY <3>1, <3>2
  <2>2. ASSUME sel = [id \in DOMAIN sel |-> sel[id]],
               \A id \in DOMAIN sel : <<id, sel[id]>> \in Reg!Readable(view)
        PROVE  sel \in maps /\ \A id \in DOMAIN sel : sel[id] \in readable(id)
    <3>1. \A id \in DOMAIN sel : id \in DOMAIN view.versions /\ sel[id] \in readable(id)
      <4> TAKE id \in DOMAIN sel
      <4>1. PICK r : r = <<id, sel[id]>>
        OBVIOUS
      <4>2. r \in Reg!Listed(view) /\ r \in DOMAIN view.manifests
        BY <2>2, <4>1 DEF Reg!Readable
      <4>3. r[1] \in DOMAIN view.versions /\ r[2] \in view.versions[r[1]]
        BY <4>2, ListedIsRelease
      <4> QED
        BY <4>1, <4>2, <4>3
    <3>2. PICK S : S = DOMAIN sel
      OBVIOUS
    <3>3. S \in SUBSET ids
      BY <3>1, <3>2
    <3>4. sel \in [S -> UNION {readable(id) : id \in S}]
      <4>1. \A id \in S : sel[id] \in UNION {readable(j) : j \in S}
        BY <3>1, <3>2
      <4> HIDE DEF readable
      <4> QED
        BY <2>2, <3>2, <4>1
    <3> QED
      BY <3>1, <3>3, <3>4
  <2> QED
    BY <2>1, <2>2
<1> HIDE DEF readable, ids, maps
<1> QED
  BY <1>1, <1>2 DEF IsSelection

\* A selection covers what it is asked for.
LEMMA SelectionCovers ==
    ASSUME NEW view, NEW roots, NEW sel, IsSelection(view, roots, sel)
    PROVE  Covering(view, roots, Graph(sel))
<1>1. PICK T : T = Graph(sel)
  OBVIOUS
<1>2. T \subseteq Reg!Readable(view) /\ Functional(T)
  BY <1>1 DEF Graph, IsSelection, Functional
<1>3. \A root \in roots : \E t \in T : t[1] = root.id /\ Reg!Matches(root.req, t[2])
  <2> TAKE root \in roots
  <2>1. <<root.id, sel[root.id]>> \in T /\ Reg!Matches(root.req, sel[root.id])
    BY <1>1 DEF Graph, IsSelection
  <2> QED
    BY <2>1
<1>4. ASSUME NEW r \in T, NEW i \in DOMAIN Reg!Deps(view, r), i # r[1]
      PROVE  \E t \in T : t[1] = i /\ Reg!Matches(Reg!Deps(view, r)[i], t[2])
  <2>1. PICK id \in DOMAIN sel : r = <<id, sel[id]>>
    BY <1>1 DEF Graph
  <2>2. i \in DOMAIN sel /\ Reg!Matches(Reg!Deps(view, r)[i], sel[i])
    BY <1>4, <2>1 DEF IsSelection
  <2>3. <<i, sel[i]>> \in T
    BY <1>1, <2>2 DEF Graph
  <2> QED
    BY <2>2, <2>3
<1> QED
  BY <1>1, <1>2, <1>3, <1>4 DEF Covering

\* The version that was chosen for a module.
VersionIn(chosen, id) == (CHOOSE r \in chosen : r[1] = id)[2]

\* A solution has one version of each of its modules.
LEMMA VersionIsChosen ==
    ASSUME NEW view, NEW chosen \in SUBSET Reg!Readable(view), Functional(chosen)
    PROVE  /\ \A r \in chosen : VersionIn(chosen, r[1]) = r[2] /\ r = <<r[1], r[2]>>
           /\ \A id \in Reg!IdsOf(chosen) : <<id, VersionIn(chosen, id)>> \in chosen
<1>1. ASSUME NEW r \in chosen PROVE VersionIn(chosen, r[1]) = r[2] /\ r = <<r[1], r[2]>>
  <2>1. PICK q : q = CHOOSE x \in chosen : x[1] = r[1]
    OBVIOUS
  <2>2. q \in chosen /\ q[1] = r[1]
    BY <2>1
  <2>3. q = r
    BY <2>2 DEF Functional
  <2>4. r \in Reg!Listed(view)
    BY DEF Reg!Readable
  <2> QED
    BY <2>1, <2>3, <2>4, ListedIsRelease DEF VersionIn
<1> QED
  BY <1>1 DEF Reg!IdsOf

\* What the search ends with is a selection.
LEMMA ChosenIsSelection ==
    ASSUME NEW view, NEW roots, NEW chosen, NEW sel, Consistent(view, roots, chosen),
           Reg!Open(view, roots, chosen) = {},
           sel = [id \in Reg!IdsOf(chosen) |-> VersionIn(chosen, id)]
    PROVE  IsSelection(view, roots, sel) /\ Graph(sel) = chosen
<1>1. /\ \A r \in chosen : VersionIn(chosen, r[1]) = r[2] /\ r = <<r[1], r[2]>>
      /\ \A id \in Reg!IdsOf(chosen) : <<id, VersionIn(chosen, id)>> \in chosen
  BY VersionIsChosen DEF Consistent
<1>2. DOMAIN sel = Reg!IdsOf(chosen) /\ \A id \in DOMAIN sel : <<id, sel[id]>> \in chosen
  BY <1>1
<1>3. \A r \in chosen : r[1] \in DOMAIN sel /\ sel[r[1]] = r[2] /\ r = <<r[1], sel[r[1]]>>
  BY <1>1, <1>2 DEF Reg!IdsOf
<1>4. Graph(sel) = chosen
  BY <1>2, <1>3 DEF Graph
<1>5. \A root \in roots : root.id \in DOMAIN sel /\ Reg!Matches(root.req, sel[root.id])
  <2> TAKE root \in roots
  <2>1. root.id \in DOMAIN sel
    BY <1>2 DEF Reg!Open, Reg!Required
  <2>2. PICK t : t = <<root.id, sel[root.id]>>
    OBVIOUS
  <2>3. t \in chosen /\ t[1] = root.id /\ t[2] = sel[root.id]
    BY <1>2, <2>1, <2>2
  <2> QED
    BY <2>1, <2>3 DEF Consistent
<1>6. ASSUME NEW id \in DOMAIN sel, NEW d \in DOMAIN Reg!Deps(view, <<id, sel[id]>>) \ {id}
      PROVE  d \in DOMAIN sel /\ Reg!Matches(Reg!Deps(view, <<id, sel[id]>>)[d], sel[d])
  <2>1. PICK r : r = <<id, sel[id]>>
    OBVIOUS
  <2>2. r \in chosen /\ r[1] = id /\ d \in DOMAIN Reg!Deps(view, r)
    BY <1>2, <2>1
  <2>3. d \in DOMAIN sel
    BY <1>2, <2>2 DEF Reg!Open, Reg!Required
  <2>4. PICK t : t = <<d, sel[d]>>
    OBVIOUS
  <2>5. t \in chosen /\ t[1] = d /\ t[2] = sel[d]
    BY <1>2, <2>3, <2>4
  <2>6. r # t
    BY <2>2, <2>5
  <2>7. Reg!Matches(Reg!Deps(view, r)[t[1]], t[2])
    BY <2>2, <2>5, <2>6 DEF Consistent
  <2> QED
    BY <2>1, <2>3, <2>5, <2>7
<1>7. ASSUME NEW S \in SUBSET DOMAIN sel, {root.id : root \in roots} \subseteq S,
             S \cup UNION {DOMAIN Reg!Deps(view, <<id, sel[id]>>) : id \in S} = S
      PROVE  S = DOMAIN sel
  <2>1. ASSUME NEW r \in chosen, r[1] \in S PROVE DOMAIN Reg!Deps(view, r) \subseteq S
    <3>1. r = <<r[1], sel[r[1]]>>
      BY <1>3
    <3>2. DOMAIN Reg!Deps(view, r) \in {DOMAIN Reg!Deps(view, <<id, sel[id]>>) : id \in S}
      BY <2>1, <3>1
    <3> QED
      BY <1>7, <3>2
  <2>2. Closed(view, roots, chosen, S)
    BY <1>7, <2>1 DEF Closed
  <2>3. \A r \in chosen : r[1] \in S
    BY <2>2 DEF Consistent, Reached
  <2> QED
    BY <1>2, <2>3 DEF Reg!IdsOf
<1>8. \A id \in DOMAIN sel : <<id, sel[id]>> \in Reg!Readable(view)
  BY <1>2 DEF Consistent
<1> QED
  BY <1>2, <1>4, <1>5, <1>6, <1>7, <1>8 DEF IsSelection

\* The solver finds a selection exactly when there is one, with the newest
\* version of the first root that any selection has (solve).
THEOREM SolverIsExact ==
    ASSUME NEW view, NEW roots, WellFormed(view, roots), roots # {}
    PROVE  Reg!SolvesExactly(view, roots)
<1>1. PICK f, solved, start : f = Search(view, roots) /\ solved = Reg!Solve(view, roots) /\ start = <<{}, {}>>
  OBVIOUS
<1>2. solved = f[start] /\ start \in Places(view) /\ start[1] = {} /\ start[2] = {}
  BY <1>1, SolveSearches DEF Places
<1>3. ASSUME NEW T, Covering(view, roots, T) PROVE solved.ok
  <2>1. Within(view, roots, T, start)
    BY <1>2 DEF Within
  <2> QED
    BY <1>1, <1>2, <1>3, <2>1, SearchIsComplete
<1>4. CASE ~solved.ok
  <2>1. Reg!Selections(view, roots) = {}
    BY <1>3, <1>4, SelectionsAre, SelectionCovers
  <2> QED
    BY <1>1, <1>4, <2>1 DEF Reg!SolvesExactly, Reg!IsBest
<1>5. CASE solved.ok
  <2>1. Consistent(view, roots, start[1])
    BY <1>2 DEF Consistent, Functional, Reached
  <2>2. PICK chosen : chosen = solved.chosen
    OBVIOUS
  <2>3. Consistent(view, roots, chosen) /\ Reg!Open(view, roots, chosen) = {}
    <3>1. solved = f[start] /\ start \in Places(view)
      BY <1>2
    <3> QED
      BY <1>1, <1>5, <2>1, <2>2, <3>1, SearchIsSound DEF SoundAt
  <2>4. PICK sel : sel = [id \in Reg!IdsOf(chosen) |-> VersionIn(chosen, id)]
    OBVIOUS
  <2>5. IsSelection(view, roots, sel) /\ Graph(sel) = chosen
    BY <2>3, <2>4, ChosenIsSelection
  <2>6. PICK first : first = Reg!Min({root.id : root \in roots})
    OBVIOUS
  <2>7. Reg!Open(view, roots, {}) = {root.id : root \in roots}
    BY DEF Reg!Open, Reg!Required, Reg!IdsOf
  <2>8. first \in {root.id : root \in roots}
    <3>1. PICK R : R = {root.id : root \in roots}
      OBVIOUS
    <3>2. R \in SUBSET Nat /\ R # {}
      BY <3>1 DEF WellFormed
    <3> QED
      BY <2>6, <3>1, <3>2, MinOf
  <2>9. ASSUME NEW other \in Reg!Selections(view, roots) PROVE Reg!Compare(sel[first], other[first]) >= 0
    <3>1. IsSelection(view, roots, other)
      BY SelectionsAre
    <3>2. Covering(view, roots, Graph(other))
      BY <3>1, SelectionCovers
    <3>3. PICK t : t = <<first, other[first]>>
      OBVIOUS
    <3>4. t \in Graph(other) /\ t[1] = first /\ t[2] = other[first]
      BY <2>8, <3>1, <3>3 DEF Graph, IsSelection
    <3>5. NewestAt(view, roots, start, t)
      BY <1>2, <2>6, <2>7, <3>2, <3>4, SearchIsNewest
    <3>6. PICK r \in chosen : r[1] = first /\ Reg!Compare(r[2], other[first]) >= 0
      BY <1>1, <1>2, <2>2, <3>4, <3>5 DEF NewestAt
    <3>7. sel[first] = r[2]
      BY <2>5, <3>6 DEF Graph
    <3> QED
      BY <3>6, <3>7
  <2>10. sel \in Reg!Selections(view, roots) /\ chosen = {<<id, sel[id]>> : id \in DOMAIN sel}
    BY <2>5, SelectionsAre DEF Graph
  <2> QED
    BY <1>1, <1>5, <2>2, <2>6, <2>9, <2>10 DEF Reg!SolvesExactly, Reg!IsBest
<1> QED
  BY <1>4, <1>5

\* Resolve, without local definitions.
Resolved(view, target, roots, chosen, version, m, modules) ==
    /\ chosen = Reg!Solve(view, roots).chosen
    /\ version = [id \in Reg!IdsOf(chosen) |-> VersionIn(chosen, id)]
    /\ m = [id \in DOMAIN version |-> view.manifests[<<id, version[id]>>]]
    /\ modules = [id \in DOMAIN m |->
          [version |-> version[id], manifest |-> Reg!Sum(m[id]), artifact |-> m[id].arts[target],
           deps |-> [d \in DOMAIN m[id].deps |-> version[d]]]]
    /\ Reg!Resolve(view, target, roots) =
          IF \/ ~Reg!Solve(view, roots).ok
             \/ ~Reg!CheckCycles(view, chosen)
             \/ \E id \in DOMAIN m : target \notin DOMAIN m[id].arts
          THEN Reg!NoLock
          ELSE [target |-> target, roots |-> roots, modules |-> modules]

\* Resolve, without local definitions.
LEMMA ResolveIs ==
    ASSUME NEW view, NEW target, NEW roots
    PROVE  \E chosen, version, m, modules : Resolved(view, target, roots, chosen, version, m, modules)
<1> DEFINE c == Reg!Solve(view, roots).chosen
           v == [id \in Reg!IdsOf(c) |-> VersionIn(c, id)]
           n == [id \in DOMAIN v |-> view.manifests[<<id, v[id]>>]]
           l == [id \in DOMAIN n |->
               [version |-> v[id], manifest |-> Reg!Sum(n[id]), artifact |-> n[id].arts[target],
                deps |-> [d \in DOMAIN n[id].deps |-> v[d]]]]
<1>1. Reg!Resolve(view, target, roots) =
               IF \/ ~Reg!Solve(view, roots).ok
                  \/ ~Reg!CheckCycles(view, c)
                  \/ \E id \in DOMAIN n : target \notin DOMAIN n[id].arts
               THEN Reg!NoLock
               ELSE [target |-> target, roots |-> roots, modules |-> l]
  BY Zenon DEF Reg!Resolve, Reg!LockOf, Reg!Locked, Reg!ManifestsOf, Reg!VersionsOf, VersionIn
<1>2. Resolved(view, target, roots, c, v, n, l)
  BY <1>1, Zenon DEF Resolved
<1> HIDE DEF c, v, n, l
<1> QED
  BY <1>2, Zenon

\* What Resolve locks passes Verify on the same stores, which have the artifacts
\* of what can be read.
LEMMA LockVerifies ==
    ASSUME NEW view, NEW target, NEW roots, NEW lok, WellFormed(view, roots),
           lok = Reg!Resolve(view, target, roots), lok # Reg!NoLock,
           \A r \in Reg!Readable(view) : Reg!Digests(view.manifests[r]) \subseteq view.blobs
    PROVE  Reg!Verify(view, lok)
<1>1. PICK f, solved, start : f = Search(view, roots) /\ solved = Reg!Solve(view, roots) /\ start = <<{}, {}>>
  OBVIOUS
<1>2. PICK chosen, version, m, modules : Resolved(view, target, roots, chosen, version, m, modules)
  BY ResolveIs
<1>3. chosen = solved.chosen /\ version = [id \in Reg!IdsOf(chosen) |-> VersionIn(chosen, id)]
  BY <1>1, <1>2 DEF Resolved
<1>4. m = [id \in DOMAIN version |-> view.manifests[<<id, version[id]>>]]
  BY <1>2 DEF Resolved
<1>5. modules = [id \in DOMAIN m |->
                    [version |-> version[id], manifest |-> Reg!Sum(m[id]), artifact |-> m[id].arts[target],
                     deps |-> [d \in DOMAIN m[id].deps |-> version[d]]]]
  BY <1>2 DEF Resolved
<1>6. /\ solved.ok /\ Reg!CheckCycles(view, chosen)
      /\ \A id \in DOMAIN m : target \in DOMAIN m[id].arts
      /\ lok = [target |-> target, roots |-> roots, modules |-> modules]
  BY <1>1, <1>2, Zenon DEF Resolved
<1>7. solved = f[start] /\ start \in Places(view) /\ start[1] = {}
  BY <1>1, SolveSearches DEF Places
<1>8. Consistent(view, roots, chosen) /\ Reg!Open(view, roots, chosen) = {}
  <2>1. Consistent(view, roots, start[1])
    BY <1>7 DEF Consistent, Functional, Reached
  <2>2. solved = f[start] /\ start \in Places(view)
    BY <1>7
  <2> QED
    BY <1>1, <1>3, <1>6, <2>1, <2>2, SearchIsSound DEF SoundAt
<1>9. IsSelection(view, roots, version) /\ Graph(version) = chosen
  BY <1>3, <1>8, ChosenIsSelection
<1>10. DOMAIN version = Reg!IdsOf(chosen) /\ DOMAIN m = DOMAIN version /\ DOMAIN modules = DOMAIN version
  BY <1>3, <1>4, <1>5
<1>11. \A root \in roots : root.id \in DOMAIN modules /\ Reg!Matches(root.req, modules[root.id].version)
  BY <1>5, <1>9, <1>10 DEF IsSelection
<1>12. ASSUME NEW id \in DOMAIN modules
       PROVE  /\ <<id, modules[id].version>> \in DOMAIN view.manifests
              /\ m[id] = view.manifests[<<id, modules[id].version>>]
              /\ Reg!Sum(m[id]) = modules[id].manifest
              /\ DOMAIN modules[id].deps = DOMAIN m[id].deps
              /\ target \in DOMAIN m[id].arts
              /\ m[id].arts[target] = modules[id].artifact
              /\ modules[id].artifact \in view.blobs
              /\ \A d \in DOMAIN m[id].deps :
                    /\ d \in DOMAIN modules
                    /\ modules[id].deps[d] = modules[d].version
                    /\ Reg!Matches(m[id].deps[d], modules[d].version)
  <2>1. PICK r : r = <<id, version[id]>>
    OBVIOUS
  <2>2. r \in Reg!Readable(view) /\ r \in chosen
    BY <1>9, <1>10, <2>1 DEF IsSelection, Graph
  <2>3. /\ modules[id].version = version[id] /\ modules[id].manifest = Reg!Sum(m[id])
        /\ modules[id].artifact = m[id].arts[target]
        /\ modules[id].deps = [d \in DOMAIN m[id].deps |-> version[d]]
    BY <1>5, <1>10
  <2>4. m[id] = view.manifests[r]
    BY <1>4, <1>10, <2>1
  <2>5. r \in DOMAIN view.manifests
    BY <2>2 DEF Reg!Readable
  <2>6. target \in DOMAIN m[id].arts
    BY <1>6, <1>10
  <2>7. m[id].arts[target] \in view.blobs
    BY <2>2, <2>4, <2>6 DEF Reg!Digests, Reg!Range
  <2>8. ASSUME NEW d \in DOMAIN m[id].deps
        PROVE  d \in DOMAIN version /\ Reg!Matches(m[id].deps[d], version[d])
    <3>1. d \in DOMAIN Reg!Deps(view, r) /\ Reg!Deps(view, r) = m[id].deps
      BY <2>4, <2>8 DEF Reg!Deps
    <3>2. d # id
      <4>1. {r} \in SUBSET chosen /\ {r} # {}
        BY <2>2
      <4>2. PICK q \in {r} : DOMAIN Reg!Deps(view, q) \cap Reg!IdsOf({r}) = {}
        BY <1>6, <4>1 DEF Reg!CheckCycles
      <4>3. id \in Reg!IdsOf({r})
        BY <2>1 DEF Reg!IdsOf
      <4> QED
        BY <3>1, <4>2, <4>3
    <3> QED
      BY <1>9, <1>10, <2>1, <3>1, <3>2 DEF IsSelection
  <2>9. \A d \in DOMAIN m[id].deps : modules[id].deps[d] = version[d] /\ (d \in DOMAIN version => modules[d].version = version[d])
    BY <1>5, <1>10, <2>3
  <2> QED
    BY <1>10, <2>1, <2>3, <2>4, <2>5, <2>6, <2>7, <2>8, <2>9
<1>13. lok.target = target /\ lok.roots = roots /\ lok.modules = modules
  BY <1>6
<1> QED
  BY <1>6, <1>11, <1>12, <1>13 DEF Reg!Verify, Reg!RootsVerify, Reg!ModuleVerifies

----------------------------------------------------------------------------
(* the stores: what is written to one only adds to it *)

Grows(s, t) ==
    /\ s.dirs \subseteq t.dirs /\ s.blobs \subseteq t.blobs
    /\ \A r \in DOMAIN s.manifests : r \in DOMAIN t.manifests /\ t.manifests[r] = s.manifests[r]

\* A manifest whose artifacts and directory are there.
Linkable(s, m) ==
    /\ Reg!ReleaseOf(m) \in s.dirs
    /\ DOMAIN m.deps \subseteq Nat
    /\ Reg!Digests(m) \subseteq s.blobs

\* The writes of a publication keep a store, and so do
LEMMA WriteBlobKeeps ==
    ASSUME NEW s, StoreOK(s), NEW d
    PROVE  StoreOK(WriteBlob(s, d)) /\ Grows(s, WriteBlob(s, d)) /\ d \in WriteBlob(s, d).blobs
<1>1. PICK t : t = WriteBlob(s, d)
  OBVIOUS
<1>2. /\ DOMAIN t = DOMAIN s /\ t.dirs = s.dirs /\ t.manifests = s.manifests
      /\ t.blobs = s.blobs \cup {d}
  BY <1>1 DEF StoreOK, WriteBlob
<1> QED
  BY <1>1, <1>2 DEF StoreOK, Grows

\* the directory and
LEMMA MakeDirectoryKeeps ==
    ASSUME NEW s, StoreOK(s), NEW m, Reg!ReleaseOf(m) \in Nat \X Reg!Versions
    PROVE  /\ StoreOK(MakeDirectory(s, m)) /\ Grows(s, MakeDirectory(s, m))
           /\ Reg!ReleaseOf(m) \in MakeDirectory(s, m).dirs
<1>1. PICK t : t = MakeDirectory(s, m)
  OBVIOUS
<1>2. /\ DOMAIN t = DOMAIN s /\ t.blobs = s.blobs /\ t.manifests = s.manifests
      /\ t.dirs = s.dirs \cup {Reg!ReleaseOf(m)}
  BY <1>1 DEF StoreOK, MakeDirectory
<1>3. IsFiniteSet(t.dirs)
  BY <1>2, FS_AddElement DEF StoreOK
<1> QED
  BY <1>1, <1>2, <1>3 DEF StoreOK, Grows

\* the link.
LEMMA LinkKeeps ==
    ASSUME NEW s, StoreOK(s), NEW m, Linkable(s, m)
    PROVE  StoreOK(Link(s, m)) /\ Grows(s, Link(s, m))
<1>1. PICK t, q : t = Link(s, m) /\ q = Reg!ReleaseOf(m)
  OBVIOUS
<1>2. CASE Exists(s, m)
  BY <1>1, <1>2 DEF Link, Grows
<1>3. CASE ~Exists(s, m)
  <2>1. /\ DOMAIN t = DOMAIN s /\ t.dirs = s.dirs /\ t.blobs = s.blobs
        /\ t.manifests = [r \in DOMAIN s.manifests \cup {q} |-> IF r = q THEN m ELSE s.manifests[r]]
    BY <1>1, <1>3 DEF StoreOK, Link
  <2>2. q \notin DOMAIN s.manifests
    BY <1>1, <1>3 DEF Exists
  <2>3. Grows(s, t)
    BY <2>1, <2>2 DEF Grows
  <2>4. StoreOK(t)
    BY <1>1, <2>1, <2>2 DEF StoreOK, Linkable
  <2> QED
    BY <1>1, <2>3, <2>4
<1> QED
  BY <1>2, <1>3

\* A blob that a client has verified is in the registry.
LEMMA VerifiedIsStored ==
    ASSUME NEW s, NEW mt, NEW d, Reg!VerifiedBlob(s, mt, d)
    PROVE  d \in s.blobs
<1>1. Reg!Missing # Reg!Refused
  BY DEF Reg!Missing, Reg!Refused
<1>2. SUFFICES ASSUME d \notin s.blobs PROVE FALSE
  OBVIOUS
<1>3. PICK x : x = Reg!HostedBlob(s, mt, d)
  OBVIOUS
<1>4. x \in {Reg!Missing, Reg!Refused}
  BY <1>2, <1>3 DEF Reg!HostedBlob
<1>5. Reg!get(Reg!Handler(x)) \in Reg!Failed
  BY <1>1, <1>4 DEF Reg!get, Reg!Handler, Reg!registryHTTPError, Reg!Failed
<1> QED
  BY <1>3, <1>5 DEF Reg!VerifiedBlob, Reg!HTTPBlob

\* What can be fetched is a whole release of the registry.
LEMMA FetchableIsStored ==
    ASSUME NEW s, NEW o, NEW mt, NEW dn, NEW r, Reg!Fetchable(s, o, mt, dn, r)
    PROVE  /\ r \notin DOMAIN s.manifests /\ r \in DOMAIN o.manifests
           /\ \A d \in Reg!Digests(o.manifests[r]) : Reg!VerifiedBlob(o, mt, d) /\ d \in o.blobs
<1>1. Reg!Missing \in Reg!Failed /\ Reg!Refused \in Reg!Failed /\ Reg!Unreached \in Reg!Failed
  BY DEF Reg!Failed
<1>2. PICK x : x = Reg!HostedManifest(o, mt, r)
  OBVIOUS
<1>3. PICK m : m = Reg!HTTPManifest(o, mt, dn, r)
  OBVIOUS
<1>4. r \notin DOMAIN s.manifests /\ m \notin Reg!Failed
  BY <1>3 DEF Reg!Fetchable
<1>5. PICK y : y = Reg!get(Reg!Requested(r[1] \in dn, x))
  OBVIOUS
<1>6. m = y /\ y \notin Reg!Failed
  BY <1>1, <1>2, <1>3, <1>4, <1>5 DEF Reg!HTTPManifest
<1>7. y = x
  BY <1>1, <1>5, <1>6 DEF Reg!get, Reg!Handler, Reg!registryHTTPError, Reg!Requested, Reg!NoResponse
<1>8. x = o.manifests[r] /\ r \in DOMAIN o.manifests
  BY <1>1, <1>2, <1>6, <1>7 DEF Reg!HostedManifest, Reg!LocalManifest
<1>9. \A d \in Reg!Digests(m) : Reg!VerifiedBlob(o, mt, d)
  BY <1>3 DEF Reg!Fetchable
<1> QED
  BY <1>4, <1>6, <1>7, <1>8, <1>9, VerifiedIsStored

\* A cache that has been asked for releases,
LEMMA FilledKeeps ==
    ASSUME NEW s, NEW o, NEW mt, NEW dn, NEW rs, StoreOK(s), StoreOK(o)
    PROVE  StoreOK(Reg!Filled(s, o, mt, dn, rs)) /\ Grows(s, Reg!Filled(s, o, mt, dn, rs))
<1>1. PICK new : new = {r \in rs : Reg!Fetchable(s, o, mt, dn, r)}
  OBVIOUS
<1>2. PICK t : t = Reg!Filled(s, o, mt, dn, rs)
  OBVIOUS
<1>3. /\ DOMAIN t = {"dirs", "manifests", "blobs"}
      /\ t.dirs = s.dirs \cup new
      /\ t.manifests = [r \in DOMAIN s.manifests \cup new |->
                            IF r \in new THEN o.manifests[r] ELSE s.manifests[r]]
      /\ t.blobs = s.blobs \cup UNION {Reg!Digests(o.manifests[r]) : r \in new}
  BY <1>1, <1>2 DEF Reg!Filled
<1>4. \A r \in new : r \notin DOMAIN s.manifests /\ r \in DOMAIN o.manifests
  BY <1>1, FetchableIsStored
<1>5. IsFiniteSet(t.dirs) /\ t.dirs \subseteq Nat \X Reg!Versions
  <2>1. new \subseteq o.dirs
    BY <1>4 DEF StoreOK
  <2>2. IsFiniteSet(new)
    BY <2>1, FS_Subset DEF StoreOK
  <2>3. IsFiniteSet(s.dirs \cup new)
    BY <2>2, FS_Union DEF StoreOK
  <2> QED
    BY <1>3, <2>1, <2>3 DEF StoreOK
<1>6. Grows(s, t)
  BY <1>3, <1>4 DEF Grows
<1>7. ASSUME NEW r \in DOMAIN t.manifests
      PROVE  /\ Reg!ReleaseOf(t.manifests[r]) = r
             /\ DOMAIN t.manifests[r].deps \subseteq Nat
             /\ Reg!Digests(t.manifests[r]) \subseteq t.blobs
  <2>1. CASE r \in new
    <3>1. t.manifests[r] = o.manifests[r]
      BY <1>3, <2>1
    <3>2. Reg!Digests(o.manifests[r]) \subseteq t.blobs
      BY <1>3, <2>1
    <3> QED
      BY <1>4, <2>1, <3>1, <3>2 DEF StoreOK
  <2>2. CASE r \notin new
    <3>1. r \in DOMAIN s.manifests /\ t.manifests[r] = s.manifests[r]
      BY <1>3, <2>2
    <3> QED
      BY <1>3, <3>1 DEF StoreOK
  <2> QED
    BY <2>1, <2>2
<1>8. DOMAIN t.manifests \subseteq t.dirs
  BY <1>3 DEF StoreOK
<1> QED
  BY <1>2, <1>3, <1>5, <1>6, <1>7, <1>8 DEF StoreOK

\* A cache that has taken releases over from the registry, and nothing else.
Copies(s, o, t) ==
    /\ StoreOK(t) /\ Grows(s, t)
    /\ \A r \in DOMAIN t.manifests :
            r \in DOMAIN s.manifests \/ (r \in DOMAIN o.manifests /\ t.manifests[r] = o.manifests[r])

\* This is what Manifest does to the cache, asked for releases in turn.
LEMMA FilledCopies ==
    ASSUME NEW s, NEW o, NEW mt, NEW dn, NEW rs, StoreOK(s), StoreOK(o)
    PROVE  Copies(s, o, Reg!Filled(s, o, mt, dn, rs))
<1>1. PICK new : new = {r \in rs : Reg!Fetchable(s, o, mt, dn, r)}
  OBVIOUS
<1>2. PICK t : t = Reg!Filled(s, o, mt, dn, rs)
  OBVIOUS
<1>3. t.manifests = [r \in DOMAIN s.manifests \cup new |->
                        IF r \in new THEN o.manifests[r] ELSE s.manifests[r]]
  BY <1>1, <1>2 DEF Reg!Filled
<1>4. \A r \in new : r \in DOMAIN o.manifests
  BY <1>1, FetchableIsStored
<1>5. StoreOK(t) /\ Grows(s, t)
  BY <1>2, FilledKeeps
<1> QED
  BY <1>2, <1>3, <1>4, <1>5 DEF Copies

LEMMA CopiesInTurn ==
    ASSUME NEW s, NEW o, NEW t, NEW w, Copies(s, o, t), Copies(t, o, w)
    PROVE  Copies(s, o, w)
BY DEF Copies, Grows

\* What is read of a release is what one of the stores keeps.
LEMMA ReadIsKept ==
    ASSUME NEW s, NEW o, NEW mt, NEW dn, NEW ids, NEW view, view = Reg!View(s, o, mt, dn, ids), StoreOK(s), StoreOK(o),
           NEW r \in DOMAIN view.manifests
    PROVE  /\ \/ r \in DOMAIN s.manifests /\ view.manifests[r] = s.manifests[r]
              \/ Reg!Fetchable(s, o, mt, dn, r) /\ r \in DOMAIN o.manifests /\ view.manifests[r] = o.manifests[r]
           /\ DOMAIN Reg!Deps(view, r) \subseteq Nat
           /\ Reg!Digests(view.manifests[r]) \subseteq view.blobs
<1>1. PICK x : x = Reg!CachedManifest(s, o, mt, dn, r)
  OBVIOUS
<1>2. view.manifests[r] = x /\ x # Reg!Missing
  BY <1>1 DEF Reg!View
<1>3. view.blobs = {d \in s.blobs \cup o.blobs : Reg!CachedBlob(s, o, mt, d)}
  BY DEF Reg!View
<1>4. CASE r \in DOMAIN s.manifests
  <2>1. x = s.manifests[r]
    BY <1>1, <1>4 DEF Reg!CachedManifest, Reg!Fetchable
  <2> QED
    BY <1>2, <1>3, <1>4, <2>1 DEF StoreOK, Reg!Deps, Reg!CachedBlob
<1>5. CASE Reg!Fetchable(s, o, mt, dn, r)
  <2>1. /\ r \notin DOMAIN s.manifests /\ r \in DOMAIN o.manifests
        /\ \A d \in Reg!Digests(o.manifests[r]) : Reg!VerifiedBlob(o, mt, d) /\ d \in o.blobs
    BY <1>5, FetchableIsStored
  <2>2. x = o.manifests[r]
    BY <1>1, <1>5, <2>1 DEF Reg!CachedManifest
  <2> QED
    BY <1>2, <1>3, <1>5, <2>1, <2>2 DEF StoreOK, Reg!Deps, Reg!CachedBlob
<1>6. CASE r \notin DOMAIN s.manifests /\ ~Reg!Fetchable(s, o, mt, dn, r)
  BY <1>1, <1>2, <1>6 DEF Reg!CachedManifest
<1> QED
  BY <1>4, <1>5, <1>6

\* A version that the registry lists is one it has a directory for.
LEMMA HostedIsLocal ==
    ASSUME NEW o, NEW mt, NEW dn, NEW id, Reg!HTTPVersions(o, mt, dn, id) \notin Reg!Failed
    PROVE  Reg!HTTPVersions(o, mt, dn, id).versions \subseteq Reg!LocalVersions(o, id)
<1>1. PICK x, y : x = Reg!HostedVersions(o, mt, id) /\ y = Reg!HTTPVersions(o, mt, dn, id)
  OBVIOUS
<1>2. Reg!Missing \in Reg!Failed /\ Reg!Refused \in Reg!Failed /\ Reg!Unreached \in Reg!Failed
  BY DEF Reg!Failed
<1>3. y = x /\ y \notin Reg!Failed
  BY <1>1, <1>2 DEF Reg!HTTPVersions, Reg!get, Reg!Handler, Reg!registryHTTPError, Reg!Requested, Reg!NoResponse
<1>4. x = [versions |-> {v \in Reg!LocalVersions(o, id) : Reg!Status(mt, <<id, v>>) = "active"}]
  BY <1>1, <1>2, <1>3, Zenon DEF Reg!HostedVersions
<1> QED
  BY <1>1, <1>3, <1>4

\* The stores are such that a resolution can be asked about them.
LEMMA StoreIsWellFormed ==
    ASSUME NEW s, NEW o, NEW mt, NEW dn, NEW ids, NEW view, view = Reg!View(s, o, mt, dn, ids), StoreOK(s), StoreOK(o),
           NEW roots, \A root \in roots : root.id \in Nat
    PROVE  WellFormed(view, roots)
<1>1. Reg!Listed(view) \subseteq s.dirs \cup o.dirs
  <2> SUFFICES ASSUME NEW r \in Reg!Listed(view) PROVE r \in s.dirs \cup o.dirs
    OBVIOUS
  <2>1. r = <<r[1], r[2]>> /\ r[1] \in DOMAIN view.versions /\ r[2] \in view.versions[r[1]]
    BY ListedIsRelease
  <2>2. view.versions = [id \in ids |-> Reg!CachedVersions(s, o, mt, dn, id)]
    BY DEF Reg!View
  <2>3. r[2] \in Reg!LocalVersions(s, r[1]) \/ r[2] \in Reg!LocalVersions(o, r[1])
    BY <2>1, <2>2, HostedIsLocal DEF Reg!CachedVersions
  <2>4. \E q \in s.dirs \cup o.dirs : q[1] = r[1] /\ q[2] = r[2]
    BY <2>3 DEF Reg!LocalVersions
  <2>5. \A q \in s.dirs \cup o.dirs : q = <<q[1], q[2]>>
    BY DEF StoreOK
  <2> QED
    BY <2>1, <2>4, <2>5
<1>2. IsFiniteSet(Reg!Listed(view))
  <2>1. IsFiniteSet(s.dirs \cup o.dirs)
    BY FS_Union DEF StoreOK
  <2> QED
    BY <1>1, <2>1, FS_Subset
<1>3. Reg!Listed(view) \subseteq Nat \X Reg!Versions
  BY <1>1 DEF StoreOK
<1>4. \A r \in Reg!Readable(view) : DOMAIN Reg!Deps(view, r) \subseteq Nat
  BY ReadIsKept DEF Reg!Readable
<1> QED
  BY <1>2, <1>3, <1>4 DEF WellFormed

----------------------------------------------------------------------------
(* the publications under way *)

\* A manifest that was parsed has the release, the dependencies and the digests
\* of the text it was made from.
LEMMA ParsedIsRaw ==
    ASSUME NEW raw, RawOK(raw), NEW m, m = Reg!ParseManifest(raw), ~Bad(m)
    PROVE  /\ Reg!ReleaseOf(m) = <<raw.id, raw.version>>
           /\ Reg!ReleaseOf(m) \in Nat \X Reg!Versions
           /\ DOMAIN m.deps \subseteq Nat
           /\ \A d \in Reg!Digests(m) : \E k \in 1 .. Len(raw.arts) : d = raw.arts[k].digest
<1>1. m # Reg!Refused
  BY DEF Bad, Reg!Refused
<1> DEFINE deps == [k \in {raw.deps[i].id : i \in DOMAIN raw.deps} |->
                       raw.deps[CHOOSE i \in DOMAIN raw.deps : raw.deps[i].id = k].req]
           arts == [k \in {raw.arts[i].target : i \in DOMAIN raw.arts} |->
                       raw.arts[CHOOSE i \in DOMAIN raw.arts : raw.arts[i].target = k].digest]
<1>2. m = [id |-> raw.id, version |-> raw.version, deps |-> deps, arts |-> arts,
           provides |-> raw.provides, capabilities |-> raw.capabilities, abi |-> raw.abi]
  BY <1>1, Zenon DEF Reg!ParseManifest, Reg!Keyed
<1>3. DOMAIN deps \subseteq Nat
  BY DEF RawOK
<1>4. DOMAIN raw.arts = 1 .. Len(raw.arts)
  <2>1. PICK E : E = Range(raw.arts)
    OBVIOUS
  <2>2. raw.arts \in Seq(E)
    BY <2>1 DEF RawOK
  <2> QED
    BY <2>2
<1>5. ASSUME NEW t \in DOMAIN arts PROVE \E k \in DOMAIN raw.arts : arts[t] = raw.arts[k].digest
  <2>1. PICK k : k = CHOOSE i \in DOMAIN raw.arts : raw.arts[i].target = t
    OBVIOUS
  <2>2. \E i \in DOMAIN raw.arts : raw.arts[i].target = t
    BY <1>5
  <2>3. k \in DOMAIN raw.arts
    BY <2>1, <2>2
  <2>4. arts[t] = raw.arts[k].digest
    BY <1>5, <2>1
  <2> QED
    BY <2>3, <2>4
<1> HIDE DEF deps, arts
<1>6. m.id = raw.id /\ m.version = raw.version /\ m.deps = deps /\ m.arts = arts
  BY <1>2
<1>7. \A d \in Reg!Digests(m) : \E k \in 1 .. Len(raw.arts) : d = raw.arts[k].digest
  BY <1>4, <1>5, <1>6 DEF Reg!Digests, Reg!Range
<1> QED
  BY <1>3, <1>6, <1>7 DEF RawOK, Reg!ReleaseOf

\* The commands send manifests.
LEMMA OutgoingIsRaw ==
    ASSUME NEW up, UploadOK(up), ~Bad(Outgoing(up))
    PROVE  RawOK(Outgoing(up))
<1>1. PICK raw : raw = Outgoing(up)
  OBVIOUS
<1>2. raw # Invalid
  <2>1. ~Bad(raw)
    BY <1>1
  <2>2. Bad(Invalid)
    BY DEF Bad, Invalid
  <2> QED
    BY <2>1, <2>2
<1>3. CASE up.command = "publish-cell"
  <2>1. PICK cell : cell = Load(up.cell, << >>)
    OBVIOUS
  <2>2. ~Bad(cell) /\ raw = CellRelease(cell, up.id, up.target)
    BY <1>1, <1>2, <1>3, <2>1 DEF Outgoing
  <2>3. cell.version = up.cell.version /\ ~Bad(up.cell.version)
    BY <2>1, <2>2 DEF Load, Bad, Invalid
  <2>4. raw.version \in Reg!Versions /\ raw.id \in Nat /\ raw.deps = << >>
    BY <1>3, <2>2, <2>3 DEF CellRelease, UploadOK
  <2>5. raw.arts \in Seq(Range(raw.arts))
    <3>1. PICK a : raw.arts = <<a>>
      BY <2>2 DEF CellRelease
    <3>2. Range(raw.arts) = {a}
      BY <3>1 DEF Range
    <3> QED
      BY <3>1, <3>2
  <2>6. {"id", "version", "deps", "arts"} \subseteq DOMAIN raw
    BY <2>2 DEF CellRelease
  <2> QED
    BY <1>1, <2>4, <2>5, <2>6 DEF RawOK
<1>4. CASE up.command = "post" \/ up.command = "publish"
  BY <1>1, <1>2, <1>4 DEF Outgoing, UploadOK
<1>5. CASE up.command = "publish-refresh"
  <2>1. PICK file : file = up.file
    OBVIOUS
  <2>2. RawOK(file) /\ raw = Reg!RefreshArtifacts(file, up.bytes)
    BY <1>1, <1>2, <1>5, <2>1 DEF Outgoing, UploadOK
  <2>3. PICK old, new : old = file.arts /\ new = [i \in DOMAIN old |->
            [old[i] EXCEPT !.digest = Reg!Sum(up.bytes[old[i].target])]]
    OBVIOUS
  <2>4. /\ DOMAIN raw = DOMAIN file /\ raw.id = file.id /\ raw.version = file.version
        /\ raw.deps = file.deps /\ raw.arts = new
    BY <2>2, <2>3 DEF RawOK, Reg!RefreshArtifacts
  <2>5. new \in Seq(Range(new))
    <3>1. PICK E, F : E = Range(old) /\ F = Range(new)
      OBVIOUS
    <3>2. old \in Seq(E)
      BY <2>2, <2>3, <3>1 DEF RawOK
    <3>3. DOMAIN new = 1 .. Len(old) /\ Len(old) \in Nat /\ new = [i \in 1 .. Len(old) |-> new[i]]
      BY <2>3, <3>2
    <3>4. \A i \in 1 .. Len(old) : new[i] \in F
      BY <3>1, <3>3 DEF Range
    <3> HIDE <2>3
    <3> QED
      BY <3>1, <3>3, <3>4
  <2> QED
    BY <1>1, <2>2, <2>4, <2>5 DEF RawOK
<1> QED
  BY <1>3, <1>4, <1>5 DEF UploadOK

\* The first n artifacts of a publication are in a store.
Stored(s, raw, n) == \A k \in 1 .. n : raw.arts[k].digest \in s.blobs

UploadInv(up, store) ==
    /\ up.pc # "off" => {"pc", "n", "raw", "file"} \subseteq DOMAIN up
    /\ up.pc = "command" => UploadOK(up)
    /\ up.pc = "sent" => RawOK(up.raw) /\ up.n = 0
    /\ up.pc \in {"blobs", "link"} =>
            /\ RawOK(up.raw) /\ ~Bad(Reg!ParseManifest(up.raw))
            /\ up.n \in 0 .. Len(up.raw.arts)
            /\ Stored(store, up.raw, up.n)
    /\ up.pc = "link" => Linkable(store, Reg!ParseManifest(up.raw))

\* What a host publishes.
PublicationOf(st) ==
    RegistryPublication(BuildResult(st.recipe, st.config.toolchain), st.config.module, st.config.version,
                        st.config.target)

HostInv(st, store) ==
    /\ {"config", "pc", "k", "n", "app", "units", "recipe", "why", "layout"} \subseteq DOMAIN st
    /\ st.pc # "off" => ConfigOK(st.config)
    /\ st.pc \in {"load", "group", "recipe", "exists", "build"} => st.n = 0
    /\ st.pc = "blobs" => st.n \in 0 .. 2 /\ Stored(store, PublicationOf(st), st.n)
    /\ st.pc = "link" => Linkable(store, Reg!ParseManifest(PublicationOf(st)))

\* The invariant of the registry and its clients: the stores are whole, and what
\* a publication has written so far is there.
Inv ==
    /\ StoreOK(origin) /\ StoreOK(cache) /\ fetching \subseteq DOMAIN origin.manifests
    /\ \A root \in project.roots : root.id \in Nat
    /\ DOMAIN upload = Upload /\ \A u \in Upload : UploadInv(upload[u], origin)
    /\ DOMAIN host = Host /\ \A h \in Host : HostInv(host[h], cache)

\* What a store gains disturbs no publication.
LEMMA UploadStays ==
    ASSUME NEW up, NEW s, NEW t, UploadInv(up, s), Grows(s, t)
    PROVE  UploadInv(up, t)
BY DEF UploadInv, Stored, Linkable, Grows

\* What is known of a host survives the growth of a store.
LEMMA HostStays ==
    ASSUME NEW st, NEW s, NEW t, HostInv(st, s), Grows(s, t)
    PROVE  HostInv(st, t)
BY DEF HostInv, Stored, Linkable, Grows

\* A step of one upload keeps the invariant if it keeps the upload's part.
LEMMA UploadsKeep ==
    ASSUME Inv, NEW u \in Upload, DOMAIN upload' = Upload,
           \A v \in Upload \ {u} : upload'[v] = upload[v],
           StoreOK(origin'), Grows(origin, origin'), UploadInv(upload'[u], origin'),
           UNCHANGED <<cache, fetching, project, host>>
    PROVE  Inv'
<1>1. \A v \in Upload : UploadInv(upload'[v], origin')
  BY UploadStays DEF Inv
<1>2. fetching' \subseteq DOMAIN origin'.manifests
  BY DEF Inv, Grows
<1> QED
  BY <1>1, <1>2 DEF Inv

\* So does a step of one host.
LEMMA HostsKeep ==
    ASSUME Inv, NEW h \in Host, NEW next, Step(h, next),
           StoreOK(cache'), Grows(cache, cache'), HostInv(next, cache'),
           UNCHANGED <<origin, upload, fetching, project>>
    PROVE  Inv'
<1>1. /\ DOMAIN host' = Host /\ host'[h] = next
      /\ \A g \in Host \ {h} : host'[g] = host[g]
  BY DEF Inv, Step
<1>2. \A g \in Host : HostInv(host'[g], cache')
  BY <1>1, HostStays DEF Inv
<1> QED
  BY <1>1, <1>2 DEF Inv

\* The command sends its manifest or gives up,
LEMMA SubmitKeeps ==
    ASSUME Inv, NEW u \in Upload, Submit(u)
    PROVE  Inv'
<1>1. PICK raw, up, next : raw = Outgoing(upload[u]) /\ up = upload[u] /\ next = upload'[u]
  OBVIOUS
<1>2. up.pc = "command" /\ UploadOK(up) /\ {"pc", "n", "raw", "file"} \subseteq DOMAIN up
  BY <1>1 DEF Submit, Uploading, Inv, UploadInv
<1>3. next = IF ~Bad(raw) /\ Sendable(up, raw) THEN [up EXCEPT !.pc = "sent", !.raw = raw]
             ELSE [up EXCEPT !.pc = "refused"]
  BY <1>1 DEF Submit, Inv
<1>4. ~Bad(raw) => RawOK(raw)
  BY <1>1, <1>2, OutgoingIsRaw
<1>5. UploadInv(next, origin)
  BY <1>2, <1>3, <1>4 DEF UploadInv, UploadOK
<1>6. /\ DOMAIN upload' = Upload /\ \A v \in Upload \ {u} : upload'[v] = upload[v]
      /\ StoreOK(origin') /\ Grows(origin, origin') /\ UNCHANGED <<cache, fetching, project, host>> /\ origin' = origin
  BY DEF Submit, Inv, RegistryOnly, Grows
<1> QED
  BY <1>1, <1>5, <1>6, UploadsKeep

\* the handler parses it,
LEMMA ReceiveKeeps ==
    ASSUME Inv, NEW u \in Upload, Receive(u)
    PROVE  Inv'
<1>1. PICK up, next : up = upload[u] /\ next = upload'[u]
  OBVIOUS
<1>2. up.pc = "sent" /\ RawOK(up.raw) /\ up.n = 0 /\ {"pc", "n", "raw", "file"} \subseteq DOMAIN up
  BY <1>1 DEF Receive, Uploading, Inv, UploadInv
<1>3. next = [up EXCEPT !.pc = IF up.allowed /\ ~Bad(Reg!ParseManifest(up.raw)) THEN "blobs" ELSE "refused"]
  BY <1>1 DEF Receive, Inv, Manifest
<1>4. 0 \in 0 .. Len(up.raw.arts)
  <2>1. PICK a, E : a = up.raw.arts /\ E = Range(a) /\ a \in Seq(E)
    BY <1>2 DEF RawOK
  <2> QED
    BY <2>1
<1>5. UploadInv(next, origin)
  BY <1>2, <1>3, <1>4 DEF UploadInv, Stored
<1>6. /\ DOMAIN upload' = Upload /\ \A v \in Upload \ {u} : upload'[v] = upload[v]
      /\ StoreOK(origin') /\ Grows(origin, origin') /\ UNCHANGED <<cache, fetching, project, host>> /\ origin' = origin
  BY DEF Receive, Inv, RegistryOnly, Grows
<1> QED
  BY <1>1, <1>5, <1>6, UploadsKeep

\* and writes the artifacts,
LEMMA UploadBlobKeeps ==
    ASSUME Inv, NEW u \in Upload, UploadBlob(u)
    PROVE  Inv'
<1>1. PICK up, next : up = upload[u] /\ next = upload'[u]
  OBVIOUS
<1>2. /\ up.pc = "blobs" /\ RawOK(up.raw) /\ {"pc", "n", "raw", "file"} \subseteq DOMAIN up
      /\ ~Bad(Reg!ParseManifest(up.raw)) /\ up.n \in 0 .. Len(up.raw.arts) /\ Stored(origin, up.raw, up.n)
      /\ up.n < Len(up.raw.arts)
  BY <1>1 DEF UploadBlob, Uploading, Inv, UploadInv
<1>3. Len(up.raw.arts) \in Nat
  <2>1. PICK a, E : a = up.raw.arts /\ E = Range(a) /\ a \in Seq(E)
    BY <1>2 DEF RawOK
  <2> QED
    BY <2>1
<1>4. PICK d : d = up.raw.arts[up.n + 1].digest
  OBVIOUS
<1>5. /\ DOMAIN upload' = Upload /\ \A v \in Upload \ {u} : upload'[v] = upload[v]
      /\ UNCHANGED <<cache, fetching, project, host>>
  BY DEF UploadBlob, Inv, RegistryOnly
<1>6. CASE origin' = WriteBlob(origin, d) /\ next = [up EXCEPT !.n = @ + 1]
  <2>1. StoreOK(origin') /\ Grows(origin, origin') /\ d \in origin'.blobs
    BY <1>6, WriteBlobKeeps DEF Inv
  <2>2. /\ next.pc = "blobs" /\ next.raw = up.raw /\ next.n = up.n + 1
        /\ {"pc", "n", "raw", "file"} \subseteq DOMAIN next
    BY <1>2, <1>6
  <2>3. Stored(origin', up.raw, up.n + 1)
    BY <1>2, <1>3, <1>4, <2>1 DEF Stored, Grows
  <2>4. UploadInv(next, origin')
    BY <1>2, <1>3, <2>2, <2>3 DEF UploadInv
  <2> QED
    BY <1>1, <1>5, <2>1, <2>4, UploadsKeep
<1>7. CASE next = [up EXCEPT !.pc = "refused"] /\ origin' = origin
  <2>1. UploadInv(next, origin)
    BY <1>2, <1>7 DEF UploadInv
  <2>2. StoreOK(origin') /\ Grows(origin, origin')
    BY <1>7 DEF Inv, Grows
  <2> QED
    BY <1>1, <1>5, <1>7, <2>1, <2>2, UploadsKeep
<1> QED
  BY <1>1, <1>4, <1>6, <1>7 DEF UploadBlob, Inv

\* A publication whose artifacts are all there can be linked.
LEMMA WrittenIsLinkable ==
    ASSUME NEW s, NEW raw, NEW m, RawOK(raw), m = Reg!ParseManifest(raw), ~Bad(m),
           Stored(s, raw, Len(raw.arts)), Reg!ReleaseOf(m) \in s.dirs
    PROVE  Linkable(s, m)
BY ParsedIsRaw DEF Linkable, Stored

\* the directory, unless the manifest is there,
LEMMA UploadDirectoryKeeps ==
    ASSUME Inv, NEW u \in Upload, UploadDirectory(u)
    PROVE  Inv'
<1>1. PICK up, next, m : up = upload[u] /\ next = upload'[u] /\ m = Reg!ParseManifest(up.raw)
  OBVIOUS
<1>2. /\ up.pc = "blobs" /\ RawOK(up.raw) /\ {"pc", "n", "raw", "file"} \subseteq DOMAIN up
      /\ ~Bad(m) /\ up.n \in 0 .. Len(up.raw.arts) /\ Stored(origin, up.raw, up.n)
      /\ up.n = Len(up.raw.arts)
  BY <1>1 DEF UploadDirectory, Uploading, Inv, UploadInv, BlobsWritten
<1>3. /\ DOMAIN upload' = Upload /\ \A v \in Upload \ {u} : upload'[v] = upload[v]
      /\ UNCHANGED <<cache, fetching, project, host>>
  BY DEF UploadDirectory, Inv, RegistryOnly
<1>4. CASE Exists(origin, m)
  <2>1. /\ next = [up EXCEPT !.pc = IF Same(origin, m) THEN Written(u) ELSE "refused"]
        /\ origin' = origin
    BY <1>1, <1>4 DEF UploadDirectory, Manifest, Inv
  <2>2. UploadInv(next, origin)
    BY <1>2, <2>1 DEF UploadInv, Written
  <2>3. StoreOK(origin') /\ Grows(origin, origin')
    BY <2>1 DEF Inv, Grows
  <2> QED
    BY <1>1, <1>3, <2>1, <2>2, <2>3, UploadsKeep
<1>5. CASE ~Exists(origin, m)
  <2>1. next = [up EXCEPT !.pc = "link"] /\ origin' = MakeDirectory(origin, m)
    BY <1>1, <1>5 DEF UploadDirectory, Manifest, Inv
  <2>2. Reg!ReleaseOf(m) \in Nat \X Reg!Versions
    BY <1>1, <1>2, ParsedIsRaw
  <2>3. StoreOK(origin') /\ Grows(origin, origin') /\ Reg!ReleaseOf(m) \in origin'.dirs
    BY <2>1, <2>2, MakeDirectoryKeeps DEF Inv
  <2>4. Stored(origin', up.raw, up.n)
    BY <1>2, <2>3 DEF Stored, Grows
  <2>5. Linkable(origin', m)
    BY <1>1, <1>2, <2>3, <2>4, WrittenIsLinkable
  <2>6. /\ next.pc = "link" /\ next.raw = up.raw /\ next.n = up.n
        /\ {"pc", "n", "raw", "file"} \subseteq DOMAIN next
    BY <1>2, <2>1
  <2>7. UploadInv(next, origin')
    BY <1>1, <1>2, <2>4, <2>5, <2>6 DEF UploadInv
  <2> QED
    BY <1>1, <1>3, <2>3, <2>7, UploadsKeep
<1> QED
  BY <1>4, <1>5

\* and the manifest last.
LEMMA UploadLinkKeeps ==
    ASSUME Inv, NEW u \in Upload, UploadLink(u)
    PROVE  Inv'
<1>1. PICK up, next, m : up = upload[u] /\ next = upload'[u] /\ m = Reg!ParseManifest(up.raw)
  OBVIOUS
<1>2. up.pc = "link" /\ {"pc", "n", "raw", "file"} \subseteq DOMAIN up /\ Linkable(origin, m)
  BY <1>1 DEF UploadLink, Uploading, Inv, UploadInv
<1>3. /\ DOMAIN upload' = Upload /\ \A v \in Upload \ {u} : upload'[v] = upload[v]
      /\ UNCHANGED <<cache, fetching, project, host>>
  BY DEF UploadLink, Inv, RegistryOnly
<1>4. origin' = Link(origin, m)
  BY <1>1 DEF UploadLink, Manifest
<1>5. StoreOK(origin') /\ Grows(origin, origin')
  BY <1>2, <1>4, LinkKeeps DEF Inv
<1>6. \E pc \in {"record", "created", "refused"} : next = [up EXCEPT !.pc = pc]
  BY <1>1 DEF UploadLink, Inv, Written
<1>7. UploadInv(next, origin')
  BY <1>2, <1>6 DEF UploadInv
<1> QED
  BY <1>1, <1>3, <1>5, <1>7, UploadsKeep

\* What follows a publication leaves the store.
LEMMA RecordKeeps ==
    ASSUME Inv, NEW u \in Upload, Record(u) \/ Rewrite(u)
    PROVE  Inv'
<1>1. PICK up, next : up = upload[u] /\ next = upload'[u]
  OBVIOUS
<1>2. up.pc \in {"record", "created"} /\ {"pc", "n", "raw", "file"} \subseteq DOMAIN up
  BY <1>1 DEF Record, Rewrite, Uploading, Inv, UploadInv
<1>3. next = [up EXCEPT !.pc = "created"] \/ next = [up EXCEPT !.pc = "done", !.file = up.raw]
  BY <1>1 DEF Record, Rewrite, Inv
<1>4. UploadInv(next, origin)
  BY <1>2, <1>3 DEF UploadInv
<1>5. /\ DOMAIN upload' = Upload /\ \A v \in Upload \ {u} : upload'[v] = upload[v]
      /\ StoreOK(origin') /\ Grows(origin, origin') /\ UNCHANGED <<cache, fetching, project, host>> /\ origin' = origin
  BY DEF Record, Rewrite, Inv, RegistryOnly, Grows
<1> QED
  BY <1>1, <1>4, <1>5, UploadsKeep

\* A preparation that failed starts over with the next group, or not at all.
LEMMA FallbackKeeps ==
    ASSUME Inv, NEW h \in Host, NEW why, host[h].pc # "off"
    PROVE  HostInv(Fallback(h, why), cache)
<1>1. PICK st, next : st = host[h] /\ next = Fallback(h, why)
  OBVIOUS
<1>2. HostInv(st, cache)
  BY <1>1 DEF Inv
<1>3. \/ next = [st EXCEPT !.pc = "group", !.k = @ + 1, !.n = 0, !.recipe = << >>, !.why = why]
      \/ next = [st EXCEPT !.pc = "failed", !.why = why]
  BY <1>1 DEF Fallback
<1> QED
  BY <1>1, <1>2, <1>3 DEF HostInv

\* The steps of a start that write nothing,
LEMMA LoadApplicationKeeps ==
    ASSUME Inv, NEW h \in Host, LoadApplication(h)
    PROVE  Inv'
<1>1. PICK st, app, next : /\ st = host[h] /\ app = LoadApp(Config(h).app, Config(h).env)
                           /\ next = [st EXCEPT !.app = app, !.pc = IF Bad(app) THEN "failed" ELSE "group"]
  OBVIOUS
<1>2. HostInv(st, cache) /\ st.pc = "load" /\ StoreOK(cache)
  BY <1>1 DEF LoadApplication, At, Inv
<1>3. Step(h, next) /\ UNCHANGED <<origin, upload, fetching, project>> /\ cache' = cache
  BY <1>1, Zenon DEF LoadApplication, HostOnly, NoWrite
<1>4. HostInv(next, cache)
  BY <1>1, <1>2 DEF HostInv
<1> QED
  BY <1>2, <1>3, <1>4, HostsKeep DEF Grows

\* The loop of Prepare over the groups goes on, or ends with a layout.
LEMMA NextGroupKeeps ==
    ASSUME Inv, NEW h \in Host, NextGroup(h)
    PROVE  Inv'
<1>1. PICK st : st = host[h]
  OBVIOUS
<1>2. HostInv(st, cache) /\ st.pc = "group" /\ StoreOK(cache)
  BY <1>1 DEF NextGroup, At, Inv
<1>3. PICK next : /\ Step(h, next)
                  /\ \/ \E l : next = [st EXCEPT !.layout = l, !.pc = IF Bad(l) THEN "failed" ELSE "started"]
                     \/ \E pc \in {"failed", "recipe", "group"} : \E k : next = [st EXCEPT !.pc = pc, !.k = k]
  <2>1. CASE host[h].k \notin DOMAIN Groups(App(h).cells)
    BY <1>1, <2>1, Zenon DEF NextGroup
  <2>2. CASE host[h].k \in DOMAIN Groups(App(h).cells)
    <3>1. PICK pc, k : /\ pc = CASE OverlapsUnit(App(h), GroupOf(h)) -> "failed"
                                 [] CoveredMembers(App(h), GroupOf(h)) = {} -> "recipe"
                                 [] OTHER -> "group"
                       /\ k = IF ~OverlapsUnit(App(h), GroupOf(h)) /\ CoveredMembers(App(h), GroupOf(h)) # {}
                              THEN st.k + 1 ELSE st.k
      OBVIOUS
    <3>2. pc \in {"failed", "recipe", "group"}
      BY <3>1 DEF OverlapsUnit
    <3>3. Step(h, [st EXCEPT !.pc = pc, !.k = k])
      BY <1>1, <2>2, <3>1 DEF NextGroup
    <3> QED
      BY <3>2, <3>3
  <2> QED
    BY <2>1, <2>2
<1>4. UNCHANGED <<origin, upload, fetching, project>> /\ cache' = cache
  BY DEF NextGroup, HostOnly, NoWrite
<1>5. HostInv(next, cache)
  BY <1>2, <1>3 DEF HostInv
<1> QED
  BY <1>2, <1>3, <1>4, <1>5, HostsKeep DEF Grows

\* The listing fails, or the release is there, or it can be built, or it cannot.
Decided(h, next) ==
    \/ next = Fallback(h, "list") \/ next = Fallback(h, "absent")
    \/ next = [host[h] EXCEPT !.pc = "resolve"] \/ next = [host[h] EXCEPT !.pc = "build"]

LEMMA ExistsDecides ==
    ASSUME NEW h \in Host, NEW down, ReleaseExists(h, down)
    PROVE  \E next : Step(h, next) /\ Decided(h, next)
<1>1. PICK a, b, c, d : /\ a = Fallback(h, "list") /\ b = [host[h] EXCEPT !.pc = "resolve"]
                        /\ c = [host[h] EXCEPT !.pc = "build"] /\ d = Fallback(h, "absent")
  OBVIOUS
<1>2. PICK p, q, w : /\ p <=> Reg!ListingFails(cache, origin, meta, down, Fused(h)[1])
                     /\ q <=> Fused(h)[2] \in Seen(down).versions[Fused(h)[1]]
                     /\ w <=> Config(h).publishes
  OBVIOUS
<1>3. PICK next : next = CASE p -> a [] ~p /\ q -> b [] ~p /\ ~q /\ w -> c [] OTHER -> d
  OBVIOUS
<1>4. Step(h, next)
  BY <1>1, <1>2, <1>3 DEF ReleaseExists
<1>5. next \in {a, b, c, d}
  BY <1>3
<1> QED
  BY <1>1, <1>4, <1>5 DEF Decided

\* The question whether the fused release exists writes nothing.
LEMMA ReleaseExistsKeeps ==
    ASSUME Inv, NEW h \in Host, NEW down, ReleaseExists(h, down)
    PROVE  Inv'
<1>1. PICK st : st = host[h]
  OBVIOUS
<1>2. HostInv(st, cache) /\ st.pc = "exists" /\ StoreOK(cache)
  BY <1>1 DEF ReleaseExists, At, Inv
<1>3. PICK next : Step(h, next) /\ Decided(h, next)
  BY ExistsDecides
<1>4. UNCHANGED <<origin, upload, fetching, project>> /\ cache' = cache
  BY DEF ReleaseExists, HostOnly, NoWrite
<1>5. HostInv(next, cache)
  BY <1>1, <1>2, <1>3, FallbackKeeps DEF Decided, HostInv
<1> QED
  BY <1>2, <1>3, <1>4, <1>5, HostsKeep DEF Grows

\* A build writes nothing to a store; what it made is published next.
LEMMA BuildKeeps ==
    ASSUME Inv, NEW h \in Host, Build(h)
    PROVE  Inv'
<1>1. PICK st : st = host[h]
  OBVIOUS
<1>2. HostInv(st, cache) /\ st.pc = "build" /\ StoreOK(cache)
  BY <1>1 DEF Build, At, Inv
<1>3. PICK next : Step(h, next) /\ (next = Fallback(h, "build") \/ next = [st EXCEPT !.pc = "blobs"])
  BY <1>1 DEF Build
<1>4. UNCHANGED <<origin, upload, fetching, project>> /\ cache' = cache
  BY DEF Build, HostOnly, NoWrite
<1>5. HostInv(next, cache)
  <2>1. CASE next = Fallback(h, "build")
    BY <1>1, <1>2, <2>1, FallbackKeeps
  <2>2. CASE next = [st EXCEPT !.pc = "blobs"]
    <3>1. next.pc = "blobs" /\ next.n = 0 /\ next.config = st.config /\ DOMAIN next = DOMAIN st
      BY <1>2, <2>2 DEF HostInv
    <3> QED
      BY <1>2, <3>1 DEF HostInv, Stored
  <2> QED
    BY <1>3, <2>1, <2>2
<1> QED
  BY <1>2, <1>3, <1>4, <1>5, HostsKeep DEF Grows

\* those that read through the cache,
LEMMA ReadSourcesKeeps ==
    ASSUME Inv, NEW h \in Host, NEW down, ReadSources(h, down)
    PROVE  Inv'
<1>1. PICK st : st = host[h]
  OBVIOUS
<1>2. HostInv(st, cache) /\ st.pc = "recipe"
  BY <1>1 DEF ReadSources, At, Inv
<1>3. PICK next : /\ Step(h, next)
                  /\ next = Fallback(h, "recipe") \/ \E rec : next = [st EXCEPT !.pc = "exists", !.recipe = rec]
  BY <1>1, Zenon DEF ReadSources
<1>4. PICK rs : cache' = Reg!Filled(cache, origin, meta, down, rs)
  BY Zenon DEF ReadSources
<1>5. UNCHANGED <<origin, upload, fetching, project>>
  BY DEF ReadSources, HostOnly
<1>6. StoreOK(cache') /\ Grows(cache, cache')
  BY <1>4, FilledKeeps DEF Inv
<1>7. HostInv(next, cache)
  BY <1>1, <1>2, <1>3, FallbackKeeps DEF HostInv
<1>8. HostInv(next, cache')
  BY <1>6, <1>7, HostStays
<1> QED
  BY <1>3, <1>5, <1>6, <1>8, HostsKeep

\* The resolution of the fused release fills the cache.
LEMMA ResolveReleaseKeeps ==
    ASSUME Inv, NEW h \in Host, NEW down, ResolveRelease(h, down)
    PROVE  Inv'
<1>1. PICK st : st = host[h]
  OBVIOUS
<1>2. HostInv(st, cache) /\ st.pc = "resolve"
  BY <1>1 DEF ResolveRelease, At, Inv
<1>3. PICK next : Step(h, next) /\ (next = Fallback(h, "resolve") \/ next = [st EXCEPT !.pc = "select"])
  BY <1>1, Zenon DEF ResolveRelease
<1>4. cache' = Reg!Filled(cache, origin, meta, down, {Fused(h)})
  BY DEF ResolveRelease
<1>5. UNCHANGED <<origin, upload, fetching, project>>
  BY DEF ResolveRelease, HostOnly
<1>6. StoreOK(cache') /\ Grows(cache, cache')
  BY <1>4, FilledKeeps DEF Inv
<1>7. HostInv(next, cache)
  BY <1>1, <1>2, <1>3, FallbackKeeps DEF HostInv
<1>8. HostInv(next, cache')
  BY <1>6, <1>7, HostStays
<1> QED
  BY <1>3, <1>5, <1>6, <1>8, HostsKeep

\* An activation adds a unit to the layout.
LEMMA ActivateKeeps ==
    ASSUME Inv, NEW h \in Host, NEW down, Activate(h, down)
    PROVE  Inv'
<1>1. PICK st : st = host[h]
  OBVIOUS
<1>2. HostInv(st, cache) /\ st.pc = "select" /\ StoreOK(cache)
  BY <1>1 DEF Activate, At, Inv
<1>3. PICK next : /\ Step(h, next)
                  /\ \/ next = Fallback(h, "select")
                     \/ \E x : next = [st EXCEPT !.pc = "group", !.k = @ + 1, !.n = 0, !.recipe = << >>,
                                                 !.units = Append(@, x)]
  BY <1>1, Zenon DEF Activate
<1>4. UNCHANGED <<origin, upload, fetching, project>> /\ cache' = cache
  BY DEF Activate, HostOnly
<1>5. HostInv(next, cache)
  BY <1>1, <1>2, <1>3, FallbackKeeps DEF HostInv
<1> QED
  BY <1>2, <1>3, <1>4, <1>5, HostsKeep DEF Grows

\* A host that is restarted starts over, with what the stores hold.
LEMMA CrashKeeps ==
    ASSUME Inv, NEW h \in Host, Crash(h)
    PROVE  Inv'
<1>1. PICK st, next : st = host[h] /\ next = Fresh(st.config)
  OBVIOUS
<1>2. HostInv(st, cache) /\ st.pc # "off" /\ StoreOK(cache)
  BY <1>1 DEF Crash, Inv
<1>3. Step(h, next) /\ UNCHANGED <<origin, upload, fetching, project>> /\ cache' = cache
  BY <1>1 DEF Crash, Config
<1>4. HostInv(next, cache)
  BY <1>1, <1>2 DEF HostInv, Fresh
<1> QED
  BY <1>2, <1>3, <1>4, HostsKeep DEF Grows

\* The manifest of a fused artifact is a manifest, of two artifacts.
LEMMA FusedIsRaw ==
    ASSUME NEW st, NEW raw, NEW m, ConfigOK(st.config), raw = PublicationOf(st), m = Reg!ParseManifest(raw)
    PROVE  /\ RawOK(raw) /\ ~Bad(m) /\ Len(raw.arts) = 2
           /\ Reg!ReleaseOf(m) = <<st.config.module, st.config.version>>
<1>1. PICK a, b, t, d, e : /\ raw.arts = <<a, b>> /\ t = st.config.target
                           /\ a = [target |-> <<t>>, digest |-> d] /\ b = [target |-> <<t, "fusion-attestation">>, digest |-> e]
  BY DEF PublicationOf, RegistryPublication, AttestationTarget
<1>2. /\ raw.id = st.config.module /\ raw.version = st.config.version /\ raw.deps = << >>
      /\ {"id", "version", "deps", "arts", "provides", "capabilities", "abi"} = DOMAIN raw
  BY DEF PublicationOf, RegistryPublication
<1>3. raw.id \in Nat /\ raw.id # 0 /\ raw.version \in Reg!Versions
  BY <1>2, ModuleIDsAssumption DEF ConfigOK
<1>4. RawOK(raw) /\ Len(raw.arts) = 2
  <2>1. Range(raw.arts) = {a, b}
    <3>1. DOMAIN raw.arts = {1, 2}
      BY <1>1
    <3>2. Range(raw.arts) = {raw.arts[1], raw.arts[2]}
      BY <3>1 DEF Range
    <3> QED
      BY <1>1, <3>2
  <2>2. raw.arts \in Seq(Range(raw.arts)) /\ Len(raw.arts) = 2
    BY <1>1, <2>1
  <2> QED
    BY <1>2, <1>3, <2>2 DEF RawOK
<1>5. ~Bad(m)
  <2>1. a.target # b.target
    <3>1. Len(<<t>>) = 1 /\ Len(<<t, "fusion-attestation">>) = 2
      OBVIOUS
    <3>2. a.target = <<t>> /\ b.target = <<t, "fusion-attestation">>
      BY <1>1
    <3> QED
      BY <3>1, <3>2
  <2>2. \A i, j \in DOMAIN raw.arts : raw.arts[i].target = raw.arts[j].target => i = j
    <3>1. DOMAIN raw.arts = {1, 2} /\ raw.arts[1] = a /\ raw.arts[2] = b
      BY <1>1
    <3> QED
      BY <2>1, <3>1
  <2>3. raw.arts # << >>
    BY <1>1
  <2>4. DOMAIN raw.deps = {}
    BY <1>2
  <2>5. "err" \notin DOMAIN m
    BY <1>3, <2>2, <2>3, <2>4 DEF Reg!ParseManifest, Reg!Distinct, Reg!Keyed
  <2> QED
    BY <2>5 DEF Bad
<1>6. Reg!ReleaseOf(m) = <<raw.id, raw.version>>
  BY <1>4, <1>5, ParsedIsRaw
<1> QED
  BY <1>2, <1>4, <1>5, <1>6

\* What a host publishes depends on its recipe and its configuration.
LEMMA PublishingIs ==
    ASSUME NEW h \in Host
    PROVE  /\ Publishing(h) = PublicationOf(host[h])
           /\ FusedManifest(h) = Reg!ParseManifest(PublicationOf(host[h]))
BY DEF Publishing, FusedManifest, PublicationOf, Result, Fused, Config

\* and those that publish: the artifacts,
LEMMA PublishBlobKeeps ==
    ASSUME Inv, NEW h \in Host, PublishBlob(h)
    PROVE  Inv'
<1>1. PICK st, raw, next : st = host[h] /\ raw = PublicationOf(st) /\ next = [st EXCEPT !.n = @ + 1]
  OBVIOUS
<1>2. HostInv(st, cache) /\ st.pc = "blobs" /\ ConfigOK(st.config)
  BY <1>1 DEF PublishBlob, At, Inv, HostInv
<1>3. st.n \in 0 .. 2 /\ st.n # 2 /\ Stored(cache, raw, st.n)
  <2>1. Len(raw.arts) = 2
    BY <1>1, <1>2, FusedIsRaw
  <2> QED
    BY <1>1, <1>2, <2>1, PublishingIs DEF PublishBlob, BlobsWritten, HostInv
<1>4. PICK d : d = raw.arts[st.n + 1].digest
  OBVIOUS
<1>5. cache' = WriteBlob(cache, d)
  BY <1>1, <1>4, PublishingIs DEF PublishBlob
<1>6. StoreOK(cache') /\ Grows(cache, cache') /\ d \in cache'.blobs
  BY <1>5, WriteBlobKeeps DEF Inv
<1>7. /\ next.pc = "blobs" /\ next.n = st.n + 1 /\ next.config = st.config /\ next.recipe = st.recipe
      /\ DOMAIN next = DOMAIN st
  BY <1>1, <1>2 DEF HostInv
<1>8. PublicationOf(next) = raw
  BY <1>1, <1>7 DEF PublicationOf
<1>9. Stored(cache', raw, st.n + 1)
  BY <1>3, <1>4, <1>6 DEF Stored, Grows
<1>10. HostInv(next, cache')
  BY <1>2, <1>3, <1>7, <1>8, <1>9 DEF HostInv
<1>11. Step(h, next) /\ UNCHANGED <<origin, upload, fetching, project>>
  BY <1>1 DEF PublishBlob, HostOnly
<1> QED
  BY <1>6, <1>10, <1>11, HostsKeep

\* the directory
LEMMA PublishDirectoryKeeps ==
    ASSUME Inv, NEW h \in Host, PublishDirectory(h)
    PROVE  Inv'
<1>1. PICK st, raw, m : st = host[h] /\ raw = PublicationOf(st) /\ m = Reg!ParseManifest(raw)
  OBVIOUS
<1>2. HostInv(st, cache) /\ st.pc = "blobs" /\ ConfigOK(st.config) /\ StoreOK(cache)
  BY <1>1 DEF PublishDirectory, At, Inv, HostInv
<1>3. RawOK(raw) /\ ~Bad(m) /\ Len(raw.arts) = 2
  BY <1>1, <1>2, FusedIsRaw
<1>4. Publishing(h) = raw /\ FusedManifest(h) = m
  BY <1>1, PublishingIs
<1>5. Stored(cache, raw, Len(raw.arts))
  BY <1>1, <1>2, <1>3, <1>4 DEF PublishDirectory, BlobsWritten, HostInv
<1>6. UNCHANGED <<origin, upload, fetching, project>>
  BY DEF PublishDirectory, HostOnly
<1>7. CASE Exists(cache, m)
  <2>1. PICK next : Step(h, next) /\ (next = Fallback(h, "conflict") \/ next = [st EXCEPT !.pc = "resolve"])
    <3>1. PICK p, a, b, c : /\ (p <=> Same(cache, m)) /\ a = Fallback(h, "conflict")
                            /\ b = [st EXCEPT !.pc = "resolve"] /\ c = [st EXCEPT !.pc = "link"]
      OBVIOUS
    <3>2. Step(h, CASE ~Exists(cache, m) -> c [] p -> b [] OTHER -> a)
      BY <1>1, <1>4, <3>1 DEF PublishDirectory
    <3>3. PICK next : next = CASE ~Exists(cache, m) -> c [] p -> b [] OTHER -> a
      OBVIOUS
    <3>4. next \in {a, b}
      BY <1>7, <3>3
    <3> QED
      BY <3>1, <3>2, <3>3, <3>4
  <2>2. cache' = cache
    BY <1>4, <1>7 DEF PublishDirectory
  <2>3. HostInv(next, cache)
    BY <1>1, <1>2, <2>1, FallbackKeeps DEF HostInv
  <2> QED
    BY <1>2, <1>6, <2>1, <2>2, <2>3, HostsKeep DEF Grows
<1>8. CASE ~Exists(cache, m)
  <2>1. PICK next : next = [st EXCEPT !.pc = "link"]
    OBVIOUS
  <2>2. Step(h, next) /\ cache' = MakeDirectory(cache, m)
    <3>1. PICK p, a, b : /\ (p <=> Same(cache, m)) /\ a = Fallback(h, "conflict")
                         /\ b = [st EXCEPT !.pc = "resolve"]
      OBVIOUS
    <3>2. Step(h, CASE ~Exists(cache, m) -> next [] p -> b [] OTHER -> a)
      BY <1>1, <1>4, <2>1, <3>1 DEF PublishDirectory
    <3>3. next = CASE ~Exists(cache, m) -> next [] p -> b [] OTHER -> a
      BY <1>8, <3>1 DEF Same
    <3>4. cache' = MakeDirectory(cache, m)
      BY <1>4, <1>8 DEF PublishDirectory
    <3> QED
      BY <3>2, <3>3, <3>4
  <2>3. Reg!ReleaseOf(m) \in Nat \X Reg!Versions
    BY <1>1, <1>3, ParsedIsRaw
  <2>4. StoreOK(cache') /\ Grows(cache, cache') /\ Reg!ReleaseOf(m) \in cache'.dirs
    BY <1>2, <2>2, <2>3, MakeDirectoryKeeps
  <2>5. Linkable(cache', m)
    <3>1. Stored(cache', raw, Len(raw.arts))
      BY <1>5, <2>4 DEF Stored, Grows
    <3> QED
      BY <1>1, <1>3, <2>4, <3>1, WrittenIsLinkable
  <2>6. /\ next.pc = "link" /\ next.config = st.config /\ next.recipe = st.recipe
        /\ DOMAIN next = DOMAIN st
    BY <1>2, <2>1 DEF HostInv
  <2>7. PublicationOf(next) = raw
    BY <1>1, <2>6 DEF PublicationOf
  <2>8. HostInv(next, cache')
    BY <1>1, <1>2, <2>5, <2>6, <2>7 DEF HostInv
  <2> QED
    BY <1>6, <2>2, <2>4, <2>8, HostsKeep
<1> QED
  BY <1>7, <1>8

\* and the manifest.
LEMMA PublishLinkKeeps ==
    ASSUME Inv, NEW h \in Host, PublishLink(h)
    PROVE  Inv'
<1>1. PICK st, m : st = host[h] /\ m = Reg!ParseManifest(PublicationOf(st))
  OBVIOUS
<1>2. HostInv(st, cache) /\ st.pc = "link" /\ Linkable(cache, m)
  BY <1>1 DEF PublishLink, At, Inv, HostInv
<1>3. cache' = Link(cache, m)
  BY <1>1, PublishingIs DEF PublishLink
<1>4. StoreOK(cache') /\ Grows(cache, cache')
  BY <1>2, <1>3, LinkKeeps DEF Inv
<1>5. PICK next : Step(h, next) /\ (next = Fallback(h, "conflict") \/ next = [st EXCEPT !.pc = "resolve"])
  BY <1>1 DEF PublishLink
<1>6. HostInv(next, cache)
  BY <1>1, <1>2, <1>5, FallbackKeeps DEF HostInv
<1>7. HostInv(next, cache')
  BY <1>4, <1>6, HostStays
<1>8. UNCHANGED <<origin, upload, fetching, project>>
  BY DEF PublishLink, HostOnly
<1> QED
  BY <1>4, <1>5, <1>7, <1>8, HostsKeep

\* The project only reads, through the cache.
LEMMA SyncCopies ==
    ASSUME Inv, NEW down, NEW then, Sync(down, then)
    PROVE  Copies(cache, origin, cache')
<1>1. PICK rs : Verified(down) = Reg!Filled(cache, origin, meta, down, rs)
  BY Zenon DEF Verified
<1>2. Copies(cache, origin, Verified(down))
  BY <1>1, FilledCopies DEF Inv
<1>3. StoreOK(Verified(down)) /\ StoreOK(origin)
  BY <1>2 DEF Copies, Inv
<1>4. cache' = Verified(down) \/ \E ask : cache' = Reg!Filled(Verified(down), origin, meta, then, ask)
  BY Zenon DEF Sync
<1>5. CASE \E ask : cache' = Reg!Filled(Verified(down), origin, meta, then, ask)
  BY <1>2, <1>3, <1>5, FilledCopies, CopiesInTurn
<1> QED
  BY <1>2, <1>4, <1>5

\* So do the other clients, one write at a time.
LEMMA FetchCopies ==
    ASSUME Inv, NEW r \in DOMAIN origin.manifests, Fetch(r)
    PROVE  Copies(cache, origin, cache') /\ fetching' \subseteq DOMAIN origin.manifests
<1>1. PICK m : m = origin.manifests[r]
  OBVIOUS
<1>2. /\ Reg!ReleaseOf(m) = r /\ DOMAIN m.deps \subseteq Nat /\ r \in Nat \X Reg!Versions
      /\ StoreOK(cache) /\ fetching \subseteq DOMAIN origin.manifests
  BY <1>1 DEF Inv, StoreOK
<1>3. CASE Download(r)
  BY <1>2, <1>3 DEF Download, Copies, Grows
<1>4. ASSUME NEW d, FetchBlob(r, d)
      PROVE  Copies(cache, origin, cache') /\ fetching' \subseteq DOMAIN origin.manifests
  <2>1. cache' = WriteBlob(cache, d) /\ fetching' = fetching
    BY <1>4 DEF FetchBlob
  <2>2. cache'.manifests = cache.manifests
    BY <1>2, <2>1 DEF WriteBlob, StoreOK
  <2> QED
    BY <1>2, <2>1, <2>2, WriteBlobKeeps DEF Copies
<1>5. CASE FetchDirectory(r)
  <2>1. cache' = MakeDirectory(cache, m) /\ fetching' = fetching
    BY <1>1, <1>5 DEF FetchDirectory
  <2>2. cache'.manifests = cache.manifests
    BY <1>2, <2>1 DEF MakeDirectory, StoreOK
  <2> QED
    BY <1>2, <2>1, <2>2, MakeDirectoryKeeps DEF Copies
<1>6. CASE FetchLink(r)
  <2>1. cache' = Link(cache, m) /\ fetching' \subseteq fetching /\ Linkable(cache, m)
    BY <1>1, <1>2, <1>6 DEF FetchLink, Linkable
  <2>2. StoreOK(cache') /\ Grows(cache, cache')
    BY <1>2, <2>1, LinkKeeps
  <2>3. ASSUME NEW q \in DOMAIN cache'.manifests, q \notin DOMAIN cache.manifests
        PROVE  q = r /\ cache'.manifests[q] = m
    <3>1. ~Exists(cache, m)
      BY <2>1, <2>3 DEF Link
    <3>2. cache'.manifests = [x \in DOMAIN cache.manifests \cup {r} |-> IF x = r THEN m ELSE cache.manifests[x]]
      BY <1>2, <2>1, <3>1 DEF Link, StoreOK
    <3> QED
      BY <2>3, <3>2
  <2> QED
    BY <1>1, <1>2, <2>1, <2>2, <2>3 DEF Copies
<1> QED
  BY <1>3, <1>4, <1>5, <1>6 DEF Fetch

\* What is copied into the cache disturbs nobody.
LEMMA CopiesKeep ==
    ASSUME Inv, Copies(cache, origin, cache'), fetching' \subseteq DOMAIN origin.manifests,
           UNCHANGED <<origin, upload, project, host>>
    PROVE  Inv'
<1>1. StoreOK(cache') /\ Grows(cache, cache')
  BY DEF Copies
<1>2. \A h \in Host : HostInv(host[h], cache')
  BY <1>1, HostStays DEF Inv
<1> QED
  BY <1>1, <1>2 DEF Inv

LEMMA SyncKeeps ==
    ASSUME Inv, NEW down, NEW then, Sync(down, then)
    PROVE  Inv'
<1>1. UNCHANGED <<origin, upload, fetching, project, host>>
  BY DEF Sync
<1>2. fetching' \subseteq DOMAIN origin.manifests
  BY <1>1 DEF Inv
<1> QED
  BY <1>1, <1>2, SyncCopies, CopiesKeep

LEMMA FetchKeeps ==
    ASSUME Inv, NEW r \in DOMAIN origin.manifests, Fetch(r)
    PROVE  Inv'
<1>1. UNCHANGED <<origin, upload, project, host>>
  BY DEF Fetch, Download, FetchBlob, FetchDirectory, FetchLink, CacheOnly
<1> QED
  BY <1>1, FetchCopies, CopiesKeep

\* and the coordinators, when they look for sources and for the fused release.
LEMMA ReadingCopies ==
    ASSUME Inv, NEW h \in Host, NEW down, ReadSources(h, down) \/ ResolveRelease(h, down)
    PROVE  Copies(cache, origin, cache')
<1>1. \E rs : cache' = Reg!Filled(cache, origin, meta, down, rs)
  BY Zenon DEF ReadSources, ResolveRelease
<1> QED
  BY <1>1, FilledCopies DEF Inv

\* Nothing is published at the start.
LEMMA InitOK ==
    ASSUME Init
    PROVE  Inv
<1>1. PICK i \in Instances :
        /\ origin = i.origin
        /\ upload = [u \in Upload |-> i.uploads[u]]
        /\ cache = EmptyStore /\ fetching = {}
        /\ project = i.project
        /\ host = [h \in Host |-> Fresh(i.hosts[h])]
  BY DEF Init
<1>2. StoreOK(origin) /\ \A root \in project.roots : root.id \in Nat
  BY <1>1, InstancesAssumption
<1>3. StoreOK(cache)
  BY <1>1, FS_EmptySet DEF StoreOK, EmptyStore
<1>4. ASSUME NEW u \in Upload PROVE UploadInv(upload[u], origin)
  <2>1. PICK up : up = upload[u] /\ (up.pc = "off" \/ UploadOK(up))
    BY <1>1, InstancesAssumption
  <2>2. UploadInv(up, origin)
    BY <2>1 DEF UploadInv, UploadOK
  <2> QED
    BY <2>1, <2>2
<1>5. ASSUME NEW h \in Host PROVE HostInv(host[h], cache)
  <2>1. PICK config : config = i.hosts[h] /\ (config.app = Invalid \/ ConfigOK(config))
    BY InstancesAssumption
  <2>2. host[h] = Fresh(config)
    BY <1>1, <2>1
  <2>3. HostInv(Fresh(config), cache)
    BY <2>1 DEF HostInv, Fresh
  <2> QED
    BY <2>2, <2>3
<1> QED
  BY <1>1, <1>2, <1>3, <1>4, <1>5 DEF Inv

\* Every step keeps the invariant.
LEMMA NextKeeps ==
    ASSUME Inv, [Next]_vars
    PROVE  Inv'
<1>1. CASE UNCHANGED vars
  BY <1>1 DEF vars, Inv
<1>2. ASSUME NEW u \in Upload, Uploads(u) PROVE Inv'
  BY <1>2, SubmitKeeps, ReceiveKeeps, UploadBlobKeeps, UploadDirectoryKeeps, UploadLinkKeeps, RecordKeeps
  DEF Uploads
<1>3. ASSUME NEW r, NEW state, SetReleaseStatus(r, state) PROVE Inv'
  BY <1>3 DEF SetReleaseStatus, Inv
<1>4. ASSUME NEW down, NEW then, Sync(down, then) PROVE Inv'
  BY <1>4, SyncKeeps
<1>6. ASSUME NEW r \in DOMAIN origin.manifests, Fetch(r) PROVE Inv'
  BY <1>6, FetchKeeps
<1>5. ASSUME NEW h \in Host, LoadApplication(h) \/ NextGroup(h) \/ Prepare(h) \/ Crash(h) PROVE Inv'
  BY <1>5, LoadApplicationKeeps, NextGroupKeeps, CrashKeeps, ReadSourcesKeeps, ReleaseExistsKeeps, BuildKeeps,
     PublishBlobKeeps, PublishDirectoryKeeps, PublishLinkKeeps, ResolveReleaseKeeps, ActivateKeeps
  DEF Prepare
<1> QED
  BY <1>1, <1>2, <1>3, <1>4, <1>5, <1>6 DEF Next

\* The invariant holds throughout.
THEOREM InvHolds == Spec => []Inv
<1>1. Init => Inv
  BY InitOK
<1>2. Inv /\ [Next]_vars => Inv'
  BY NextKeeps
<1> QED
  BY <1>1, <1>2, PTL DEF Spec

\* A manifest that can be read has all its artifacts beside it, in the registry
\* and in the cache, whatever fails or dies between two writes (LocalStore.Publish).
THEOREM ReleasesAreComplete == Spec => []ReleaseIsComplete
<1>1. Inv => ReleaseIsComplete
  BY DEF Inv, StoreOK, ReleaseIsComplete
<1> QED
  BY <1>1, InvHolds, PTL

\* At every moment the solver finds a selection exactly when there is one, the
\* newest version of the first root, and what is locked verifies (Resolve, Verify).
THEOREM ResolutionsAreExact == Spec => []ResolutionIsExact
<1>1. Inv => ResolutionIsExact
  <2> SUFFICES ASSUME Inv, ParseProject(project), NEW down \in Outages
               PROVE  /\ Reg!SolvesExactly(Seen(down), project.roots)
                      /\ Reg!Resolve(Seen(down), project.target, project.roots) # Reg!NoLock =>
                            Reg!Verify(Seen(down), Reg!Resolve(Seen(down), project.target, project.roots))
    BY Zenon DEF ResolutionIsExact
  <2>1. PICK view, roots, new : /\ view = Seen(down) /\ roots = project.roots
                                /\ new = Reg!Resolve(view, project.target, roots)
    OBVIOUS
  <2>2. WellFormed(view, roots)
    BY <2>1, StoreIsWellFormed DEF Inv, Seen
  <2>3. roots # {}
    BY <2>1 DEF ParseProject
  <2>4. Reg!SolvesExactly(view, roots)
    BY <2>2, <2>3, SolverIsExact
  <2>5. \A r \in Reg!Readable(view) : Reg!Digests(view.manifests[r]) \subseteq view.blobs
    BY <2>1, ReadIsKept DEF Inv, Seen, Reg!Readable
  <2>6. new # Reg!NoLock => Reg!Verify(view, new)
    BY <2>1, <2>2, <2>5, LockVerifies
  <2> QED
    BY <2>1, <2>4, <2>6
<1> QED
  BY <1>1, InvHolds, PTL

\* Each write of a publication leaves the manifests that are there.
LEMMA WritesKeepManifests ==
    ASSUME NEW s, NEW t, StoreOK(s),
           \/ t = s
           \/ \E d : t = WriteBlob(s, d)
           \/ \E m : t = MakeDirectory(s, m)
           \/ \E m : t = Link(s, m),
           NEW r \in DOMAIN s.manifests
    PROVE  r \in DOMAIN t.manifests /\ t.manifests[r] = s.manifests[r]
<1>1. CASE t = s \/ (\E d : t = WriteBlob(s, d)) \/ (\E m : t = MakeDirectory(s, m))
  <2>1. t.manifests = s.manifests
    BY <1>1 DEF StoreOK, WriteBlob, MakeDirectory
  <2> QED
    BY <2>1
<1>2. ASSUME NEW m, t = Link(s, m) PROVE r \in DOMAIN t.manifests /\ t.manifests[r] = s.manifests[r]
  <2>1. PICK q : q = Reg!ReleaseOf(m)
    OBVIOUS
  <2>2. CASE Exists(s, m)
    BY <1>2, <2>2 DEF Link
  <2>3. CASE ~Exists(s, m)
    <3>1. t.manifests = [x \in DOMAIN s.manifests \cup {q} |-> IF x = q THEN m ELSE s.manifests[x]]
      BY <1>2, <2>1, <2>3 DEF StoreOK, Link
    <3>2. q \notin DOMAIN s.manifests
      BY <2>1, <2>3 DEF Exists
    <3> QED
      BY <3>1, <3>2
  <2> QED
    BY <2>2, <2>3
<1> QED
  BY <1>1, <1>2

\* No step changes or removes a release of either store.
LEMMA StoresAreImmutable ==
    ASSUME Inv, [Next]_vars
    PROVE  /\ \A r \in DOMAIN origin.manifests :
                r \in DOMAIN origin'.manifests /\ origin'.manifests[r] = origin.manifests[r]
           /\ \A r \in DOMAIN cache.manifests :
                r \in DOMAIN cache'.manifests /\ cache'.manifests[r] = cache.manifests[r]
<1>1. StoreOK(origin) /\ StoreOK(cache)
  BY DEF Inv
<1>2. \/ origin' = origin
      \/ \E d : origin' = WriteBlob(origin, d)
      \/ \E m : origin' = MakeDirectory(origin, m)
      \/ \E m : origin' = Link(origin, m)
  <2>1. CASE UNCHANGED vars
    BY <2>1 DEF vars
  <2>2. ASSUME NEW u \in Upload, Uploads(u)
        PROVE  \/ origin' = origin
               \/ \E d : origin' = WriteBlob(origin, d)
               \/ \E m : origin' = MakeDirectory(origin, m)
               \/ \E m : origin' = Link(origin, m)
    <3>1. CASE Submit(u) \/ Receive(u) \/ Record(u) \/ Rewrite(u)
      BY <3>1 DEF Submit, Receive, Record, Rewrite
    <3>2. CASE UploadBlob(u)
      BY <3>2 DEF UploadBlob
    <3>3. CASE UploadDirectory(u)
      BY <3>3 DEF UploadDirectory
    <3>4. CASE UploadLink(u)
      BY <3>4 DEF UploadLink
    <3> QED
      BY <2>2, <3>1, <3>2, <3>3, <3>4 DEF Uploads
  <2>3. ASSUME NEW x, NEW state, SetReleaseStatus(x, state) PROVE origin' = origin
    BY <2>3 DEF SetReleaseStatus
  <2>4. ASSUME NEW down, NEW then, Sync(down, then) PROVE origin' = origin
    BY <2>4 DEF Sync
  <2>6. ASSUME NEW x, Fetch(x) PROVE origin' = origin
    BY <2>6 DEF Fetch, Download, FetchBlob, FetchDirectory, FetchLink, CacheOnly
  <2>5. ASSUME NEW h \in Host, LoadApplication(h) \/ NextGroup(h) \/ Prepare(h) \/ Crash(h) PROVE origin' = origin
    BY <2>5 DEF LoadApplication, NextGroup, Crash, Prepare, ReadSources, ReleaseExists, Build, PublishBlob,
       PublishDirectory, PublishLink, ResolveRelease, Activate, HostOnly
  <2> QED
    BY <2>1, <2>2, <2>3, <2>4, <2>5, <2>6 DEF Next
<1>3. \/ cache' = cache
      \/ \E d : cache' = WriteBlob(cache, d)
      \/ \E m : cache' = MakeDirectory(cache, m)
      \/ \E m : cache' = Link(cache, m)
      \/ Copies(cache, origin, cache')
  <2>1. CASE UNCHANGED vars
    BY <2>1 DEF vars
  <2>2. ASSUME NEW u \in Upload, Uploads(u) PROVE cache' = cache
    BY <2>2 DEF Uploads, Submit, Receive, UploadBlob, UploadDirectory, UploadLink, Record, Rewrite, RegistryOnly
  <2>3. ASSUME NEW x, NEW state, SetReleaseStatus(x, state) PROVE cache' = cache
    BY <2>3 DEF SetReleaseStatus
  <2>4. ASSUME NEW down, NEW then, Sync(down, then) PROVE Copies(cache, origin, cache')
    BY <2>4, SyncCopies
  <2>6. ASSUME NEW x \in DOMAIN origin.manifests, Fetch(x) PROVE Copies(cache, origin, cache')
    BY <2>6, FetchCopies
  <2>5. ASSUME NEW h \in Host, LoadApplication(h) \/ NextGroup(h) \/ Prepare(h) \/ Crash(h)
        PROVE  \/ cache' = cache
               \/ \E d : cache' = WriteBlob(cache, d)
               \/ \E m : cache' = MakeDirectory(cache, m)
               \/ \E m : cache' = Link(cache, m)
               \/ Copies(cache, origin, cache')
    <3>1. CASE LoadApplication(h) \/ NextGroup(h) \/ Crash(h) \/ Build(h)
      BY <3>1 DEF LoadApplication, NextGroup, Crash, Build, NoWrite
    <3>6. ASSUME NEW down, ReleaseExists(h, down) \/ Activate(h, down) PROVE cache' = cache
      BY <3>6 DEF ReleaseExists, Activate, NoWrite
    <3>2. ASSUME NEW down, ReadSources(h, down) \/ ResolveRelease(h, down) PROVE Copies(cache, origin, cache')
      BY <3>2, ReadingCopies
    <3>3. CASE PublishBlob(h)
      BY <3>3 DEF PublishBlob
    <3>4. CASE PublishDirectory(h)
      BY <3>4 DEF PublishDirectory
    <3>5. CASE PublishLink(h)
      BY <3>5 DEF PublishLink
    <3> QED
      BY <2>5, <3>1, <3>2, <3>3, <3>4, <3>5, <3>6 DEF Prepare
  <2> QED
    BY <2>1, <2>2, <2>3, <2>4, <2>5, <2>6 DEF Next
<1>4. ASSUME NEW r \in DOMAIN origin.manifests
      PROVE  r \in DOMAIN origin'.manifests /\ origin'.manifests[r] = origin.manifests[r]
  BY <1>1, <1>2, WritesKeepManifests
<1>5. ASSUME NEW r \in DOMAIN cache.manifests
      PROVE  r \in DOMAIN cache'.manifests /\ cache'.manifests[r] = cache.manifests[r]
  <2>1. CASE Copies(cache, origin, cache')
    BY <2>1 DEF Copies, Grows
  <2> QED
    BY <1>1, <1>3, <2>1, WritesKeepManifests
<1> QED
  BY <1>4, <1>5

\* No upload, no coordinator and no fetch changes or removes a release that a
\* store holds (writeImmutable).
THEOREM ReleasesStayAsTheyAre == Spec => ReleasesAreImmutable
<1>1. Inv /\ [Next]_vars =>
        [/\ \A r \in DOMAIN origin.manifests :
            r \in DOMAIN origin'.manifests /\ origin'.manifests[r] = origin.manifests[r]
         /\ \A r \in DOMAIN cache.manifests :
            r \in DOMAIN cache'.manifests /\ cache'.manifests[r] = cache.manifests[r]]_<<origin, cache>>
  BY StoresAreImmutable
<1> QED
  BY <1>1, InvHolds, PTL DEF Spec, ReleasesAreImmutable

----------------------------------------------------------------------------
(* the lock *)

\* The search has read the manifests of what it chose.
LEMMA ChosenIsAsked ==
    ASSUME NEW view, NEW roots, WellFormed(view, roots)
    PROVE  \A at \in Places(view) : Search(view, roots)[at].ok =>
                Search(view, roots)[at].chosen \subseteq at[1] \cup Search(view, roots)[at].asked
<1>1. PICK f : f = Search(view, roots)
  OBVIOUS
<1> DEFINE P == {at \in Places(view) : f[at].ok => f[at].chosen \subseteq at[1] \cup f[at].asked}
<1>2. ASSUME NEW at \in Places(view), \A b \in Places(view) : Size(view, b) < Size(view, at) => b \in P
      PROVE  at \in P
  <2> SUFFICES ASSUME f[at].ok PROVE f[at].chosen \subseteq at[1] \cup f[at].asked
    OBVIOUS
  <2>1. f[at] = Body(view, roots, f, at)
    BY <1>1, SearchExists
  <2>2. CASE Reg!Open(view, roots, at[1]) = {}
    <3>1. f[at].chosen = at[1]
      BY <2>1, <2>2 DEF Body
    <3> QED
      BY <3>1
  <2>3. CASE Reg!Open(view, roots, at[1]) # {} /\ Untried(view, roots, at) = {}
    <3>1. ~f[at].ok
      BY <2>1, <2>3 DEF Body, Reg!Unsolved
    <3> QED
      BY <3>1
  <2>4. CASE Reg!Open(view, roots, at[1]) # {} /\ Untried(view, roots, at) # {}
    <3>1. PICK r : r = NextTry(view, roots, at)
      OBVIOUS
    <3>2. r \in Reg!Listed(view) \ (at[1] \cup at[2])
      BY <2>4, <3>1, NextIsLeft
    <3>3. PICK b, d : b = <<at[1], at[2] \cup {r}>> /\ d = <<at[1] \cup {r}, {}>>
      OBVIOUS
    <3>4. Size(view, b) < Size(view, at) /\ Size(view, d) < Size(view, at)
      BY <3>2, <3>3, SizeShrinks
    <3>5. b \in Places(view) /\ (r \in Reg!Readable(view) => d \in Places(view))
      BY <3>2, <3>3, PlacesGoOn
    <3>6. b[1] = at[1] /\ d[1] = at[1] \cup {r}
      BY <3>3
    <3>7. CASE Enters(view, roots, at)
      <4>1. r \in Reg!Readable(view) /\ f[d].ok
        BY <1>1, <3>1, <3>3, <3>7 DEF Enters
      <4>2. f[d].chosen \subseteq d[1] \cup f[d].asked
        BY <1>2, <3>4, <3>5, <4>1
      <4>3. f[at].chosen = f[d].chosen /\ f[at].asked = f[d].asked \cup {r}
        BY <1>1, <2>4, <3>1, <3>3, <3>7, SearchStep
      <4> QED
        BY <3>6, <4>2, <4>3
    <3>8. CASE ~Enters(view, roots, at)
      <4>1. f[b].ok /\ f[at].chosen = f[b].chosen /\ f[b].asked \subseteq f[at].asked
        BY <1>1, <2>4, <3>1, <3>3, <3>8, SearchStep
      <4>2. f[b].chosen \subseteq b[1] \cup f[b].asked
        BY <1>2, <3>4, <3>5, <4>1
      <4> QED
        BY <3>6, <4>1, <4>2
    <3> QED
      BY <3>7, <3>8
  <2> QED
    BY <2>2, <2>3, <2>4
<1>3. Places(view) \subseteq P
  <2> HIDE DEF P
  <2> QED
    BY <1>2, SizeInduction
<1> QED
  BY <1>1, <1>3

\* So a lock names releases that were read, with what was read of them.
LEMMA LockIsRead ==
    ASSUME NEW view, NEW target, NEW roots, NEW lok, WellFormed(view, roots),
           lok = Reg!Resolve(view, target, roots), lok # Reg!NoLock,
           NEW id \in DOMAIN lok.modules
    PROVE  /\ <<id, lok.modules[id].version>> \in Reg!Solve(view, roots).asked
           /\ <<id, lok.modules[id].version>> \in DOMAIN view.manifests
           /\ lok.modules[id].manifest = Reg!Sum(view.manifests[<<id, lok.modules[id].version>>])
<1>1. PICK f, solved, start : f = Search(view, roots) /\ solved = Reg!Solve(view, roots) /\ start = <<{}, {}>>
  OBVIOUS
<1>2. PICK chosen, version, m, modules : Resolved(view, target, roots, chosen, version, m, modules)
  BY ResolveIs
<1>3. chosen = solved.chosen /\ version = [i \in Reg!IdsOf(chosen) |-> VersionIn(chosen, i)]
  BY <1>1, <1>2 DEF Resolved
<1>4. m = [i \in DOMAIN version |-> view.manifests[<<i, version[i]>>]]
  BY <1>2 DEF Resolved
<1>5. modules = [i \in DOMAIN m |->
                    [version |-> version[i], manifest |-> Reg!Sum(m[i]), artifact |-> m[i].arts[target],
                     deps |-> [d \in DOMAIN m[i].deps |-> version[d]]]]
  BY <1>2 DEF Resolved
<1>6. solved.ok /\ lok = [target |-> target, roots |-> roots, modules |-> modules]
  BY <1>1, <1>2, Zenon DEF Resolved
<1>7. solved = f[start] /\ start \in Places(view) /\ start[1] = {}
  BY <1>1, SolveSearches DEF Places
<1>8. chosen \subseteq solved.asked
  <2>1. f[start].chosen \subseteq start[1] \cup f[start].asked
    BY <1>1, <1>6, <1>7, ChosenIsAsked
  <2> QED
    BY <1>3, <1>7, <2>1
<1>9. chosen \in SUBSET Reg!Readable(view) /\ Functional(chosen)
  <2>1. Consistent(view, roots, start[1])
    BY <1>7 DEF Consistent, Functional, Reached
  <2>2. solved = f[start] /\ start \in Places(view)
    BY <1>7
  <2>3. Consistent(view, roots, chosen)
    BY <1>1, <1>3, <1>6, <2>1, <2>2, SearchIsSound DEF SoundAt
  <2> QED
    BY <2>3 DEF Consistent
<1>10. id \in DOMAIN version /\ id \in DOMAIN m /\ lok.modules[id] = modules[id]
  BY <1>4, <1>5, <1>6
<1>11. PICK r : r = <<id, version[id]>>
  OBVIOUS
<1>12. r \in chosen
  BY <1>3, <1>9, <1>10, <1>11, VersionIsChosen
<1>13. lok.modules[id].version = version[id] /\ lok.modules[id].manifest = Reg!Sum(m[id])
  BY <1>5, <1>10
<1>14. m[id] = view.manifests[r]
  BY <1>4, <1>10, <1>11
<1> QED
  BY <1>1, <1>8, <1>9, <1>11, <1>12, <1>13, <1>14 DEF Reg!Readable

\* A lock that verifies is sound.
LEMMA VerifiedIsOK ==
    ASSUME NEW view, NEW lok, Reg!Verify(view, lok)
    PROVE  LockOK(lok)
<1>1. \A root \in lok.roots :
            root.id \in DOMAIN lok.modules /\ Reg!Matches(root.req, lok.modules[root.id].version)
  BY DEF Reg!Verify, Reg!RootsVerify, Reg!ModuleVerifies
<1>2. ASSUME NEW id \in DOMAIN lok.modules
      PROVE  LET lm == lok.modules[id]
                 m == LockedManifest(lok, id)
             IN  /\ lm.manifest = Reg!Sum(m)
                 /\ DOMAIN lm.deps = DOMAIN m.deps
                 /\ \A d \in DOMAIN m.deps :
                        /\ d \in DOMAIN lok.modules
                        /\ lm.deps[d] = lok.modules[d].version
                        /\ Reg!Matches(m.deps[d], lok.modules[d].version)
                 /\ lok.target \in DOMAIN m.arts
                 /\ m.arts[lok.target] = lm.artifact
  <2>1. PICK lm, m : lm = lok.modules[id] /\ m = view.manifests[<<id, lm.version>>]
    OBVIOUS
  <2>2. /\ lm.manifest = Reg!Sum(m)
        /\ DOMAIN lm.deps = DOMAIN m.deps
        /\ \A d \in DOMAIN m.deps :
               /\ d \in DOMAIN lok.modules
               /\ lm.deps[d] = lok.modules[d].version
               /\ Reg!Matches(m.deps[d], lok.modules[d].version)
        /\ lok.target \in DOMAIN m.arts
        /\ m.arts[lok.target] = lm.artifact
    BY <2>1 DEF Reg!Verify, Reg!RootsVerify, Reg!ModuleVerifies
  <2>3. LockedManifest(lok, id) = m
    BY <2>1, <2>2 DEF LockedManifest, Reg!Sum
  <2> QED
    BY <2>1, <2>2, <2>3
<1> QED
  BY <1>1, <1>2, Zenon DEF LockOK

\* A locked release is in the cache as it was locked, or it still has to be
\* fetched and no host can publish another one before that.
ReleaseOfLock(lok, id) == <<id, lok.modules[id].version>>

Publishes(st, r) == st.pc # "off" /\ <<st.config.module, st.config.version>> = r

Held(lok, id, o, s, st) ==
    LET r == ReleaseOfLock(lok, id)
    IN  \/ r \in DOMAIN s.manifests /\ s.manifests[r] = LockedManifest(lok, id)
        \/ /\ r \notin DOMAIN s.manifests
           /\ r \in DOMAIN o.manifests /\ o.manifests[r] = LockedManifest(lok, id)
           /\ \A h \in Host : ~Publishes(st[h], r)

LockInv ==
    LocksFor(lock, project) =>
        LockOK(lock) /\ \A id \in DOMAIN lock.modules : Held(lock, id, origin, cache, host)

\* A release that can be read is read during an outage too, if it is cached or
\* the registry answers for it.
LEMMA ReadInOutage ==
    ASSUME NEW s, NEW o, NEW mt, NEW dn, NEW ids, NEW r \in DOMAIN Reg!View(s, o, mt, {}, ids).manifests,
           r \in DOMAIN s.manifests \/ r[1] \notin dn
    PROVE  r \in DOMAIN Reg!View(s, o, mt, dn, ids).manifests
<1>1. r \in s.dirs \cup o.dirs /\ Reg!CachedManifest(s, o, mt, {}, r) # Reg!Missing
  BY DEF Reg!View
<1>2. Reg!CachedManifest(s, o, mt, dn, r) = Reg!CachedManifest(s, o, mt, {}, r)
  <2>1. CASE r \in DOMAIN s.manifests
    BY <2>1 DEF Reg!CachedManifest, Reg!Fetchable
  <2>2. CASE r[1] \notin dn
    <3>1. Reg!HTTPManifest(o, mt, dn, r) = Reg!HTTPManifest(o, mt, {}, r)
      BY <2>2 DEF Reg!HTTPManifest, Reg!Requested
    <3>2. Reg!Fetchable(s, o, mt, dn, r) <=> Reg!Fetchable(s, o, mt, {}, r)
      BY <3>1 DEF Reg!Fetchable
    <3> QED
      BY <3>2 DEF Reg!CachedManifest
  <2> QED
    BY <2>1, <2>2
<1> QED
  BY <1>1, <1>2 DEF Reg!View

\* A lock whose releases can all be had still verifies.
LEMMA HeldVerifies ==
    ASSUME Inv, LockInv, LocksFor(lock, project), ~Withdrawn, ~OutOfReach, NEW down \in Outages
    PROVE  Reg!Verify(Seen(down), lock)
<1>1. PICK view, lok : view = Seen(down) /\ lok = lock
  OBVIOUS
<1>2. /\ lok # Reg!NoLock /\ LockOK(lok)
      /\ \A id \in DOMAIN lok.modules : Held(lok, id, origin, cache, host)
  BY <1>1 DEF LockInv, LocksFor
<1>3. ASSUME NEW id \in DOMAIN lok.modules
      PROVE  /\ ReleaseOfLock(lok, id) \in DOMAIN view.manifests
             /\ view.manifests[ReleaseOfLock(lok, id)] = LockedManifest(lok, id)
             /\ Reg!Digests(LockedManifest(lok, id)) \subseteq view.blobs
  <2>1. PICK r : r = ReleaseOfLock(lok, id)
    OBVIOUS
  <2>2. r \in DOMAIN view.manifests
    <3>1. r \in LockedReleases
      BY <1>1, <2>1 DEF LockedReleases, ReleaseOfLock
    <3>2. r \in DOMAIN Store.manifests
      BY <3>1 DEF Withdrawn
    <3>3. r \in DOMAIN cache.manifests \/ r[1] \notin down
      BY <3>1 DEF OutOfReach
    <3> QED
      BY <1>1, <3>2, <3>3, ReadInOutage DEF Store, Seen
  <2>3. /\ \/ r \in DOMAIN cache.manifests /\ view.manifests[r] = cache.manifests[r]
           \/ /\ Reg!Fetchable(cache, origin, meta, down, r) /\ r \in DOMAIN origin.manifests
              /\ view.manifests[r] = origin.manifests[r]
        /\ Reg!Digests(view.manifests[r]) \subseteq view.blobs
    BY <1>1, <2>2, ReadIsKept DEF Inv, Seen
  <2>4. Reg!Fetchable(cache, origin, meta, down, r) => r \notin DOMAIN cache.manifests
    BY DEF Reg!Fetchable
  <2>5. view.manifests[r] = LockedManifest(lok, id)
    BY <1>2, <2>1, <2>3, <2>4 DEF Held
  <2> QED
    BY <2>1, <2>2, <2>3, <2>5
<1>4. ASSUME NEW id \in DOMAIN lok.modules
      PROVE  LET lm == lok.modules[id]
                 m == view.manifests[<<id, lm.version>>]
             IN  /\ <<id, lm.version>> \in DOMAIN view.manifests
                 /\ Reg!Sum(m) = lm.manifest
                 /\ DOMAIN lm.deps = DOMAIN m.deps
                 /\ \A d \in DOMAIN m.deps :
                         /\ d \in DOMAIN lok.modules
                         /\ lm.deps[d] = lok.modules[d].version
                         /\ Reg!Matches(m.deps[d], lok.modules[d].version)
                 /\ lok.target \in DOMAIN m.arts
                 /\ m.arts[lok.target] = lm.artifact
                 /\ lm.artifact \in view.blobs
  <2>1. PICK lm, m : lm = lok.modules[id] /\ m = view.manifests[<<id, lm.version>>]
    OBVIOUS
  <2>2. <<id, lm.version>> \in DOMAIN view.manifests /\ m = LockedManifest(lok, id) /\ Reg!Digests(m) \subseteq view.blobs
    BY <1>3, <2>1 DEF ReleaseOfLock
  <2>3. /\ lm.manifest = Reg!Sum(m)
        /\ DOMAIN lm.deps = DOMAIN m.deps
        /\ \A d \in DOMAIN m.deps :
                /\ d \in DOMAIN lok.modules
                /\ lm.deps[d] = lok.modules[d].version
                /\ Reg!Matches(m.deps[d], lok.modules[d].version)
        /\ lok.target \in DOMAIN m.arts
        /\ m.arts[lok.target] = lm.artifact
    BY <1>2, <2>1, <2>2 DEF LockOK
  <2>4. lm.artifact \in view.blobs
    BY <2>2, <2>3 DEF Reg!Digests, Reg!Range
  <2> QED
    BY <2>1, <2>2, <2>3, <2>4
<1>5. \A root \in lok.roots :
            root.id \in DOMAIN lok.modules /\ Reg!Matches(root.req, lok.modules[root.id].version)
  BY <1>2 DEF LockOK
<1>6. Reg!Verify(view, lok)
  BY <1>2, <1>4, <1>5, Zenon DEF Reg!Verify, Reg!RootsVerify, Reg!ModuleVerifies
<1> QED
  BY <1>1, <1>6

\* A host keeps its configuration,
LEMMA FallbackConfig ==
    ASSUME Inv, NEW h \in Host, NEW why
    PROVE  Fallback(h, why).config = host[h].config
<1>1. PICK st : st = host[h]
  OBVIOUS
<1>2. "config" \in DOMAIN st
  BY <1>1 DEF Inv, HostInv
<1> QED
  BY <1>1, <1>2 DEF Fallback

\* No step changes what a host was configured with.
LEMMA ConfigStays ==
    ASSUME Inv, NEW h \in Host, LoadApplication(h) \/ NextGroup(h) \/ Prepare(h) \/ Crash(h)
    PROVE  host[h].pc # "off" /\ \E next : Step(h, next) /\ next.config = host[h].config
<1>1. PICK st : st = host[h]
  OBVIOUS
<1>2. {"config", "pc", "k", "n", "app", "units", "recipe", "why", "layout"} \subseteq DOMAIN st
  BY <1>1 DEF Inv, HostInv
<1>3. st.pc # "off"
  BY <1>1 DEF LoadApplication, NextGroup, Crash, Prepare, ReadSources, ReleaseExists, Build, PublishBlob,
     PublishDirectory, PublishLink, ResolveRelease, Activate, At
<1>4. CASE LoadApplication(h)
  <2>1. PICK next : Step(h, next) /\ \E app, pc : next = [st EXCEPT !.app = app, !.pc = pc]
    BY <1>1, <1>4, Zenon DEF LoadApplication
  <2>2. next.config = st.config
    BY <1>2, <2>1
  <2> QED
    BY <1>1, <1>3, <2>1, <2>2
<1>5. CASE NextGroup(h)
  <2>1. PICK next : /\ Step(h, next)
                    /\ \/ \E l, pc : next = [st EXCEPT !.layout = l, !.pc = pc]
                       \/ \E k, pc : next = [st EXCEPT !.pc = pc, !.k = k]
    BY <1>1, <1>5, Zenon DEF NextGroup
  <2>2. next.config = st.config
    BY <1>2, <2>1
  <2> QED
    BY <1>1, <1>3, <2>1, <2>2
<1>6. ASSUME NEW down, ReadSources(h, down) PROVE \E next : Step(h, next) /\ next.config = st.config
  <2>1. PICK next : /\ Step(h, next)
                    /\ next = Fallback(h, "recipe") \/ \E x : next = [st EXCEPT !.pc = "exists", !.recipe = x]
    BY <1>1, <1>6, Zenon DEF ReadSources
  <2>2. next.config = st.config
    BY <1>1, <1>2, <2>1, FallbackConfig
  <2> QED
    BY <1>1, <1>3, <2>1, <2>2
<1>7. ASSUME NEW down, ReleaseExists(h, down) PROVE \E next : Step(h, next) /\ next.config = st.config
  BY <1>1, <1>2, <1>7, ExistsDecides, FallbackConfig DEF Decided
<1>8. CASE Build(h)
  BY <1>1, <1>2, <1>3, <1>8, FallbackConfig DEF Build
<1>9. CASE PublishBlob(h)
  BY <1>1, <1>2, <1>3, <1>9 DEF PublishBlob
<1>10. CASE PublishDirectory(h)
  <2>1. PICK p, q, a, b, c : /\ (p <=> Exists(cache, FusedManifest(h))) /\ (q <=> Same(cache, FusedManifest(h)))
                             /\ a = [st EXCEPT !.pc = "link"] /\ b = [st EXCEPT !.pc = "resolve"]
                             /\ c = Fallback(h, "conflict")
    OBVIOUS
  <2>2. PICK next : next = CASE ~p -> a [] q -> b [] OTHER -> c
    OBVIOUS
  <2>3. Step(h, next)
    BY <1>1, <1>10, <2>1, <2>2 DEF PublishDirectory
  <2>4. next \in {a, b, c}
    BY <2>2
  <2> QED
    BY <1>1, <1>2, <1>3, <2>1, <2>3, <2>4, FallbackConfig
<1>11. CASE PublishLink(h)
  <2>1. Step(h, Fallback(h, "conflict")) \/ Step(h, [st EXCEPT !.pc = "resolve"])
    BY <1>1, <1>11 DEF PublishLink
  <2> QED
    BY <1>1, <1>2, <1>3, <2>1, FallbackConfig
<1>12. ASSUME NEW down, ResolveRelease(h, down) PROVE \E next : Step(h, next) /\ next.config = st.config
  <2>1. Step(h, Fallback(h, "resolve")) \/ Step(h, [st EXCEPT !.pc = "select"])
    BY <1>1, <1>12, Zenon DEF ResolveRelease
  <2> QED
    BY <1>1, <1>2, <1>3, <2>1, FallbackConfig
<1>13. ASSUME NEW down, Activate(h, down) PROVE \E next : Step(h, next) /\ next.config = st.config
  <2>1. PICK next : /\ Step(h, next)
                    /\ \/ next = Fallback(h, "select")
                       \/ \E x : next = [st EXCEPT !.pc = "group", !.k = @ + 1, !.n = 0, !.recipe = << >>,
                                                   !.units = Append(@, x)]
    BY <1>1, <1>13, Zenon DEF Activate
  <2>2. next.config = st.config
    BY <1>1, <1>2, <2>1, FallbackConfig
  <2> QED
    BY <1>1, <1>3, <2>1, <2>2
<1>14. CASE Crash(h)
  <2>1. PICK next : next = Fresh(st.config)
    OBVIOUS
  <2>2. Step(h, next) /\ next.config = st.config
    BY <1>1, <1>14, <2>1 DEF Crash, Fresh, Config
  <2> QED
    BY <1>1, <1>3, <2>2
<1> QED
  BY <1>1, <1>3, <1>4, <1>5, <1>6, <1>7, <1>8, <1>9, <1>10, <1>11, <1>12, <1>13, <1>14 DEF Prepare

\* so what it publishes is known from the start.
LEMMA PublishesStays ==
    ASSUME Inv, [Next]_vars, NEW r, NEW g \in Host, Publishes(host'[g], r)
    PROVE  Publishes(host[g], r)
<1>1. CASE host' = host
  BY <1>1
<1>2. ASSUME NEW h \in Host, LoadApplication(h) \/ NextGroup(h) \/ Prepare(h) \/ Crash(h)
      PROVE  Publishes(host[g], r)
  <2>1. host[h].pc # "off" /\ \E next : Step(h, next) /\ next.config = host[h].config
    BY <1>2, ConfigStays
  <2>2. g # h => host'[g] = host[g]
    BY <2>1 DEF Step, Inv
  <2>3. g = h => host'[g].config = host[g].config /\ host[g].pc # "off"
    BY <2>1 DEF Step, Inv
  <2> QED
    BY <2>2, <2>3 DEF Publishes
<1>3. ASSUME NEW u \in Upload, Uploads(u) PROVE host' = host
  BY <1>3 DEF Uploads, Submit, Receive, UploadBlob, UploadDirectory, UploadLink, Record, Rewrite, RegistryOnly
<1>4. ASSUME NEW x, NEW state, SetReleaseStatus(x, state) PROVE host' = host
  BY <1>4 DEF SetReleaseStatus
<1>5. ASSUME NEW down, NEW then, Sync(down, then) PROVE host' = host
  BY <1>5 DEF Sync
<1>6. UNCHANGED vars => host' = host
  BY DEF vars
<1>7. ASSUME NEW x, Fetch(x) PROVE host' = host
  BY <1>7 DEF Fetch, Download, FetchBlob, FetchDirectory, FetchLink, CacheOnly
<1> QED
  BY <1>1, <1>2, <1>3, <1>4, <1>5, <1>6, <1>7 DEF Next

\* A release that is new in the cache comes from the registry, or from a host
\* that publishes it.
LEMMA CachedComesFrom ==
    ASSUME Inv, [Next]_vars, NEW r \in DOMAIN cache'.manifests, r \notin DOMAIN cache.manifests
    PROVE  \/ r \in DOMAIN origin.manifests /\ cache'.manifests[r] = origin.manifests[r]
           \/ \E h \in Host : Publishes(host[h], r)
<1>1. StoreOK(cache) /\ StoreOK(origin)
  BY DEF Inv
<1>2. CASE \/ cache' = cache
           \/ \E d : cache' = WriteBlob(cache, d)
           \/ \E m : cache' = MakeDirectory(cache, m)
  <2>1. cache'.manifests = cache.manifests
    BY <1>1, <1>2 DEF StoreOK, WriteBlob, MakeDirectory
  <2> QED
    BY <2>1
<1>3. CASE Copies(cache, origin, cache')
  BY <1>3 DEF Copies
<1>4. ASSUME NEW h \in Host, PublishLink(h) PROVE \E g \in Host : Publishes(host[g], r)
  <2>1. PICK st, m : st = host[h] /\ m = Reg!ParseManifest(PublicationOf(st))
    OBVIOUS
  <2>2. st.pc = "link" /\ ConfigOK(st.config)
    BY <1>4, <2>1 DEF PublishLink, At, Inv, HostInv
  <2>3. cache' = Link(cache, m)
    BY <1>4, <2>1, PublishingIs DEF PublishLink
  <2>4. Reg!ReleaseOf(m) = <<st.config.module, st.config.version>>
    BY <2>1, <2>2, FusedIsRaw
  <2>5. r = Reg!ReleaseOf(m)
    <3>1. PICK q : q = Reg!ReleaseOf(m)
      OBVIOUS
    <3>2. CASE Exists(cache, m)
      BY <2>3, <3>2 DEF Link
    <3>3. CASE ~Exists(cache, m)
      <4>1. cache'.manifests = [x \in DOMAIN cache.manifests \cup {q} |-> IF x = q THEN m ELSE cache.manifests[x]]
        BY <1>1, <2>3, <3>1, <3>3 DEF StoreOK, Link
      <4> QED
        BY <3>1, <4>1
    <3> QED
      BY <3>2, <3>3
  <2> QED
    BY <2>1, <2>2, <2>4, <2>5 DEF Publishes
<1>5. \/ cache' = cache
      \/ \E d : cache' = WriteBlob(cache, d)
      \/ \E m : cache' = MakeDirectory(cache, m)
      \/ Copies(cache, origin, cache')
      \/ \E h \in Host : PublishLink(h)
  <2>1. CASE UNCHANGED vars
    BY <2>1 DEF vars
  <2>2. ASSUME NEW u \in Upload, Uploads(u) PROVE cache' = cache
    BY <2>2 DEF Uploads, Submit, Receive, UploadBlob, UploadDirectory, UploadLink, Record, Rewrite, RegistryOnly
  <2>3. ASSUME NEW x, NEW state, SetReleaseStatus(x, state) PROVE cache' = cache
    BY <2>3 DEF SetReleaseStatus
  <2>4. ASSUME NEW down, NEW then, Sync(down, then) PROVE Copies(cache, origin, cache')
    BY <2>4, SyncCopies
  <2>6. ASSUME NEW x \in DOMAIN origin.manifests, Fetch(x) PROVE Copies(cache, origin, cache')
    BY <2>6, FetchCopies
  <2>5. ASSUME NEW h \in Host, LoadApplication(h) \/ NextGroup(h) \/ Prepare(h) \/ Crash(h)
        PROVE  \/ cache' = cache
               \/ \E d : cache' = WriteBlob(cache, d)
               \/ \E m : cache' = MakeDirectory(cache, m)
               \/ Copies(cache, origin, cache')
               \/ PublishLink(h)
    <3>1. CASE LoadApplication(h) \/ NextGroup(h) \/ Crash(h) \/ Build(h)
      BY <3>1 DEF LoadApplication, NextGroup, Crash, Build, NoWrite
    <3>6. ASSUME NEW down, ReleaseExists(h, down) \/ Activate(h, down) PROVE cache' = cache
      BY <3>6 DEF ReleaseExists, Activate, NoWrite
    <3>2. ASSUME NEW down, ReadSources(h, down) \/ ResolveRelease(h, down) PROVE Copies(cache, origin, cache')
      BY <3>2, ReadingCopies
    <3>3. CASE PublishBlob(h)
      BY <3>3 DEF PublishBlob
    <3>4. CASE PublishDirectory(h)
      BY <3>4 DEF PublishDirectory
    <3> QED
      BY <2>5, <3>1, <3>2, <3>3, <3>4, <3>6 DEF Prepare
  <2> QED
    BY <2>1, <2>2, <2>3, <2>4, <2>5, <2>6 DEF Next
<1> QED
  BY <1>2, <1>3, <1>4, <1>5

\* What a lock names stays available.
LEMMA HeldStays ==
    ASSUME Inv, [Next]_vars, NEW lok, NEW id, Held(lok, id, origin, cache, host)
    PROVE  Held(lok, id, origin', cache', host')
<1>1. PICK r, m : r = ReleaseOfLock(lok, id) /\ m = LockedManifest(lok, id)
  OBVIOUS
<1>2. CASE r \in DOMAIN cache.manifests /\ cache.manifests[r] = m
  BY <1>1, <1>2, StoresAreImmutable DEF Held
<1>3. CASE /\ r \notin DOMAIN cache.manifests
           /\ r \in DOMAIN origin.manifests /\ origin.manifests[r] = m
           /\ \A h \in Host : ~Publishes(host[h], r)
  <2>1. r \in DOMAIN origin'.manifests /\ origin'.manifests[r] = m
    BY <1>3, StoresAreImmutable
  <2>2. \A h \in Host : ~Publishes(host'[h], r)
    BY <1>3, PublishesStays
  <2>3. r \in DOMAIN cache'.manifests => cache'.manifests[r] = m
    BY <1>3, CachedComesFrom
  <2> QED
    BY <1>1, <2>1, <2>2, <2>3 DEF Held
<1> QED
  BY <1>1, <1>2, <1>3 DEF Held

\* Only a sync writes the lock,
LEMMA LockChanges ==
    ASSUME [Next]_vars, lock' # lock
    PROVE  \E down, then \in Outages : Sync(down, then)
<1>1. ASSUME NEW u \in Upload, Uploads(u) PROVE lock' = lock
  BY <1>1 DEF Uploads, Submit, Receive, UploadBlob, UploadDirectory, UploadLink, Record, Rewrite, RegistryOnly
<1>2. ASSUME NEW x, NEW state, SetReleaseStatus(x, state) PROVE lock' = lock
  BY <1>2 DEF SetReleaseStatus
<1>3. ASSUME NEW h \in Host, LoadApplication(h) \/ NextGroup(h) \/ Prepare(h) \/ Crash(h) PROVE lock' = lock
  BY <1>3 DEF LoadApplication, NextGroup, Crash, Prepare, ReadSources, ReleaseExists, Build, PublishBlob,
     PublishDirectory, PublishLink, ResolveRelease, Activate, HostOnly
<1>4. ASSUME NEW x, Fetch(x) PROVE lock' = lock
  BY <1>4 DEF Fetch, Download, FetchBlob, FetchDirectory, FetchLink, CacheOnly
<1> QED
  BY <1>1, <1>2, <1>3, <1>4 DEF Next, vars

\* No step changes the requirements of the project.
LEMMA ProjectStays ==
    ASSUME [Next]_vars
    PROVE  project' = project
<1>1. ASSUME NEW u \in Upload, Uploads(u) PROVE project' = project
  BY <1>1 DEF Uploads, Submit, Receive, UploadBlob, UploadDirectory, UploadLink, Record, Rewrite, RegistryOnly
<1>2. ASSUME NEW x, NEW state, SetReleaseStatus(x, state) PROVE project' = project
  BY <1>2 DEF SetReleaseStatus
<1>3. ASSUME NEW h \in Host, LoadApplication(h) \/ NextGroup(h) \/ Prepare(h) \/ Crash(h) PROVE project' = project
  BY <1>3 DEF LoadApplication, NextGroup, Crash, Prepare, ReadSources, ReleaseExists, Build, PublishBlob,
     PublishDirectory, PublishLink, ResolveRelease, Activate, HostOnly
<1>4. ASSUME NEW down, NEW then, Sync(down, then) PROVE project' = project
  BY <1>4 DEF Sync
<1>5. ASSUME NEW x, Fetch(x) PROVE project' = project
  BY <1>5 DEF Fetch, Download, FetchBlob, FetchDirectory, FetchLink, CacheOnly
<1> QED
  BY <1>1, <1>2, <1>3, <1>4, <1>5 DEF Next, vars

\* and what it writes is held.
LEMMA NewLockIsHeld ==
    ASSUME Inv, NEW down, NEW then, Sync(down, then), lock' # lock
    PROVE  LockOK(lock') /\ \A id \in DOMAIN lock'.modules : Held(lock', id, origin', cache', host')
<1>1. PICK s, view, roots, target, new, asked :
        /\ s = Verified(down) /\ view = Reg!View(s, origin, meta, then, ModuleIDs)
        /\ roots = project.roots /\ target = project.target
        /\ new = Reg!Resolve(view, target, roots) /\ asked = Reg!Solve(view, roots).asked
  OBVIOUS
<1>2. /\ StoreOK(s) /\ StoreOK(origin)
      /\ lock' = new /\ new # Reg!NoLock /\ cache' = Reg!Filled(s, origin, meta, then, asked)
  <2>1. PICK rs : s = Reg!Filled(cache, origin, meta, down, rs)
    BY <1>1, Zenon DEF Verified
  <2>2. StoreOK(s)
    BY <2>1, FilledKeeps DEF Inv
  <2>3. ~KeepsLock(Seen(down))
    BY Zenon DEF Sync
  <2>4. /\ cache' = Reg!Filled(s, origin, meta, then, asked)
        /\ lock' = IF new = Reg!NoLock THEN lock ELSE new
    BY <1>1, <2>3, Zenon DEF Sync
  <2> QED
    BY <2>2, <2>4 DEF Inv
<1>3. WellFormed(view, roots)
  BY <1>1, <1>2, StoreIsWellFormed DEF Inv
<1>4. \A r \in Reg!Readable(view) : Reg!Digests(view.manifests[r]) \subseteq view.blobs
  BY <1>1, <1>2, ReadIsKept DEF Reg!Readable
<1>5. LockOK(new)
  BY <1>1, <1>2, <1>3, <1>4, LockVerifies, VerifiedIsOK
<1>6. ASSUME NEW id \in DOMAIN new.modules PROVE Held(new, id, origin', cache', host')
  <2>1. PICK r : r = ReleaseOfLock(new, id)
    OBVIOUS
  <2>2. r \in asked /\ r \in DOMAIN view.manifests /\ new.modules[id].manifest = Reg!Sum(view.manifests[r])
    BY <1>1, <1>2, <1>3, <2>1, LockIsRead DEF ReleaseOfLock
  <2>3. LockedManifest(new, id) = view.manifests[r]
    BY <2>2 DEF LockedManifest, Reg!Sum
  <2>4. \/ r \in DOMAIN s.manifests /\ view.manifests[r] = s.manifests[r]
        \/ Reg!Fetchable(s, origin, meta, then, r) /\ view.manifests[r] = origin.manifests[r]
    BY <1>1, <2>2, <1>2, ReadIsKept
  <2>5. r \in DOMAIN cache'.manifests /\ cache'.manifests[r] = view.manifests[r]
    <3>1. PICK fetched : fetched = {x \in asked : Reg!Fetchable(s, origin, meta, then, x)}
      OBVIOUS
    <3>2. cache'.manifests = [x \in DOMAIN s.manifests \cup fetched |->
                              IF x \in fetched THEN origin.manifests[x] ELSE s.manifests[x]]
      BY <1>2, <3>1 DEF Reg!Filled
    <3>3. r \in DOMAIN s.manifests => r \notin fetched
      BY <3>1 DEF Reg!Fetchable
    <3> QED
      BY <2>2, <2>4, <3>1, <3>2, <3>3
  <2> QED
    BY <2>1, <2>3, <2>5 DEF Held
<1> QED
  BY <1>2, <1>5, <1>6

\* A host that has been started or restarted keeps its configuration, and
\* does nothing when there is no application file.
LEMMA FreshIs ==
    ASSUME NEW config
    PROVE  Fresh(config).config = config /\ (config.app = Invalid => Fresh(config).pc = "off")
  BY DEF Fresh

\* The lock stays held.
LEMMA LockInvHolds == Spec => []LockInv
<1>1. Init => LockInv
  <2> SUFFICES ASSUME Init, LocksFor(lock, project)
               PROVE  LockOK(lock) /\ \A id \in DOMAIN lock.modules : Held(lock, id, origin, cache, host)
    BY DEF LockInv
  <2>1. PICK i \in Instances :
        /\ origin = i.origin
        /\ cache = EmptyStore
        /\ project = i.project
        /\ lock \in i.locks
        /\ host = [h \in Host |-> Fresh(i.hosts[h])]
    BY DEF Init
  <2>2. GivenLock(i, lock)
    BY <2>1, InstancesAssumption
  <2>3. LockOK(lock)
    BY <2>1, <2>2 DEF GivenLock
  <2>4. ASSUME NEW id \in DOMAIN lock.modules PROVE Held(lock, id, origin, cache, host)
    <3>1. PICK r, m : r = ReleaseOfLock(lock, id) /\ m = LockedManifest(lock, id)
      OBVIOUS
    <3>2. /\ r \in DOMAIN i.origin.manifests /\ i.origin.manifests[r] = m
          /\ \A h \in Host : i.hosts[h].app = Invalid \/ <<i.hosts[h].module, i.hosts[h].version>> # r
      BY <2>1, <2>2, <3>1 DEF GivenLock, ReleaseOfLock
    <3>3. r \notin DOMAIN cache.manifests
      BY <2>1 DEF EmptyStore
    <3>4. ASSUME NEW h \in Host PROVE ~Publishes(host[h], r)
      <4>1. PICK config : config = i.hosts[h] /\ (config.app = Invalid \/ <<config.module, config.version>> # r)
        BY <3>2
      <4>2. host[h] = Fresh(config)
        BY <2>1, <4>1
      <4>3. host[h].config = config /\ (config.app = Invalid => host[h].pc = "off")
        BY <4>2, FreshIs
      <4> QED
        BY <4>1, <4>3 DEF Publishes
    <3> QED
      BY <2>1, <3>1, <3>2, <3>3, <3>4 DEF Held
  <2> QED
    BY <2>3, <2>4
<1>2. ASSUME Inv, LockInv, [Next]_vars PROVE LockInv'
  <2>1. CASE lock' = lock
    <3>1. SUFFICES ASSUME LocksFor(lock, project)
                   PROVE  LockOK(lock) /\ \A id \in DOMAIN lock.modules : Held(lock, id, origin', cache', host')
      BY <1>2, <2>1, ProjectStays DEF LockInv
    <3> QED
      BY <1>2, <3>1, HeldStays DEF LockInv
  <2>2. CASE lock' # lock
    BY <1>2, <2>2, LockChanges, NewLockIsHeld DEF LockInv
  <2> QED
    BY <2>1, <2>2
<1> QED
  BY <1>1, <1>2, InvHolds, PTL DEF Spec

\* A sync moves an existing lock only when the project asks for something else,
\* when a locked release is gone, or when one is not cached and the registry may
\* be out of reach (EnsureProjectLock).
THEOREM LocksAreStable == Spec => LockIsStable
<1>1. ASSUME Inv, LockInv, [Next]_vars
      PROVE  [Relocked \/ Withdrawn \/ OutOfReach]_lock
  <2> SUFFICES ASSUME lock' # lock, LocksFor(lock, project), ~Withdrawn, ~OutOfReach PROVE FALSE
    BY DEF LocksFor, Relocked
  <2>1. PICK down \in Outages, then \in Outages : Sync(down, then)
    BY <1>1, LockChanges
  <2>2. Reg!Verify(Seen(down), lock)
    BY <1>1, HeldVerifies
  <2>3. KeepsLock(Seen(down))
    BY <2>2 DEF KeepsLock, LocksFor
  <2>4. lock' = lock
    BY <2>1, <2>3, Zenon DEF Sync
  <2> QED
    BY <2>4
<1> QED
  BY <1>1, InvHolds, LockInvHolds, PTL DEF Spec, LockIsStable

----------------------------------------------------------------------------
(* fusion: what a host starts was built from its own cells *)

\* The places at which a host has a recipe.
Preparing == {"exists", "build", "blobs", "link", "resolve", "select"}

\* The releases a group is bound to are in a store, and its recipe there.
Bound(st, s, g) == \A n \in MemberNames(g) : st.config.bindings[n] \in DOMAIN s.manifests
RecipeOf(st, s, g) ==
    NewRecipe(g, st.config.go, [n \in MemberNames(g) |-> SourceOf(s, st.config.bindings[n])])

\* An artifact brings what the cells bring that it replaces.
Brings(spec, g) ==
    /\ spec.provides = UNION {m.provides : m \in Range(g.members)}
    /\ \A m \in Range(g.members) : m.capabilities = spec.capabilities

\* A unit was built from the recipe of a group of the application.
UnitInv(st, s, arts, unit) ==
    /\ Reg!Sum(unit.artifact.wasm) \in arts
    /\ \E g \in Range(Groups(st.app.cells)) :
            /\ unit.members = MemberNames(g)
            /\ Bound(st, s, g)
            /\ unit.artifact.wasm[2] = RecipeOf(st, s, g)
            /\ Brings(unit.artifact, g)

\* What a host prepares is the recipe of its own group, and what it has
\* activated was built from one.
FuseInv(st, s, arts) ==
    LET groups == Groups(st.app.cells)
    IN  /\ st.pc \in Preparing \cup {"recipe"} => st.k \in DOMAIN groups
        /\ st.pc \in Preparing => Bound(st, s, groups[st.k]) /\ st.recipe = RecipeOf(st, s, groups[st.k])
        /\ st.pc \in {"blobs", "link"} => Buildable(st.recipe)
        /\ st.pc = "load" => st.units = << >>
        /\ st.units \in Seq(Range(st.units))
        /\ \A k \in DOMAIN st.units : UnitInv(st, s, arts, st.units[k])

\* An upload brings attestations that Build wrote.
RequestAttested(up) ==
    /\ up.pc = "command" => UploadAttested(up)
    /\ up.pc \in {"sent", "blobs", "link"} => RawAttested(up.raw)

\* The invariant of the fusion proof.
FusedInv ==
    /\ StoreAttested(origin) /\ StoreAttested(cache)
    /\ \A u \in Upload : RequestAttested(upload[u])
    /\ \A h \in Host : FuseInv(host[h], cache, artifacts)

\* A release that is kept keeps its source.
LEMMA RecipeStays ==
    ASSUME NEW st, NEW next, NEW s, NEW t, NEW g, next.config = st.config, Bound(st, s, g),
           \A r \in DOMAIN s.manifests : r \in DOMAIN t.manifests /\ t.manifests[r] = s.manifests[r]
    PROVE  Bound(next, t, g) /\ RecipeOf(next, t, g) = RecipeOf(st, s, g)
<1>1. Bound(next, t, g)
  BY DEF Bound
<1>2. \A n \in MemberNames(g) : SourceOf(s, st.config.bindings[n]) = SourceOf(t, next.config.bindings[n])
  BY DEF Bound, SourceOf
<1>3. [n \in MemberNames(g) |-> SourceOf(s, st.config.bindings[n])]
        = [n \in MemberNames(g) |-> SourceOf(t, next.config.bindings[n])]
  BY <1>2
<1> QED
  BY <1>1, <1>3 DEF RecipeOf

\* A unit stays what it is.
LEMMA UnitStays ==
    ASSUME NEW st, NEW next, NEW s, NEW t, NEW arts, NEW brts, NEW unit, UnitInv(st, s, arts, unit),
           next.config = st.config, next.app = st.app, arts \subseteq brts,
           \A r \in DOMAIN s.manifests : r \in DOMAIN t.manifests /\ t.manifests[r] = s.manifests[r]
    PROVE  UnitInv(next, t, brts, unit)
<1>1. PICK g \in Range(Groups(st.app.cells)) :
            /\ unit.members = MemberNames(g)
            /\ Bound(st, s, g)
            /\ unit.artifact.wasm[2] = RecipeOf(st, s, g)
            /\ Brings(unit.artifact, g)
  BY DEF UnitInv
<1>2. Bound(next, t, g) /\ RecipeOf(next, t, g) = RecipeOf(st, s, g)
  BY <1>1, RecipeStays
<1> QED
  BY <1>1, <1>2 DEF UnitInv

\* A start that goes on with the same application keeps what it has.
LEMMA FuseStays ==
    ASSUME NEW st, NEW next, NEW s, NEW t, NEW arts, NEW brts, FuseInv(st, s, arts),
           next.config = st.config, next.app = st.app, next.units = st.units, arts \subseteq brts,
           \A r \in DOMAIN s.manifests : r \in DOMAIN t.manifests /\ t.manifests[r] = s.manifests[r],
           \/ next.pc \notin Preparing \cup {"recipe", "load"}
           \/ next.pc = "recipe" /\ next.k \in DOMAIN Groups(st.app.cells)
           \/ /\ next.pc \in Preparing /\ st.pc \in Preparing /\ next.k = st.k /\ next.recipe = st.recipe
              /\ next.pc \in {"blobs", "link"} => Buildable(st.recipe)
    PROVE  FuseInv(next, t, brts)
<1>1. \A k \in DOMAIN next.units : UnitInv(next, t, brts, next.units[k])
  BY UnitStays DEF FuseInv
<1>2. PICK groups : groups = Groups(st.app.cells)
  OBVIOUS
<1>3. ASSUME next.pc \in Preparing, st.pc \in Preparing, next.k = st.k, next.recipe = st.recipe
      PROVE  /\ next.k \in DOMAIN groups /\ Bound(next, t, groups[next.k])
             /\ next.recipe = RecipeOf(next, t, groups[next.k])
  <2>1. Bound(st, s, groups[st.k]) /\ st.recipe = RecipeOf(st, s, groups[st.k]) /\ st.k \in DOMAIN groups
    BY <1>2, <1>3 DEF FuseInv
  <2> QED
    BY <1>3, <2>1, RecipeStays
<1> QED
  BY <1>1, <1>2, <1>3 DEF FuseInv, Preparing

----------------------------------------------------------------------------

\* The artifacts of a parsed manifest are those it was made from.
LEMMA ParsedIsAttested ==
    ASSUME NEW raw, RawAttested(raw), NEW m, m = Reg!ParseManifest(raw), ~Bad(m)
    PROVE  \A t \in DOMAIN m.arts : Attested(t, m.arts[t])
<1>1. PICK arts : arts = raw.arts
  OBVIOUS
<1>2. m.arts = [k \in {arts[i].target : i \in DOMAIN arts} |->
                    arts[CHOOSE i \in DOMAIN arts : arts[i].target = k].digest]
  BY <1>1 DEF Reg!ParseManifest, Reg!Keyed, Reg!Refused, Bad
<1>3. ASSUME NEW t \in DOMAIN m.arts PROVE Attested(t, m.arts[t])
  <2>1. PICK i \in DOMAIN arts : arts[i].target = t
    BY <1>2, <1>3
  <2>2. PICK j : j = CHOOSE z \in DOMAIN arts : arts[z].target = t
    OBVIOUS
  <2>3. j \in DOMAIN arts /\ arts[j].target = t
    BY <2>1, <2>2
  <2>4. m.arts[t] = arts[j].digest
    BY <1>2, <1>3, <2>2
  <2> QED
    BY <1>1, <2>3, <2>4 DEF RawAttested
<1> QED
  BY <1>3

\* What a store gains is attested when it was.
LEMMA WritesAreAttested ==
    ASSUME NEW s, NEW t, StoreOK(s), StoreAttested(s),
           \/ t = s
           \/ \E d : t = WriteBlob(s, d)
           \/ \E m : t = MakeDirectory(s, m)
           \/ \E m : t = Link(s, m) /\ \A x \in DOMAIN m.arts : Attested(x, m.arts[x])
    PROVE  StoreAttested(t)
<1>1. CASE t = s \/ (\E d : t = WriteBlob(s, d)) \/ (\E m : t = MakeDirectory(s, m))
  <2>1. t.manifests = s.manifests
    BY <1>1 DEF StoreOK, WriteBlob, MakeDirectory
  <2> QED
    BY <2>1 DEF StoreAttested
<1>2. ASSUME NEW m, t = Link(s, m), \A x \in DOMAIN m.arts : Attested(x, m.arts[x]) PROVE StoreAttested(t)
  <2>1. PICK q : q = Reg!ReleaseOf(m)
    OBVIOUS
  <2>2. CASE Exists(s, m)
    BY <1>2, <2>2 DEF Link
  <2>3. CASE ~Exists(s, m)
    <3>1. t.manifests = [x \in DOMAIN s.manifests \cup {q} |-> IF x = q THEN m ELSE s.manifests[x]]
      BY <1>2, <2>1, <2>3 DEF StoreOK, Link
    <3>2. ASSUME NEW r \in DOMAIN t.manifests, NEW x \in DOMAIN t.manifests[r].arts
          PROVE  Attested(x, t.manifests[r].arts[x])
      BY <1>2, <3>1, <3>2 DEF StoreAttested
    <3> QED
      BY <3>2 DEF StoreAttested
  <2> QED
    BY <2>2, <2>3
<1> QED
  BY <1>1, <1>2

\* So is what it takes over.
LEMMA CopiesAreAttested ==
    ASSUME NEW s, NEW o, NEW t, Copies(s, o, t), StoreAttested(s), StoreAttested(o)
    PROVE  StoreAttested(t)
BY DEF Copies, Grows, StoreAttested

\* What a view shows of a release is attested.
LEMMA ViewIsAttested ==
    ASSUME Inv, FusedInv, NEW down, NEW view, view = Seen(down), NEW r \in DOMAIN view.manifests,
           NEW x \in DOMAIN view.manifests[r].arts
    PROVE  Attested(x, view.manifests[r].arts[x])
<1>1. \/ r \in DOMAIN cache.manifests /\ view.manifests[r] = cache.manifests[r]
      \/ r \in DOMAIN origin.manifests /\ view.manifests[r] = origin.manifests[r]
  BY ReadIsKept DEF Inv, Seen
<1> QED
  BY <1>1 DEF FusedInv, StoreAttested

\* A host attests what it builds.
LEMMA FusedIsAttested ==
    ASSUME NEW st, Buildable(st.recipe)
    PROVE  RawAttested(PublicationOf(st))
<1>1. PICK raw, recipe, tc, t, wasm, md, att :
        /\ raw = PublicationOf(st) /\ recipe = st.recipe /\ tc = st.config.toolchain /\ t = st.config.target
        /\ wasm = <<"wasm", recipe, tc>> /\ md = ArtifactMetadata(recipe, Reg!Sum(wasm))
        /\ att = <<"attestation", md, tc>>
  OBVIOUS
<1>2. raw.arts = <<[target |-> <<t>>, digest |-> Reg!Sum(wasm)],
                   [target |-> <<t, "fusion-attestation">>, digest |-> Reg!Sum(att)]>>
  BY <1>1 DEF PublicationOf, RegistryPublication, BuildResult, Wasm, AttestationTarget
<1>3. md.recipe = RecipeDigest(recipe) /\ md.artifact = <<"sha256", wasm>>
  BY <1>1 DEF ArtifactMetadata, Reg!Sum
<1>4. Attested(<<t>>, Reg!Sum(wasm))
  BY DEF Attested, AttestationTarget
<1>5. Attested(<<t, "fusion-attestation">>, Reg!Sum(att))
  <2>1. md.artifact[2][2] = recipe
    BY <1>1, <1>3
  <2>2. Reg!Sum(att)[2][2] = md
    BY <1>1 DEF Reg!Sum
  <2> QED
    BY <1>1, <1>3, <2>1, <2>2 DEF Attested
<1> QED
  BY <1>1, <1>2, <1>4, <1>5 DEF RawAttested


----------------------------------------------------------------------------

\* What a command sends is attested like its files.
LEMMA OutgoingIsAttested ==
    ASSUME NEW up, NEW raw, UploadOK(up), UploadAttested(up), raw = Outgoing(up), ~Bad(raw)
    PROVE  RawAttested(raw)
<1>1. CASE up.command = "publish-cell"
  <2>1. PICK cell : cell = Load(up.cell, << >>)
    OBVIOUS
  <2>2. raw = CellRelease(cell, up.id, up.target) /\ ~Bad(cell)
    BY <1>1, <2>1 DEF Outgoing, Invalid, Bad
  <2>3. cell.wasm = up.cell.wasm
    BY <2>1, <2>2 DEF Load, Invalid, Bad
  <2>4. raw.arts = <<[target |-> up.target, digest |-> Reg!Sum(up.cell.wasm)]>>
    BY <2>2, <2>3 DEF CellRelease
  <2>5. Attested(up.target, Reg!Sum(up.cell.wasm))
    BY <1>1 DEF UploadAttested
  <2> QED
    BY <2>4, <2>5 DEF RawAttested
<1>2. CASE up.command = "post" \/ up.command = "publish"
  BY <1>2 DEF Outgoing, UploadAttested, Invalid, Bad
<1>3. CASE up.command = "publish-refresh"
  <2>1. PICK file, old : file = up.file /\ old = file.arts
    OBVIOUS
  <2>2. raw = Reg!RefreshArtifacts(file, up.bytes) /\ DOMAIN up.bytes = Targets(file)
    BY <1>3, <2>1 DEF Outgoing, Invalid, Bad
  <2>3. "arts" \in DOMAIN file /\ RawAttested(file)
    BY <2>1 DEF UploadOK, RawOK, UploadAttested
  <2>4. raw.arts = [i \in DOMAIN old |-> [old[i] EXCEPT !.digest = Reg!Sum(up.bytes[old[i].target])]]
    BY <2>1, <2>2, <2>3 DEF Reg!RefreshArtifacts
  <2>5. ASSUME NEW k \in DOMAIN raw.arts PROVE Attested(raw.arts[k].target, raw.arts[k].digest)
    <3>1. PICK a, b : a = old[k] /\ b = raw.arts[k]
      OBVIOUS
    <3>2. k \in DOMAIN old /\ b = [a EXCEPT !.digest = Reg!Sum(up.bytes[a.target])]
      BY <2>4, <2>5, <3>1
    <3>3. a.target \in DOMAIN up.bytes
      BY <2>1, <2>2, <3>1, <3>2 DEF Targets
    <3>4. Attested(a.target, Reg!Sum(up.bytes[a.target]))
      BY <3>3 DEF UploadAttested
    <3>5. "target" \in DOMAIN a /\ "digest" \in DOMAIN a
      BY <2>1, <3>1, <3>2 DEF UploadOK
    <3> QED
      BY <3>1, <3>2, <3>4, <3>5
  <2> QED
    BY <2>5 DEF RawAttested
<1> QED
  BY <1>1, <1>2, <1>3 DEF UploadOK


\* The registry's side keeps the invariant: a command and the request it becomes,
LEMMA RequestStays ==
    ASSUME Inv, FusedInv, NEW u \in Upload, Uploads(u)
    PROVE  /\ StoreAttested(origin')
           /\ \A v \in Upload : RequestAttested(upload'[v])
           /\ UNCHANGED <<cache, artifacts, host>>
<1>1. PICK up, next : up = upload[u] /\ next = upload'[u]
  OBVIOUS
<1>2. UploadInv(up, origin) /\ RequestAttested(up) /\ StoreOK(origin) /\ StoreAttested(origin) /\ DOMAIN upload = Upload
  BY <1>1 DEF Inv, FusedInv
<1>3. UNCHANGED <<cache, artifacts, host>>
  BY DEF Uploads, Submit, Receive, UploadBlob, UploadDirectory, UploadLink, Record, Rewrite, RegistryOnly
<1>4. ASSUME StoreAttested(origin'), RequestAttested(next), \A v \in Upload \ {u} : upload'[v] = upload[v]
      PROVE  StoreAttested(origin') /\ \A v \in Upload : RequestAttested(upload'[v])
  BY <1>1, <1>4 DEF FusedInv
<1>5. CASE Submit(u)
  <2>1. PICK raw : raw = Outgoing(up)
    OBVIOUS
  <2>2. up.pc = "command" /\ UploadOK(up) /\ UploadAttested(up)
    BY <1>1, <1>2, <1>5 DEF Submit, Uploading, UploadInv, RequestAttested
  <2>3. \/ next = [up EXCEPT !.pc = "sent", !.raw = raw] /\ ~Bad(raw)
        \/ next = [up EXCEPT !.pc = "refused"]
    BY <1>1, <1>2, <1>5, <2>1 DEF Submit
  <2>4. RequestAttested(next)
    <3>1. {"pc", "raw"} \subseteq DOMAIN up
      BY <2>2 DEF UploadOK
    <3>2. CASE next = [up EXCEPT !.pc = "sent", !.raw = raw] /\ ~Bad(raw)
      BY <2>1, <2>2, <3>1, <3>2, OutgoingIsAttested DEF RequestAttested
    <3>3. CASE next = [up EXCEPT !.pc = "refused"]
      BY <3>1, <3>3 DEF RequestAttested
    <3> QED
      BY <2>3, <3>2, <3>3
  <2>5. origin' = origin /\ \A v \in Upload \ {u} : upload'[v] = upload[v]
    BY <1>2, <1>5 DEF Submit
  <2> QED
    BY <1>2, <1>3, <1>4, <2>4, <2>5
<1>6. CASE Receive(u) \/ Record(u) \/ Rewrite(u)
  <2>1. /\ up.pc # "off" /\ {"pc", "n", "raw", "file"} \subseteq DOMAIN up
    BY <1>1, <1>2, <1>6 DEF Receive, Record, Rewrite, Uploading, UploadInv
  <2>2. \/ up.pc = "sent" /\ \E pc \in {"blobs", "refused"} : next = [up EXCEPT !.pc = pc]
        \/ next = [up EXCEPT !.pc = "created"]
        \/ next = [up EXCEPT !.pc = "done", !.file = up.raw]
    BY <1>1, <1>2, <1>6 DEF Receive, Record, Rewrite, Uploading
  <2>3. RequestAttested(next)
    BY <1>2, <2>1, <2>2 DEF RequestAttested
  <2>4. origin' = origin /\ \A v \in Upload \ {u} : upload'[v] = upload[v]
    BY <1>2, <1>6 DEF Receive, Record, Rewrite
  <2> QED
    BY <1>2, <1>3, <1>4, <2>3, <2>4
<1>7. CASE UploadBlob(u)
  <2>1. up.pc = "blobs" /\ {"pc", "n", "raw", "file"} \subseteq DOMAIN up /\ RawAttested(up.raw)
    BY <1>1, <1>2, <1>7 DEF UploadBlob, Uploading, UploadInv, RequestAttested
  <2>2. next = [up EXCEPT !.n = @ + 1] \/ next = [up EXCEPT !.pc = "refused"]
    BY <1>1, <1>2, <1>7 DEF UploadBlob
  <2>3. RequestAttested(next)
    BY <2>1, <2>2 DEF RequestAttested
  <2>4. origin' = origin \/ \E d : origin' = WriteBlob(origin, d)
    BY <1>7 DEF UploadBlob
  <2>5. StoreAttested(origin')
    BY <1>2, <2>4, WritesAreAttested
  <2>6. \A v \in Upload \ {u} : upload'[v] = upload[v]
    BY <1>2, <1>7 DEF UploadBlob
  <2> QED
    BY <1>3, <1>4, <2>3, <2>5, <2>6
<1>8. CASE UploadDirectory(u)
  <2>1. up.pc = "blobs" /\ {"pc", "n", "raw", "file"} \subseteq DOMAIN up /\ RawAttested(up.raw)
    BY <1>1, <1>2, <1>8 DEF UploadDirectory, Uploading, UploadInv, RequestAttested
  <2>2. PICK pc : next = [up EXCEPT !.pc = pc] /\ pc \in {"record", "created", "refused", "link"}
    BY <1>1, <1>2, <1>8 DEF UploadDirectory, Written
  <2>3. RequestAttested(next)
    BY <2>1, <2>2 DEF RequestAttested
  <2>4. origin' = origin \/ \E m : origin' = MakeDirectory(origin, m)
    BY <1>8 DEF UploadDirectory
  <2>5. StoreAttested(origin')
    BY <1>2, <2>4, WritesAreAttested
  <2>6. \A v \in Upload \ {u} : upload'[v] = upload[v]
    BY <1>2, <1>8 DEF UploadDirectory
  <2> QED
    BY <1>3, <1>4, <2>3, <2>5, <2>6
<1>9. CASE UploadLink(u)
  <2>1. PICK m : m = Reg!ParseManifest(up.raw)
    OBVIOUS
  <2>2. up.pc = "link" /\ {"pc", "n", "raw", "file"} \subseteq DOMAIN up /\ RawAttested(up.raw) /\ ~Bad(m)
    BY <1>1, <1>2, <1>9, <2>1 DEF UploadLink, Uploading, UploadInv, RequestAttested
  <2>3. PICK pc : next = [up EXCEPT !.pc = pc] /\ pc \in {"record", "created", "refused"}
    BY <1>1, <1>2, <1>9 DEF UploadLink, Written
  <2>4. RequestAttested(next)
    BY <2>2, <2>3 DEF RequestAttested
  <2>5. origin' = Link(origin, m)
    BY <1>1, <1>9, <2>1 DEF UploadLink, Manifest
  <2>6. StoreAttested(origin')
    BY <1>2, <2>1, <2>2, <2>5, ParsedIsAttested, WritesAreAttested
  <2>7. \A v \in Upload \ {u} : upload'[v] = upload[v]
    BY <1>2, <1>9 DEF UploadLink
  <2> QED
    BY <1>3, <1>4, <2>4, <2>6, <2>7
<1> QED
  BY <1>5, <1>6, <1>7, <1>8, <1>9 DEF Uploads


----------------------------------------------------------------------------

\* A recipe depends only on the sources of its members.
LEMMA SameRecipe ==
    ASSUME NEW g, NEW go, NEW a, NEW b, \A k \in DOMAIN g.members : a[g.members[k].name] = b[g.members[k].name]
    PROVE  NewRecipe(g, go, a) = NewRecipe(g, go, b)
BY DEF NewRecipe

\* A release that was read is in the cache afterwards.
LEMMA ReadIsFilled ==
    ASSUME NEW s, NEW o, NEW mt, NEW dn, NEW ids, NEW rs, NEW view, view = Reg!View(s, o, mt, dn, ids), StoreOK(s), StoreOK(o),
           NEW t, t = Reg!Filled(s, o, mt, dn, rs), NEW r \in rs, r \in DOMAIN view.manifests
    PROVE  r \in DOMAIN t.manifests /\ t.manifests[r] = view.manifests[r]
<1>1. PICK new : new = {x \in rs : Reg!Fetchable(s, o, mt, dn, x)}
  OBVIOUS
<1>2. t.manifests = [x \in DOMAIN s.manifests \cup new |-> IF x \in new THEN o.manifests[x] ELSE s.manifests[x]]
  BY <1>1 DEF Reg!Filled
<1>3. \/ r \in DOMAIN s.manifests /\ view.manifests[r] = s.manifests[r]
      \/ Reg!Fetchable(s, o, mt, dn, r) /\ view.manifests[r] = o.manifests[r]
  BY ReadIsKept
<1>4. \A x \in new : x \notin DOMAIN s.manifests
  BY <1>1, FetchableIsStored
<1> QED
  BY <1>1, <1>2, <1>3, <1>4

\* A host that reads its sources has the recipe of its group.
LEMMA ReadSourcesFuses ==
    ASSUME Inv, FusedInv, NEW h \in Host, NEW down, ReadSources(h, down)
    PROVE  \E next : Step(h, next) /\ FuseInv(next, cache', artifacts')
<1>1. PICK st, g, view, bound, rs, sources, groups :
        /\ st = host[h] /\ groups = Groups(st.app.cells) /\ g = groups[st.k] /\ view = Seen(down)
        /\ bound = {n \in DOMAIN st.config.bindings \cap MemberNames(g) : HasSource(view, st.config.bindings[n])}
        /\ rs = {st.config.bindings[n] : n \in bound}
        /\ sources = [n \in bound |-> SourceOf(view, st.config.bindings[n])]
  OBVIOUS
<1>2. /\ {"config", "pc", "k", "n", "app", "units", "recipe", "why", "layout"} \subseteq DOMAIN st
      /\ FuseInv(st, cache, artifacts) /\ st.pc = "recipe" /\ StoreOK(cache) /\ StoreOK(origin)
  BY <1>1 DEF Inv, HostInv, FusedInv, ReadSources, At
<1>3. /\ GroupOf(h) = g /\ Config(h) = st.config
  BY <1>1 DEF GroupOf, App, Config
<1>4. cache' = Reg!Filled(cache, origin, meta, down, rs) /\ artifacts' = artifacts
  BY <1>1, <1>3 DEF ReadSources
<1>5. \A r \in DOMAIN cache.manifests : r \in DOMAIN cache'.manifests /\ cache'.manifests[r] = cache.manifests[r]
  BY <1>2, <1>4, FilledKeeps DEF Grows
<1>6. CASE RecipeValid(g, st.config.go, sources)
  <2>1. PICK next : next = [st EXCEPT !.pc = "exists", !.recipe = NewRecipe(g, st.config.go, sources)]
    OBVIOUS
  <2>2. Step(h, next)
    BY <1>1, <1>3, <1>6, <2>1, Zenon DEF ReadSources
  <2>3. /\ next.config = st.config /\ next.app = st.app /\ next.units = st.units /\ next.pc = "exists"
        /\ next.k = st.k /\ next.recipe = NewRecipe(g, st.config.go, sources)
    BY <1>2, <2>1
  <2>4. MemberNames(g) \subseteq bound
    <3>1. DOMAIN sources = bound
      BY <1>1
    <3>2. \A k \in DOMAIN g.members : g.members[k].name \in DOMAIN sources
      BY <1>6 DEF RecipeValid
    <3> QED
      BY <3>1, <3>2 DEF MemberNames
  <2>5. ASSUME NEW n \in MemberNames(g)
        PROVE  /\ st.config.bindings[n] \in DOMAIN cache'.manifests
               /\ sources[n] = SourceOf(cache', st.config.bindings[n])
    <3>1. PICK r : r = st.config.bindings[n] /\ r \in rs /\ r \in DOMAIN view.manifests
      BY <1>1, <2>4, <2>5 DEF HasSource
    <3>2. r \in DOMAIN cache'.manifests /\ cache'.manifests[r] = view.manifests[r]
      <4>1. view = Reg!View(cache, origin, meta, down, ModuleIDs)
        BY <1>1 DEF Seen
      <4> QED
        BY <1>2, <1>4, <3>1, <4>1, ReadIsFilled
    <3>3. sources[n] = SourceOf(view, r)
      BY <1>1, <2>4, <3>1
    <3> QED
      BY <3>1, <3>2, <3>3 DEF SourceOf
  <2>6. Bound(next, cache', g)
    BY <2>3, <2>5 DEF Bound
  <2>7. next.recipe = RecipeOf(next, cache', g)
    <3>1. PICK ours : ours = [n \in MemberNames(g) |-> SourceOf(cache', st.config.bindings[n])]
      OBVIOUS
    <3>2. \A k \in DOMAIN g.members : sources[g.members[k].name] = ours[g.members[k].name]
      BY <2>5, <3>1 DEF MemberNames
    <3>3. NewRecipe(g, st.config.go, sources) = NewRecipe(g, st.config.go, ours)
      BY <3>2, SameRecipe
    <3> QED
      BY <2>3, <3>1, <3>3 DEF RecipeOf
  <2>8. \A k \in DOMAIN next.units : UnitInv(next, cache', artifacts', next.units[k])
    BY <1>2, <1>4, <1>5, <2>3, UnitStays DEF FuseInv
  <2>9. FuseInv(next, cache', artifacts')
    <3>1. next.k \in DOMAIN groups /\ next.units \in Seq(Range(next.units))
      BY <1>1, <1>2, <2>3 DEF FuseInv
    <3> QED
      BY <1>1, <2>3, <2>6, <2>7, <2>8, <3>1 DEF FuseInv
  <2> QED
    BY <2>2, <2>9
<1>7. CASE ~RecipeValid(g, st.config.go, sources)
  <2>1. PICK next : next = Fallback(h, "recipe")
    OBVIOUS
  <2>2. Step(h, next)
    BY <1>1, <1>3, <1>7, <2>1, Zenon DEF ReadSources
  <2>3. /\ next.config = st.config /\ next.app = st.app /\ next.units = st.units
        /\ next.pc \notin Preparing \cup {"recipe", "load"}
    BY <1>1, <1>2, <2>1 DEF Fallback, Preparing
  <2>4. FuseInv(next, cache', artifacts')
    BY <1>2, <1>4, <1>5, <2>3, FuseStays
  <2> QED
    BY <2>2, <2>4
<1> QED
  BY <1>6, <1>7

\* An artifact with the metadata of a recipe brings what the members have.
LEMMA MetadataBrings ==
    ASSUME NEW g, NEW go, NEW sources, NEW recipe, NEW md, NEW d, NEW spec,
           recipe = NewRecipe(g, go, sources), Buildable(recipe), md = ArtifactMetadata(recipe, d),
           spec.provides = md.providers, spec.capabilities = md.capabilities
    PROVE  Brings(spec, g)
<1>1. PICK ms, rs : ms = g.members /\ rs = recipe.members
  OBVIOUS
<1>2. /\ DOMAIN rs = DOMAIN ms
      /\ \A k \in DOMAIN ms : rs[k].providers = ms[k].provides /\ rs[k].capabilities = ms[k].capabilities
  BY <1>1 DEF NewRecipe, RecipeMember
<1>3. /\ md.providers = UNION {rs[k].providers : k \in DOMAIN rs}
      /\ md.capabilities = UNION {rs[k].capabilities : k \in DOMAIN rs}
  BY <1>1 DEF ArtifactMetadata
<1>4. \A j, k \in DOMAIN rs : rs[j].capabilities = rs[k].capabilities
  BY <1>1 DEF Buildable, validateBuildRecipe
<1>5. \A m \in Range(ms) : m.capabilities = spec.capabilities
  <2> TAKE m \in Range(ms)
  <2>1. PICK k \in DOMAIN ms : m = ms[k]
    BY DEF Range
  <2>2. m.capabilities = rs[k].capabilities /\ k \in DOMAIN rs
    BY <1>2, <2>1
  <2>3. md.capabilities = rs[k].capabilities
    BY <1>3, <1>4, <2>2
  <2> QED
    BY <2>2, <2>3
<1>6. {rs[k].providers : k \in DOMAIN rs} = {m.provides : m \in Range(ms)}
  BY <1>2 DEF Range
<1>7. spec.provides = UNION {m.provides : m \in Range(ms)}
  BY <1>3, <1>6
<1> QED
  BY <1>1, <1>5, <1>7 DEF Brings

\* What a host activates was built from the recipe it has.
LEMMA ActivateFuses ==
    ASSUME Inv, FusedInv, NEW h \in Host, NEW down, Activate(h, down)
    PROVE  \E next : Step(h, next) /\ FuseInv(next, cache', artifacts')
<1>1. PICK st, groups, g, view, fused, id, wasm, md, physical, selected :
        /\ st = host[h] /\ groups = Groups(st.app.cells) /\ g = groups[st.k] /\ view = Seen(down)
        /\ fused = FusedLock(h, view) /\ id = Fused(h)[1]
        /\ wasm = SelectedWasm(fused, id) /\ md = SelectedMetadata(view, fused, id)
        /\ physical = PhysicalSpec(Config(h).physical, Fused(h)[2], md, wasm)
        /\ selected <=> /\ Reg!Verify(view, fused)
                        /\ SelectFromRegistry(view, fused, id, st.recipe)
                        /\ ValidateCellArtifact(physical, md, wasm)
  OBVIOUS
<1>2. /\ {"config", "pc", "k", "n", "app", "units", "recipe", "why", "layout"} \subseteq DOMAIN st
      /\ FuseInv(st, cache, artifacts) /\ st.pc = "select"
  BY <1>1 DEF Inv, HostInv, FusedInv, Activate, At
<1>3. GroupOf(h) = g /\ cache' = cache
  BY <1>1 DEF GroupOf, App, Activate
<1>4. CASE selected
  <2>1. PICK unit, next : /\ unit = AutomaticUnit(g, physical)
                          /\ next = [st EXCEPT !.pc = "group", !.k = @ + 1, !.n = 0, !.recipe = << >>,
                                               !.units = Append(@, unit)]
    OBVIOUS
  <2>2. Step(h, next) /\ artifacts' = artifacts \cup {Reg!Sum(wasm)}
    BY <1>1, <1>3, <1>4, <2>1 DEF Activate, Materialize
  <2>3. /\ next.config = st.config /\ next.app = st.app /\ next.pc = "group"
        /\ next.units = Append(st.units, unit)
    BY <1>2, <2>1
  <2>4. /\ unit.members = MemberNames(g) /\ unit.artifact.wasm = wasm
        /\ unit.artifact.provides = md.providers /\ unit.artifact.capabilities = md.capabilities
    BY <1>1, <2>1 DEF AutomaticUnit, PhysicalSpec
  <2>5. wasm[2] = st.recipe /\ Brings(unit.artifact, g)
    <3>1. PICK r, m, att : /\ r = <<id, fused.modules[id].version>> /\ m = view.manifests[r]
                           /\ att = AttestationTarget(fused.target[1])
      OBVIOUS
    <3>2. /\ id \in DOMAIN fused.modules /\ att \in DOMAIN m.arts /\ m.arts[att][2][1] = "attestation"
          /\ md = m.arts[att][2][2] /\ md.artifact = fused.modules[id].artifact
          /\ md = ArtifactMetadata(st.recipe, md.artifact)
      BY <1>1, <1>4, <3>1 DEF SelectFromRegistry, SelectedMetadata, ValidateArtifact
    <3>3. r \in DOMAIN view.manifests
      BY <1>1, <1>4, <3>1, <3>2 DEF Reg!Verify, Reg!ModuleVerifies
    <3>4. Attested(att, m.arts[att])
      BY <1>1, <3>1, <3>2, <3>3, ViewIsAttested
    <3>5. att = AttestationTarget(att[1])
      BY <3>1 DEF AttestationTarget
    <3>6. md.recipe = RecipeDigest(md.artifact[2][2]) /\ Buildable(md.artifact[2][2])
      BY <3>2, <3>4, <3>5 DEF Attested
    <3>7. md.recipe = RecipeDigest(st.recipe)
      <4>1. PICK d : d = md.artifact
        OBVIOUS
      <4>2. ArtifactMetadata(st.recipe, d).recipe = RecipeDigest(st.recipe)
        BY DEF ArtifactMetadata
      <4> QED
        BY <3>2, <4>1, <4>2
    <3>8. md.artifact[2][2] = st.recipe
      BY <3>6, <3>7 DEF RecipeDigest, Reg!Sum
    <3>9. wasm[2] = st.recipe
      BY <1>1, <3>2, <3>8 DEF SelectedWasm
    <3>10. st.recipe = RecipeOf(st, cache, g)
      BY <1>1, <1>2 DEF FuseInv, Preparing
    <3>11. Brings(unit.artifact, g)
      BY <2>4, <3>2, <3>6, <3>8, <3>10, MetadataBrings DEF RecipeOf
    <3> QED
      BY <3>9, <3>11
  <2>6. UnitInv(st, cache, artifacts', unit)
    <3>1. g \in Range(groups) /\ Bound(st, cache, g) /\ st.recipe = RecipeOf(st, cache, g)
      BY <1>1, <1>2 DEF FuseInv, Preparing, Range
    <3> QED
      BY <1>1, <2>2, <2>4, <2>5, <3>1 DEF UnitInv
  <2>7. PICK units, news, S, T : /\ units = st.units /\ news = next.units
                                 /\ S = Range(units) /\ T = Range(news)
    OBVIOUS
  <2>8. units \in Seq(S) /\ news = Append(units, unit)
    BY <1>2, <2>3, <2>7 DEF FuseInv
  <2>9. ASSUME NEW k \in DOMAIN news
        PROVE  (k \in DOMAIN units /\ news[k] = units[k]) \/ news[k] = unit
    BY <2>8, <2>9
  <2>10. \A k \in DOMAIN news : UnitInv(next, cache', artifacts', news[k])
    <3>1. \A k \in DOMAIN units : UnitInv(next, cache', artifacts', units[k])
      BY <1>2, <1>3, <2>2, <2>3, <2>7, UnitStays DEF FuseInv
    <3>2. UnitInv(next, cache', artifacts', unit)
      BY <1>3, <2>3, <2>6, UnitStays
    <3> QED
      BY <2>9, <3>1, <3>2
  <2>11. news \in Seq(T)
    <3>1. Len(news) \in Nat /\ DOMAIN news = 1 .. Len(news) /\ news = [k \in 1 .. Len(news) |-> news[k]]
      <4>1. PICK W : W = S \cup {unit}
        OBVIOUS
      <4>2. units \in Seq(W) /\ unit \in W
        BY <2>8, <4>1
      <4>3. news \in Seq(W)
        BY <2>8, <4>2
      <4> QED
        BY <4>3
    <3>2. \A k \in 1 .. Len(news) : news[k] \in T
      BY <2>7, <3>1 DEF Range
    <3> QED
      BY <3>1, <3>2
  <2>12. FuseInv(next, cache', artifacts')
    BY <2>3, <2>7, <2>10, <2>11 DEF FuseInv, Preparing
  <2> QED
    BY <2>2, <2>12
<1>5. CASE ~selected
  <2>1. PICK next : next = Fallback(h, "select")
    OBVIOUS
  <2>2. Step(h, next) /\ artifacts' = artifacts
    BY <1>1, <1>5, <2>1 DEF Activate
  <2>3. /\ next.config = st.config /\ next.app = st.app /\ next.units = st.units
        /\ next.pc \notin Preparing \cup {"recipe", "load"}
    BY <1>1, <1>2, <2>1 DEF Fallback, Preparing
  <2>4. FuseInv(next, cache', artifacts')
    BY <1>2, <1>3, <2>2, <2>3, FuseStays
  <2> QED
    BY <2>2, <2>4
<1> QED
  BY <1>4, <1>5


\* A host that begins has prepared nothing.
LEMMA FreshFuses ==
    ASSUME NEW config, NEW s, NEW arts
    PROVE  FuseInv(Fresh(config), s, arts)
<1>1. PICK st : st = Fresh(config)
  OBVIOUS
<1>2. st.units = << >> /\ st.pc \in {"off", "load"}
  BY <1>1 DEF Fresh
<1>3. << >> \in Seq(Range(<< >>)) /\ DOMAIN (<< >>) = {}
  OBVIOUS
<1> QED
  BY <1>1, <1>2, <1>3 DEF FuseInv, Preparing

\* Every step of a start keeps what it has.
LEMMA HostFuses ==
    ASSUME Inv, FusedInv, NEW h \in Host, LoadApplication(h) \/ NextGroup(h) \/ Prepare(h) \/ Crash(h)
    PROVE  \E next : Step(h, next) /\ FuseInv(next, cache', artifacts')
<1>1. PICK st, groups : st = host[h] /\ groups = Groups(st.app.cells)
  OBVIOUS
<1>2. /\ {"config", "pc", "k", "n", "app", "units", "recipe", "why", "layout"} \subseteq DOMAIN st
      /\ FuseInv(st, cache, artifacts)
  BY <1>1 DEF Inv, HostInv, FusedInv
<1>3. \A r \in DOMAIN cache.manifests : r \in DOMAIN cache'.manifests /\ cache'.manifests[r] = cache.manifests[r]
  BY StoresAreImmutable DEF Next
<1>4. ASSUME NEW why, artifacts' = artifacts PROVE FuseInv(Fallback(h, why), cache', artifacts')
  <2>1. PICK next : next = Fallback(h, why)
    OBVIOUS
  <2>2. /\ next.config = st.config /\ next.app = st.app /\ next.units = st.units
        /\ next.pc \notin Preparing \cup {"recipe", "load"}
    BY <1>1, <1>2, <2>1 DEF Fallback, Preparing
  <2> QED
    BY <1>2, <1>3, <1>4, <2>1, <2>2, FuseStays
<1>5. ASSUME NEW pc \in Preparing, artifacts' = artifacts, st.pc \in Preparing,
             pc \in {"blobs", "link"} => Buildable(st.recipe)
      PROVE  FuseInv([st EXCEPT !.pc = pc], cache', artifacts')
  <2>1. PICK next : next = [st EXCEPT !.pc = pc]
    OBVIOUS
  <2>2. /\ next.config = st.config /\ next.app = st.app /\ next.units = st.units
        /\ next.pc = pc /\ next.k = st.k /\ next.recipe = st.recipe
    BY <1>2, <2>1
  <2> QED
    BY <1>2, <1>3, <1>5, <2>1, <2>2, FuseStays
<1>6. CASE LoadApplication(h)
  <2>1. PICK next : Step(h, next) /\ \E app, pc : /\ next = [st EXCEPT !.app = app, !.pc = pc]
                                                  /\ pc \in {"failed", "group"}
    <3>1. PICK app, pc : /\ app = LoadApp(Config(h).app, Config(h).env)
                         /\ pc = IF Bad(app) THEN "failed" ELSE "group"
      OBVIOUS
    <3>2. Step(h, [st EXCEPT !.app = app, !.pc = pc])
      BY <1>1, <1>6, <3>1, Zenon DEF LoadApplication
    <3>3. pc \in {"failed", "group"}
      BY <3>1
    <3> QED
      BY <3>2, <3>3
  <2>2. st.pc = "load" /\ st.units = << >>
    BY <1>1, <1>2, <1>6 DEF LoadApplication, At, FuseInv
  <2>3. next.units = << >> /\ next.pc \in {"failed", "group"}
    BY <1>2, <2>1, <2>2
  <2>4. << >> \in Seq(Range(<< >>)) /\ DOMAIN (<< >>) = {}
    OBVIOUS
  <2>5. FuseInv(next, cache', artifacts')
    BY <2>3, <2>4 DEF FuseInv, Preparing
  <2> QED
    BY <2>1, <2>5
<1>7. CASE NextGroup(h)
  <2>1. CASE st.k \notin DOMAIN groups
    <3>1. PICK next : Step(h, next) /\ \E l : next = [st EXCEPT !.layout = l, !.pc = IF Bad(l) THEN "failed" ELSE "started"]
      BY <1>1, <1>7, <2>1, Zenon DEF NextGroup, App
    <3>2. /\ next.config = st.config /\ next.app = st.app /\ next.units = st.units
          /\ next.pc \notin Preparing \cup {"recipe", "load"}
      BY <1>2, <3>1 DEF Preparing
    <3>3. artifacts' = artifacts
      BY <1>7 DEF NextGroup, NoWrite
    <3> QED
      BY <1>2, <1>3, <3>1, <3>2, <3>3, FuseStays
  <2>2. CASE st.k \in DOMAIN groups
    <3>1. PICK p, q, pc, k :
            /\ (p <=> OverlapsUnit(App(h), GroupOf(h))) /\ (q <=> CoveredMembers(App(h), GroupOf(h)) = {})
            /\ pc = CASE p -> "failed" [] q -> "recipe" [] OTHER -> "group"
            /\ k = IF ~p /\ ~q THEN st.k + 1 ELSE st.k
      OBVIOUS
    <3>2. PICK next : next = [st EXCEPT !.pc = pc, !.k = k]
      OBVIOUS
    <3>3. Step(h, next)
      BY <1>1, <1>7, <2>2, <3>1, <3>2 DEF NextGroup, App
    <3>4. pc \in {"failed", "group"} \/ (pc = "recipe" /\ k = st.k)
      <4>1. p => ~q
        BY <3>1 DEF OverlapsUnit
      <4>2. CASE p
        BY <3>1, <4>1, <4>2
      <4>3. CASE ~p /\ q
        BY <3>1, <4>3
      <4>4. CASE ~p /\ ~q
        BY <3>1, <4>4
      <4> QED
        BY <4>2, <4>3, <4>4
    <3>5. next.config = st.config /\ next.app = st.app /\ next.units = st.units /\ next.pc = pc /\ next.k = k
      BY <1>2, <3>2
    <3>6. artifacts' = artifacts
      BY <1>7 DEF NextGroup, NoWrite
    <3>7. \/ next.pc \notin Preparing \cup {"recipe", "load"}
          \/ next.pc = "recipe" /\ next.k \in DOMAIN Groups(st.app.cells)
      BY <1>1, <2>2, <3>4, <3>5 DEF Preparing
    <3> QED
      BY <1>2, <1>3, <3>3, <3>5, <3>6, <3>7, FuseStays
  <2> QED
    BY <2>1, <2>2
<1>8. ASSUME NEW down, ReadSources(h, down) PROVE \E next : Step(h, next) /\ FuseInv(next, cache', artifacts')
  BY <1>8, ReadSourcesFuses
<1>9. ASSUME NEW down, ReleaseExists(h, down) PROVE \E next : Step(h, next) /\ FuseInv(next, cache', artifacts')
  <2>1. PICK next : Step(h, next) /\ Decided(h, next)
    BY <1>9, ExistsDecides
  <2>2. st.pc = "exists" /\ artifacts' = artifacts
    BY <1>1, <1>9 DEF ReleaseExists, At, NoWrite
  <2>3. /\ FuseInv([st EXCEPT !.pc = "resolve"], cache', artifacts')
        /\ FuseInv([st EXCEPT !.pc = "build"], cache', artifacts')
        /\ FuseInv(Fallback(h, "list"), cache', artifacts') /\ FuseInv(Fallback(h, "absent"), cache', artifacts')
    BY <1>4, <1>5, <2>2 DEF Preparing
  <2> QED
    BY <1>1, <2>1, <2>3 DEF Decided
<1>10. CASE Build(h)
  <2>1. st.pc = "build" /\ artifacts' = artifacts
    BY <1>1, <1>10 DEF Build, At, NoWrite
  <2>2. \/ Step(h, [st EXCEPT !.pc = "blobs"]) /\ Buildable(st.recipe)
        \/ Step(h, Fallback(h, "build"))
    BY <1>1, <1>10 DEF Build
  <2> QED
    BY <1>4, <1>5, <2>1, <2>2 DEF Preparing
<1>11. CASE PublishBlob(h)
  <2>1. PICK next : next = [st EXCEPT !.n = @ + 1]
    OBVIOUS
  <2>2. Step(h, next) /\ st.pc = "blobs" /\ artifacts' = artifacts
    BY <1>1, <1>11, <2>1 DEF PublishBlob, At
  <2>3. /\ next.config = st.config /\ next.app = st.app /\ next.units = st.units
        /\ next.pc = "blobs" /\ next.k = st.k /\ next.recipe = st.recipe
    BY <1>2, <2>1, <2>2
  <2>4. Buildable(st.recipe)
    BY <1>2, <2>2 DEF FuseInv
  <2>5. FuseInv(next, cache', artifacts')
    BY <1>2, <1>3, <2>2, <2>3, <2>4, FuseStays DEF Preparing
  <2> QED
    BY <2>2, <2>5
<1>12. CASE PublishDirectory(h)
  <2>1. PICK p, q, a, b, c : /\ (p <=> Exists(cache, FusedManifest(h))) /\ (q <=> Same(cache, FusedManifest(h)))
                             /\ a = [st EXCEPT !.pc = "link"] /\ b = [st EXCEPT !.pc = "resolve"]
                             /\ c = Fallback(h, "conflict")
    OBVIOUS
  <2>2. PICK next : next = CASE ~p -> a [] q -> b [] OTHER -> c
    OBVIOUS
  <2>3. Step(h, next) /\ st.pc = "blobs" /\ artifacts' = artifacts
    BY <1>1, <1>12, <2>1, <2>2 DEF PublishDirectory, At
  <2>4. next \in {a, b, c}
    BY <2>2
  <2>5. Buildable(st.recipe)
    BY <1>2, <2>3 DEF FuseInv
  <2>6. FuseInv(a, cache', artifacts') /\ FuseInv(b, cache', artifacts') /\ FuseInv(c, cache', artifacts')
    BY <1>4, <1>5, <2>1, <2>3, <2>5 DEF Preparing
  <2> QED
    BY <2>3, <2>4, <2>6
<1>13. CASE PublishLink(h)
  <2>1. Step(h, Fallback(h, "conflict")) \/ Step(h, [st EXCEPT !.pc = "resolve"])
    BY <1>1, <1>13 DEF PublishLink
  <2>2. st.pc = "link" /\ artifacts' = artifacts
    BY <1>1, <1>13 DEF PublishLink, At
  <2> QED
    BY <1>4, <1>5, <2>1, <2>2 DEF Preparing
<1>14. ASSUME NEW down, ResolveRelease(h, down) PROVE \E next : Step(h, next) /\ FuseInv(next, cache', artifacts')
  <2>1. Step(h, Fallback(h, "resolve")) \/ Step(h, [st EXCEPT !.pc = "select"])
    BY <1>1, <1>14, Zenon DEF ResolveRelease
  <2>2. st.pc = "resolve" /\ artifacts' = artifacts
    BY <1>1, <1>14 DEF ResolveRelease, At
  <2> QED
    BY <1>4, <1>5, <2>1, <2>2 DEF Preparing
<1>15. ASSUME NEW down, Activate(h, down) PROVE \E next : Step(h, next) /\ FuseInv(next, cache', artifacts')
  BY <1>15, ActivateFuses
<1>16. CASE Crash(h)
  <2>1. PICK next : next = Fresh(st.config)
    OBVIOUS
  <2>2. Step(h, next)
    BY <1>1, <1>16, <2>1 DEF Crash, Config
  <2>3. FuseInv(next, cache', artifacts')
    BY <2>1, FreshFuses
  <2> QED
    BY <2>2, <2>3
<1> QED
  BY <1>6, <1>7, <1>8, <1>9, <1>10, <1>11, <1>12, <1>13, <1>14, <1>15, <1>16 DEF Prepare


\* A host links only what it attests.
LEMMA CacheIsAttested ==
    ASSUME Inv, FusedInv, [Next]_vars
    PROVE  StoreAttested(cache')
<1>1. StoreOK(cache) /\ StoreAttested(cache) /\ StoreAttested(origin)
  BY DEF Inv, FusedInv
<1>2. CASE Copies(cache, origin, cache')
  BY <1>1, <1>2, CopiesAreAttested
<1>3. CASE \/ cache' = cache
           \/ \E d : cache' = WriteBlob(cache, d)
           \/ \E m : cache' = MakeDirectory(cache, m)
  BY <1>1, <1>3, WritesAreAttested
<1>4. ASSUME NEW h \in Host, PublishLink(h) PROVE StoreAttested(cache')
  <2>1. PICK st, raw, m : st = host[h] /\ raw = PublicationOf(st) /\ m = Reg!ParseManifest(raw)
    OBVIOUS
  <2>2. st.pc = "link" /\ ConfigOK(st.config) /\ Buildable(st.recipe)
    BY <1>4, <2>1 DEF PublishLink, At, Inv, HostInv, FusedInv, FuseInv
  <2>3. RawAttested(raw) /\ ~Bad(m)
    BY <2>1, <2>2, FusedIsAttested, FusedIsRaw
  <2>4. \A t \in DOMAIN m.arts : Attested(t, m.arts[t])
    BY <2>1, <2>3, ParsedIsAttested
  <2>5. cache' = Link(cache, m)
    BY <1>4, <2>1, PublishingIs DEF PublishLink
  <2> QED
    BY <1>1, <2>4, <2>5, WritesAreAttested
<1>5. CASE UNCHANGED vars
  BY <1>3, <1>5 DEF vars
<1>6. ASSUME NEW u \in Upload, Uploads(u) PROVE StoreAttested(cache')
  BY <1>3, <1>6, RequestStays
<1>7. ASSUME NEW x, NEW state, SetReleaseStatus(x, state) PROVE StoreAttested(cache')
  BY <1>3, <1>7 DEF SetReleaseStatus
<1>8. ASSUME NEW down, NEW then, Sync(down, then) PROVE StoreAttested(cache')
  BY <1>2, <1>8, SyncCopies
<1>10. ASSUME NEW r \in DOMAIN origin.manifests, Fetch(r) PROVE StoreAttested(cache')
  BY <1>2, <1>10, FetchCopies
<1>9. ASSUME NEW h \in Host, LoadApplication(h) \/ NextGroup(h) \/ Prepare(h) \/ Crash(h)
      PROVE  StoreAttested(cache')
  <2>1. CASE LoadApplication(h) \/ NextGroup(h) \/ Crash(h) \/ Build(h)
    BY <1>3, <2>1 DEF LoadApplication, NextGroup, Crash, Build, NoWrite
  <2>6. ASSUME NEW down, ReleaseExists(h, down) \/ Activate(h, down) PROVE StoreAttested(cache')
    BY <1>3, <2>6 DEF ReleaseExists, Activate, NoWrite
  <2>2. ASSUME NEW down, ReadSources(h, down) \/ ResolveRelease(h, down) PROVE StoreAttested(cache')
    BY <1>2, <2>2, ReadingCopies
  <2>3. CASE PublishBlob(h)
    BY <1>3, <2>3 DEF PublishBlob
  <2>4. CASE PublishDirectory(h)
    BY <1>3, <2>4 DEF PublishDirectory
  <2>5. CASE PublishLink(h)
    BY <1>4, <2>5
  <2> QED
    BY <1>9, <2>1, <2>2, <2>3, <2>4, <2>5, <2>6 DEF Prepare
<1> QED
  BY <1>5, <1>6, <1>7, <1>8, <1>9, <1>10 DEF Next

\* A step that leaves the hosts and the materialized artifacts alone.
LEMMA OthersKeepFused ==
    ASSUME Inv, FusedInv, [Next]_vars, UNCHANGED <<host, artifacts>>, StoreAttested(origin'),
           \A v \in Upload : RequestAttested(upload'[v])
    PROVE  FusedInv'
<1>1. \A r \in DOMAIN cache.manifests : r \in DOMAIN cache'.manifests /\ cache'.manifests[r] = cache.manifests[r]
  BY StoresAreImmutable
<1>2. ASSUME NEW h \in Host PROVE FuseInv(host'[h], cache', artifacts')
  <2>1. PICK st : st = host[h] /\ FuseInv(st, cache, artifacts)
    BY DEF FusedInv
  <2>2. FuseInv(st, cache', artifacts)
    <3>1. \A k \in DOMAIN st.units : UnitInv(st, cache', artifacts, st.units[k])
      BY <1>1, <2>1, UnitStays DEF FuseInv
    <3>2. ASSUME NEW g, Bound(st, cache, g)
          PROVE  Bound(st, cache', g) /\ RecipeOf(st, cache', g) = RecipeOf(st, cache, g)
      BY <1>1, <3>2, RecipeStays
    <3> QED
      BY <2>1, <3>1, <3>2 DEF FuseInv
  <2> QED
    BY <2>1, <2>2
<1>3. StoreAttested(cache')
  BY CacheIsAttested
<1> QED
  BY <1>2, <1>3 DEF FusedInv

\* Every step keeps the invariant.
LEMMA NextKeepsFused ==
    ASSUME Inv, FusedInv, [Next]_vars
    PROVE  FusedInv'
<1>1. StoreAttested(origin) /\ \A v \in Upload : RequestAttested(upload[v])
  BY DEF FusedInv
<1>2. CASE UNCHANGED vars
  BY <1>1, <1>2, OthersKeepFused DEF vars
<1>3. ASSUME NEW u \in Upload, Uploads(u) PROVE FusedInv'
  BY <1>3, RequestStays, OthersKeepFused
<1>4. ASSUME NEW x, NEW state, SetReleaseStatus(x, state) PROVE FusedInv'
  BY <1>1, <1>4, OthersKeepFused DEF SetReleaseStatus
<1>5. ASSUME NEW down, NEW then, Sync(down, then) PROVE FusedInv'
  BY <1>1, <1>5, OthersKeepFused DEF Sync
<1>7. ASSUME NEW x, Fetch(x) PROVE FusedInv'
  BY <1>1, <1>7, OthersKeepFused DEF Fetch, Download, FetchBlob, FetchDirectory, FetchLink, CacheOnly
<1>6. ASSUME NEW h \in Host, LoadApplication(h) \/ NextGroup(h) \/ Prepare(h) \/ Crash(h) PROVE FusedInv'
  <2>1. PICK next : Step(h, next) /\ FuseInv(next, cache', artifacts')
    BY <1>6, HostFuses
  <2>2. origin' = origin /\ upload' = upload
    BY <1>6 DEF LoadApplication, NextGroup, Crash, Prepare, ReadSources, ReleaseExists, Build, PublishBlob,
       PublishDirectory, PublishLink, ResolveRelease, Activate, HostOnly
  <2>3. artifacts \subseteq artifacts'
    <3>1. ASSUME NEW down, Activate(h, down) PROVE artifacts \subseteq artifacts'
      BY <3>1 DEF Activate, Materialize
    <3>2. CASE \A down : ~Activate(h, down)
      BY <1>6, <3>2 DEF LoadApplication, NextGroup, Crash, Prepare, ReadSources, ReleaseExists, Build, PublishBlob,
         PublishDirectory, PublishLink, ResolveRelease, NoWrite
    <3> QED
      BY <3>1, <3>2
  <2>4. \A r \in DOMAIN cache.manifests : r \in DOMAIN cache'.manifests /\ cache'.manifests[r] = cache.manifests[r]
    BY StoresAreImmutable
  <2>5. DOMAIN host = Host /\ host' = [host EXCEPT ![h] = next]
    BY <2>1 DEF Inv, Step
  <2>6. ASSUME NEW g \in Host PROVE FuseInv(host'[g], cache', artifacts')
    <3>1. CASE g = h
      BY <2>1, <2>5, <3>1
    <3>2. CASE g # h
      <4>1. PICK st : st = host[g] /\ host'[g] = st /\ FuseInv(st, cache, artifacts)
        BY <2>5, <3>2 DEF FusedInv
      <4>2. \A k \in DOMAIN st.units : UnitInv(st, cache', artifacts', st.units[k])
        BY <2>3, <2>4, <4>1, UnitStays DEF FuseInv
      <4>3. ASSUME NEW gr, Bound(st, cache, gr)
            PROVE  Bound(st, cache', gr) /\ RecipeOf(st, cache', gr) = RecipeOf(st, cache, gr)
        BY <2>4, <4>3, RecipeStays
      <4>4. FuseInv(st, cache', artifacts')
        BY <4>1, <4>2, <4>3 DEF FuseInv
      <4> QED
        BY <4>1, <4>4
    <3> QED
      BY <3>1, <3>2
  <2> QED
    BY <1>1, <2>2, <2>6, CacheIsAttested DEF FusedInv
<1> QED
  BY <1>2, <1>3, <1>4, <1>5, <1>6, <1>7 DEF Next

\* What a host starts in place of its cells was built from exactly its own
\* cells, sources and Go version, whoever published it, and brings exactly
\* their providers and capabilities (SelectFromRegistry).
THEOREM FusedArtifactsMatch == Spec => []FusedMatchesRecipe
<1>1. Init => FusedInv
  <2> SUFFICES ASSUME Init PROVE FusedInv
    OBVIOUS
  <2>1. PICK i \in Instances :
        /\ origin = i.origin
        /\ upload = [u \in Upload |-> i.uploads[u]]
        /\ cache = EmptyStore
        /\ host = [h \in Host |-> Fresh(i.hosts[h])]
    BY DEF Init
  <2>2. StoreAttested(origin)
    BY <2>1, InstancesAssumption
  <2>3. StoreAttested(cache)
    BY <2>1 DEF EmptyStore, StoreAttested
  <2>4. ASSUME NEW u \in Upload PROVE RequestAttested(upload[u])
    <3>1. PICK up : up = upload[u] /\ (up.pc = "off" \/ (UploadOK(up) /\ UploadAttested(up)))
      BY <2>1, InstancesAssumption
    <3>2. RequestAttested(up)
      BY <3>1 DEF RequestAttested, UploadOK
    <3> QED
      BY <3>1, <3>2
  <2>5. ASSUME NEW h \in Host PROVE FuseInv(host[h], cache, artifacts)
    BY <2>1, <2>5, FreshFuses
  <2> QED
    BY <2>2, <2>3, <2>4, <2>5 DEF FusedInv
<1>2. Inv /\ FusedInv /\ [Next]_vars => FusedInv'
  BY NextKeepsFused
<1>3. FusedInv => FusedMatchesRecipe
  <2> SUFFICES ASSUME FusedInv, NEW h \in Host, NEW k \in DOMAIN host[h].units
               PROVE  LET unit == host[h].units[k]
                          ours == [n \in unit.members |-> SourceOf(cache, Config(h).bindings[n])]
                      IN  /\ Reg!Sum(unit.artifact.wasm) \in artifacts
                          /\ \E group \in Range(Groups(App(h).cells)) :
                                /\ unit.members = MemberNames(group)
                                /\ unit.artifact.wasm[2] = NewRecipe(group, Config(h).go, ours)
                                /\ Brings(unit.artifact, group)
    BY Zenon DEF FusedMatchesRecipe, Brings
  <2>1. PICK st, unit, ours : /\ st = host[h] /\ unit = host[h].units[k]
                              /\ ours = [n \in unit.members |-> SourceOf(cache, Config(h).bindings[n])]
    OBVIOUS
  <2>2. UnitInv(st, cache, artifacts, unit) /\ Config(h) = st.config /\ App(h) = st.app
    BY <2>1 DEF FusedInv, FuseInv, Config, App
  <2>3. PICK g \in Range(Groups(st.app.cells)) :
            /\ unit.members = MemberNames(g)
            /\ unit.artifact.wasm[2] = RecipeOf(st, cache, g)
            /\ Brings(unit.artifact, g)
    BY <2>2 DEF UnitInv
  <2>4. RecipeOf(st, cache, g) = NewRecipe(g, Config(h).go, ours)
    BY <2>1, <2>2, <2>3 DEF RecipeOf
  <2>5. Reg!Sum(unit.artifact.wasm) \in artifacts
    BY <2>2 DEF UnitInv
  <2> QED
    BY <2>1, <2>2, <2>3, <2>4, <2>5
<1> QED
  BY <1>1, <1>2, <1>3, InvHolds, PTL DEF Spec

=============================================================================
