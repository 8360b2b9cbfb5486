---------------------------- MODULE ReaderProofs ----------------------------
(***************************************************************************)
(* The two components that read what others have made: the walks of a tree *)
(* that may change meanwhile (Walk!), and the archive reader that runs in  *)
(* the sandbox (R!).  First, what both need of numbers and of sums         *)
(* over a finite set.                                                      *)
(***************************************************************************)
EXTENDS Components, FiniteSetsExt, SequenceTheorems, FiniteSetTheorems, WellFoundedInduction,
        TLAPS

-----------------------------------------------------------------------------
\* Every set of numbers has a smallest one.
LEMMA Smallest ==
    ASSUME NEW S, S \subseteq Nat, S # {}
    PROVE  \E x \in S : \A y \in S : x =< y
<1>1. PICK less : less = OpToRel(<, Nat)
  OBVIOUS
<1>2. \A x, y \in Nat : <<x, y>> \in less <=> x < y
  BY <1>1 DEF OpToRel
<1>3. IsWellFoundedOn(less, Nat)
  BY <1>1, NatLessThanWellFounded
<1>4. \E x \in S : \A y \in S : ~(<<y, x>> \in less)
  BY <1>3, WFMin
<1>5. PICK x \in S : \A y \in S : ~(<<y, x>> \in less)
  BY <1>4
<1>6. \A y \in S : x =< y
  <2> SUFFICES ASSUME NEW y \in S PROVE x =< y
    OBVIOUS
  <2>1. ~(<<y, x>> \in less)
    BY <1>5
  <2>2. x \in Nat /\ y \in Nat
    OBVIOUS
  <2>3. ~(y < x)
    BY <1>2, <2>1, <2>2
  <2> QED
    BY <2>2, <2>3
<1> QED
  BY <1>6

\* Induction, for a set of numbers.
LEMMA AllNumbers ==
    ASSUME NEW T, 0 \in T, \A n \in Nat : n \in T => n + 1 \in T
    PROVE  Nat \subseteq T
<1> SUFFICES ASSUME Nat \ T # {} PROVE FALSE
  OBVIOUS
<1>1. PICK m \in Nat \ T : \A y \in Nat \ T : m =< y
  BY Smallest
<1>2. m # 0 /\ m - 1 \in Nat
  BY <1>1
<1>3. m - 1 \notin T
  BY <1>1, <1>2
<1>4. m - 1 \in Nat \ T /\ m - 1 < m
  BY <1>2, <1>3
<1> QED
  BY <1>1, <1>4

\* The sums that MapThenSumSet is defined by: g[s] for each set s of S.
First(s) == CHOOSE x \in s : TRUE
Adds(b, S, g) ==
    g = [s \in SUBSET S |-> IF s = {} THEN 0 ELSE b[First(s)] + g[s \ {First(s)}]]
Total(b, S) == (CHOOSE g : Adds(b, S, g))[S]

\* CHOOSE finds an element of a set that has one.
LEMMA FirstIsElement == ASSUME NEW s, s # {} PROVE First(s) \in s
BY DEF First

\* A subset, and what is left of it without one element.
LEMMA OneLess ==
    ASSUME NEW S, IsFiniteSet(S), NEW s \in SUBSET S, NEW y \in s
    PROVE  /\ IsFiniteSet(s) /\ Cardinality(s) \in Nat /\ Cardinality(s) # 0
           /\ s \ {y} \in SUBSET S /\ Cardinality(s \ {y}) = Cardinality(s) - 1
<1>1. IsFiniteSet(s) /\ Cardinality(s) \in Nat
  BY FS_Subset, FS_CardinalityType
<1>2. Cardinality(s) # 0
  BY <1>1, FS_EmptySet
<1>3. Cardinality(s \ {y}) = Cardinality(s) - 1
  BY <1>1, FS_RemoveElement
<1> QED
  BY <1>1, <1>2, <1>3

\* What the sums are.
LEMMA AddsAt ==
    ASSUME NEW S, NEW b, NEW g, Adds(b, S, g)
    PROVE  /\ g[{}] = 0
           /\ \A s \in SUBSET S : s # {} => g[s] = b[First(s)] + g[s \ {First(s)}]
<1> PICK h : h = [t \in SUBSET S |-> IF t = {} THEN 0 ELSE b[First(t)] + g[t \ {First(t)}]]
  OBVIOUS
<1>1. g = h
  BY DEF Adds
<1>2. /\ h[{}] = 0
      /\ \A s \in SUBSET S : s # {} => h[s] = b[First(s)] + g[s \ {First(s)}]
  OBVIOUS
<1> QED
  BY <1>1, <1>2

\* There is a function that adds up every subset of a finite set.
LEMMA SumsExist ==
    ASSUME NEW S, IsFiniteSet(S), NEW b \in [S -> Nat]
    PROVE  \E g : Adds(b, S, g)
<1> DEFINE Right(g, s) == g[s] = IF s = {} THEN 0 ELSE b[First(s)] + g[s \ {First(s)}]
           T == {n \in Nat : \E g \in [SUBSET S -> Nat] :
                                \A s \in SUBSET S : Cardinality(s) <= n => Right(g, s)}
<1>0. \A s \in SUBSET S : Cardinality(s) \in Nat /\ (Cardinality(s) = 0 <=> s = {})
  BY FS_Subset, FS_CardinalityType, FS_EmptySet
<1>1. 0 \in T
  <2> DEFINE z == [s \in SUBSET S |-> 0]
  <2>1. z \in [SUBSET S -> Nat] /\ \A s \in SUBSET S : Cardinality(s) <= 0 => Right(z, s)
    BY <1>0
  <2> QED
    BY <2>1
<1>2. ASSUME NEW n \in Nat, n \in T PROVE n + 1 \in T
  <2>1. PICK g \in [SUBSET S -> Nat] : \A s \in SUBSET S : Cardinality(s) <= n => Right(g, s)
    BY <1>2
  <2> DEFINE next(s) == IF s = {} THEN 0 ELSE b[First(s)] + g[s \ {First(s)}]
             h == [s \in SUBSET S |-> IF Cardinality(s) <= n THEN g[s] ELSE next(s)]
  <2>2. \A s \in SUBSET S : next(s) \in Nat
    <3> SUFFICES ASSUME NEW s \in SUBSET S, s # {} PROVE b[First(s)] + g[s \ {First(s)}] \in Nat
      OBVIOUS
    <3>1. First(s) \in S /\ s \ {First(s)} \in SUBSET S
      BY FirstIsElement
    <3>2. b[First(s)] \in Nat /\ g[s \ {First(s)}] \in Nat
      BY <3>1
    <3> QED
      BY <3>2
  <2>3. h \in [SUBSET S -> Nat]
    BY <2>2
  <2>4. ASSUME NEW s \in SUBSET S, Cardinality(s) <= n + 1 PROVE Right(h, s)
    <3>1. h[s] = next(s)
      BY <2>1
    <3>2. CASE s = {}
      BY <3>1, <3>2
    <3>3. CASE s # {}
      <4> PICK x : x = First(s)
        OBVIOUS
      <4>1. x \in s
        BY <3>3, FirstIsElement
      <4>2. /\ s \ {x} \in SUBSET S /\ Cardinality(s) \in Nat
            /\ Cardinality(s \ {x}) = Cardinality(s) - 1
        BY <4>1, OneLess
      <4>3. Cardinality(s \ {x}) <= n
        BY <2>4, <4>2
      <4>4. h[s \ {x}] = g[s \ {x}]
        BY <4>2, <4>3
      <4> QED
        BY <3>1, <3>3, <4>4
    <3> QED
      BY <3>2, <3>3
  <2> HIDE DEF h
  <2>5. \E f \in [SUBSET S -> Nat] :
            \A s \in SUBSET S : Cardinality(s) <= n + 1 => Right(f, s)
    BY <2>3, <2>4, Zenon
  <2> QED
    BY <2>5
<1> HIDE DEF T
<1>3. Nat \subseteq T
  BY <1>1, <1>2, AllNumbers
<1>4. Cardinality(S) \in Nat /\ \A s \in SUBSET S : Cardinality(s) <= Cardinality(S)
  BY FS_Subset, FS_CardinalityType
<1>5. PICK g \in [SUBSET S -> Nat] : \A s \in SUBSET S : Right(g, s)
  BY <1>3, <1>4 DEF T
<1>6. Adds(b, S, g)
  BY <1>5 DEF Adds
<1> QED
  BY <1>6

\* Two sums of what is the same in both are the same, and a number.
LEMMA SumsAgree ==
    ASSUME NEW S, IsFiniteSet(S), NEW T, IsFiniteSet(T),
           NEW b, NEW c, NEW g, NEW h, Adds(b, S, g), Adds(c, T, h),
           NEW u, u \subseteq S, u \subseteq T, \A x \in u : b[x] = c[x] /\ b[x] \in Nat
    PROVE  g[u] = h[u] /\ g[u] \in Nat
<1> DEFINE N == {n \in Nat : \A s \in SUBSET u : Cardinality(s) = n => g[s] = h[s] /\ g[s] \in Nat}
<1>0. IsFiniteSet(u)
  BY FS_Subset
<1>g. g[{}] = 0 /\ \A s \in SUBSET S : s # {} => g[s] = b[First(s)] + g[s \ {First(s)}]
  <2> HIDE DEF N
  <2>1. Adds(b, S, g)
    OBVIOUS
  <2> QED
    BY ONLY <2>1, AddsAt
<1>h. h[{}] = 0 /\ \A s \in SUBSET T : s # {} => h[s] = c[First(s)] + h[s \ {First(s)}]
  <2>1. Adds(c, T, h)
    OBVIOUS
  <2> QED
    BY ONLY <2>1, AddsAt
<1>1. 0 \in N
  <2>1. \A s \in SUBSET u : Cardinality(s) = 0 => s = {}
    BY <1>0, FS_Subset, FS_EmptySet
  <2>2. g[{}] = 0 /\ h[{}] = 0
    BY <1>g, <1>h
  <2> QED
    BY <2>1, <2>2
<1>2. ASSUME NEW n \in Nat, n \in N PROVE n + 1 \in N
  <2> SUFFICES ASSUME NEW s \in SUBSET u, Cardinality(s) = n + 1 PROVE g[s] = h[s] /\ g[s] \in Nat
    OBVIOUS
  <2>1. s # {}
    BY FS_EmptySet
  <2> PICK x : x = First(s)
    OBVIOUS
  <2>2. x \in s /\ x \in u
    BY <2>1, FirstIsElement
  <2>3. s \ {x} \in SUBSET u /\ Cardinality(s \ {x}) = n
    BY <1>0, <2>2, OneLess
  <2>4. g[s \ {x}] = h[s \ {x}] /\ g[s \ {x}] \in Nat
    BY <1>2, <2>3
  <2>5. g[s] = b[x] + g[s \ {x}] /\ h[s] = c[x] + h[s \ {x}]
    BY <1>g, <1>h, <2>1
  <2>6. b[x] = c[x] /\ b[x] \in Nat
    BY <2>2
  <2> QED
    BY <2>4, <2>5, <2>6
<1> HIDE DEF N
<1>3. Nat \subseteq N
  BY <1>1, <1>2, AllNumbers
<1>4. Cardinality(u) \in N
  BY <1>0, <1>3, FS_CardinalityType
<1> QED
  BY <1>4 DEF N

\* A sum does not depend on what is taken first.
LEMMA SumsWithout ==
    ASSUME NEW S, IsFiniteSet(S), NEW b, NEW g, Adds(b, S, g), \A x \in S : b[x] \in Nat,
           NEW y \in S
    PROVE  g[S] = b[y] + g[S \ {y}]
<1> DEFINE N == {n \in Nat : \A s \in SUBSET S : \A z \in s :
                                Cardinality(s) = n => g[s] = b[z] + g[s \ {z}]}
<1>1. 0 \in N
  BY OneLess
<1>2. ASSUME NEW n \in Nat, n \in N PROVE n + 1 \in N
  <2> SUFFICES ASSUME NEW s \in SUBSET S, NEW z \in s, Cardinality(s) = n + 1
               PROVE  g[s] = b[z] + g[s \ {z}]
    OBVIOUS
  <2> PICK x : x = First(s)
    OBVIOUS
  <2>1. x \in s
    BY FirstIsElement
  <2>2. g[s] = b[x] + g[s \ {x}]
    BY AddsAt
  <2>3. CASE z = x
    BY <2>2, <2>3
  <2>4. CASE z # x
    <3>1. /\ s \ {x} \in SUBSET S /\ Cardinality(s \ {x}) = n /\ z \in s \ {x}
          /\ s \ {z} \in SUBSET S /\ Cardinality(s \ {z}) = n /\ x \in s \ {z}
      BY <2>1, <2>4, OneLess
    <3> PICK r : r = (s \ {x}) \ {z}
      OBVIOUS
    <3>2. (s \ {z}) \ {x} = r /\ r \in SUBSET S
      OBVIOUS
    <3>3. g[s \ {x}] = b[z] + g[r]
      BY <1>2, <3>1
    <3>4. g[s \ {z}] = b[x] + g[r]
      BY <1>2, <3>1, <3>2, SMTT(60)
    <3>5. g[r] \in Nat
      <4>1. IsFiniteSet(r)
        BY <3>2, FS_Subset
      <4> QED
        BY <3>2, <4>1, SumsAgree
    <3>6. b[x] \in Nat /\ b[z] \in Nat
      BY <2>1
    <3> QED
      BY <2>2, <3>3, <3>4, <3>5, <3>6
  <2> QED
    BY <2>3, <2>4
<1> HIDE DEF N
<1>3. Nat \subseteq N
  BY <1>1, <1>2, AllNumbers
<1>4. Cardinality(S) \in N
  BY <1>3, FS_CardinalityType
<1> QED
  BY <1>4 DEF N

\* What the proofs need of a total.
LEMMA TotalAdds ==
    ASSUME NEW S, IsFiniteSet(S), NEW b, \A x \in S : b[x] \in Nat
    PROVE  \E g : Adds(b, S, g) /\ Total(b, S) = g[S]
<1> DEFINE c == [x \in S |-> b[x]]
<1>1. PICK g : Adds(c, S, g)
  BY SumsExist
<1>2. Adds(b, S, g)
  <2>1. \A s \in SUBSET S : s # {} => c[First(s)] = b[First(s)]
    BY FirstIsElement
  <2> HIDE DEF c
  <2> QED
    BY <1>1, <2>1 DEF Adds
<1>3. Adds(b, S, CHOOSE h : Adds(b, S, h))
  BY <1>2
<1> QED
  BY <1>3 DEF Total

\* The sum over no element is zero.
LEMMA TotalOfNone == ASSUME NEW b PROVE Total(b, {}) = 0
<1>1. PICK g : Adds(b, {}, g) /\ Total(b, {}) = g[{}]
  BY TotalAdds, FS_EmptySet
<1> QED
  BY <1>1, AddsAt

\* A sum of numbers is a number.
LEMMA TotalIsNumber ==
    ASSUME NEW S, IsFiniteSet(S), NEW b, \A x \in S : b[x] \in Nat
    PROVE  Total(b, S) \in Nat
<1>1. PICK g : Adds(b, S, g) /\ Total(b, S) = g[S]
  BY TotalAdds
<1> QED
  BY <1>1, SumsAgree

\* The sum depends on the summands alone.
LEMMA TotalsAgree ==
    ASSUME NEW S, IsFiniteSet(S), NEW b, NEW c, \A x \in S : b[x] = c[x] /\ b[x] \in Nat
    PROVE  Total(b, S) = Total(c, S)
<1>1. PICK g : Adds(b, S, g) /\ Total(b, S) = g[S]
  BY TotalAdds
<1>2. PICK h : Adds(c, S, h) /\ Total(c, S) = h[S]
  BY TotalAdds
<1> QED
  BY <1>1, <1>2, SumsAgree

\* Any element may be taken out of a sum first.
LEMMA TotalWithout ==
    ASSUME NEW S, IsFiniteSet(S), NEW b, \A x \in S : b[x] \in Nat, NEW y \in S
    PROVE  Total(b, S) = b[y] + Total(b, S \ {y})
<1> PICK T : T = S \ {y}
  OBVIOUS
<1>0. IsFiniteSet(T) /\ T \subseteq S
  BY FS_Subset
<1>1. PICK g : Adds(b, S, g) /\ Total(b, S) = g[S]
  BY TotalAdds
<1>2. PICK h : Adds(b, T, h) /\ Total(b, T) = h[T]
  BY <1>0, TotalAdds
<1>3. g[T] = h[T]
  BY <1>0, <1>1, <1>2, SumsAgree
<1>4. g[S] = b[y] + g[T]
  BY <1>1, SumsWithout
<1> QED
  BY <1>1, <1>2, <1>3, <1>4

\* The sum with one element more.
LEMMA TotalWith ==
    ASSUME NEW S, IsFiniteSet(S), NEW y, y \notin S, NEW b, \A x \in S \cup {y} : b[x] \in Nat
    PROVE  Total(b, S \cup {y}) = b[y] + Total(b, S)
<1> PICK T : T = S \cup {y}
  OBVIOUS
<1>1. IsFiniteSet(T) /\ y \in T /\ \A x \in T : b[x] \in Nat
  BY FS_AddElement
<1>2. Total(b, T) = b[y] + Total(b, T \ {y})
  BY <1>1, TotalWithout
<1>3. T \ {y} = S
  OBVIOUS
<1> QED
  BY <1>2, <1>3

\* A part of a sum is no more than the whole, by the number of the other elements.
LEMMA TotalOfPart ==
    ASSUME NEW T, IsFiniteSet(T), NEW b, \A x \in T : b[x] \in Nat, NEW S \in SUBSET T
    PROVE  Total(b, S) <= Total(b, T)
<1> DEFINE N == {n \in Nat : \A s \in SUBSET T : Cardinality(T \ s) = n =>
                                 Total(b, s) <= Total(b, T)}
<1>0. \A s \in SUBSET T : /\ IsFiniteSet(s) /\ IsFiniteSet(T \ s) /\ Cardinality(T \ s) \in Nat
                          /\ Total(b, s) \in Nat
  <2> SUFFICES ASSUME NEW s \in SUBSET T
               PROVE  /\ IsFiniteSet(s) /\ IsFiniteSet(T \ s) /\ Cardinality(T \ s) \in Nat
                      /\ Total(b, s) \in Nat
    OBVIOUS
  <2>1. IsFiniteSet(s) /\ IsFiniteSet(T \ s)
    BY FS_Subset
  <2>2. Total(b, s) \in Nat
    BY <2>1, TotalIsNumber
  <2> QED
    BY <2>1, <2>2, FS_CardinalityType
<1>1. 0 \in N
  <2> SUFFICES ASSUME NEW s \in SUBSET T, Cardinality(T \ s) = 0
               PROVE  Total(b, s) <= Total(b, T)
    OBVIOUS
  <2>1. T \ s = {}
    BY <1>0, FS_EmptySet
  <2>2. s = T
    BY <2>1
  <2> QED
    BY <1>0, <2>2
<1>2. ASSUME NEW n \in Nat, n \in N PROVE n + 1 \in N
  <2> SUFFICES ASSUME NEW s \in SUBSET T, Cardinality(T \ s) = n + 1
               PROVE  Total(b, s) <= Total(b, T)
    OBVIOUS
  <2> PICK u : u = T \ s
    OBVIOUS
  <2>u. IsFiniteSet(u) /\ Cardinality(u) = n + 1
    BY <1>0
  <2>1. PICK y : y \in u
    <3>1. u # {}
      BY <2>u, FS_EmptySet
    <3> QED
      BY <3>1
  <2> PICK r : r = s \cup {y}
    OBVIOUS
  <2>2. r \in SUBSET T /\ T \ r = u \ {y} /\ y \in T /\ y \notin s
    BY <2>1
  <2>3. Cardinality(T \ r) = n
    <3>1. Cardinality(u \ {y}) = Cardinality(u) - 1
      BY ONLY <2>u, <2>1, FS_RemoveElement
    <3> QED
      BY <2>u, <2>2, <3>1
  <2>4. Total(b, r) <= Total(b, T)
    BY <1>2, <2>2, <2>3
  <2>5. Total(b, r) = b[y] + Total(b, s)
    BY <1>0, <2>2, TotalWith
  <2>6. Total(b, T) \in Nat /\ Total(b, s) \in Nat /\ Total(b, r) \in Nat /\ b[y] \in Nat
    BY <1>0, <2>1, <2>2
  <2> HIDE DEF N
  <2> QED
    BY <2>4, <2>5, <2>6
<1>3. Nat \subseteq N
  <2> HIDE DEF N
  <2> QED
    BY <1>1, <1>2, AllNumbers
<1> QED
  BY <1>0, <1>3

\* The operator of the community modules is this total.
LEMMA SumIsTotal ==
    ASSUME NEW S, NEW f
    PROVE  MapThenSumSet(LAMBDA p : f[p].bytes, S) = Total([p \in S |-> f[p].bytes], S)
<1> DEFINE b == [p \in S |-> f[p].bytes]
<1>1. MapThenSumSet(LAMBDA p : f[p].bytes, S) =
          (CHOOSE g : g = [s \in SUBSET S |->
              IF s = {} THEN 0 ELSE f[First(s)].bytes + g[s \ {First(s)}]])[S]
  BY DEF MapThenSumSet, MapThenFoldSet, First
<1>2. ASSUME NEW g
      PROVE  [s \in SUBSET S |-> IF s = {} THEN 0 ELSE f[First(s)].bytes + g[s \ {First(s)}]]
             = [s \in SUBSET S |-> IF s = {} THEN 0 ELSE b[First(s)] + g[s \ {First(s)}]]
  <2>1. \A s \in SUBSET S : s # {} => b[First(s)] = f[First(s)].bytes
    BY FirstIsElement
  <2> HIDE DEF b
  <2> QED
    BY <2>1
<1> HIDE DEF b
<1>3. \A g : Adds(b, S, g) <=> g = [s \in SUBSET S |->
              IF s = {} THEN 0 ELSE f[First(s)].bytes + g[s \ {First(s)}]]
  BY <1>2 DEF Adds
<1>4. (CHOOSE g : Adds(b, S, g)) = (CHOOSE g : g = [s \in SUBSET S |->
              IF s = {} THEN 0 ELSE f[First(s)].bytes + g[s \ {First(s)}]])
  BY <1>3
<1> QED
  BY <1>1, <1>4 DEF Total, b

-----------------------------------------------------------------------------
Name == UNION {{p[n] : n \in 1..Len(p)} : p \in TreePath}

\* A path and the directories above it.
LEMMA PathSeq ==
    ASSUME Walk!TreeConstants, NEW p \in TreePath
    PROVE  p \in Seq(Name) /\ Len(p) \in Nat \ {0} /\ Walk!Above(p) \subseteq TreePath
<1>1. p \in Seq(Name) /\ p # <<>> /\ Walk!Above(p) \subseteq TreePath
  BY DEF Walk!TreeConstants, Name, Walk!Root
<1>2. Len(p) \in Nat /\ Len(p) # 0
  BY <1>1, EmptySeq, LenProperties
<1> QED
  BY <1>1, <1>2

\* A prefix of a path is a sequence, and its prefixes are those of the path.
LEMMA PrefixSeq ==
    ASSUME NEW S, NEW p \in Seq(S), NEW n \in 0 .. Len(p)
    PROVE  /\ SubSeq(p, 1, n) \in Seq(S) /\ Len(SubSeq(p, 1, n)) = n
           /\ \A m \in 0 .. n : SubSeq(SubSeq(p, 1, n), 1, m) = SubSeq(p, 1, m)
<1> DEFINE q == SubSeq(p, 1, n)
<1>0. Len(p) \in Nat /\ \A i \in 1 .. n : p[i] \in S
  BY ElementOfSeq, LenProperties
<1>1. q \in Seq(S) /\ Len(q) = n /\ \A i \in 1 .. n : q[i] = p[i]
  BY <1>0, SubSeqProperties
<1> HIDE DEF q
<1>2. ASSUME NEW m \in 0 .. n PROVE SubSeq(q, 1, m) = SubSeq(p, 1, m)
  <2> DEFINE a == SubSeq(q, 1, m)  b == SubSeq(p, 1, m)
  <2>1. \A i \in 1 .. m : q[i] \in S /\ p[i] \in S /\ q[i] = p[i]
    BY <1>0, <1>1
  <2>2. /\ a \in Seq(S) /\ Len(a) = m /\ \A i \in 1 .. m : a[i] = q[i]
        /\ b \in Seq(S) /\ Len(b) = m /\ \A i \in 1 .. m : b[i] = p[i]
    BY <2>1, SubSeqProperties
  <2> HIDE DEF a, b
  <2>3. a = b
    BY <2>1, <2>2, SeqEqual
  <2> QED
    BY <2>3 DEF a, b
<1> QED
  BY <1>1, <1>2 DEF q

\* What is above a directory above p is above p, and shorter.
LEMMA AboveAbove ==
    ASSUME Walk!TreeConstants, NEW p \in TreePath, NEW q \in Walk!Above(p)
    PROVE  Walk!Above(q) \subseteq Walk!Above(p) /\ Len(q) < Len(p) /\ q \in TreePath
<1>1. p \in Seq(Name) /\ Len(p) \in Nat \ {0} /\ q \in TreePath
  BY PathSeq
<1>2. PICK n \in 1 .. (Len(p) - 1) : q = SubSeq(p, 1, n)
  BY DEF Walk!Above
<1>3. Len(q) = n /\ \A m \in 0 .. n : SubSeq(q, 1, m) = SubSeq(p, 1, m)
  BY <1>1, <1>2, PrefixSeq
<1> QED
  BY <1>1, <1>3 DEF Walk!Above

\* The last step to p: its directory is the root or above p, and nothing else is.
LEMMA ParentAbove ==
    ASSUME Walk!TreeConstants, NEW p \in TreePath
    PROVE  \/ Walk!Parent(p) = Walk!Root /\ Walk!Above(p) = {}
           \/ /\ Walk!Parent(p) \in TreePath /\ Walk!Parent(p) # Walk!Root
              /\ Walk!Above(p) = Walk!Above(Walk!Parent(p)) \cup {Walk!Parent(p)}
<1> PICK n : n = Len(p) - 1
  OBVIOUS
<1> DEFINE q == SubSeq(p, 1, n)
<1>1. p \in Seq(Name) /\ Len(p) \in Nat \ {0} /\ Walk!Above(p) \subseteq TreePath
  BY PathSeq
<1>n. n \in Nat /\ n = Len(p) - 1
  BY <1>1
<1>2. CASE n = 0
  <2>1. SubSeq(p, 1, 0) = <<>>
    BY SubSeqEmpty
  <2>2. Walk!Parent(p) = Walk!Root
    BY <1>2, <1>n, <2>1 DEF Walk!Parent, Walk!Root
  <2>3. Len(p) - 1 = 0 /\ 1 .. 0 = {}
    BY <1>2, <1>n
  <2>4. Walk!Above(p) = {}
    BY <2>3, Zenon DEF Walk!Above
  <2> QED
    BY <2>2, <2>4
<1>3. CASE n # 0
  <2>1. n \in 1 .. (Len(p) - 1) /\ n \in 0 .. Len(p)
    BY <1>1, <1>n, <1>3
  <2>2. q \in Walk!Above(p)
    BY <1>n, <2>1 DEF Walk!Above
  <2>3. Len(q) = n /\ \A m \in 0 .. n : SubSeq(q, 1, m) = SubSeq(p, 1, m)
    BY <1>1, <2>1, PrefixSeq
  <2>4. Walk!Above(q) = {SubSeq(p, 1, m) : m \in 1 .. (n - 1)}
    BY <2>1, <2>3 DEF Walk!Above
  <2>5. Walk!Above(p) = Walk!Above(q) \cup {q}
    BY <1>1, <1>n, <2>1, <2>4 DEF Walk!Above
  <2>6. q # Walk!Root
    BY <1>1, <2>2 DEF Walk!TreeConstants
  <2> QED
    BY <1>1, <1>n, <2>2, <2>5, <2>6 DEF Walk!Parent
<1> QED
  BY <1>2, <1>3

\* Below each directory on the way to p there is the next one, or p itself.
LEMMA NextBelow ==
    ASSUME Walk!TreeConstants, NEW p \in TreePath, NEW d \in Walk!Above(p) \cup {Walk!Root}
    PROVE  \E q \in Walk!Above(p) \cup {p} : Walk!Parent(q) = d
<1>1. p \in Seq(Name) /\ Len(p) \in Nat \ {0}
  BY PathSeq
<1>2. PICK n \in 0 .. (Len(p) - 1) : d = SubSeq(p, 1, n)
  <2>1. CASE d = Walk!Root
    <3>1. SubSeq(p, 1, 0) = <<>>
      BY SubSeqEmpty
    <3> QED
      BY <1>1, <2>1, <3>1 DEF Walk!Root
  <2>2. CASE d \in Walk!Above(p)
    BY <1>1, <2>2 DEF Walk!Above
  <2> QED
    BY <2>1, <2>2
<1> DEFINE q == SubSeq(p, 1, n + 1)
<1>3. n + 1 \in 0 .. Len(p) /\ n \in 0 .. n + 1
  BY <1>1
<1>4. Len(q) = n + 1 /\ SubSeq(q, 1, n) = SubSeq(p, 1, n)
  BY <1>1, <1>3, PrefixSeq
<1>5. Walk!Parent(q) = d
  <2> HIDE DEF q
  <2> QED
    BY <1>2, <1>4 DEF Walk!Parent
<1>6. q \in Walk!Above(p) \cup {p}
  <2>1. CASE n + 1 = Len(p)
    BY <1>1, <2>1, SubSeqFull
  <2>2. CASE n + 1 # Len(p)
    BY <1>1, <1>3, <2>2 DEF Walk!Above
  <2> QED
    BY <2>1, <2>2
<1> QED
  BY <1>5, <1>6

-----------------------------------------------------------------------------
\* The readings of each job, as the proofs need them.
LEMMA StageTable ==
    /\ \A j \in Walk!Jobs : Len(Walk!Stages[j]) \in Nat \ {0} /\ Walk!Stages[j][1] \in Walk!Walks
    /\ \A j \in {"audit", "monitor"} : Walk!Stages[j] = <<j>> /\ Len(Walk!Stages[j]) = 1
    /\ Walk!Stages["serialise"] = <<"enumerate", "write">> /\ Len(Walk!Stages["serialise"]) = 2
    /\ Walk!Stages["preview"] = <<"list", "hash", "inventory", "list", "hash">>
    /\ Len(Walk!Stages["preview"]) = 5
    /\ Walk!Stages["select"] = <<"list", "hash", "copy", "list", "hash">>
    /\ Len(Walk!Stages["select"]) = 5
BY DEF Walk!Stages, Walk!Jobs, Walk!Walks

\* What that says of the reading that a job is doing, n, and of the one after it.
LEMMA DoingWhat ==
    ASSUME NEW j \in Walk!Jobs, NEW n \in 1 .. Len(Walk!Stages[j])
    PROVE  LET now == Walk!Stages[j][n]
               next == Walk!Stages[j][n + 1]
           IN  /\ n \in Nat
               /\ now \in {"audit", "monitor", "enumerate", "write", "list", "hash",
                          "inventory", "copy"}
               /\ now = "hash" => j \in {"preview", "select"}
               /\ now \in {"audit", "monitor"} => n = Len(Walk!Stages[j]) /\ j = now
               /\ now \in {"enumerate", "write"} => j = "serialise"
               /\ now = "write" => n = Len(Walk!Stages[j])
               /\ now = "copy" => j = "select" /\ n = 3
               /\ now = "inventory" => j = "preview" /\ n = 3
               /\ n = Len(Walk!Stages[j]) => now \notin {"enumerate", "list", "copy", "inventory"}
               /\ n = Len(Walk!Stages[j]) /\ j \in {"preview", "select"} => n > 3
               /\ j \in {"preview", "select"} => now \notin {"audit", "monitor", "write"}
               /\ j \in {"preview", "select"} /\ n = 3 => now \in {"copy", "inventory"}
               /\ j \in {"preview", "select"} /\ n > 3 => now \notin {"copy", "inventory"}
               /\ n # Len(Walk!Stages[j]) =>
                     /\ n + 1 \in 1 .. Len(Walk!Stages[j])
                     /\ next = "write" => now = "enumerate"
                     /\ next = "copy" => j = "select"
<1>1. CASE j \in {"audit", "monitor"}
  <2>1. Walk!Stages[j] = <<j>> /\ Len(Walk!Stages[j]) = 1
    BY <1>1, StageTable
  <2>2. n = 1 /\ Walk!Stages[j][1] = j
    <3> HIDE DEF Walk!Stages
    <3>1. n = 1
      BY <2>1
    <3>2. <<j>>[1] = j
      OBVIOUS
    <3> QED
      BY <2>1, <3>1, <3>2
  <2> QED
    BY <1>1, <2>1, <2>2
<1>2. CASE j = "serialise"
  <2>1. n \in {1, 2}
    BY <1>2, StageTable
  <2> QED
    BY <1>2, <2>1, StageTable
<1>3. CASE j = "preview"
  <2>1. n \in {1, 2, 3, 4, 5}
    BY <1>3, StageTable
  <2> QED
    BY <1>3, <2>1, StageTable
<1>4. CASE j = "select"
  <2>1. n \in {1, 2, 3, 4, 5}
    BY <1>4, StageTable
  <2> QED
    BY <1>4, <2>1, StageTable
<1> QED
  BY <1>1, <1>2, <1>3, <1>4 DEF Walk!Jobs

-----------------------------------------------------------------------------
\* The entries there can be, and what the stack holds of them.
Entry == {Absent} \cup (UNION {Forms[p] : p \in TreePath})
         \cup (UNION {{t[p] : p \in TreePath} : t \in Trees})
Waiting == [path : TreePath \cup {Walk!Root}, id : {"root"} \cup {e.id : e \in Entry}]

WalkTypes ==
    /\ Walk!TypeOK
    /\ \A p \in TreePath : tree[p] \in Entry
    /\ stack \in Seq(Waiting)
    /\ selection \subseteq TreePath

\* The directory that is opened next is one of those on the stack.
LEMMA FirstWaiting ==
    ASSUME NEW x \in Waiting
    PROVE  <<x>> \in Seq(Waiting) /\ Len(<<x>>) = 1 /\ <<x>>[1] = x
OBVIOUS

\* Every walk starts with the root.
LEMMA RootWaiting == [path |-> Walk!Root, id |-> "root"] \in Waiting
BY DEF Waiting

\* An entry is recorded beside those that were.
LEMMA WithDomain ==
    ASSUME NEW f, NEW p, NEW e
    PROVE  /\ DOMAIN Walk!With(f, p, e) = DOMAIN f \cup {p}
           /\ Walk!With(f, p, e)[p] = e
           /\ \A q \in DOMAIN f : q # p => Walk!With(f, p, e)[q] = f[q]
BY DEF Walk!With

\* Nothing is recorded when a reading begins.
LEMMA NoTreeDomain == DOMAIN Walk!NoTree = {}
BY DEF Walk!NoTree

\* The types of the initial states.
LEMMA WalkTypeInit == ASSUME Walk!TreeConstants, Walk!Init PROVE WalkTypes
<1>1. tree \in Trees /\ DOMAIN tree = TreePath /\ \A p \in TreePath : tree[p] \in Entry
  <2>1. tree \in Trees
    BY DEF Walk!Init
  <2>2. DOMAIN tree = TreePath
    BY <2>1 DEF Walk!TreeConstants
  <2>3. \A p \in TreePath : tree[p] \in UNION {{t[q] : q \in TreePath} : t \in Trees}
    BY <2>1
  <2> QED
    BY <2>1, <2>2, <2>3 DEF Entry
<1>2. stack \in Seq(Waiting)
  BY FirstWaiting, RootWaiting DEF Walk!Init
<1>3. selection \subseteq TreePath
  BY DEF Walk!Init, Walk!TreeConstants
<1>4. stage \in 1 .. Len(Walk!Stages[job])
  BY StageTable DEF Walk!Init
<1> QED
  BY <1>1, <1>2, <1>3, <1>4, NoTreeDomain DEF WalkTypes, Walk!TypeOK, Walk!Init

\* A job that rejects its tree changes its status only.
LEMMA Rejected == ASSUME WalkTypes, Walk!Reject PROVE WalkTypes'
BY NoTreeDomain DEF Walk!Reject, WalkTypes, Walk!TypeOK, Walk!walkVars

\* Every step of a job and of the other program preserves the types.
LEMMA WalkTypeStep == ASSUME Walk!TreeConstants, WalkTypes, [Walk!Next]_Walk!vars PROVE WalkTypes'
<1> USE DEF WalkTypes, Walk!TypeOK
<1>1. CASE Walk!OpenDirectory
  <2>1. CASE Walk!Reject
    BY <2>1, Rejected
  <2>2. CASE ~Walk!Reject
    <3>1. stack # <<>> /\ stack' = Tail(stack)
      BY <1>1, <2>2 DEF Walk!OpenDirectory
    <3>2. stack' \in Seq(Waiting)
      BY <3>1, HeadTailProperties
    <3>3. pending' \subseteq TreePath
      BY <1>1, <2>2 DEF Walk!OpenDirectory, Walk!NamesIn
    <3> QED
      BY <1>1, <2>2, <3>2, <3>3 DEF Walk!OpenDirectory
  <2> QED
    BY <2>1, <2>2
<1>2. CASE Walk!Inspect
  <2>1. CASE Walk!Reject
    BY <2>1, Rejected
  <2>2. CASE ~Walk!Reject
    <3>1. PICK p \in pending :
              \/ /\ pending' = pending \ {p} /\ stack' = Walk!Push(p, tree[p])
                 /\ found' = Walk!With(found, p, tree[p])
              \/ /\ pending' = pending \ {p} /\ stack' = stack /\ found' = found
      BY <1>2, <2>2 DEF Walk!Inspect
    <3>2. p \in TreePath /\ [path |-> p, id |-> tree[p].id] \in Waiting
      BY DEF Waiting
    <3>3. Walk!Push(p, tree[p]) \in Seq(Waiting)
      BY <3>2, FirstWaiting, ConcatProperties DEF Walk!Push
    <3>4. DOMAIN Walk!With(found, p, tree[p]) \subseteq TreePath
      BY <3>2 DEF Walk!With
    <3>5. pending' \subseteq TreePath /\ stack' \in Seq(Waiting) /\ DOMAIN found' \subseteq TreePath
      BY <3>1, <3>3, <3>4
    <3>6. UNCHANGED <<tree, job, selection, stage, todo, read, result, status>>
      BY <1>2, <2>2 DEF Walk!Inspect
    <3> QED
      BY <3>5, <3>6
  <2> QED
    BY <2>1, <2>2
<1>3. CASE Walk!Hash \/ Walk!Write
  <2>1. CASE Walk!Reject
    BY <2>1, Rejected
  <2>2. CASE ~Walk!Reject
    <3>1. Walk!Next1 \in todo
      BY <1>3 DEF Walk!Hash, Walk!Write, Walk!Reading, Walk!Next1
    <3>2. PICK e : \E c : Walk!Record(Walk!Next1, e, c)
      BY <1>3, <2>2 DEF Walk!Hash, Walk!Write
    <3>3. PICK q : q = Walk!Next1
      OBVIOUS
    <3>4. /\ read' = Walk!With(read, q, e) /\ todo' = todo \ {q}
          /\ UNCHANGED <<tree, job, selection, stage, stack, pending, found, result, status>>
      BY <3>2, <3>3 DEF Walk!Record
    <3>5. DOMAIN read' \subseteq TreePath
      BY <3>1, <3>3, <3>4 DEF Walk!With
    <3> QED
      BY <3>4, <3>5
  <2> QED
    BY <2>1, <2>2
<1>4. CASE Walk!Copy
  <2>1. CASE Walk!Reject
    BY <2>1, Rejected
  <2>2. CASE ~Walk!Reject
    <3>1. Walk!Next1 \in todo
      BY <1>4 DEF Walk!Copy, Walk!Reading, Walk!Next1
    <3>2. PICK q : q = Walk!Next1
      OBVIOUS
    <3> DEFINE all == {x \in Walk!Under(q) : Walk!Exists(x)}
    <3>3. /\ result' = [x \in DOMAIN result \cup {q} \cup all |->
                           IF x \in DOMAIN result THEN result[x] ELSE tree[x]]
          /\ todo' = todo \ {q}
          /\ UNCHANGED <<tree, job, selection, stage, Walk!walkVars, read, status>>
      BY <1>4, <2>2, <3>2 DEF Walk!Copy
    <3>4. all \subseteq TreePath
      BY DEF Walk!Under
    <3> HIDE DEF all
    <3>5. DOMAIN result' \subseteq TreePath
      BY <3>1, <3>2, <3>3, <3>4
    <3> QED
      BY <3>3, <3>5 DEF Walk!walkVars
  <2> QED
    BY <2>1, <2>2
<1>5. CASE Walk!EndStage
  <2>1. CASE Walk!Reject
    BY <2>1, Rejected
  <2>2. CASE ~Walk!Reject
    <3>1. UNCHANGED <<tree, job, selection, pending>>
      BY <1>5, <2>2 DEF Walk!EndStage
    <3>2. /\ DOMAIN found' \subseteq TreePath /\ DOMAIN read' \subseteq TreePath
          /\ DOMAIN result' \subseteq TreePath
      BY <1>5, <2>2, NoTreeDomain DEF Walk!EndStage
    <3>3. CASE stage = Len(Walk!Stages[job])
      BY <1>5, <2>2, <3>1, <3>2, <3>3 DEF Walk!EndStage
    <3>4. CASE stage # Len(Walk!Stages[job])
      <4>1. /\ stage' = stage + 1 /\ status' = status
            /\ stack' \in {<<[path |-> Walk!Root, id |-> "root"]>>, <<>>}
            /\ todo' \in {DOMAIN found, selection, {}}
        BY <1>5, <2>2, <3>4 DEF Walk!EndStage
      <4>2. stack' \in Seq(Waiting)
        BY <4>1, FirstWaiting, RootWaiting, EmptySeq
      <4>3. stage' \in 1 .. Len(Walk!Stages[job])
        BY <3>4, <4>1, StageTable
      <4> QED
        BY <3>1, <3>2, <4>1, <4>2, <4>3
    <3> QED
      BY <3>3, <3>4
  <2> QED
    BY <2>1, <2>2
<1>6. CASE Walk!Change
  <2>1. PICK p \in TreePath : \E e \in Forms[p] :
            tree' = [q \in TreePath |-> IF q = p THEN e
                                        ELSE IF q \in Walk!Under(p) THEN Absent ELSE tree[q]]
    BY <1>6 DEF Walk!Change
  <2>2. DOMAIN tree' = TreePath /\ \A q \in TreePath : tree'[q] \in Entry
    BY <2>1 DEF Entry
  <2> QED
    BY <1>6, <2>2 DEF Walk!Change, Walk!walkVars
<1>7. CASE UNCHANGED Walk!vars
  BY <1>7 DEF Walk!vars, Walk!walkVars
<1> QED
  BY <1>1, <1>2, <1>3, <1>4, <1>5, <1>6, <1>7 DEF Walk!Next

-----------------------------------------------------------------------------
\* Whatever exists is below directories.
WellFormed == \A p \in TreePath : tree[p].kind # "none" => \A q \in Walk!Above(p) : Walk!IsDir(q)

\* What has been there, below the same directories, all the time.
Staying == {p \in TreePath : Walk!Stable(p) /\ tree[p].kind # "none"}

\* The walk will still come to p: a name on the way to it waits to be inspected,
\* or a directory on the way waits to be opened.
Coming(p) ==
    \/ \E q \in Walk!Above(p) \cup {p} : q \in pending
    \/ \E i \in 1 .. Len(stack) : stack[i].path \in Walk!Above(p) \cup {Walk!Root}

\* Nothing in f was never there.
Known(f) == \A p \in DOMAIN f : \E t \in versions : f[p] = t[p]

History == tree \in versions /\ WellFormed /\ Known(found) /\ Known(read) /\ Known(result)

\* What each reading has not missed so far.
WalkSees == \A p \in Staying : p \in DOMAIN found \/ Coming(p)
WriteSees == \A p \in Staying : p \in DOMAIN read \/ p \in todo
CopySees ==
    \A p \in Staying :
        Walk!Wanted(p) => p \in DOMAIN result \/ \E q \in todo : q = p \/ q \in Walk!Above(p)
ResultSees == \A p \in Staying : Walk!Wanted(p) => p \in DOMAIN result

Progress ==
    /\ status = "running" =>
          /\ Walk!Doing \in Walk!Walks => WalkSees
          /\ Walk!Doing = "write" => WriteSees
          /\ Walk!Doing = "copy" => CopySees
          /\ job \in {"preview", "select"} /\ stage > 3 => ResultSees
    /\ status = "accepted" => ResultSees

SeenInv == WalkTypes /\ History /\ Progress

\* Any two values of what stays are the one that is there.
LEMMA StayingIsThere ==
    ASSUME WalkTypes, History, NEW f, Known(f), NEW p \in Staying, p \in DOMAIN f
    PROVE  f[p] = tree[p]
BY DEF Known, Staying, Walk!Stable

\* An entry that stays has a way of directories that stay above it.
LEMMA WayIsOpen ==
    ASSUME Walk!TreeConstants, History, NEW p \in Walk!Present(tree),
           NEW q \in Walk!Above(p) \cup {Walk!Root}
    PROVE  Walk!IsDir(q)
BY DEF History, WellFormed, Walk!Present, Walk!IsDir, Walk!At

LEMMA StayingIsPresent == Staying \subseteq Walk!Present(tree)
BY DEF Staying, Walk!Present

\* A step that leaves the tree alone.
Still == UNCHANGED <<tree, versions, job, selection>>

\* What stays is the same while the tree does not change.
LEMMA StillStays ==
    ASSUME Still
    PROVE  /\ Staying' = Staying
           /\ \A p : Walk!Wanted(p)' <=> Walk!Wanted(p)
           /\ WellFormed' <=> WellFormed
           /\ \A f : (\A p \in DOMAIN f : \E t \in versions' : f[p] = t[p]) <=> Known(f)
BY DEF Still, Staying, Walk!Stable, Walk!Wanted, WellFormed, Walk!IsDir, Walk!At, Known

\* One entry more, read from the tree as it is, is an entry that was there.
LEMMA KnownMore ==
    ASSUME Walk!TreeConstants, History, NEW f, Known(f), NEW p \in TreePath
    PROVE  Known(Walk!With(f, p, tree[p]))
<1> DEFINE g == Walk!With(f, p, tree[p])
<1> SUFFICES ASSUME NEW q \in DOMAIN g PROVE \E t \in versions : g[q] = t[q]
  BY DEF Known
<1>1. g[q] = IF q = p THEN tree[p] ELSE f[q]
  BY DEF Walk!With
<1>2. q = p \/ q \in DOMAIN f
  BY DEF Walk!With
<1> QED
  BY <1>1, <1>2 DEF History, Known

\* The invariant holds initially.
LEMMA SeenInit == ASSUME Walk!TreeConstants, Walk!Init PROVE SeenInv
<1>1. WellFormed
  BY DEF Walk!Init, Walk!TreeConstants, WellFormed, Walk!IsDir, Walk!At
<1>2. History
  BY <1>1, NoTreeDomain DEF Walk!Init, History, Known
<1>3. WalkTypes
  BY WalkTypeInit
<1>4. WalkSees
  <2>1. stack[1].path = Walk!Root /\ Len(stack) = 1
    BY DEF Walk!Init
  <2> QED
    BY <2>1 DEF WalkSees, Coming
<1>5. Walk!Doing \in Walk!Walks /\ stage = 1 /\ status = "running"
  BY StageTable DEF Walk!Init, Walk!Doing
<1> QED
  BY <1>2, <1>3, <1>4, <1>5 DEF SeenInv, Progress, Walk!Walks

\* Nothing more is asked of a rejected job.
LEMMA SeenReject == ASSUME Walk!TreeConstants, SeenInv, Walk!Reject PROVE SeenInv'
<1>1. WalkTypes'
  BY Rejected DEF SeenInv
<1>2. Still /\ status' = "rejected" /\ UNCHANGED <<found, read>> /\ DOMAIN result' = {}
  BY NoTreeDomain DEF Walk!Reject, Still, Walk!walkVars
<1> QED
  BY <1>1, <1>2, StillStays DEF SeenInv, History, Progress, Known, Still

\* A directory is opened: its names wait now, whatever was to come below it still is.
LEMMA OpenKeepsComing ==
    ASSUME Walk!TreeConstants, SeenInv, Walk!OpenDirectory, ~Walk!Reject,
           NEW p \in Walk!Present(tree), Coming(p)
    PROVE  Coming(p)'
<1>1. /\ pending = {} /\ stack # <<>> /\ stack' = Tail(stack)
      /\ \/ Walk!SameDirectory(Head(stack)) /\ pending' = Walk!NamesIn(Head(stack).path)
         \/ /\ pending' = {}
            /\ \/ Walk!Tolerates(Walk!At(Head(stack).path))
               \/ Walk!At(Head(stack).path).kind = "link"
  BY DEF Walk!OpenDirectory
<1>2. /\ Head(stack) = stack[1] /\ Len(Tail(stack)) = Len(stack) - 1 /\ Len(stack) \in Nat
      /\ \A i \in 1 .. Len(Tail(stack)) : Tail(stack)[i] = stack[i + 1]
  BY <1>1, HeadTailProperties, LenProperties DEF SeenInv, WalkTypes
<1>3. PICK i \in 1 .. Len(stack) : stack[i].path \in Walk!Above(p) \cup {Walk!Root}
  BY <1>1 DEF Coming
<1>4. CASE i # 1
  <2>1. i - 1 \in 1 .. Len(Tail(stack)) /\ Tail(stack)[i - 1] = stack[i]
    BY <1>2, <1>4
  <2> QED
    BY <1>1, <1>3, <2>1 DEF Coming
<1>5. CASE i = 1
  <2> DEFINE d == Head(stack).path
  <2>1. d \in Walk!Above(p) \cup {Walk!Root}
    BY <1>2, <1>3, <1>5
  <2>2. Walk!IsDir(d)
    BY <2>1, WayIsOpen DEF SeenInv
  <2>3. pending' = Walk!NamesIn(d)
    BY <1>1, <2>2 DEF Walk!IsDir, Walk!Tolerates
  <2>4. PICK q \in Walk!Above(p) \cup {p} : Walk!Parent(q) = d
    BY <2>1, NextBelow DEF Walk!Present
  <2>5. q \in TreePath /\ q # Walk!Root
    BY PathSeq DEF Walk!Present, Walk!TreeConstants
  <2>6. Walk!Exists(q)
    <3>1. CASE q = p
      BY <2>5, <3>1 DEF Walk!Present, Walk!Exists, Walk!At
    <3>2. CASE q \in Walk!Above(p)
      BY <3>2, WayIsOpen DEF SeenInv, Walk!Exists, Walk!IsDir
    <3> QED
      BY <3>1, <3>2
  <2>7. q \in pending'
    BY <2>3, <2>4, <2>5, <2>6 DEF Walk!NamesIn
  <2> QED
    BY <2>7 DEF Coming
<1> QED
  BY <1>4, <1>5

\* A name is inspected: it is found now, and if it is a directory, it waits.
LEMMA InspectKeepsComing ==
    ASSUME Walk!TreeConstants, SeenInv, NEW p \in pending, pending' = pending \ {p},
           \/ stack' = Walk!Push(p, tree[p]) /\ found' = Walk!With(found, p, tree[p])
           \/ Walk!Tolerates(tree[p]) /\ stack' = stack /\ found' = found,
           NEW s \in Walk!Present(tree), s \in DOMAIN found \/ Coming(s)
    PROVE  s \in DOMAIN found' \/ Coming(s)'
<1>0. p \in TreePath
  BY DEF SeenInv, WalkTypes, Walk!TypeOK
<1>1. \A D : (\E i \in 1 .. Len(stack) : stack[i].path \in D)
             => \E i \in 1 .. Len(stack') : stack'[i].path \in D
  <2> SUFFICES ASSUME NEW D, NEW i \in 1 .. Len(stack), stack[i].path \in D
               PROVE  \E j \in 1 .. Len(stack') : stack'[j].path \in D
    OBVIOUS
  <2>1. CASE stack' = stack
    BY <2>1
  <2>2. CASE stack' # stack
    <3> DEFINE x == [path |-> p, id |-> tree[p].id]
    <3>1. stack' = <<x>> \o stack
      BY <2>2 DEF Walk!Push
    <3>2. x \in Waiting
      BY <1>0 DEF SeenInv, WalkTypes, Waiting
    <3> HIDE DEF x
    <3>3. stack \in Seq(Waiting) /\ <<x>> \in Seq(Waiting) /\ Len(<<x>>) = 1
      BY <3>2, FirstWaiting DEF SeenInv, WalkTypes
    <3>4. Len(stack') = Len(stack) + 1 /\ Len(stack) \in Nat /\ stack'[i + 1] = stack[i]
      BY <3>1, <3>3, ConcatProperties, LenProperties
    <3>5. i + 1 \in 1 .. Len(stack')
      BY <3>4
    <3> QED
      BY <3>4, <3>5
  <2> QED
    BY <2>1, <2>2
<1>2. CASE s \in DOMAIN found
  BY <1>2 DEF Walk!With
<1>3. CASE \E i \in 1 .. Len(stack) : stack[i].path \in Walk!Above(s) \cup {Walk!Root}
  BY <1>1, <1>3 DEF Coming
<1>4. CASE \E q \in Walk!Above(s) \cup {s} : q \in pending
  <2>1. PICK q \in Walk!Above(s) \cup {s} : q \in pending
    BY <1>4
  <2>2. CASE q # p
    BY <2>1, <2>2 DEF Coming
  <2>3. CASE q = p
    <3>1. tree[p].kind # "none"
      <4>1. CASE q = s
        BY <2>3, <4>1 DEF Walk!Present
      <4>2. CASE q \in Walk!Above(s)
        <5>1. Walk!IsDir(p)
          BY <2>3, <4>2, WayIsOpen DEF SeenInv
        <5>2. p # Walk!Root
          BY <1>0 DEF Walk!TreeConstants
        <5> QED
          BY <5>1, <5>2 DEF Walk!IsDir, Walk!At
      <4> QED
        BY <4>1, <4>2
    <3>2. stack' = Walk!Push(p, tree[p]) /\ found' = Walk!With(found, p, tree[p])
      BY <3>1 DEF Walk!Tolerates
    <3>3. CASE q = s
      BY <2>3, <3>2, <3>3 DEF Walk!With
    <3>4. CASE q \in Walk!Above(s)
      <4>1. Walk!IsDir(p) /\ p # Walk!Root
        BY <1>0, <2>3, <3>4, WayIsOpen DEF SeenInv, Walk!TreeConstants
      <4>2. tree[p].kind = "dir"
        BY <4>1 DEF Walk!IsDir, Walk!At
      <4> DEFINE x == [path |-> p, id |-> tree[p].id]
      <4>3. stack' = <<x>> \o stack
        BY <3>2, <4>2 DEF Walk!Push
      <4>4. x \in Waiting
        BY <1>0 DEF SeenInv, WalkTypes, Waiting
      <4>5. x.path = p
        OBVIOUS
      <4> HIDE DEF x
      <4>6. stack \in Seq(Waiting) /\ <<x>> \in Seq(Waiting) /\ Len(<<x>>) = 1 /\ <<x>>[1] = x
        BY <4>4, FirstWaiting DEF SeenInv, WalkTypes
      <4>7. Len(stack') = Len(stack) + 1 /\ Len(stack) \in Nat /\ stack'[1] = x
        BY <4>3, <4>6, ConcatProperties, LenProperties
      <4>8. 1 \in 1 .. Len(stack') /\ stack'[1].path \in Walk!Above(s) \cup {Walk!Root}
        BY <2>3, <3>4, <4>5, <4>7
      <4> QED
        BY <4>8 DEF Coming
    <3> QED
      BY <3>3, <3>4
  <2> QED
    BY <2>2, <2>3
<1> QED
  BY <1>2, <1>3, <1>4 DEF Coming

\* A directory is opened: the names below it that stay come in for it.
LEMMA SeenOpen == ASSUME Walk!TreeConstants, SeenInv, Walk!OpenDirectory PROVE SeenInv'
<1>1. CASE Walk!Reject
  BY <1>1, SeenReject
<1>2. CASE ~Walk!Reject
  <2>1. WalkTypes'
    BY WalkTypeStep DEF Walk!Next, SeenInv
  <2>2. /\ Still /\ UNCHANGED <<stage, found, read, result, status, todo>>
        /\ status = "running" /\ Walk!Doing \in Walk!Walks
    BY <1>2 DEF Walk!OpenDirectory, Walk!Walking, Still
  <2>3. History'
    BY <2>2, StillStays DEF SeenInv, History, Known, Still
  <2>4. WalkSees
    BY <2>2 DEF SeenInv, Progress
  <2>5. WalkSees'
    <3> SUFFICES ASSUME NEW p \in Staying, p \notin DOMAIN found
                 PROVE  Coming(p)'
      BY <2>2, StillStays DEF WalkSees
    <3> QED
      BY <1>2, <2>4, StayingIsPresent, OpenKeepsComing DEF WalkSees
  <2>6. Walk!Doing' = Walk!Doing /\ Walk!Doing \notin {"write", "copy"}
    BY <2>2 DEF Walk!Doing, Still, Walk!Walks
  <2>7. ResultSees' <=> ResultSees
    BY <2>2, StillStays DEF ResultSees
  <2>8. Progress'
    BY <2>2, <2>5, <2>6, <2>7 DEF SeenInv, Progress, Still
  <2> QED
    BY <2>1, <2>3, <2>8 DEF SeenInv
<1> QED
  BY <1>1, <1>2

\* A name is inspected: it is found, and comes back to the stack if it is a directory.
LEMMA SeenInspect == ASSUME Walk!TreeConstants, SeenInv, Walk!Inspect PROVE SeenInv'
<1>1. CASE Walk!Reject
  BY <1>1, SeenReject
<1>2. CASE ~Walk!Reject
  <2>1. WalkTypes'
    BY WalkTypeStep DEF Walk!Next, SeenInv
  <2>2. PICK p \in pending :
            /\ pending' = pending \ {p}
            /\ \/ stack' = Walk!Push(p, tree[p]) /\ found' = Walk!With(found, p, tree[p])
               \/ Walk!Tolerates(tree[p]) /\ stack' = stack /\ found' = found
    BY <1>2 DEF Walk!Inspect
  <2>3. /\ Still /\ UNCHANGED <<stage, read, result, status, todo>>
        /\ status = "running" /\ Walk!Doing \in Walk!Walks /\ p \in TreePath
    BY <1>2 DEF Walk!Inspect, Walk!Walking, Still, SeenInv, WalkTypes, Walk!TypeOK
  <2>4. History'
    <3>1. Known(Walk!With(found, p, tree[p]))
      BY <2>3, KnownMore DEF SeenInv, History
    <3>2. Known(found')
      BY <2>2, <3>1 DEF SeenInv, History
    <3> QED
      BY <2>3, <3>2, StillStays DEF SeenInv, History, Known, Still
  <2>5. WalkSees
    BY <2>3 DEF SeenInv, Progress
  <2>6. WalkSees'
    <3> SUFFICES ASSUME NEW s \in Staying
                 PROVE  s \in DOMAIN found' \/ Coming(s)'
      BY <2>3, StillStays DEF WalkSees
    <3> QED
      BY <2>2, <2>5, StayingIsPresent, InspectKeepsComing DEF WalkSees
  <2>7. Walk!Doing' = Walk!Doing /\ Walk!Doing \notin {"write", "copy"}
    BY <2>3 DEF Walk!Doing, Still, Walk!Walks
  <2>8. ResultSees' <=> ResultSees
    BY <2>3, StillStays DEF ResultSees
  <2>9. Progress'
    BY <2>3, <2>6, <2>7, <2>8 DEF SeenInv, Progress, Still
  <2> QED
    BY <2>1, <2>4, <2>9 DEF SeenInv
<1> QED
  BY <1>1, <1>2

\* The second readings of one entry after the other.
LEMMA SeenRecord == ASSUME Walk!TreeConstants, SeenInv, Walk!Hash \/ Walk!Write PROVE SeenInv'
<1>1. CASE Walk!Reject
  BY <1>1, SeenReject
<1>2. CASE ~Walk!Reject
  <2>1. WalkTypes'
    BY WalkTypeStep DEF Walk!Next, SeenInv
  <2>2. PICK q : q = Walk!Next1
    OBVIOUS
  <2>3. /\ q \in todo /\ q \in TreePath
        /\ read' = Walk!With(read, q, tree[q]) /\ todo' = todo \ {q}
        /\ Still /\ UNCHANGED <<stage, stack, pending, found, result, status>>
        /\ status = "running" /\ Walk!Doing \in {"hash", "write"}
    BY <1>2, <2>2 DEF Walk!Hash, Walk!Write, Walk!Reading, Walk!Record, Walk!Next1, Still,
       SeenInv, WalkTypes, Walk!TypeOK
  <2>4. History'
    <3>1. Known(read')
      BY <2>3, KnownMore DEF SeenInv, History
    <3> QED
      BY <2>3, <3>1, StillStays DEF SeenInv, History, Known, Still
  <2>5. WriteSees => WriteSees'
    BY <2>3, StillStays DEF WriteSees, Walk!With
  <2>6. Walk!Doing' = Walk!Doing /\ Walk!Doing \notin Walk!Walks /\ Walk!Doing # "copy"
    BY <2>3 DEF Walk!Doing, Still, Walk!Walks
  <2>7. ResultSees' <=> ResultSees
    BY <2>3, StillStays DEF ResultSees
  <2>8. Progress'
    BY <2>3, <2>5, <2>6, <2>7 DEF SeenInv, Progress, Still
  <2> QED
    BY <2>1, <2>4, <2>8 DEF SeenInv
<1> QED
  BY <1>1, <1>2

\* One selector after the other is copied with what is below it.
LEMMA SeenCopy == ASSUME Walk!TreeConstants, SeenInv, Walk!Copy PROVE SeenInv'
<1>1. CASE Walk!Reject
  BY <1>1, SeenReject
<1>2. CASE ~Walk!Reject
  <2>1. WalkTypes'
    BY WalkTypeStep DEF Walk!Next, SeenInv
  <2>2. PICK q : q = Walk!Next1
    OBVIOUS
  <2> DEFINE all == {x \in Walk!Under(q) : Walk!Exists(x)}
  <2>3. /\ q \in todo /\ q \in TreePath
        /\ result' = [x \in DOMAIN result \cup {q} \cup all |->
                         IF x \in DOMAIN result THEN result[x] ELSE tree[x]]
        /\ todo' = todo \ {q}
        /\ Still /\ UNCHANGED <<stage, stack, pending, found, read, status>>
        /\ status = "running" /\ Walk!Doing = "copy"
    BY <1>2, <2>2 DEF Walk!Copy, Walk!Reading, Walk!Next1, Still, SeenInv, WalkTypes,
       Walk!TypeOK, Walk!walkVars
  <2>4. all \subseteq TreePath
    BY DEF Walk!Under
  <2>5. \A p \in Staying : q \in Walk!Above(p) => p \in all
    <3> SUFFICES ASSUME NEW p \in Staying, q \in Walk!Above(p) PROVE p \in all
      OBVIOUS
    <3>1. p \in TreePath /\ p # Walk!Root /\ tree[p].kind # "none"
      BY DEF Staying, Walk!TreeConstants
    <3> QED
      BY <3>1 DEF Walk!Under, Walk!Exists, Walk!At
  <2> HIDE DEF all
  <2>6. History'
    <3>1. \A x \in DOMAIN result' : result'[x] = IF x \in DOMAIN result THEN result[x] ELSE tree[x]
      BY <2>3
    <3>2. Known(result')
      BY <3>1 DEF Known, SeenInv, History
    <3> QED
      BY <2>3, <3>2, StillStays DEF SeenInv, History, Known, Still
  <2>7. CopySees'
    <3> SUFFICES ASSUME NEW p \in Staying, Walk!Wanted(p)
                 PROVE  p \in DOMAIN result' \/ \E x \in todo' : x = p \/ x \in Walk!Above(p)
      BY <2>3, StillStays DEF CopySees
    <3>1. p \in DOMAIN result \/ \E x \in todo : x = p \/ x \in Walk!Above(p)
      BY <2>3 DEF SeenInv, Progress, CopySees
    <3>2. DOMAIN result' = DOMAIN result \cup {q} \cup all
      BY <2>3
    <3> QED
      BY <2>3, <2>5, <3>1, <3>2
  <2>8. Walk!Doing' = Walk!Doing /\ Walk!Doing \notin Walk!Walks
    BY <2>3 DEF Walk!Doing, Still, Walk!Walks
  <2>9. job = "select" /\ stage = 3
    BY <2>3, DoingWhat DEF Walk!Doing, SeenInv, WalkTypes, Walk!TypeOK
  <2>10. Progress'
    BY <2>3, <2>7, <2>8, <2>9 DEF Progress, Still
  <2> QED
    BY <2>1, <2>6, <2>10 DEF SeenInv
<1> QED
  BY <1>1, <1>2

\* A reading ends with nothing left to come, and the next one starts from the root.
LEMMA SeenEndStage == ASSUME Walk!TreeConstants, SeenInv, Walk!EndStage PROVE SeenInv'
<1>1. CASE Walk!Reject
  BY <1>1, SeenReject
<1>2. CASE ~Walk!Reject
  <2>1. WalkTypes'
    BY WalkTypeStep DEF Walk!Next, SeenInv
  <2>2. /\ Still /\ pending' = pending /\ status = "running" /\ todo = {}
        /\ Walk!Doing \in Walk!Walks => stack = <<>> /\ pending = {}
        /\ found' \in {found, Walk!NoTree} /\ read' = Walk!NoTree
        /\ result' = CASE Walk!Doing \in {"audit", "monitor", "inventory"} -> found
                       [] Walk!Doing = "write" -> read
                       [] OTHER -> result
    BY <1>2 DEF Walk!EndStage, Still
  <2>3. job \in Walk!Jobs /\ stage \in 1 .. Len(Walk!Stages[job])
    BY DEF SeenInv, WalkTypes, Walk!TypeOK
  <2>4. Walk!Doing \in Walk!Walks => \A p \in Staying : p \in DOMAIN found
    <3>1. Walk!Doing \in Walk!Walks => Len(stack) = 0
      BY <2>2, LenProperties DEF SeenInv, WalkTypes
    <3>2. Walk!Doing \in Walk!Walks => \A p : ~Coming(p)
      BY <2>2, <3>1 DEF Coming
    <3> QED
      BY <2>2, <3>2 DEF SeenInv, Progress, WalkSees
  <2>5. Walk!Doing = "write" => \A p \in Staying : p \in DOMAIN read
    BY <2>2 DEF SeenInv, Progress, WriteSees
  <2>6. Walk!Doing = "copy" => ResultSees
    BY <2>2 DEF SeenInv, Progress, CopySees, ResultSees
  <2>7. History'
    <3>1. Known(found') /\ Known(read') /\ Known(result')
      BY <2>2, NoTreeDomain DEF SeenInv, History, Known
    <3> QED
      BY <2>2, <3>1, StillStays DEF SeenInv, History, Known, Still
  <2>8. ResultSees' <=> \A p \in Staying : Walk!Wanted(p) => p \in DOMAIN result'
    BY <2>2, StillStays DEF ResultSees
  <2>9. /\ Walk!Doing \in {"audit", "monitor", "inventory", "write", "copy"} => ResultSees'
        /\ Walk!Doing = "hash" /\ ResultSees => ResultSees'
        /\ Walk!Doing = "list" /\ ResultSees => ResultSees'
    BY <2>2, <2>4, <2>5, <2>6, <2>8 DEF ResultSees, Walk!Walks
  <2>10. CASE stage = Len(Walk!Stages[job])
    <3>1. status' = "accepted"
      BY <1>2, <2>10 DEF Walk!EndStage
    <3>2. Walk!Doing \in {"audit", "monitor", "write", "hash"}
      BY <2>3, <2>10, DoingWhat DEF Walk!Doing
    <3>3. Walk!Doing = "hash" => ResultSees
      <4>1. Walk!Doing = "hash" => job \in {"preview", "select"} /\ stage > 3
        BY <2>3, <2>10, DoingWhat DEF Walk!Doing
      <4> QED
        BY <2>2, <4>1 DEF SeenInv, Progress
    <3>4. Progress'
      BY <2>9, <3>1, <3>2, <3>3 DEF Progress
    <3> QED
      BY <2>1, <2>7, <3>4 DEF SeenInv
  <2>11. CASE stage # Len(Walk!Stages[job])
    <3> DEFINE next == Walk!Stages[job][stage + 1]
    <3>1. /\ stage' = stage + 1 /\ status' = "running"
          /\ stack' = IF next \in Walk!Walks THEN <<[path |-> Walk!Root, id |-> "root"]>> ELSE <<>>
          /\ todo' = CASE next \in {"hash", "write"} -> DOMAIN found
                       [] next = "copy" -> selection
                       [] OTHER -> {}
      BY <1>2, <2>2, <2>11 DEF Walk!EndStage
    <3>2. Walk!Doing' = next
      BY <2>2, <3>1 DEF Walk!Doing, Still
    <3>3. /\ next = "write" => Walk!Doing = "enumerate"
          /\ next = "copy" => job = "select"
          /\ job \in {"preview", "select"} /\ stage + 1 > 3 =>
                Walk!Doing \in {"copy", "inventory"} \/ (stage > 3 /\ Walk!Doing \in {"list", "hash"})
      <4>1. /\ stage \in Nat
            /\ Walk!Doing \in {"audit", "monitor", "enumerate", "write", "list", "hash",
                              "inventory", "copy"}
            /\ Walk!Doing \in {"audit", "monitor"} => job = Walk!Doing
            /\ Walk!Doing \in {"enumerate", "write"} => job = "serialise"
        BY <2>3, DoingWhat DEF Walk!Doing
      <4>2. job \in {"preview", "select"} =>
                /\ stage = 3 => Walk!Doing \in {"copy", "inventory"}
                /\ stage > 3 => Walk!Doing \notin {"copy", "inventory"}
        BY <2>3, DoingWhat DEF Walk!Doing
      <4>3. (next = "write" => Walk!Doing = "enumerate") /\ (next = "copy" => job = "select")
        BY <2>3, <2>11, DoingWhat DEF Walk!Doing
      <4>4. stage + 1 > 3 => stage = 3 \/ stage > 3
        BY <4>1
      <4> HIDE DEF next
      <4> QED
        BY <4>1, <4>2, <4>3, <4>4
    <3> HIDE DEF next
    <3>4. next \in Walk!Walks => WalkSees'
      <4>1. next \in Walk!Walks => Len(stack') = 1 /\ stack'[1].path = Walk!Root
        BY <3>1
      <4> QED
        BY <4>1 DEF WalkSees, Coming
    <3>5. next = "write" => WriteSees'
      <4>1. next = "write" => Walk!Doing \in Walk!Walks /\ todo' = DOMAIN found
        BY <3>1, <3>3 DEF Walk!Walks
      <4> QED
        BY <2>2, <2>4, <4>1, StillStays DEF WriteSees
    <3>6. next = "copy" => CopySees'
      <4>1. next = "copy" => todo' = selection /\ job = "select"
        BY <3>1, <3>3
      <4>2. \A p : job = "select" /\ Walk!Wanted(p) =>
                \E q \in selection : q = p \/ q \in Walk!Above(p)
        BY DEF Walk!Wanted
      <4> QED
        BY <2>2, <4>1, <4>2, StillStays DEF CopySees
    <3>7. job \in {"preview", "select"} /\ stage + 1 > 3 => ResultSees'
      BY <2>2, <2>9, <3>3 DEF SeenInv, Progress
    <3>8. Progress'
      BY <2>2, <3>1, <3>2, <3>4, <3>5, <3>6, <3>7 DEF Progress, Still
    <3> QED
      BY <2>1, <2>7, <3>8 DEF SeenInv
  <2> QED
    BY <2>10, <2>11
<1> QED
  BY <1>1, <1>2

\* Another program takes away from what stays, and leaves a tree that is well formed.
LEMMA SeenChange == ASSUME Walk!TreeConstants, SeenInv, Walk!Change PROVE SeenInv'
<1>1. WalkTypes'
  BY WalkTypeStep DEF Walk!Next, SeenInv
<1>2. PICK p \in TreePath : \E e \in Forms[p] :
          /\ Walk!IsDir(Walk!Parent(p))
          /\ tree' = [q \in TreePath |-> IF q = p THEN e
                                         ELSE IF q \in Walk!Under(p) THEN Absent ELSE tree[q]]
  BY DEF Walk!Change
<1>3. /\ \A q \in TreePath \ {p} : tree'[q] = IF q \in Walk!Under(p) THEN Absent ELSE tree[q]
      /\ DOMAIN tree' = TreePath
  BY <1>2
<1>4. /\ versions' = versions \cup {tree'} /\ tree \in versions /\ status = "running"
      /\ UNCHANGED <<job, selection, stage, stack, pending, found, todo, read, result, status>>
  BY DEF Walk!Change, Walk!walkVars, SeenInv, History
<1>5. Staying' \subseteq Staying
  <2> SUFFICES ASSUME NEW s \in Staying' PROVE s \in Staying
    OBVIOUS
  <2>1. /\ s \in TreePath /\ tree'[s].kind # "none"
        /\ \A t \in versions' : t[s] = tree'[s] /\ \A q \in Walk!Above(s) : t[q] = tree'[q]
    BY DEF Staying, Walk!Stable
  <2>2. tree[s] = tree'[s] /\ \A q \in Walk!Above(s) : tree[q] = tree'[q]
    BY <1>4, <2>1
  <2> QED
    BY <1>4, <2>1, <2>2 DEF Staying, Walk!Stable
<1>6. WellFormed'
  <2> SUFFICES ASSUME NEW x \in TreePath, tree'[x].kind # "none", NEW q \in Walk!Above(x)
               PROVE  Walk!IsDir(q)'
    BY DEF WellFormed
  <2>1. q \in TreePath /\ q # Walk!Root
    BY PathSeq DEF Walk!TreeConstants
  <2> SUFFICES tree'[q].kind = "dir"
    BY <2>1 DEF Walk!IsDir, Walk!At
  <2>2. p \in Walk!Above(q) => p \in Walk!Above(x) /\ Len(p) < Len(q) /\ Len(q) < Len(x)
    BY <2>1, AboveAbove
  <2>3. Len(p) \in Nat /\ Len(q) \in Nat /\ Len(x) \in Nat /\ Len(q) < Len(x)
    BY <2>1, PathSeq, AboveAbove
  <2>4. CASE x = p
    <3>1. q # p /\ q \notin Walk!Under(p)
      BY <2>2, <2>3, <2>4 DEF Walk!Under
    <3>2. tree'[q] = tree[q]
      BY <1>3, <2>1, <3>1
    <3>3. /\ Walk!Parent(p) \in TreePath /\ Walk!Parent(p) # Walk!Root
          /\ q \in Walk!Above(Walk!Parent(p)) \cup {Walk!Parent(p)}
      BY <2>4, ParentAbove
    <3>4. tree[Walk!Parent(p)].kind = "dir"
      BY <1>2, <3>3 DEF Walk!IsDir, Walk!At
    <3>5. Walk!IsDir(q)
      BY <1>2, <3>3, <3>4 DEF SeenInv, History, WellFormed
    <3> QED
      BY <2>1, <3>2, <3>5 DEF Walk!IsDir, Walk!At
  <2>5. CASE x # p
    <3>1. x \notin Walk!Under(p) /\ tree'[x] = tree[x]
      BY <1>3, <2>5 DEF Walk!TreeConstants
    <3>2. q # p /\ q \notin Walk!Under(p)
      BY <2>2, <3>1 DEF Walk!Under
    <3>3. tree'[q] = tree[q]
      BY <1>3, <2>1, <3>2
    <3>4. Walk!IsDir(q)
      BY <3>1 DEF SeenInv, History, WellFormed
    <3> QED
      BY <2>1, <3>3, <3>4 DEF Walk!IsDir, Walk!At
  <2> QED
    BY <2>4, <2>5
<1>7. History'
  BY <1>4, <1>6 DEF SeenInv, History, Known
<1>8. Progress'
  <2>1. /\ Walk!Doing' = Walk!Doing
        /\ \A q : (Walk!Wanted(q)' <=> Walk!Wanted(q)) /\ (Coming(q)' <=> Coming(q))
    BY <1>4 DEF Walk!Doing, Walk!Wanted, Coming
  <2>2. /\ WalkSees => WalkSees'
        /\ WriteSees => WriteSees'
    BY <1>4, <1>5, <2>1 DEF WalkSees, WriteSees
  <2>3. /\ CopySees => CopySees'
        /\ ResultSees => ResultSees'
    BY <1>4, <1>5, <2>1 DEF CopySees, ResultSees
  <2> QED
    BY <1>4, <2>1, <2>2, <2>3 DEF SeenInv, Progress
<1> QED
  BY <1>1, <1>7, <1>8 DEF SeenInv

\* Every step of a job and of the other program preserves the invariant.
LEMMA SeenStep == ASSUME Walk!TreeConstants, SeenInv, [Walk!Next]_Walk!vars PROVE SeenInv'
<1>1. CASE Walk!Next
  BY <1>1, SeenOpen, SeenInspect, SeenRecord, SeenCopy, SeenEndStage, SeenChange DEF Walk!Next
<1>2. CASE UNCHANGED Walk!vars
  <2>1. /\ Still /\ UNCHANGED <<stage, stack, pending, found, todo, read, result, status>>
    BY <1>2 DEF Walk!vars, Walk!walkVars, Still
  <2>2. WalkTypes'
    BY <1>2, WalkTypeStep DEF SeenInv
  <2>3. History'
    BY <2>1, StillStays DEF SeenInv, History, Known, Still
  <2>4. Walk!Doing' = Walk!Doing /\ \A p : Coming(p)' <=> Coming(p)
    BY <2>1 DEF Walk!Doing, Coming, Still
  <2>5. /\ WalkSees' <=> WalkSees
        /\ WriteSees' <=> WriteSees
        /\ CopySees' <=> CopySees
        /\ ResultSees' <=> ResultSees
    BY <2>1, <2>4, StillStays DEF WalkSees, WriteSees, CopySees, ResultSees
  <2>6. Progress'
    BY <2>1, <2>4, <2>5 DEF SeenInv, Progress, Still
  <2> QED
    BY <2>2, <2>3, <2>6 DEF SeenInv
<1> QED
  BY <1>1, <1>2

\* A job that is accepted has nothing left to come.
LEMMA SeenIsEnough == ASSUME SeenInv PROVE Walk!StableEntriesAreSeen
<1> SUFFICES ASSUME status = "accepted"
             PROVE  /\ \A p \in TreePath :
                         Walk!Stable(p) /\ tree[p].kind # "none" /\ Walk!Wanted(p) =>
                           p \in DOMAIN result /\ result[p] = tree[p]
                    /\ \A p \in DOMAIN result : result[p] \in {t[p] : t \in versions}
  BY DEF Walk!StableEntriesAreSeen
<1>1. \A p \in Staying : Walk!Wanted(p) => p \in DOMAIN result /\ result[p] = tree[p]
  BY StayingIsThere DEF SeenInv, Progress, ResultSees, History
<1> QED
  BY <1>1 DEF Staying, SeenInv, History, Known

-----------------------------------------------------------------------------
\* A part D of the tree: its files and directories, what the counters are after its
\* entries, and what a job demands of it.
FilesIn(D) == {p \in D : tree[p].kind = "file"}
DirsIn(D) == {p \in D : tree[p].kind = "dir"}
Sizes == [p \in TreePath |-> tree[p].size]
Tally(D) == [files |-> Cardinality(FilesIn(D)), directories |-> Cardinality(DirsIn(D)),
             bytes |-> Total(Sizes, FilesIn(D)), ids |-> {tree[p].id : p \in FilesIn(D)}]

Proper(D) == \A p \in D : Walk!Regular(p) /\ (job # "monitor" => Walk!ValidPath(p))
Fits(D) ==
    /\ Cardinality(FilesIn(D)) <= MaxTreeFiles
    /\ Cardinality(DirsIn(D)) <= MaxTreeDirectories
    /\ \A p \in FilesIn(D) : tree[p].size <= MaxSingleFileBytes
    /\ Total(Sizes, FilesIn(D)) <= MaxTreeBytes
Alone(D) == job = "audit" => \A p, q \in FilesIn(D) : tree[p].id = tree[q].id => p = q

Whole == Walk!Present(tree)
Sound == Proper(Whole) /\ Fits(Whole) /\ Alone(Whole)
Legal == Sound /\ selection \subseteq Whole

\* A part of the tree is finite, and so is what is counted of it.
LEMMA PartIsFinite ==
    ASSUME Walk!FiniteTrees, tree \in Trees, NEW D, D \subseteq Whole
    PROVE  /\ IsFiniteSet(D) /\ IsFiniteSet(FilesIn(D)) /\ IsFiniteSet(DirsIn(D))
           /\ D \subseteq TreePath /\ Cardinality(D) \in Nat
           /\ Cardinality(FilesIn(D)) \in Nat /\ Cardinality(DirsIn(D)) \in Nat
           /\ \A p \in FilesIn(D) : Sizes[p] = tree[p].size /\ Sizes[p] \in Nat
           /\ Total(Sizes, FilesIn(D)) \in Nat
<1>1. IsFiniteSet(Whole) /\ Whole \subseteq TreePath
  BY DEF Walk!FiniteTrees, Whole, Walk!Present, IsFiniteSet, Walk!IsFiniteSet
<1>2. FilesIn(D) \subseteq D /\ DirsIn(D) \subseteq D
  BY DEF FilesIn, DirsIn
<1>3. IsFiniteSet(D)
  BY <1>1, FS_Subset
<1>4. IsFiniteSet(FilesIn(D)) /\ IsFiniteSet(DirsIn(D))
  BY <1>2, <1>3, FS_Subset
<1>5. ASSUME NEW p \in FilesIn(D) PROVE Sizes[p] = tree[p].size /\ Sizes[p] \in Nat
  <2>1. p \in TreePath /\ tree[p].kind = "file"
    BY <1>1, <1>2 DEF FilesIn
  <2> QED
    BY <2>1 DEF Walk!FiniteTrees, Sizes
<1>6. Total(Sizes, FilesIn(D)) \in Nat
  BY <1>4, <1>5, TotalIsNumber
<1> QED
  BY <1>1, <1>3, <1>4, <1>5, <1>6, FS_CardinalityType

\* One entry more: the counters count it, and it fits if the counters say so.
LEMMA OneMore ==
    ASSUME Walk!FiniteTrees, tree \in Trees, NEW D, D \subseteq Whole,
           NEW p \in Whole, p \notin D, Walk!Regular(p)
    PROVE  /\ Tally(D \cup {p}) = Walk!Counted(Tally(D), tree[p])
           /\ Fits(D) => (Fits(D \cup {p}) <=> Walk!WithinLimits(Tally(D), tree[p]))
           /\ Alone(D) => (Alone(D \cup {p}) <=>
                              (job = "audit" /\ tree[p].kind = "file" =>
                                   tree[p].id \notin Tally(D).ids))
<1> PICK E : E = D \cup {p}
  OBVIOUS
<1> PICK F : F = FilesIn(D)
  OBVIOUS
<1> PICK G : G = DirsIn(D)
  OBVIOUS
<1>0. /\ IsFiniteSet(F) /\ IsFiniteSet(G) /\ p \notin F /\ p \notin G
      /\ Cardinality(F) \in Nat /\ Cardinality(G) \in Nat /\ Total(Sizes, F) \in Nat
  BY PartIsFinite DEF FilesIn, DirsIn
<1>n. E \subseteq Whole
  OBVIOUS
<1> PICK n : n = Cardinality(F)
  OBVIOUS
<1> PICK m : m = Cardinality(G)
  OBVIOUS
<1> PICK b : b = Total(Sizes, F)
  OBVIOUS
<1> PICK I : I = {tree[q].id : q \in F}
  OBVIOUS
<1> PICK c : c = Tally(D)
  OBVIOUS
<1> PICK x : x = tree[p]
  OBVIOUS
<1>c. c = [files |-> n, directories |-> m, bytes |-> b, ids |-> I]
  BY DEF Tally
<1>t. Tally(E) = [files |-> Cardinality(FilesIn(E)), directories |-> Cardinality(DirsIn(E)),
                  bytes |-> Total(Sizes, FilesIn(E)), ids |-> {tree[q].id : q \in FilesIn(E)}]
  BY DEF Tally
<1>1. CASE x.kind = "dir"
  <2>1. FilesIn(E) = F /\ DirsIn(E) = G \cup {p}
    BY <1>1 DEF FilesIn, DirsIn
  <2>2. Cardinality(DirsIn(E)) = m + 1
    BY <1>0, <2>1, FS_AddElement
  <2>3. Walk!Counted(c, x) = [files |-> n, directories |-> m + 1, bytes |-> b, ids |-> I]
    BY ONLY <1>1, <1>c DEF Walk!Counted
  <2>4. Tally(E) = Walk!Counted(c, x)
    BY <1>t, <2>1, <2>2, <2>3
  <2>5. Walk!WithinLimits(c, x) <=> m + 1 <= MaxTreeDirectories
    BY ONLY <1>1, <2>3 DEF Walk!WithinLimits
  <2>6. Fits(D) => (Fits(E) <=> Walk!WithinLimits(c, x))
    BY <2>1, <2>2, <2>5 DEF Fits
  <2>7. Alone(E) <=> Alone(D)
    BY <2>1 DEF Alone
  <2> QED
    BY <1>1, <2>4, <2>6, <2>7
<1>2. CASE x.kind = "file"
  <2>1. FilesIn(E) = F \cup {p} /\ DirsIn(E) = G
    BY <1>2 DEF FilesIn, DirsIn
  <2>2. Cardinality(FilesIn(E)) = n + 1
    BY <1>0, <2>1, FS_AddElement
  <2>s. Sizes[p] = x.size /\ x.size \in Nat /\ \A y \in F \cup {p} : Sizes[y] \in Nat
    BY <1>n, <2>1, PartIsFinite
  <2>3. Total(Sizes, FilesIn(E)) = b + x.size
    <3>1. Total(Sizes, F \cup {p}) = Sizes[p] + Total(Sizes, F)
      BY ONLY <1>0, <2>s, TotalWith
    <3>2. b \in Nat /\ b = Total(Sizes, F) /\ Sizes[p] = x.size /\ x.size \in Nat
      BY <1>0, <2>s
    <3>3. Total(Sizes, F \cup {p}) = b + x.size
      BY ONLY <3>1, <3>2
    <3> QED
      BY ONLY <2>1, <3>3
  <2>i. {tree[q].id : q \in FilesIn(E)} = I \cup {x.id}
    BY <2>1
  <2>4. Walk!Counted(c, x) = [files |-> n + 1, directories |-> m, bytes |-> b + x.size,
                              ids |-> I \cup {x.id}]
    BY ONLY <1>2, <1>c DEF Walk!Counted
  <2>5. Tally(E) = Walk!Counted(c, x)
    BY <1>t, <2>1, <2>2, <2>3, <2>i, <2>4
  <2>6. Walk!WithinLimits(c, x) <=> /\ n + 1 <= MaxTreeFiles /\ x.size <= MaxSingleFileBytes
                                    /\ b + x.size <= MaxTreeBytes
    BY ONLY <1>2, <2>4 DEF Walk!WithinLimits
  <2>7. Fits(D) => (Fits(E) <=> Walk!WithinLimits(c, x))
    BY <2>1, <2>2, <2>3, <2>6 DEF Fits
  <2>8. x.id \in I <=> \E q \in F : tree[q].id = x.id
    OBVIOUS
  <2>9. Alone(D) => (Alone(E) <=> (job = "audit" => x.id \notin I))
    <3>1. Alone(D) <=> (job = "audit" => \A q, r \in F : tree[q].id = tree[r].id => q = r)
      BY DEF Alone
    <3>2. Alone(E) <=> (job = "audit" => \A q, r \in F \cup {p} : tree[q].id = tree[r].id => q = r)
      BY <2>1 DEF Alone
    <3>3. p \notin F /\ x = tree[p]
      BY <1>0
    <3> QED
      BY ONLY <2>8, <3>1, <3>2, <3>3
  <2>10. c.ids = I
    BY <1>c
  <2> QED
    BY <1>2, <2>5, <2>7, <2>9, <2>10
<1> QED
  BY <1>1, <1>2 DEF Walk!Regular

\* A reading begins with nothing, which is within every limit.
LEMMA NothingFits ==
    ASSUME Walk!TreeConstants
    PROVE  Tally({}) = Walk!Zero /\ Fits({}) /\ Alone({}) /\ Proper({})
<1>1. FilesIn({}) = {} /\ DirsIn({}) = {} /\ Cardinality({}) = 0 /\ Total(Sizes, {}) = 0
  BY FS_EmptySet, TotalOfNone DEF FilesIn, DirsIn
<1>2. MaxTreeFiles \in Nat /\ MaxTreeDirectories \in Nat /\ MaxTreeBytes \in Nat
  BY DEF Walk!TreeConstants
<1>3. Fits({})
  BY <1>1, <1>2 DEF Fits
<1>4. Tally({}) = Walk!Zero
  BY <1>1 DEF Tally, Walk!Zero
<1> QED
  BY <1>1, <1>3, <1>4 DEF Alone, Proper

\* A part of what fits fits.
LEMMA PartFits ==
    ASSUME Walk!TreeConstants, Walk!FiniteTrees, tree \in Trees, NEW D, D \subseteq Whole, Fits(Whole)
    PROVE  Fits(D)
<1> PICK W : W = Whole
  OBVIOUS
<1>1. FilesIn(D) \subseteq FilesIn(W) /\ DirsIn(D) \subseteq DirsIn(W)
  BY DEF FilesIn, DirsIn
<1>2. /\ Cardinality(FilesIn(D)) \in Nat /\ Cardinality(DirsIn(D)) \in Nat
      /\ Total(Sizes, FilesIn(D)) \in Nat
  BY PartIsFinite
<1>3. /\ IsFiniteSet(FilesIn(W)) /\ IsFiniteSet(DirsIn(W))
      /\ \A p \in FilesIn(W) : Sizes[p] \in Nat
      /\ Cardinality(FilesIn(W)) \in Nat /\ Cardinality(DirsIn(W)) \in Nat
      /\ Total(Sizes, FilesIn(W)) \in Nat
  BY PartIsFinite
<1>4. /\ Cardinality(FilesIn(D)) <= Cardinality(FilesIn(W))
      /\ Cardinality(DirsIn(D)) <= Cardinality(DirsIn(W))
  BY <1>1, <1>3, FS_Subset
<1>5. Total(Sizes, FilesIn(D)) <= Total(Sizes, FilesIn(W))
  BY <1>1, <1>3, TotalOfPart
<1>6. MaxTreeFiles \in Nat /\ MaxTreeDirectories \in Nat /\ MaxTreeBytes \in Nat
  BY DEF Walk!TreeConstants
<1>7. /\ Cardinality(FilesIn(W)) <= MaxTreeFiles /\ Cardinality(DirsIn(W)) <= MaxTreeDirectories
      /\ Total(Sizes, FilesIn(W)) <= MaxTreeBytes
      /\ \A p \in FilesIn(W) : tree[p].size <= MaxSingleFileBytes
  BY DEF Fits
<1>8. /\ Cardinality(FilesIn(D)) <= MaxTreeFiles /\ Cardinality(DirsIn(D)) <= MaxTreeDirectories
      /\ Total(Sizes, FilesIn(D)) <= MaxTreeBytes
  BY <1>2, <1>3, <1>4, <1>5, <1>6, <1>7
<1> QED
  BY <1>1, <1>7, <1>8 DEF Fits

\* The sum over a tree is a total.
LEMMA SizesAddUp ==
    ASSUME NEW S, NEW t
    PROVE  Walk!MapThenSumSet(LAMBDA p : t[p].size, S) = Total([p \in S |-> t[p].size], S)
<1> DEFINE b == [p \in S |-> t[p].size]
<1>1. Walk!MapThenSumSet(LAMBDA p : t[p].size, S) =
          (CHOOSE g : g = [s \in SUBSET S |->
              IF s = {} THEN 0 ELSE t[First(s)].size + g[s \ {First(s)}]])[S]
  BY DEF Walk!MapThenSumSet, Walk!MapThenFoldSet, First
<1>2. ASSUME NEW g
      PROVE  [s \in SUBSET S |-> IF s = {} THEN 0 ELSE t[First(s)].size + g[s \ {First(s)}]]
             = [s \in SUBSET S |-> IF s = {} THEN 0 ELSE b[First(s)] + g[s \ {First(s)}]]
  <2>1. \A s \in SUBSET S : s # {} => b[First(s)] = t[First(s)].size
    BY FirstIsElement
  <2> HIDE DEF b
  <2> QED
    BY <2>1
<1> HIDE DEF b
<1>3. \A g : Adds(b, S, g) <=> g = [s \in SUBSET S |->
              IF s = {} THEN 0 ELSE t[First(s)].size + g[s \ {First(s)}]]
  BY <1>2 DEF Adds
<1>4. (CHOOSE g : Adds(b, S, g)) = (CHOOSE g : g = [s \in SUBSET S |->
              IF s = {} THEN 0 ELSE t[First(s)].size + g[s \ {First(s)}]])
  BY <1>3
<1> QED
  BY <1>1, <1>4 DEF Total, b

\* So is the sum over the rest of a path.
LEMMA BytesAddUp ==
    ASSUME NEW S, NEW q
    PROVE  Walk!MapThenSumSet(LAMBDA i : NameBytes[q[i]] + 1, S)
           = Total([i \in S |-> NameBytes[q[i]] + 1], S)
<1> DEFINE b == [i \in S |-> NameBytes[q[i]] + 1]
<1>1. Walk!MapThenSumSet(LAMBDA i : NameBytes[q[i]] + 1, S) =
          (CHOOSE g : g = [s \in SUBSET S |->
              IF s = {} THEN 0 ELSE (NameBytes[q[First(s)]] + 1) + g[s \ {First(s)}]])[S]
  BY DEF Walk!MapThenSumSet, Walk!MapThenFoldSet, First
<1>2. ASSUME NEW g
      PROVE  [s \in SUBSET S |->
                  IF s = {} THEN 0 ELSE (NameBytes[q[First(s)]] + 1) + g[s \ {First(s)}]]
             = [s \in SUBSET S |-> IF s = {} THEN 0 ELSE b[First(s)] + g[s \ {First(s)}]]
  <2>1. \A s \in SUBSET S : s # {} => b[First(s)] = NameBytes[q[First(s)]] + 1
    BY FirstIsElement
  <2> HIDE DEF b
  <2> QED
    BY <2>1
<1> HIDE DEF b
<1>3. \A g : Adds(b, S, g) <=> g = [s \in SUBSET S |->
              IF s = {} THEN 0 ELSE (NameBytes[q[First(s)]] + 1) + g[s \ {First(s)}]]
  BY <1>2 DEF Adds
<1>4. (CHOOSE g : Adds(b, S, g)) = (CHOOSE g : g = [s \in SUBSET S |->
              IF s = {} THEN 0 ELSE (NameBytes[q[First(s)]] + 1) + g[s \ {First(s)}]])
  BY <1>3
<1> QED
  BY <1>1, <1>4 DEF Total, b

\* What comes after the first names of a path that is valid is valid.
LEMMA ValidFurtherDown ==
    ASSUME Walk!TreeConstants, NEW q \in TreePath, NEW n \in Nat, Walk!ValidPath(q)
    PROVE  Walk!ValidBelow(n, q)
<1> PICK l : l = Len(q)
  OBVIOUS
<1> DEFINE T == (0 + 1) .. l
           S == (n + 1) .. l
<1>1. l \in Nat /\ \A i \in 1 .. l : NameBytes[q[i]] \in Nat
  BY LenProperties DEF Walk!TreeConstants
<1>2. S \subseteq T /\ T = 1 .. l
  BY <1>1
<1>3. IsFiniteSet(T) /\ IsFiniteSet(S)
  BY <1>1, <1>2, FS_Interval, FS_Subset
<1> PICK b : b = [i \in T |-> NameBytes[q[i]] + 1]
  OBVIOUS
<1> PICK c : c = [i \in S |-> NameBytes[q[i]] + 1]
  OBVIOUS
<1>4. /\ Walk!MapThenSumSet(LAMBDA i : NameBytes[q[i]] + 1, T) = Total(b, T)
      /\ Walk!MapThenSumSet(LAMBDA i : NameBytes[q[i]] + 1, S) = Total(c, S)
  BY BytesAddUp
<1>5. /\ \A i \in T : q[i] \notin BadName
      /\ l - 0 <= MaxDepth
      /\ Total(b, T) <= MaxTreePathBytes
  BY <1>4 DEF Walk!ValidPath, Walk!ValidBelow
<1>6. Walk!ValidBelow(n, q) <=> /\ \A i \in S : q[i] \notin BadName
                              /\ l - n <= MaxDepth
                              /\ Total(c, S) <= MaxTreePathBytes
  BY <1>4 DEF Walk!ValidBelow
<1>7. /\ \A i \in T : b[i] \in Nat
      /\ \A i \in S : c[i] = b[i] /\ c[i] \in Nat
  BY <1>1, <1>2
<1>8. /\ Total(c, S) = Total(b, S) /\ Total(b, S) <= Total(b, T)
      /\ Total(b, S) \in Nat /\ Total(b, T) \in Nat
  BY <1>2, <1>3, <1>7, TotalsAgree, TotalOfPart, TotalIsNumber
<1>9. MaxTreePathBytes \in Nat /\ MaxDepth \in Nat
  BY DEF Walk!TreeConstants
<1> HIDE DEF S, T
<1>10. Total(c, S) <= MaxTreePathBytes
  BY ONLY <1>5, <1>8, <1>9
<1>11. l - n <= MaxDepth
  BY ONLY <1>1, <1>5, <1>9, n \in Nat
<1> QED
  BY <1>2, <1>5, <1>6, <1>10, <1>11

\* What the property says of a tree, in the terms of its parts.
LEMMA AcceptableIs ==
    ASSUME Walk!FiniteTrees, tree \in Trees
    PROVE  Walk!Acceptable(tree) <=> Legal
<1> PICK F : F = Walk!FilesOf(tree)
  OBVIOUS
<1> DEFINE G == {p \in TreePath : tree[p].kind = "dir"}
<1>1. F = FilesIn(Whole) /\ G = DirsIn(Whole) /\ F \cap G = {}
  BY DEF FilesIn, DirsIn, Whole, Walk!Present, Walk!FilesOf
<1>2. Whole = F \cup G /\ (\A p \in F : Walk!OneName(tree, p))
      <=> \A p \in Whole : Walk!Regular(p)
  BY DEF Whole, Walk!Present, Walk!Regular, Walk!FilesOf
<1>3. Whole = F \cup G => Whole \ F = G
  BY <1>1
<1>4. Walk!MapThenSumSet(LAMBDA p : tree[p].size, F) = Total(Sizes, F)
  <2> DEFINE b == [p \in F |-> tree[p].size]
  <2>1. Walk!MapThenSumSet(LAMBDA p : tree[p].size, F) = Total(b, F)
    BY SizesAddUp
  <2>2. IsFiniteSet(F) /\ \A p \in F : Sizes[p] = b[p] /\ Sizes[p] \in Nat
    BY <1>1, PartIsFinite
  <2>3. Total(Sizes, F) = Total(b, F)
    <3> HIDE DEF b
    <3> QED
      BY ONLY <2>2, TotalsAgree
  <2> QED
    BY <2>1, <2>3
<1>5. Walk!Acceptable(tree) <=>
          /\ Whole = F \cup G
          /\ job # "monitor" => \A p \in Whole : Walk!ValidPath(p)
          /\ Cardinality(F) <= MaxTreeFiles
          /\ Cardinality(Whole \ F) <= MaxTreeDirectories
          /\ \A p \in F : tree[p].size <= MaxSingleFileBytes
          /\ Walk!MapThenSumSet(LAMBDA p : tree[p].size, F) <= MaxTreeBytes
          /\ \A p \in F : Walk!OneName(tree, p)
          /\ selection \subseteq Whole
  BY DEF Walk!Acceptable, Whole, Cardinality, Walk!Cardinality
<1>6. Fits(Whole) <=>
          /\ Cardinality(F) <= MaxTreeFiles
          /\ Cardinality(G) <= MaxTreeDirectories
          /\ \A p \in F : tree[p].size <= MaxSingleFileBytes
          /\ Total(Sizes, F) <= MaxTreeBytes
  BY <1>1 DEF Fits
<1>7. Proper(Whole) => Alone(Whole)
  BY DEF Alone, Proper, Walk!Regular, Walk!OneName, FilesIn, Whole, Walk!Present
<1>8. Proper(Whole) <=> /\ Whole = F \cup G /\ \A p \in F : Walk!OneName(tree, p)
                        /\ job # "monitor" => \A p \in Whole : Walk!ValidPath(p)
  BY <1>2 DEF Proper
<1> HIDE DEF G
<1> QED
  BY <1>3, <1>4, <1>5, <1>6, <1>7, <1>8 DEF Sound, Legal

-----------------------------------------------------------------------------
\* What a tree at rest is read as.
There == [p \in Whole |-> tree[p]]
Shown(f) == DOMAIN f \subseteq Whole /\ f = [p \in DOMAIN f |-> tree[p]]
Opened == DirsIn(DOMAIN found) \cup {Walk!Root}

\* A directory that waits is as it was found, it waits once, and nothing in it has
\* been found yet.
WaitsOnce ==
    \A i \in 1 .. Len(stack) :
        /\ stack[i].path \in Opened /\ stack[i].id = Walk!At(stack[i].path).id
        /\ \A p \in DOMAIN found \cup pending : Walk!Parent(p) # stack[i].path
        /\ \A j \in 1 .. Len(stack) : stack[i].path = stack[j].path => i = j

Walked ==
    /\ Shown(found) /\ Proper(DOMAIN found)
    /\ pending \subseteq Whole /\ pending \cap DOMAIN found = {}
    /\ \A p \in DOMAIN found \cup pending : Walk!Parent(p) \in Opened
    /\ WaitsOnce
    /\ Walk!Doing \in {"audit", "monitor", "enumerate"} =>
          /\ seen = Tally(DOMAIN found)
          /\ Fits(DOMAIN found) /\ Alone(DOMAIN found)

Reread ==
    /\ pending = {}
    /\ Shown(found) /\ DOMAIN found = Whole /\ Proper(Whole)
    /\ Shown(read) /\ todo = Whole \ DOMAIN read
    /\ Walk!Doing = "hash" => seen = Tally(DOMAIN read) /\ Fits(DOMAIN read)
    /\ Walk!Doing = "write" => Fits(Whole)

\* What is copied for a set of selectors.
Asked(S) == S \cup (UNION {Walk!Under(q) \cap Whole : q \in S})
Copied ==
    /\ pending = {}
    /\ todo \subseteq selection /\ selection \ todo \subseteq Whole
    /\ result = [p \in Asked(selection \ todo) |-> tree[p]]

Delivered ==
    /\ Legal
    /\ result = IF job = "select" THEN [p \in Asked(selection) |-> tree[p]] ELSE There

Judging ==
    /\ status = "running" =>
          /\ Walk!Doing \in Walk!Walks => Walked
          /\ Walk!Doing \in {"hash", "write"} => Reread
          /\ Walk!Doing = "copy" => Copied
          /\ job \in {"preview", "select"} =>
                /\ stage < 3 => result = Walk!NoTree
                /\ stage > 2 => kept = Walk!Fingerprint(There) /\ Sound
                /\ stage > 3 => Delivered
    /\ status = "accepted" => Delivered
    /\ status = "rejected" => ~Legal

AtRest == tree \in Trees /\ versions = {tree} /\ (job # "select" => selection = {})
Quiet == AtRest /\ Judging
QuietInv == disturbances \in Nat /\ (disturbances = 0 => Quiet)

\* What each reading of each job is.
LEMMA StageNames ==
    ASSUME NEW j \in Walk!Jobs, NEW n \in 1 .. Len(Walk!Stages[j])
    PROVE  LET now == Walk!Stages[j][n]
           IN  \/ j \in {"audit", "monitor"} /\ n = 1 /\ Len(Walk!Stages[j]) = 1 /\ now = j
               \/ /\ j = "serialise" /\ Len(Walk!Stages[j]) = 2
                  /\ \/ n = 1 /\ now = "enumerate" /\ Walk!Stages[j][n + 1] = "write"
                     \/ n = 2 /\ now = "write"
               \/ /\ j \in {"preview", "select"} /\ Len(Walk!Stages[j]) = 5
                  /\ \/ n = 1 /\ now = "list" /\ Walk!Stages[j][n + 1] = "hash"
                     \/ /\ n = 2 /\ now = "hash"
                        /\ Walk!Stages[j][n + 1] = IF j = "preview" THEN "inventory" ELSE "copy"
                     \/ /\ n = 3 /\ now = IF j = "preview" THEN "inventory" ELSE "copy"
                        /\ Walk!Stages[j][n + 1] = "list"
                     \/ n = 4 /\ now = "list" /\ Walk!Stages[j][n + 1] = "hash"
                     \/ n = 5 /\ now = "hash"
<1>1. CASE j \in {"audit", "monitor"}
  <2>1. Walk!Stages[j] = <<j>> /\ Len(Walk!Stages[j]) = 1
    BY <1>1, StageTable
  <2>2. n = 1 /\ Walk!Stages[j][1] = j
    <3> HIDE DEF Walk!Stages
    <3>1. n = 1
      BY <2>1
    <3>2. <<j>>[1] = j
      OBVIOUS
    <3> QED
      BY <2>1, <3>1, <3>2
  <2> QED
    BY <1>1, <2>1, <2>2
<1>2. CASE j = "serialise"
  <2>1. n \in {1, 2}
    BY <1>2, StageTable
  <2> QED
    BY <1>2, <2>1, StageTable
<1>3. CASE j = "preview"
  <2>1. n \in {1, 2, 3, 4, 5}
    BY <1>3, StageTable
  <2> QED
    BY <1>3, <2>1, StageTable
<1>4. CASE j = "select"
  <2>1. n \in {1, 2, 3, 4, 5}
    BY <1>4, StageTable
  <2> QED
    BY <1>4, <2>1, StageTable
<1> QED
  BY <1>1, <1>2, <1>3, <1>4 DEF Walk!Jobs

\* Nothing of this depends on more than the tree and the job.
LEMMA StillQuiet ==
    ASSUME Still
    PROVE  /\ Whole' = Whole /\ There' = There
           /\ Sound' <=> Sound
           /\ AtRest' <=> AtRest
           /\ Legal' <=> Legal
           /\ \A D : /\ Tally(D)' = Tally(D) /\ (Fits(D)' <=> Fits(D))
                     /\ (Proper(D)' <=> Proper(D)) /\ (Alone(D)' <=> Alone(D))
                     /\ DirsIn(D)' = DirsIn(D)
                     /\ Asked(D)' = Asked(D)
           /\ \A f : (Shown(f)' <=> Shown(f)) /\ Walk!Fingerprint(f)' = Walk!Fingerprint(f)
<1>1. tree' = tree /\ job' = job /\ selection' = selection /\ versions' = versions
  BY DEF Still
<1>2. Whole' = Whole
  BY <1>1 DEF Whole, Walk!Present
<1>3. ASSUME NEW D
      PROVE  /\ Tally(D)' = Tally(D) /\ (Fits(D)' <=> Fits(D))
             /\ (Proper(D)' <=> Proper(D)) /\ (Alone(D)' <=> Alone(D))
             /\ DirsIn(D)' = DirsIn(D)
             /\ Asked(D)' = Asked(D)
  BY <1>1, <1>2, Zenon
     DEF Tally, Fits, Proper, Alone, FilesIn, DirsIn, Sizes, Walk!Regular, Walk!OneName, Asked
<1>4. There' = There /\ \A f : (Shown(f)' <=> Shown(f)) /\ Walk!Fingerprint(f)' = Walk!Fingerprint(f)
  BY <1>1, <1>2, Zenon DEF There, Shown, Walk!Fingerprint
<1>6. AtRest' <=> AtRest
  BY <1>1 DEF AtRest
<1>7. (Sound' <=> Sound) /\ (Legal' <=> Legal)
  BY <1>1, <1>2, <1>3 DEF Sound, Legal
<1> QED
  BY <1>2, <1>3, <1>4, <1>6, <1>7

\* What is recorded when a reading begins is of the tree.
LEMMA NothingShown == Shown(Walk!NoTree) /\ DOMAIN Walk!NoTree = {}
<1>1. DOMAIN Walk!NoTree = {}
  BY NoTreeDomain
<1>2. Walk!NoTree = [p \in {} |-> tree[p]]
  BY DEF Walk!NoTree
<1> QED
  BY <1>1, <1>2 DEF Shown

\* One entry more, recorded as it is.
LEMMA OneMoreShown ==
    ASSUME NEW f, Shown(f), NEW p \in Whole
    PROVE  Shown(Walk!With(f, p, tree[p]))
<1> PICK D : D = DOMAIN f
  OBVIOUS
<1>1. Walk!With(f, p, tree[p]) = [q \in D \cup {p} |-> IF q = p THEN tree[p] ELSE f[q]]
  BY DEF Walk!With
<1>2. D \subseteq Whole /\ \A q \in D : f[q] = tree[q]
  BY DEF Shown
<1>3. Walk!With(f, p, tree[p]) = [q \in D \cup {p} |-> tree[q]]
  BY <1>1, <1>2
<1> QED
  BY <1>2, <1>3 DEF Shown

\* The invariant holds initially.
LEMMA QuietInit == ASSUME Walk!TreeConstants, Walk!Init PROVE QuietInv
<1>1. AtRest
  BY DEF Walk!Init, AtRest
<1>2. /\ Walk!Doing \in Walk!Walks /\ stage = 1 /\ status = "running"
      /\ disturbances = 0 /\ result = Walk!NoTree
      /\ found = Walk!NoTree /\ pending = {} /\ seen = Walk!Zero
      /\ Len(stack) = 1 /\ stack[1].path = Walk!Root /\ stack[1].id = "root"
  BY StageTable DEF Walk!Init, Walk!Doing
<1>3. Shown(found) /\ DOMAIN found = {}
  BY <1>2, NothingShown
<1>4. WaitsOnce
  BY <1>2, <1>3 DEF WaitsOnce, Opened, Walk!At
<1>5. Walked
  BY <1>2, <1>3, <1>4, NothingFits DEF Walked
<1>6. Judging
  BY <1>2, <1>5 DEF Judging, Walk!Walks
<1> QED
  BY <1>1, <1>2, <1>6 DEF QuietInv, Quiet

\* A job may reject what it must not accept.
LEMMA QuietReject ==
    ASSUME Quiet, Walk!Reject, ~Legal
    PROVE  Quiet'
<1>1. Still /\ status' = "rejected"
  BY DEF Walk!Reject, Still
<1> QED
  BY <1>1, StillQuiet DEF Quiet, Judging

\* What exists in the tree, and the directories that were opened.
LEMMA WholeIs ==
    ASSUME Walk!TreeConstants
    PROVE  /\ \A p \in Whole : /\ p \in TreePath /\ p # Walk!Root
                             /\ Walk!At(p) = tree[p] /\ Walk!Exists(p)
           /\ \A p \in TreePath : Walk!Exists(p) => p \in Whole
           /\ \A p \in Opened : Walk!IsDir(p)
<1>1. \A p \in TreePath : p # Walk!Root
  BY DEF Walk!TreeConstants
<1>2. \A p \in Whole : p \in TreePath /\ tree[p].kind # "none"
  BY DEF Whole, Walk!Present
<1>3. \A p \in Whole : p # Walk!Root /\ Walk!At(p) = tree[p] /\ Walk!Exists(p)
  BY <1>1, <1>2 DEF Walk!At, Walk!Exists
<1>4. \A p \in TreePath : Walk!Exists(p) => p \in Whole
  BY <1>1 DEF Walk!At, Walk!Exists, Whole, Walk!Present
<1>5. \A p \in Opened : Walk!IsDir(p)
  BY DEF Opened, DirsIn, Walk!IsDir, Walk!At
<1> QED
  BY <1>2, <1>3, <1>4, <1>5

\* A directory with too many names is not in a tree that is within the limits.
LEMMA CrowdedIsTooMuch ==
    ASSUME Walk!TreeConstants, Walk!FiniteTrees, tree \in Trees, NEW d, Walk!Crowded(d)
    PROVE  ~Sound
<1> SUFFICES ASSUME Sound PROVE FALSE
  OBVIOUS
<1> PICK N : N = Walk!NamesIn(d.path)
  OBVIOUS
<1>1. Cardinality(N) > MaxTreeFiles + MaxTreeDirectories
  BY DEF Walk!Crowded, Cardinality, Walk!Cardinality
<1>2. N \subseteq Whole
  BY WholeIs DEF Walk!NamesIn
<1> PICK F : F = FilesIn(Whole)
  OBVIOUS
<1> PICK G : G = DirsIn(Whole)
  OBVIOUS
<1>3. /\ IsFiniteSet(F) /\ IsFiniteSet(G)
      /\ Cardinality(F) \in Nat /\ Cardinality(G) \in Nat
      /\ IsFiniteSet(Whole) /\ Cardinality(Whole) \in Nat
      /\ Cardinality(N) \in Nat
  BY <1>2, PartIsFinite
<1>4. Whole = F \cup G
  BY DEF Sound, Proper, Walk!Regular, FilesIn, DirsIn
<1>5. Cardinality(Whole) <= Cardinality(F) + Cardinality(G)
  <2>1. Cardinality(F \cup G) = Cardinality(F) + Cardinality(G) - Cardinality(F \cap G)
    BY ONLY <1>3, FS_Union
  <2>2. Cardinality(F \cap G) \in Nat
    BY ONLY <1>3, FS_Intersection, FS_CardinalityType
  <2>3. Cardinality(F \cup G) <= Cardinality(F) + Cardinality(G)
    BY ONLY <1>3, <2>1, <2>2
  <2> QED
    BY ONLY <1>4, <2>3
<1>6. Cardinality(N) <= Cardinality(Whole)
  BY ONLY <1>2, <1>3, FS_Subset
<1>7. Cardinality(F) <= MaxTreeFiles /\ Cardinality(G) <= MaxTreeDirectories
  BY DEF Sound, Fits
<1>8. MaxTreeFiles \in Nat /\ MaxTreeDirectories \in Nat
  BY DEF Walk!TreeConstants
<1> QED
  BY ONLY <1>1, <1>3, <1>5, <1>6, <1>7, <1>8

\* A directory of a tree at rest is opened, unless it has more names than the limits allow.
LEMMA QuietOpen ==
    ASSUME Walk!TreeConstants, Walk!FiniteTrees, SeenInv, Quiet, Walk!OpenDirectory
    PROVE  Quiet'
<1> DEFINE d == Head(stack)
<1>1. /\ status = "running" /\ Walk!Doing \in Walk!Walks /\ pending = {} /\ stack # <<>>
      /\ tree \in Trees /\ Walked
  BY DEF Walk!OpenDirectory, Walk!Walking, Quiet, AtRest, Judging
<1>2. /\ d = stack[1] /\ Len(Tail(stack)) = Len(stack) - 1 /\ Len(stack) \in Nat
      /\ Len(stack) >= 1
      /\ \A i \in 1 .. Len(Tail(stack)) : Tail(stack)[i] = stack[i + 1]
  BY <1>1, HeadTailProperties, LenProperties DEF SeenInv, WalkTypes
<1>3. d.path \in Opened /\ d.id = Walk!At(d.path).id
  <2>1. 1 \in 1 .. Len(stack)
    BY <1>2
  <2> QED
    BY <1>1, <1>2, <2>1 DEF Walked, WaitsOnce
<1>4. Walk!IsDir(d.path) /\ Walk!SameDirectory(d)
  BY <1>3, WholeIs DEF Walk!SameDirectory
<1>5. ~Walk!Tolerates(Walk!At(d.path)) /\ Walk!At(d.path).kind # "link"
  BY <1>4 DEF Walk!IsDir, Walk!Tolerates
<1>6. CASE Walk!Crowded(d)
  <2>1. Walk!Reject
    BY <1>4, <1>5, <1>6 DEF Walk!OpenDirectory
  <2>2. ~Legal
    BY <1>1, <1>6, CrowdedIsTooMuch DEF Legal
  <2> QED
    BY <2>1, <2>2, QuietReject
<1>7. CASE ~Walk!Crowded(d)
  <2>1. /\ pending' = Walk!NamesIn(d.path) /\ stack' = Tail(stack) /\ Still
        /\ UNCHANGED <<stage, seen, found, todo, read, kept, result, status>>
    BY <1>4, <1>5, <1>7 DEF Walk!OpenDirectory, Still
  <2> HIDE DEF d
  <2>2. Opened' = Opened /\ Walk!Doing' = Walk!Doing /\ \A p : Walk!At(p)' = Walk!At(p)
    BY <2>1 DEF Opened, DirsIn, Walk!Doing, Still, Walk!At
  <2>3. \A p \in pending' : p \in Whole /\ Walk!Parent(p) = d.path
    BY <2>1, WholeIs DEF Walk!NamesIn
  <2>4. \A p \in DOMAIN found : Walk!Parent(p) # d.path /\ Walk!Parent(p) \in Opened
    <3>1. 1 \in 1 .. Len(stack)
      BY <1>2
    <3> QED
      BY <1>1, <1>2, <3>1 DEF Walked, WaitsOnce
  <2>5. WaitsOnce'
    <3> SUFFICES ASSUME NEW i \in 1 .. Len(stack')
                 PROVE  /\ stack'[i].path \in Opened /\ stack'[i].id = Walk!At(stack'[i].path).id
                        /\ \A p \in DOMAIN found \cup pending' : Walk!Parent(p) # stack'[i].path
                        /\ \A j \in 1 .. Len(stack') : stack'[i].path = stack'[j].path => i = j
      BY <2>1, <2>2 DEF WaitsOnce
    <3>1. /\ i + 1 \in 1 .. Len(stack) /\ stack'[i] = stack[i + 1] /\ i + 1 # 1
          /\ 1 \in 1 .. Len(stack)
      BY <1>2, <2>1
    <3>2. stack[i + 1].path # d.path
      BY <1>1, <1>2, <3>1 DEF Walked, WaitsOnce
    <3>3. /\ stack[i + 1].path \in Opened /\ stack[i + 1].id = Walk!At(stack[i + 1].path).id
          /\ \A p \in DOMAIN found : Walk!Parent(p) # stack[i + 1].path
      BY <1>1, <3>1 DEF Walked, WaitsOnce
    <3>4. ASSUME NEW j \in 1 .. Len(stack'), stack'[i].path = stack'[j].path PROVE i = j
      <4>1. j + 1 \in 1 .. Len(stack) /\ stack'[j] = stack[j + 1]
        BY <1>2, <2>1
      <4>2. i + 1 = j + 1
        BY <1>1, <3>1, <3>4, <4>1 DEF Walked, WaitsOnce
      <4> QED
        BY <4>2
    <3> QED
      BY <2>3, <3>1, <3>2, <3>3, <3>4
  <2>6. Walked'
    <3>1. pending' \subseteq Whole /\ pending' \cap DOMAIN found' = {}
      BY <2>1, <2>3, <2>4
    <3>2. \A p \in DOMAIN found' \cup pending' : Walk!Parent(p) \in Opened
      BY <1>3, <2>1, <2>3, <2>4
    <3> QED
      BY <1>1, <2>1, <2>2, <2>5, <3>1, <3>2, StillQuiet DEF Walked
  <2>7. Judging'
    <3>1. Walk!Doing \notin {"hash", "write", "copy"}
      BY <1>1 DEF Walk!Walks
    <3> QED
      BY <1>1, <2>1, <2>2, <2>6, <3>1, StillQuiet DEF Quiet, Judging, Still, Delivered
  <2> QED
    BY <2>1, <2>7, StillQuiet DEF Quiet
<1> QED
  BY <1>6, <1>7

\* What a walk accepts of the entries of a tree at rest: all of them if the tree is as
\* the job demands, and only what is as the job demands.
LEMMA WalkJudges ==
    ASSUME Walk!TreeConstants, Walk!FiniteTrees, SeenInv, Quiet, Walk!Walking, NEW p \in pending
    PROVE  /\ Legal => Walk!Accepts(Walk!Doing, p, tree[p])
           /\ Walk!Accepts(Walk!Doing, p, tree[p]) => Proper(DOMAIN found \cup {p})
           /\ Walk!Accepts(Walk!Doing, p, tree[p]) /\
              Walk!Doing \in {"audit", "monitor", "enumerate"} =>
                 /\ Tally(DOMAIN found \cup {p}) = Walk!Counted(seen, tree[p])
                 /\ Fits(DOMAIN found \cup {p}) /\ Alone(DOMAIN found \cup {p})
<1> PICK D : D = DOMAIN found
  OBVIOUS
<1> PICK E : E = D \cup {p}
  OBVIOUS
<1>1. /\ Walked /\ tree \in Trees /\ p \in Whole /\ p \notin D /\ D \subseteq Whole
      /\ Proper(D) /\ E \subseteq Whole
  BY DEF Quiet, AtRest, Judging, Walk!Walking, Walked, Shown
<1>2. /\ Walk!Doing \in {"audit", "monitor", "enumerate", "list", "inventory"}
      /\ Walk!Doing = "monitor" <=> job = "monitor"
      /\ Walk!Doing = "audit" <=> job = "audit"
  <2>1. /\ job \in Walk!Jobs /\ stage \in 1 .. Len(Walk!Stages[job])
        /\ Walk!Doing = Walk!Stages[job][stage]
    BY DEF SeenInv, WalkTypes, Walk!TypeOK, Walk!Doing
  <2>2. Walk!Doing \in Walk!Walks
    BY DEF Walk!Walking
  <2> QED
    BY ONLY <2>1, <2>2, StageNames, SMT DEF Walk!Walks
<1>3. /\ Walk!Accepts("audit", p, tree[p]) <=> Walk!AuditAccepts(p, tree[p])
      /\ Walk!Accepts("monitor", p, tree[p]) <=> Walk!MonitorAccepts(p, tree[p])
      /\ Walk!Accepts("enumerate", p, tree[p]) <=> Walk!EnumerateAccepts(p, tree[p])
      /\ Walk!Accepts("list", p, tree[p]) <=> Walk!ListAccepts(p)
      /\ Walk!Accepts("inventory", p, tree[p]) <=> Walk!InventoryAccepts(p)
  BY Zenon DEF Walk!Accepts
<1>4. Walk!Accepts(Walk!Doing, p, tree[p]) <=>
          /\ Walk!Regular(p) /\ (job # "monitor" => Walk!ValidPath(p))
          /\ Walk!Doing \in {"audit", "monitor", "enumerate"} => Walk!WithinLimits(seen, tree[p])
          /\ job = "audit" /\ tree[p].kind = "file" => tree[p].id \notin seen.ids
  BY <1>2, <1>3
     DEF Walk!AuditAccepts, Walk!MonitorAccepts, Walk!EnumerateAccepts, Walk!ListAccepts,
     Walk!InventoryAccepts
<1>5. Proper(E) <=> Walk!Regular(p) /\ (job # "monitor" => Walk!ValidPath(p))
  BY <1>1 DEF Proper
<1>6. CASE Walk!Doing \notin {"audit", "monitor", "enumerate"}
  <2>1. job # "audit"
    BY <1>2, <1>6
  <2>2. Walk!Accepts(Walk!Doing, p, tree[p]) <=> Proper(E)
    BY <1>4, <1>5, <1>6, <2>1
  <2>3. Legal => Proper(E)
    BY <1>1 DEF Legal, Sound, Proper
  <2> QED
    BY <1>6, <2>2, <2>3
<1>7. CASE Walk!Doing \in {"audit", "monitor", "enumerate"}
  <2>1. seen = Tally(D) /\ Fits(D) /\ Alone(D)
    BY <1>1, <1>7 DEF Walked
  <2>2. Walk!Regular(p) =>
                 /\ Tally(E) = Walk!Counted(seen, tree[p])
                 /\ Fits(E) <=> Walk!WithinLimits(seen, tree[p])
                 /\ Alone(E) <=>
                       (job = "audit" /\ tree[p].kind = "file" => tree[p].id \notin seen.ids)
    BY <1>1, <2>1, OneMore
  <2>3. Legal => Proper(E) /\ Fits(E) /\ Alone(E)
    <3> SUFFICES ASSUME Legal PROVE Proper(E) /\ Fits(E) /\ Alone(E)
      OBVIOUS
    <3>1. Fits(E)
      BY <1>1, PartFits DEF Legal, Sound
    <3>2. Proper(E)
      BY <1>1 DEF Legal, Sound, Proper
    <3>3. Alone(E)
      <4>1. FilesIn(E) \subseteq FilesIn(Whole)
        BY <1>1 DEF FilesIn
      <4> QED
        BY <4>1 DEF Legal, Sound, Alone
    <3> QED
      BY <3>1, <3>2, <3>3
  <2> QED
    BY <1>4, <1>5, <1>7, <2>2, <2>3
<1> QED
  BY <1>6, <1>7

\* Where the directories of the stack are, after one more.
LEMMA PushedOnce ==
    ASSUME Walk!TreeConstants, SeenInv, Walked, NEW p \in pending,
           Still, UNCHANGED stage,
           pending' = pending \ {p}, stack' = Walk!Push(p, tree[p]),
           DOMAIN found' = DOMAIN found \cup {p}
    PROVE  WaitsOnce' /\ \A q \in DOMAIN found' \cup pending' : Walk!Parent(q) \in Opened'
<1>1. /\ p \in Whole /\ p \notin DOMAIN found
      /\ p \in TreePath /\ p # Walk!Root /\ Walk!At(p) = tree[p]
  BY WholeIs DEF Walked
<1>2. /\ Opened \subseteq Opened' /\ p \notin Opened
      /\ tree[p].kind = "dir" => p \in Opened'
      /\ \A q : Walk!At(q)' = Walk!At(q)
  BY <1>1 DEF Opened, DirsIn, Still, Walk!At
<1>3. DOMAIN found' \cup pending' = DOMAIN found \cup pending
  OBVIOUS
<1>4. \A q \in DOMAIN found \cup pending : Walk!Parent(q) \in Opened /\ Walk!Parent(q) # p
  BY <1>2 DEF Walked
<1>5. ASSUME NEW i \in 1 .. Len(stack)
      PROVE  /\ stack[i].path \in Opened /\ stack[i].path # p
             /\ stack[i].id = Walk!At(stack[i].path).id
             /\ \A q \in DOMAIN found \cup pending : Walk!Parent(q) # stack[i].path
             /\ \A j \in 1 .. Len(stack) : stack[i].path = stack[j].path => i = j
  BY <1>2 DEF Walked, WaitsOnce
<1>6. CASE tree[p].kind # "dir"
  <2>1. stack' = stack
    BY <1>6 DEF Walk!Push
  <2>2. WaitsOnce'
    BY <1>2, <1>3, <1>5, <2>1 DEF WaitsOnce
  <2> QED
    BY <1>2, <1>3, <1>4, <2>2
<1>7. CASE tree[p].kind = "dir"
  <2> PICK x : x = [path |-> p, id |-> tree[p].id]
    OBVIOUS
  <2>1. stack' = <<x>> \o stack
    BY <1>7 DEF Walk!Push
  <2>2. x \in Waiting
    BY <1>1 DEF SeenInv, WalkTypes, Waiting
  <2>3. stack \in Seq(Waiting) /\ <<x>> \in Seq(Waiting) /\ Len(<<x>>) = 1 /\ <<x>>[1] = x
    BY <2>2, FirstWaiting DEF SeenInv, WalkTypes
  <2>4. /\ Len(stack') = Len(stack) + 1 /\ Len(stack) \in Nat /\ stack'[1] = x
        /\ \A i \in 1 .. Len(stack) : stack'[i + 1] = stack[i]
    BY <2>1, <2>3, ConcatProperties, LenProperties
  <2>5. \A i \in 1 .. Len(stack') : i = 1 \/ (i - 1 \in 1 .. Len(stack) /\ stack'[i] = stack[i - 1])
    BY <2>4
  <2>6. x.path = p /\ x.id = Walk!At(p).id
    BY <1>1
  <2>7. WaitsOnce'
    <3> SUFFICES ASSUME NEW i \in 1 .. Len(stack')
                 PROVE  /\ stack'[i].path \in Opened' /\ stack'[i].id = Walk!At(stack'[i].path).id
                        /\ \A q \in DOMAIN found \cup pending : Walk!Parent(q) # stack'[i].path
                        /\ \A j \in 1 .. Len(stack') : stack'[i].path = stack'[j].path => i = j
      BY <1>2, <1>3 DEF WaitsOnce
    <3>1. CASE i = 1
      <4>1. stack'[i].path = p /\ stack'[i].id = Walk!At(p).id
        BY <2>4, <2>6, <3>1
      <4>2. \A j \in 1 .. Len(stack') : stack'[j].path = p => j = 1
        BY <1>5, <2>5
      <4> QED
        BY <1>2, <1>4, <1>7, <3>1, <4>1, <4>2
    <3>2. CASE i # 1
      <4> PICK k : k = i - 1
        OBVIOUS
      <4>1. k \in 1 .. Len(stack) /\ stack'[i] = stack[k]
        BY <2>5, <3>2
      <4>2. \A j \in 1 .. Len(stack') : stack[k].path = stack'[j].path => i = j
        <5> SUFFICES ASSUME NEW j \in 1 .. Len(stack'), stack[k].path = stack'[j].path
                     PROVE  i = j
          OBVIOUS
        <5>1. j # 1
          BY <1>5, <2>4, <2>6, <4>1
        <5>2. j - 1 \in 1 .. Len(stack) /\ stack'[j] = stack[j - 1]
          BY <2>5, <5>1
        <5>3. k = j - 1
          BY <1>5, <4>1, <5>2
        <5> QED
          BY <3>2, <5>1, <5>3
      <4> QED
        BY <1>2, <1>5, <4>1, <4>2
    <3> QED
      BY <3>1, <3>2
  <2> QED
    BY <1>2, <1>3, <1>4, <2>7
<1> QED
  BY <1>6, <1>7

\* A name of a tree at rest is inspected: it is counted, or a limit of the job is exceeded.
LEMMA QuietInspect ==
    ASSUME Walk!TreeConstants, Walk!FiniteTrees, SeenInv, Quiet, Walk!Inspect
    PROVE  Quiet'
<1>1. Walk!Walking /\ Walked /\ pending \subseteq Whole /\ status = "running"
  BY DEF Walk!Inspect, Walk!Walking, Quiet, Judging, Walked
<1>2. \A p \in pending : ~Walk!Tolerates(tree[p])
  BY <1>1 DEF Whole, Walk!Present, Walk!Tolerates
<1>3. CASE Walk!Reject
  <2>1. \E p \in pending : ~Walk!Accepts(Walk!Doing, p, tree[p])
    BY <1>1, <1>2, <1>3 DEF Walk!Inspect, Walk!Reject
  <2>2. ~Legal
    BY <1>1, <2>1, WalkJudges
  <2> QED
    BY <1>3, <2>2, QuietReject
<1>4. CASE ~Walk!Reject
  <2>1. PICK p \in pending :
            /\ Walk!Accepts(Walk!Doing, p, tree[p])
            /\ pending' = pending \ {p} /\ stack' = Walk!Push(p, tree[p])
            /\ seen' = IF Walk!Doing \in {"list", "inventory"} THEN seen
                       ELSE Walk!Counted(seen, tree[p])
            /\ found' = Walk!With(found, p, tree[p])
            /\ UNCHANGED <<tree, job, selection, stage, current, todo, read, kept, result,
                           status, versions, disturbances>>
    BY <1>2, <1>4 DEF Walk!Inspect
  <2>2. Still /\ Walk!Doing' = Walk!Doing /\ Walk!Doing \in Walk!Walks
    BY <1>1, <2>1 DEF Still, Walk!Doing, Walk!Walking
  <2>3. p \in Whole /\ DOMAIN found' = DOMAIN found \cup {p}
    BY <1>1, <2>1, WithDomain
  <2>4. Shown(found')
    BY <1>1, <2>1, <2>3, OneMoreShown DEF Walked
  <2>5. WaitsOnce' /\ \A q \in DOMAIN found' \cup pending' : Walk!Parent(q) \in Opened'
    BY <1>1, <2>1, <2>2, <2>3, PushedOnce
  <2>6. /\ Proper(DOMAIN found')
        /\ Walk!Doing \in {"audit", "monitor", "enumerate"} =>
              /\ Tally(DOMAIN found') = seen'
              /\ Fits(DOMAIN found') /\ Alone(DOMAIN found')
    BY <1>1, <2>1, <2>3, WalkJudges
  <2>7. pending' \subseteq Whole /\ pending' \cap DOMAIN found' = {}
    BY <1>1, <2>1, <2>3 DEF Walked
  <2>8. Walked'
    BY <2>2, <2>4, <2>5, <2>6, <2>7, StillQuiet DEF Walked
  <2>9. Judging'
    <3>1. Walk!Doing \notin {"hash", "write", "copy"}
      BY <2>2 DEF Walk!Walks
    <3> QED
      BY <1>1, <2>1, <2>2, <2>8, <3>1, StillQuiet DEF Quiet, Judging, Still, Delivered
  <2> QED
    BY <2>2, <2>9, StillQuiet DEF Quiet
<1> QED
  BY <1>3, <1>4

\* The second readings of a tree at rest.
LEMMA QuietHash ==
    ASSUME Walk!TreeConstants, Walk!FiniteTrees, SeenInv, Quiet, Walk!Hash
    PROVE  Quiet'
<1> PICK p : p = Walk!Next1
  OBVIOUS
<1> PICK D : D = DOMAIN read
  OBVIOUS
<1>1. /\ status = "running" /\ Walk!Doing = "hash" /\ p \in todo
  BY DEF Walk!Hash, Walk!Reading, Walk!Next1
<1>2. Reread /\ tree \in Trees
  BY <1>1 DEF Quiet, AtRest, Judging
<1>3. /\ p \in Whole /\ p \notin D /\ D \subseteq Whole
      /\ Walk!Regular(p) /\ found[p] = tree[p]
      /\ seen = Tally(D) /\ Fits(D)
  BY <1>1, <1>2 DEF Reread, Proper, Shown
<1>4. /\ Tally(D \cup {p}) = Walk!Counted(seen, tree[p])
      /\ Fits(D \cup {p}) <=> Walk!WithinLimits(seen, tree[p])
  BY <1>2, <1>3, OneMore
<1>5. IF Walk!WithinLimits(seen, tree[p]) THEN Walk!Record(p, tree[p], Walk!Counted(seen, tree[p]))
      ELSE Walk!Reject
  BY <1>3 DEF Walk!Hash
<1>6. CASE Walk!WithinLimits(seen, tree[p])
  <2>1. /\ read' = Walk!With(read, p, tree[p]) /\ todo' = todo \ {p}
        /\ seen' = Walk!Counted(seen, tree[p]) /\ Still
        /\ UNCHANGED <<stage, pending, found, kept, result, status>>
    BY <1>5, <1>6 DEF Walk!Record, Still
  <2>2. DOMAIN read' = D \cup {p} /\ Shown(read')
    BY <1>2, <1>3, <2>1, WithDomain, OneMoreShown DEF Reread
  <2>3. Walk!Doing' = Walk!Doing
    BY <2>1 DEF Walk!Doing, Still
  <2>4. Reread'
    <3>1. todo' = Whole \ DOMAIN read'
      BY <1>2, <1>3, <2>1, <2>2 DEF Reread
    <3>2. seen' = Tally(DOMAIN read') /\ Fits(DOMAIN read')
      BY <1>4, <1>6, <2>1, <2>2
    <3> QED
      BY <1>1, <1>2, <2>1, <2>2, <2>3, <3>1, <3>2, StillQuiet DEF Reread
  <2>5. Judging'
    BY <1>1, <2>1, <2>3, <2>4, StillQuiet DEF Quiet, Judging, Still, Delivered, Walk!Walks
  <2> QED
    BY <2>1, <2>5, StillQuiet DEF Quiet
<1>7. CASE ~Walk!WithinLimits(seen, tree[p])
  <2>1. D \cup {p} \subseteq Whole
    BY <1>3
  <2>2. ~Legal
    BY <1>2, <1>4, <1>7, <2>1, PartFits DEF Legal, Sound
  <2> QED
    BY <1>5, <1>7, <2>2, QuietReject
<1> QED
  BY <1>6, <1>7

\* An entry that was enumerated can be written.
LEMMA QuietWrite ==
    ASSUME Walk!TreeConstants, Walk!FiniteTrees, SeenInv, Quiet, Walk!Write
    PROVE  Quiet'
<1> PICK p : p = Walk!Next1
  OBVIOUS
<1> PICK D : D = DOMAIN read
  OBVIOUS
<1>1. /\ status = "running" /\ Walk!Doing = "write" /\ p \in todo
  BY DEF Walk!Write, Walk!Reading, Walk!Next1
<1>2. Reread /\ tree \in Trees
  BY <1>1 DEF Quiet, AtRest, Judging
<1>3. /\ p \in Whole /\ p \notin D /\ D \subseteq Whole
      /\ found[p] = tree[p] /\ Walk!Regular(p)
      /\ tree[p].kind = "file" => tree[p].size <= MaxSingleFileBytes
  BY <1>1, <1>2 DEF Reread, Shown, Fits, FilesIn, Proper
<1>4. Walk!Record(p, tree[p], seen)
  BY <1>3 DEF Walk!Write
<1>5. /\ read' = Walk!With(read, p, tree[p]) /\ todo' = todo \ {p} /\ Still
      /\ UNCHANGED <<stage, pending, found, kept, result, status>>
  BY <1>4 DEF Walk!Record, Still
<1>6. DOMAIN read' = D \cup {p} /\ Shown(read')
  BY <1>2, <1>3, <1>5, WithDomain, OneMoreShown DEF Reread
<1>7. Walk!Doing' = Walk!Doing
  BY <1>5 DEF Walk!Doing, Still
<1>8. Reread'
  <2>1. todo' = Whole \ DOMAIN read'
    BY <1>2, <1>3, <1>5, <1>6 DEF Reread
  <2> QED
    BY <1>1, <1>2, <1>5, <1>6, <1>7, <2>1, StillQuiet DEF Reread
<1>9. Judging'
  BY <1>1, <1>5, <1>7, <1>8, StillQuiet DEF Quiet, Judging, Still, Delivered, Walk!Walks
<1> QED
  BY <1>5, <1>9, StillQuiet DEF Quiet

\* A selector of a tree at rest is refused only if it is not there.
LEMMA QuietCopy ==
    ASSUME Walk!TreeConstants, Walk!FiniteTrees, SeenInv, Quiet, Walk!Copy
    PROVE  Quiet'
<1> PICK p : p = Walk!Next1
  OBVIOUS
<1> DEFINE all == {q \in Walk!Under(p) : Walk!Exists(q)}
           sound == /\ Walk!Regular(p)
                    /\ tree[p].kind = "file" => tree[p].size <= MaxSingleFileBytes
                    /\ \A q \in all : Walk!Regular(q) /\ Walk!ValidBelow(Len(p), q)
<1>1. status = "running" /\ Walk!Doing = "copy" /\ p \in todo
  BY DEF Walk!Copy, Walk!Reading, Walk!Next1
<1>2. Copied /\ p \in selection /\ p \in TreePath
  BY <1>1 DEF Quiet, Judging, Copied, SeenInv, WalkTypes, Walk!TypeOK
<1>3. job = "select" /\ stage = 3
  BY <1>1, DoingWhat DEF Walk!Doing, SeenInv, WalkTypes, Walk!TypeOK
<1>4. Sound
  BY <1>1, <1>3 DEF Quiet, Judging
<1>5. all = Walk!Under(p) \cap Whole
  BY WholeIs DEF Walk!Under
<1>6. p \in Whole => sound
  <2> SUFFICES ASSUME p \in Whole PROVE sound
    OBVIOUS
  <2>1. \A q \in Whole : Walk!Regular(q) /\ Walk!ValidPath(q)
    BY <1>3, <1>4 DEF Sound, Proper
  <2>2. tree[p].kind = "file" => tree[p].size <= MaxSingleFileBytes
    BY <1>4 DEF Sound, Fits, FilesIn
  <2>3. ASSUME NEW q \in all PROVE Walk!ValidBelow(Len(p), q)
    <3>1. q \in Whole /\ q \in TreePath
      BY <1>5 DEF Walk!Under
    <3>2. Len(p) \in Nat
      BY <1>2, LenProperties DEF Walk!TreeConstants
    <3> QED
      BY <2>1, <3>1, <3>2, ValidFurtherDown
  <2> QED
    BY <1>5, <2>1, <2>2, <2>3
<1>7. CASE ~sound
  <2>1. Walk!Reject
    BY <1>7 DEF Walk!Copy
  <2>2. ~Legal
    BY <1>2, <1>6, <1>7 DEF Legal
  <2> QED
    BY <2>1, <2>2, QuietReject
<1>8. CASE sound
  <2>1. /\ result' = [q \in DOMAIN result \cup {p} \cup all |->
                         IF q \in DOMAIN result THEN result[q] ELSE tree[q]]
        /\ todo' = todo \ {p} /\ Still
        /\ UNCHANGED <<stage, pending, kept, status>>
    BY <1>8 DEF Walk!Copy, Still, Walk!walkVars
  <2>2. p \in Whole
    BY <1>2, <1>8 DEF Whole, Walk!Present, Walk!Regular
  <2> PICK S : S = selection \ todo
    OBVIOUS
  <2>3. selection \ todo' = S \cup {p}
    BY <1>1, <1>2, <2>1
  <2>4. Asked(S \cup {p}) = Asked(S) \cup {p} \cup all
    BY <1>5 DEF Asked
  <2>5. DOMAIN result = Asked(S) /\ \A q \in DOMAIN result : result[q] = tree[q]
    BY <1>2 DEF Copied
  <2> HIDE DEF all, sound
  <2>6. result' = [q \in Asked(S \cup {p}) |-> tree[q]]
    BY <2>1, <2>4, <2>5
  <2>7. Walk!Doing' = Walk!Doing
    BY <2>1 DEF Walk!Doing, Still
  <2>8. Copied'
    <3>1. /\ todo' \subseteq selection' /\ selection' \ todo' \subseteq Whole
          /\ result' = [q \in Asked(selection' \ todo') |-> tree'[q]]
      BY <1>2, <2>1, <2>2, <2>3, <2>6 DEF Copied, Still
    <3>2. Asked(selection \ todo)' = Asked(selection' \ todo')
      BY <2>1, StillQuiet DEF Asked, Still
    <3> QED
      BY <1>2, <2>1, <3>1, <3>2, StillQuiet DEF Copied
  <2>9. Judging'
    BY <1>1, <1>3, <2>1, <2>7, <2>8, StillQuiet DEF Quiet, Judging, Still, Walk!Walks
  <2> QED
    BY <2>1, <2>9, StillQuiet DEF Quiet
<1> QED
  BY <1>7, <1>8

\* A finished walk has found everything, and read it as it is.
LEMMA FoundAll ==
    ASSUME Walk!TreeConstants, SeenInv, Quiet, Walk!Walking, stack = <<>>, pending = {}
    PROVE  /\ DOMAIN found = Whole /\ found = There /\ Proper(Whole)
           /\ Walk!Doing \in {"audit", "monitor", "enumerate"} => Fits(Whole) /\ Alone(Whole)
<1>1. Walked /\ versions = {tree} /\ status = "running" /\ Walk!Doing \in Walk!Walks
  BY DEF Quiet, AtRest, Judging, Walk!Walking
<1>2. Len(stack) = 0
  BY LenProperties DEF SeenInv, WalkTypes
<1>3. \A p : ~Coming(p)
  BY <1>2 DEF Coming
<1>4. Staying = Whole
  BY <1>1 DEF Staying, Walk!Stable, Whole, Walk!Present
<1>5. Whole \subseteq DOMAIN found
  BY <1>1, <1>3, <1>4 DEF SeenInv, Progress, WalkSees
<1>6. DOMAIN found = Whole /\ found = There
  BY <1>1, <1>5 DEF Walked, Shown, There
<1> QED
  BY <1>1, <1>6 DEF Walked

\* What a reading starts with.
LEMMA WalkStarts ==
    ASSUME Walk!TreeConstants, Still, pending' = {}, found' = Walk!NoTree, seen' = Walk!Zero,
           stack' = <<[path |-> Walk!Root, id |-> "root"]>>
    PROVE  Walked'
<1>1. Shown(found') /\ DOMAIN found' = {}
  BY NothingShown
<1>2. Len(stack') = 1 /\ stack'[1].path = Walk!Root /\ stack'[1].id = "root"
  OBVIOUS
<1>3. Walk!At(Walk!Root)'.id = "root" /\ Walk!Root \in Opened'
  BY DEF Walk!At, Opened
<1>4. WaitsOnce'
  BY <1>1, <1>2, <1>3 DEF WaitsOnce
<1>5. seen' = Tally(DOMAIN found') /\ Fits(DOMAIN found') /\ Alone(DOMAIN found')
      /\ Proper(DOMAIN found')
  BY <1>1, NothingFits
<1> QED
  BY <1>1, <1>4, <1>5, StillQuiet DEF Walked

\* The second reading starts with all that the walk has found.
LEMMA RereadStarts ==
    ASSUME Walk!TreeConstants, Still, pending' = {}, read' = Walk!NoTree, seen' = Walk!Zero,
           UNCHANGED found, todo' = DOMAIN found,
           found = There, DOMAIN found = Whole, Proper(Whole),
           Walk!Doing' = "write" => Fits(Whole)
    PROVE  Reread'
<1>1. Shown(read') /\ DOMAIN read' = {}
  BY NothingShown
<1>2. Shown(found)
  BY DEF Shown, There
<1>3. seen' = Tally(DOMAIN read') /\ Fits(DOMAIN read')
  BY <1>1, NothingFits
<1> QED
  BY <1>1, <1>2, <1>3, StillQuiet DEF Reread

\* Nothing has been copied when the copying starts.
LEMMA CopyStarts ==
    ASSUME Still, pending' = {}, todo' = selection, result' = Walk!NoTree
    PROVE  Copied'
<1>1. selection' \ todo' = {}
  BY DEF Still
<1>2. Asked({}) = {}
  BY DEF Asked
<1>3. Walk!NoTree = [p \in {} |-> tree'[p]]
  BY DEF Walk!NoTree
<1>4. Asked(selection \ todo)' = {}
  <2>1. Asked(selection \ todo)' = Asked(selection' \ todo')
    BY StillQuiet DEF Asked, Still
  <2> QED
    BY <1>1, <1>2, <2>1
<1> QED
  BY <1>1, <1>3, <1>4 DEF Copied, Still

\* A reading of a tree at rest ends with the whole tree, and its fingerprints agree.
LEMMA QuietEndStage ==
    ASSUME Walk!TreeConstants, Walk!FiniteTrees, SeenInv, Quiet, Walk!EndStage
    PROVE  Quiet'
<1> DEFINE next == Walk!Stages[job][stage + 1]
           last == stage = Len(Walk!Stages[job])
<1>1. /\ status = "running" /\ todo = {} /\ job \in Walk!Jobs /\ stage \in 1 .. Len(Walk!Stages[job])
      /\ Walk!Doing = Walk!Stages[job][stage] /\ Judging /\ AtRest
  BY DEF Walk!EndStage, SeenInv, WalkTypes, Walk!TypeOK, Walk!Doing, Quiet
<1>2. Walk!Doing \in Walk!Walks =>
          /\ pending = {} /\ found = There /\ DOMAIN found = Whole /\ Proper(Whole)
          /\ Walk!Doing \in {"audit", "monitor", "enumerate"} => Fits(Whole) /\ Alone(Whole)
  BY FoundAll DEF Walk!EndStage, Walk!Walking
<1>3. Walk!Doing \in {"hash", "write"} =>
          pending = {} /\ read = There /\ Proper(Whole) /\ Fits(Whole)
  <2> SUFFICES ASSUME Walk!Doing \in {"hash", "write"}
               PROVE  pending = {} /\ read = There /\ Proper(Whole) /\ Fits(Whole)
    OBVIOUS
  <2>1. Reread
    BY <1>1 DEF Judging
  <2>2. DOMAIN read = Whole
    BY <1>1, <2>1 DEF Reread, Shown
  <2> QED
    BY <2>1, <2>2 DEF Reread, Shown, There
<1>4. Walk!Doing = "copy" =>
          pending = {} /\ selection \subseteq Whole /\ result = [p \in Asked(selection) |-> tree[p]]
  BY <1>1 DEF Judging, Copied
<1>5. job \in {"preview", "select"} /\ last => Walk!Same(kept, read)
  <2>1. job \in {"preview", "select"} /\ last => Walk!Doing = "hash" /\ stage > 2
    BY <1>1, StageNames
  <2> QED
    BY <1>1, <1>3, <2>1 DEF Walk!Same, Judging
<1>6. /\ Still /\ pending' = pending /\ read' = Walk!NoTree /\ seen' = Walk!Zero
      /\ kept' = IF stage = 2 /\ Walk!Doing = "hash" THEN Walk!Fingerprint(read) ELSE kept
      /\ result' = CASE Walk!Doing \in {"audit", "monitor", "inventory"} -> found
                     [] Walk!Doing = "write" -> read
                     [] OTHER -> result
      /\ found' = IF Walk!Doing = "list" \/ Walk!Doing = "enumerate" THEN found ELSE Walk!NoTree
  BY <1>5 DEF Walk!EndStage, Still
<1>7. last => status' = "accepted"
  BY <1>5 DEF Walk!EndStage
<1>8. ~last =>
          /\ stage' = stage + 1 /\ status' = "running"
          /\ stack' = IF next \in Walk!Walks THEN <<[path |-> Walk!Root, id |-> "root"]>> ELSE <<>>
          /\ todo' = CASE next \in {"hash", "write"} -> DOMAIN found
                       [] next = "copy" -> selection
                       [] OTHER -> {}
  BY <1>1 DEF Walk!EndStage
<1>9. ~last => Walk!Doing' = next
  BY <1>6, <1>8 DEF Walk!Doing, Still
<1>10. job # "audit" => Alone(Whole)
  BY DEF Alone
<1>11. job # "select" => selection = {}
  BY <1>1 DEF AtRest
<1> HIDE DEF next, last
<1>a. AtRest'
  BY <1>1, <1>6, StillQuiet
<1>12. CASE job \in {"audit", "monitor"}
  <2>1. last /\ Walk!Doing \in {"audit", "monitor"}
    BY <1>1, <1>12, StageNames DEF last
  <2>2. Delivered'
    <3>1. Legal /\ result' = There
      BY <1>2, <1>6, <1>11, <1>12, <2>1 DEF Legal, Sound, Walk!Walks
    <3> QED
      BY <1>6, <1>12, <3>1, StillQuiet DEF Delivered, Still
  <2> QED
    BY <1>7, <1>a, <2>1, <2>2 DEF Quiet, Judging
<1>13. CASE job = "serialise" /\ stage = 1
  <2>1. ~last /\ Walk!Doing = "enumerate" /\ next = "write"
    BY <1>1, <1>13, StageNames DEF last, next
  <2>2. Reread'
    BY <1>2, <1>6, <1>8, <2>1, RereadStarts DEF Walk!Walks
  <2> QED
    BY <1>6, <1>8, <1>9, <1>13, <1>a, <2>1, <2>2 DEF Quiet, Judging, Walk!Walks, Still
<1>14. CASE job = "serialise" /\ stage # 1
  <2>1. last /\ Walk!Doing = "write"
    BY <1>1, <1>14, StageNames DEF last
  <2>2. Delivered'
    <3>1. Legal /\ result' = There
      BY <1>3, <1>6, <1>10, <1>11, <1>14, <2>1 DEF Legal, Sound
    <3> QED
      BY <1>6, <1>14, <3>1, StillQuiet DEF Delivered, Still
  <2> QED
    BY <1>7, <1>a, <2>1, <2>2 DEF Quiet, Judging
<1>15. CASE job \in {"preview", "select"} /\ stage = 1
  <2>1. ~last /\ Walk!Doing = "list" /\ next = "hash"
    BY <1>1, <1>15, StageNames DEF last, next
  <2>2. Reread'
    BY <1>2, <1>6, <1>8, <1>9, <2>1, RereadStarts DEF Walk!Walks
  <2>3. result' = Walk!NoTree
    BY <1>1, <1>6, <1>15, <2>1 DEF Judging
  <2> QED
    BY <1>6, <1>8, <1>9, <1>15, <1>a, <2>1, <2>2, <2>3 DEF Quiet, Judging, Walk!Walks
<1>16. CASE job \in {"preview", "select"} /\ stage = 2
  <2>1. ~last /\ Walk!Doing = "hash" /\ next = IF job = "preview" THEN "inventory" ELSE "copy"
    BY <1>1, <1>16, StageNames DEF last, next
  <2>2. kept' = Walk!Fingerprint(There)' /\ Sound'
    BY <1>3, <1>6, <1>10, <1>16, <2>1, StillQuiet DEF Sound
  <2>3. result' = Walk!NoTree
    BY <1>1, <1>6, <1>16, <2>1 DEF Judging
  <2>4. next \in Walk!Walks => Walked'
    BY <1>3, <1>6, <1>8, <2>1, WalkStarts
  <2>5. next = "copy" => Copied'
    BY <1>3, <1>6, <1>8, <2>1, <2>3, CopyStarts
  <2> QED
    BY <1>8, <1>9, <1>16, <1>a, <2>1, <2>2, <2>3, <2>4, <2>5 DEF Quiet, Judging, Walk!Walks
<1>17. CASE job \in {"preview", "select"} /\ stage = 3
  <2>1. ~last /\ Walk!Doing = (IF job = "preview" THEN "inventory" ELSE "copy") /\ next = "list"
    BY <1>1, <1>17, StageNames DEF last, next
  <2>2. kept = Walk!Fingerprint(There) /\ Sound
    BY <1>1, <1>17 DEF Judging
  <2>3. Walked'
    BY <1>2, <1>4, <1>6, <1>8, <2>1, WalkStarts DEF Walk!Walks
  <2>4. Delivered'
    <3>1. Legal
      BY <1>4, <1>11, <1>17, <2>1, <2>2 DEF Legal
    <3>2. result' = IF job = "select" THEN [p \in Asked(selection) |-> tree[p]] ELSE There
      BY <1>2, <1>4, <1>6, <1>17, <2>1 DEF Walk!Walks
    <3> QED
      BY <1>6, <3>1, <3>2, StillQuiet DEF Delivered, Still
  <2>5. kept' = Walk!Fingerprint(There)' /\ Sound'
    BY <1>6, <1>17, <2>2, StillQuiet
  <2> QED
    BY <1>8, <1>9, <1>17, <1>a, <2>1, <2>3, <2>4, <2>5 DEF Quiet, Judging, Walk!Walks
<1>18. CASE job \in {"preview", "select"} /\ stage > 3
  <2>1. \/ ~last /\ Walk!Doing = "list" /\ next = "hash"
        \/ last /\ Walk!Doing = "hash"
    <3>1. /\ Len(Walk!Stages[job]) = 5
          /\ \/ stage = 4 /\ Walk!Doing = "list" /\ Walk!Stages[job][stage + 1] = "hash"
             \/ stage = 5 /\ Walk!Doing = "hash"
      BY <1>1, <1>18, StageNames
    <3> QED
      BY <3>1 DEF last, next
  <2>2. kept = Walk!Fingerprint(There) /\ Sound /\ Delivered /\ stage > 2
    BY <1>1, <1>18 DEF Judging
  <2>3. Delivered'
    <3>1. result' = result
      BY <1>6, <2>1
    <3> QED
      BY <1>6, <2>2, <3>1, StillQuiet DEF Delivered, Still
  <2>4. CASE last
    BY <1>7, <1>a, <2>3, <2>4 DEF Quiet, Judging
  <2>5. CASE ~last
    <3>1. Reread'
      BY <1>2, <1>6, <1>8, <1>9, <2>1, <2>5, RereadStarts DEF Walk!Walks
    <3>2. kept' = Walk!Fingerprint(There)' /\ Sound' /\ ~(stage' < 3)
      BY <1>1, <1>6, <1>8, <1>18, <2>2, <2>5, StillQuiet
    <3> QED
      BY <1>8, <1>9, <1>a, <2>1, <2>3, <2>5, <3>1, <3>2 DEF Quiet, Judging, Walk!Walks
  <2> QED
    BY <2>4, <2>5
<1>19. \/ job \in {"audit", "monitor"} \/ job = "serialise"
       \/ job \in {"preview", "select"} /\ (stage = 1 \/ stage = 2 \/ stage = 3 \/ stage > 3)
  BY <1>1, StageNames DEF Walk!Jobs
<1> QED
  BY <1>12, <1>13, <1>14, <1>15, <1>16, <1>17, <1>18, <1>19

\* Every step preserves the invariant; a change by another program ends the rest.
LEMMA QuietStep ==
    ASSUME Walk!TreeConstants, Walk!FiniteTrees, SeenInv, QuietInv, [Walk!Next]_Walk!vars
    PROVE  QuietInv'
<1>1. CASE Walk!Change
  BY <1>1 DEF Walk!Change, QuietInv
<1>2. CASE ~Walk!Change /\ Walk!Next
  <2>1. disturbances' = disturbances
    BY <1>2 DEF Walk!Next, Walk!OpenDirectory, Walk!Inspect, Walk!Hash, Walk!Write, Walk!Copy,
       Walk!EndStage, Walk!Reject, Walk!Record
  <2>2. Quiet => Quiet'
    BY <1>2, QuietOpen, QuietInspect, QuietHash, QuietWrite, QuietCopy, QuietEndStage
       DEF Walk!Next
  <2> QED
    BY <2>1, <2>2 DEF QuietInv
<1>3. CASE UNCHANGED Walk!vars
  <2>1. Still /\ UNCHANGED <<stage, stack, pending, seen, found, todo, read, kept, result,
                             status, disturbances>>
    BY <1>3 DEF Walk!vars, Walk!walkVars, Still
  <2>2. Walk!Doing' = Walk!Doing /\ Opened' = Opened /\ \A p : Walk!At(p)' = Walk!At(p)
    BY <2>1 DEF Walk!Doing, Opened, DirsIn, Still, Walk!At
  <2>3. WaitsOnce' <=> WaitsOnce
    BY <2>1, <2>2 DEF WaitsOnce
  <2>4. /\ Walked' <=> Walked
        /\ Reread' <=> Reread
    BY <2>1, <2>2, <2>3, StillQuiet DEF Walked, Reread
  <2>5. /\ Copied' <=> Copied
        /\ Delivered' <=> Delivered
    BY <2>1, StillQuiet DEF Copied, Delivered, Still
  <2>6. Quiet => Quiet'
    BY <2>1, <2>2, <2>4, <2>5, StillQuiet DEF Quiet, Judging, Still
  <2> QED
    BY <2>1, <2>6 DEF QuietInv
<1> QED
  BY <1>1, <1>2, <1>3

\* The verdict and the result are those of the whole tree.
LEMMA QuietIsEnough ==
    ASSUME Walk!FiniteTrees, SeenInv, QuietInv
    PROVE  Walk!QuietTreesAreJudgedExactly
<1> SUFFICES ASSUME status # "running", disturbances = 0
             PROVE  /\ (status = "accepted") <=> Walk!Acceptable(tree)
                    /\ status = "accepted" =>
                          result =
                            [p \in IF job = "select"
                                   THEN selection \cup
                                        UNION {Walk!Under(s) \cap Walk!Present(tree) : s \in selection}
                                   ELSE Walk!Present(tree) |-> tree[p]]
  BY DEF Walk!QuietTreesAreJudgedExactly
<1>1. AtRest /\ Judging
  BY DEF QuietInv, Quiet
<1>2. Walk!Acceptable(tree) <=> Legal
  BY <1>1, AcceptableIs DEF AtRest
<1>3. status = "accepted" \/ status = "rejected"
  BY DEF SeenInv, WalkTypes, Walk!TypeOK
<1>4. status = "accepted" => Delivered
  BY <1>1 DEF Judging
<1>5. status = "rejected" => ~Legal
  BY <1>1 DEF Judging
<1>6. (status = "accepted") <=> Walk!Acceptable(tree)
  BY <1>2, <1>3, <1>4, <1>5 DEF Delivered
<1>7. Delivered => result = [p \in
                 IF job = "select"
                 THEN selection \cup
                      UNION {Walk!Under(s) \cap Walk!Present(tree) : s \in selection}
                 ELSE Walk!Present(tree) |-> tree[p]]
  BY DEF Delivered, Asked, There, Whole
<1> QED
  BY <1>4, <1>6, <1>7

-----------------------------------------------------------------------------
\* A preview or a selection that at most one change disturbs.  What a fingerprint
\* compares of an entry; and f agrees with the tree of now in that.
Compared(e) == <<e.kind, e.size, e.data>>
Agrees(f) == DOMAIN f \subseteq Whole /\ \A p \in DOMAIN f : Compared(f[p]) = Compared(tree[p])

\* What the reading has so far agrees with the tree of now, and it will come to the rest.
WalkAgrees == Agrees(found) /\ \A p \in Whole : p \in DOMAIN found \/ Coming(p)
HashAgrees == Agrees(read) /\ Whole \subseteq DOMAIN read \cup todo
CopyAgrees ==
    /\ Agrees(result) /\ todo \subseteq selection
    /\ DOMAIN result = Asked(selection \ todo)
ReadingAgrees ==
    /\ Walk!Doing \in Walk!Walks => WalkAgrees
    /\ Walk!Doing = "hash" => HashAgrees
    /\ Walk!Doing = "copy" => CopyAgrees

\* The first fingerprint is that of now; the result is what it says of what was asked for.
AsKept == kept = Walk!Fingerprint(There)
AsAsked == Walk!Fingerprint(result) = [p \in {q \in DOMAIN kept : Walk!Wanted(q)} |-> kept[p]]

\* A change before the third reading is in all that follows.  One in it is in the second
\* fingerprint, so that what the reading mixes is of both trees, if they agree at all.
\* After it the result is there already.
Agreement ==
    /\ status = "running" =>
          /\ stage < 3 => result = Walk!NoTree /\ (disturbances = 0 => ReadingAgrees)
          /\ stage > 2 /\ disturbances = 0 => AsKept
          /\ stage = 3 /\ AsKept => ReadingAgrees
          /\ stage > 3 => AsAsked \/ (ReadingAgrees /\ (AsKept => AsAsked))
    /\ status = "accepted" => AsAsked
Disturbed == job \in {"preview", "select"} /\ disturbances <= 1
AgreeInv == disturbances \in Nat /\ (Disturbed => Agreement)

\* What a step that leaves the tree alone leaves as it is.
LEMMA StillAgrees ==
    ASSUME Still
    PROVE  /\ Whole' = Whole /\ There' = There
           /\ \A f : (Agrees(f)' <=> Agrees(f)) /\ Walk!Fingerprint(f)' = Walk!Fingerprint(f)
           /\ \A p : Walk!Wanted(p)' <=> Walk!Wanted(p)
<1>1. Whole' = Whole /\ There' = There /\ tree' = tree
  BY StillQuiet DEF Still
<1>2. \A f : Agrees(f)' <=> Agrees(f)
  BY <1>1 DEF Agrees, Compared
<1>3. \A f : Walk!Fingerprint(f)' = Walk!Fingerprint(f)
  BY StillQuiet
<1> QED
  BY <1>1, <1>2, <1>3, StillStays

\* One entry more, read as it is now.
LEMMA OneMoreAgrees ==
    ASSUME NEW f, Agrees(f), NEW p \in Whole
    PROVE  Agrees(Walk!With(f, p, tree[p]))
<1>1. /\ DOMAIN Walk!With(f, p, tree[p]) = DOMAIN f \cup {p}
      /\ \A q \in DOMAIN f \cup {p} :
            Walk!With(f, p, tree[p])[q] = IF q = p THEN tree[p] ELSE f[q]
  BY DEF Walk!With
<1> QED
  BY <1>1 DEF Agrees

\* What agrees and is complete has the fingerprint of now.
LEMMA SameFingerprint ==
    ASSUME NEW f, Agrees(f), DOMAIN f = Whole
    PROVE  Walk!Fingerprint(f) = Walk!Fingerprint(There)
<1>1. DOMAIN There = Whole /\ \A p \in Whole : There[p] = tree[p]
  BY DEF There
<1>2. \A p \in Whole : <<f[p].kind, f[p].size, f[p].data>>
                       = <<There[p].kind, There[p].size, There[p].data>>
  BY <1>1 DEF Agrees, Compared
<1> QED
  BY <1>1, <1>2 DEF Walk!Fingerprint

\* A part of the tree of now that agrees has the fingerprint of that part.
LEMMA PartFingerprint ==
    ASSUME AsKept, NEW f, Agrees(f), NEW S, DOMAIN f = S
    PROVE  Walk!Fingerprint(f) = [p \in S |-> kept[p]]
<1>1. /\ S \subseteq Whole /\ DOMAIN There = Whole
      /\ \A p \in Whole : There[p] = tree[p]
  BY DEF There, Agrees
<1>2. \A p \in Whole : kept[p] = <<tree[p].kind, tree[p].size, tree[p].data>>
  BY <1>1 DEF AsKept, Walk!Fingerprint
<1>3. \A p \in S : <<f[p].kind, f[p].size, f[p].data>> = kept[p]
  BY <1>1, <1>2 DEF Agrees, Compared
<1> QED
  BY <1>3 DEF Walk!Fingerprint

\* The steps of a reading.
LEMMA AgreeOpen ==
    ASSUME Walk!TreeConstants, SeenInv, Walk!OpenDirectory, ~Walk!Reject, WalkAgrees
    PROVE  WalkAgrees'
<1>1. Still /\ found' = found
  BY DEF Walk!OpenDirectory, Still
<1> SUFFICES ASSUME NEW p \in Whole PROVE p \in DOMAIN found \/ Coming(p)'
  BY <1>1, StillAgrees DEF WalkAgrees
<1> QED
  BY OpenKeepsComing DEF WalkAgrees, Whole

\* An entry is found as it is now.
LEMMA AgreeInspect ==
    ASSUME Walk!TreeConstants, SeenInv, Walk!Inspect, ~Walk!Reject, Walk!Doing # "monitor", WalkAgrees
    PROVE  WalkAgrees'
<1>1. PICK p \in pending :
          /\ pending' = pending \ {p} /\ Walk!Accepts(Walk!Doing, p, tree[p])
          /\ stack' = Walk!Push(p, tree[p]) /\ found' = Walk!With(found, p, tree[p])
  BY DEF Walk!Inspect, Walk!Tolerates
<1>2. Still /\ p \in TreePath /\ Walk!Doing \in {"audit", "enumerate", "list", "inventory"}
  BY DEF Walk!Inspect, Still, Walk!Walking, Walk!Walks, SeenInv, WalkTypes, Walk!TypeOK
<1>3. p \in Whole
  BY <1>1, <1>2 DEF Walk!Accepts, Walk!AuditAccepts, Walk!EnumerateAccepts, Walk!ListAccepts,
     Walk!InventoryAccepts,
     Walk!Regular, Whole, Walk!Present
<1>4. Agrees(found')
  BY <1>1, <1>3, OneMoreAgrees DEF WalkAgrees
<1> SUFFICES ASSUME NEW s \in Whole PROVE s \in DOMAIN found' \/ Coming(s)'
  BY <1>2, <1>4, StillAgrees DEF WalkAgrees
<1> QED
  BY <1>1, InspectKeepsComing DEF WalkAgrees, Whole

\* An entry is read again as it is now.
LEMMA AgreeHash ==
    ASSUME SeenInv, Walk!Hash, ~Walk!Reject, HashAgrees
    PROVE  HashAgrees'
<1> PICK q : q = Walk!Next1
  OBVIOUS
<1>1. /\ q \in todo /\ q \in TreePath /\ tree[q].kind \in {"file", "dir"}
      /\ read' = Walk!With(read, q, tree[q]) /\ todo' = todo \ {q} /\ Still
  BY DEF Walk!Hash, Walk!Regular, Walk!Reading, Walk!Record, Walk!Next1, Still, SeenInv,
     WalkTypes, Walk!TypeOK
<1>2. q \in Whole
  BY <1>1 DEF Whole, Walk!Present
<1>3. Agrees(read') /\ DOMAIN read' = DOMAIN read \cup {q}
  BY <1>1, <1>2, OneMoreAgrees, WithDomain DEF HashAgrees
<1> QED
  BY <1>1, <1>3, StillAgrees DEF HashAgrees

\* A selected entry is copied as it is now, with all that is below it.
LEMMA AgreeCopy ==
    ASSUME Walk!TreeConstants, SeenInv, Walk!Copy, ~Walk!Reject, CopyAgrees
    PROVE  CopyAgrees'
<1> PICK p : p = Walk!Next1
  OBVIOUS
<1> DEFINE all == {q \in Walk!Under(p) : Walk!Exists(q)}
<1>1. /\ p \in todo /\ p \in TreePath /\ tree[p].kind \in {"file", "dir"}
      /\ result' = [q \in DOMAIN result \cup {p} \cup all |->
                       IF q \in DOMAIN result THEN result[q] ELSE tree[q]]
      /\ todo' = todo \ {p} /\ Still
  BY DEF Walk!Copy, Walk!Regular, Walk!Reading, Walk!Next1, Still, Walk!walkVars, SeenInv,
     WalkTypes, Walk!TypeOK
<1>2. p \in Whole
  BY <1>1 DEF Whole, Walk!Present
<1>3. all = Walk!Under(p) \cap Whole
  BY WholeIs DEF Walk!Under
<1> PICK S : S = selection \ todo
  OBVIOUS
<1>4. selection \ todo' = S \cup {p}
  BY <1>1 DEF CopyAgrees
<1>5. Asked(S \cup {p}) = Asked(S) \cup {p} \cup all
  BY <1>3 DEF Asked
<1> HIDE DEF all
<1>6. DOMAIN result' = Asked(S \cup {p})
  BY <1>1, <1>5 DEF CopyAgrees
<1>7. Agrees(result')
  <2>1. all \subseteq Whole
    BY <1>3
  <2>2. \A q \in DOMAIN result' :
            /\ q \in DOMAIN result \/ q \in Whole
            /\ result'[q] = IF q \in DOMAIN result THEN result[q] ELSE tree[q]
    BY <1>1, <1>2, <2>1
  <2> QED
    BY <2>2 DEF Agrees, CopyAgrees
<1>8. Asked(selection \ todo)' = Asked(selection' \ todo')
  BY <1>1, StillQuiet DEF Asked, Still
<1> QED
  BY <1>1, <1>4, <1>6, <1>7, <1>8, StillAgrees DEF CopyAgrees, Still

\* A change that the fingerprint does not show leaves the same paths there, and what was
\* found of them.
LEMMA AgreeChange ==
    ASSUME SeenInv, Walk!Change, AsKept, AsKept', ReadingAgrees
    PROVE  ReadingAgrees'
<1>1. UNCHANGED <<job, selection, stage, stack, pending, found, todo, read, kept, result>>
  BY DEF Walk!Change, Walk!walkVars
<1>2. Walk!Fingerprint(There) = Walk!Fingerprint(There)'
  BY <1>1 DEF AsKept
<1>3. /\ DOMAIN Walk!Fingerprint(There) = Whole /\ DOMAIN Walk!Fingerprint(There)' = Whole'
      /\ \A p \in Whole : Walk!Fingerprint(There)[p] = Compared(tree[p])
      /\ \A p \in Whole' : Walk!Fingerprint(There)'[p] = Compared(tree[p])'
  BY DEF Walk!Fingerprint, There, Compared
<1>4. Whole' = Whole /\ \A p \in Whole : Compared(tree[p])' = Compared(tree[p])
  BY <1>2, <1>3
<1>5. \A f : Agrees(f) => Agrees(f)'
  BY <1>4 DEF Agrees, Compared
<1>6. Walk!Doing' = Walk!Doing /\ \A p : Coming(p)' <=> Coming(p)
  BY <1>1 DEF Walk!Doing, Coming
<1>7. Asked(selection \ todo)' = Asked(selection \ todo)
  BY <1>1, <1>4 DEF Asked
<1>8. /\ WalkAgrees => WalkAgrees'
      /\ HashAgrees => HashAgrees'
  BY <1>1, <1>4, <1>5, <1>6 DEF WalkAgrees, HashAgrees
<1>9. CopyAgrees => CopyAgrees'
  BY <1>1, <1>5, <1>7 DEF CopyAgrees
<1> QED
  BY <1>6, <1>8, <1>9 DEF ReadingAgrees

\* A walk that has ended has found all that is there.
LEMMA WalkedAll ==
    ASSUME SeenInv, WalkAgrees, stack = <<>>, pending = {}
    PROVE  Agrees(found) /\ DOMAIN found = Whole
<1>1. Len(stack) = 0
  BY LenProperties DEF SeenInv, WalkTypes
<1>2. \A p : ~Coming(p)
  BY <1>1 DEF Coming
<1> QED
  BY <1>2 DEF WalkAgrees, Agrees

\* What a reading starts with: nothing, and all to come.
LEMMA WalkAgreesAtFirst ==
    ASSUME found' = Walk!NoTree, stack' = <<[path |-> Walk!Root, id |-> "root"]>>
    PROVE  WalkAgrees'
<1>1. Len(stack') = 1 /\ stack'[1].path = Walk!Root /\ DOMAIN found' = {}
  BY NoTreeDomain
<1> QED
  BY <1>1 DEF WalkAgrees, Agrees, Coming

\* The second reading has all that the walk has found before it.
LEMMA HashAgreesAtFirst ==
    ASSUME Still, DOMAIN found = Whole, read' = Walk!NoTree, todo' = DOMAIN found
    PROVE  HashAgrees'
BY NoTreeDomain, StillAgrees DEF HashAgrees, Agrees

\* Nothing has been copied yet.
LEMMA CopyAgreesAtFirst ==
    ASSUME Still, result' = Walk!NoTree, todo' = selection
    PROVE  CopyAgrees'
<1>1. Asked(selection \ todo)' = Asked(selection' \ todo')
  BY StillQuiet DEF Asked, Still
<1>2. selection' \ todo' = {} /\ Asked({}) = {}
  BY DEF Still, Asked
<1> QED
  BY <1>1, <1>2, NoTreeDomain DEF CopyAgrees, Agrees, Still

\* What is asked for of the tree.
LEMMA AskedIsWanted ==
    ASSUME job = "select", selection \subseteq Whole
    PROVE  Asked(selection) = {q \in Whole : Walk!Wanted(q)}
BY DEF Asked, Walk!Wanted, Walk!Under, Whole, Walk!Present

\* A reading ends, and the next begins; the last compares the fingerprints.
LEMMA AgreeEndStage ==
    ASSUME Walk!TreeConstants, SeenInv, Walk!EndStage, ~Walk!Reject, job \in {"preview", "select"},
           disturbances \in Nat, Agreement
    PROVE  Agreement'
<1> DEFINE next == Walk!Stages[job][stage + 1]
           last == stage = Len(Walk!Stages[job])
<1>1. /\ status = "running" /\ todo = {} /\ job \in Walk!Jobs /\ stage \in 1 .. Len(Walk!Stages[job])
      /\ Walk!Doing = Walk!Stages[job][stage]
  BY DEF Walk!EndStage, SeenInv, WalkTypes, Walk!TypeOK, Walk!Doing
<1>2. /\ Still /\ read' = Walk!NoTree /\ disturbances' = disturbances
      /\ kept' = IF stage = 2 /\ Walk!Doing = "hash" THEN Walk!Fingerprint(read) ELSE kept
      /\ result' = CASE Walk!Doing \in {"audit", "monitor", "inventory"} -> found
                     [] Walk!Doing = "write" -> read
                     [] OTHER -> result
      /\ found' = IF Walk!Doing = "list" \/ Walk!Doing = "enumerate" THEN found ELSE Walk!NoTree
  BY DEF Walk!EndStage, Still
<1>3. last => status' = "accepted" /\ Walk!Same(kept, read)
  BY DEF Walk!EndStage
<1>4. ~last =>
          /\ stage' = stage + 1 /\ status' = "running"
          /\ stack' = IF next \in Walk!Walks THEN <<[path |-> Walk!Root, id |-> "root"]>> ELSE <<>>
          /\ todo' = CASE next \in {"hash", "write"} -> DOMAIN found
                       [] next = "copy" -> selection
                       [] OTHER -> {}
  BY <1>1 DEF Walk!EndStage
<1>5. ~last => Walk!Doing' = next
  BY <1>2, <1>4 DEF Walk!Doing, Still
<1>6. Walk!Doing \in Walk!Walks /\ WalkAgrees => Agrees(found) /\ DOMAIN found = Whole
  BY WalkedAll DEF Walk!EndStage
<1>7. HashAgrees => Walk!Fingerprint(read) = Walk!Fingerprint(There)
  BY <1>1, SameFingerprint DEF HashAgrees, Agrees
<1>8. \/ stage = 1 /\ ~last /\ Walk!Doing = "list" /\ next = "hash"
      \/ stage = 2 /\ ~last /\ Walk!Doing = "hash"
         /\ next = IF job = "preview" THEN "inventory" ELSE "copy"
      \/ stage = 3 /\ ~last /\ Walk!Doing = (IF job = "preview" THEN "inventory" ELSE "copy")
         /\ next = "list"
      \/ stage = 4 /\ ~last /\ Walk!Doing = "list" /\ next = "hash"
      \/ stage = 5 /\ last /\ Walk!Doing = "hash"
  BY <1>1, StageNames
<1> HIDE DEF next, last
<1>9. /\ AsKept' <=> kept' = Walk!Fingerprint(There)
      /\ AsAsked' <=> Walk!Fingerprint(result')
                      = [p \in {q \in DOMAIN kept' : Walk!Wanted(q)} |-> kept'[p]]
  BY <1>2, StillAgrees DEF AsKept, AsAsked, Walk!Fingerprint
<1>10. CASE stage = 1
  <2>1. ~last /\ Walk!Doing = "list" /\ next = "hash"
    BY <1>8, <1>10
  <2>2. disturbances = 0 => HashAgrees'
    BY <1>1, <1>2, <1>4, <1>6, <1>10, <2>1, HashAgreesAtFirst
       DEF Agreement, ReadingAgrees, Walk!Walks
  <2>3. result' = Walk!NoTree
    BY <1>1, <1>2, <1>10, <2>1 DEF Agreement
  <2> QED
    BY <1>2, <1>4, <1>5, <1>10, <2>1, <2>2, <2>3 DEF Agreement, ReadingAgrees, Walk!Walks
<1>11. CASE stage = 2
  <2>1. ~last /\ Walk!Doing = "hash" /\ next = IF job = "preview" THEN "inventory" ELSE "copy"
    BY <1>8, <1>11
  <2>2. result' = Walk!NoTree
    BY <1>1, <1>2, <1>11, <2>1 DEF Agreement
  <2>3. disturbances = 0 => AsKept'
    BY <1>1, <1>2, <1>7, <1>9, <1>11, <2>1 DEF Agreement, ReadingAgrees
  <2>4. next = "inventory" => WalkAgrees'
    BY <1>2, <1>4, <2>1, WalkAgreesAtFirst DEF Walk!Walks
  <2>5. next = "copy" => CopyAgrees'
    BY <1>2, <1>4, <2>1, <2>2, CopyAgreesAtFirst
  <2> QED
    BY <1>2, <1>4, <1>5, <1>11, <2>1, <2>3, <2>4, <2>5 DEF Agreement, ReadingAgrees, Walk!Walks
<1>12. CASE stage = 3
  <2>1. ~last /\ Walk!Doing = (IF job = "preview" THEN "inventory" ELSE "copy") /\ next = "list"
    BY <1>8, <1>12
  <2>2. WalkAgrees'
    BY <1>2, <1>4, <2>1, WalkAgreesAtFirst DEF Walk!Walks
  <2>3. kept' = kept
    BY <1>2, <1>12
  <2>4. AsKept => AsAsked'
    <3> SUFFICES ASSUME AsKept PROVE AsAsked'
      OBVIOUS
    <3>1. DOMAIN kept = Whole
      BY DEF AsKept, Walk!Fingerprint, There
    <3>2. Agrees(result') /\ DOMAIN result' = {q \in Whole : Walk!Wanted(q)}
      <4>1. CASE job = "preview"
        <5>1. result' = found /\ \A q : Walk!Wanted(q)
          BY <1>2, <2>1, <4>1 DEF Walk!Wanted
        <5>2. Agrees(found) /\ DOMAIN found = Whole
          BY <1>1, <1>6, <1>12, <2>1, <4>1 DEF Agreement, ReadingAgrees, Walk!Walks
        <5> QED
          BY <5>1, <5>2
      <4>2. CASE job = "select"
        <5>1. result' = result /\ CopyAgrees
          BY <1>1, <1>2, <1>12, <2>1, <4>2 DEF Agreement, ReadingAgrees
        <5>2. DOMAIN result = Asked(selection) /\ Agrees(result)
          BY <1>1, <5>1 DEF CopyAgrees
        <5>3. selection \subseteq Whole
          BY <5>2 DEF Asked, Agrees
        <5> QED
          BY <4>2, <5>1, <5>2, <5>3, AskedIsWanted
      <4> QED
        BY <4>1, <4>2
    <3>3. Walk!Fingerprint(result') = [p \in {q \in Whole : Walk!Wanted(q)} |-> kept[p]]
      BY <3>2, PartFingerprint
    <3> QED
      BY <1>9, <2>3, <3>1, <3>3
  <2>5. AsKept' <=> AsKept
    BY <1>9, <2>3 DEF AsKept
  <2>6. disturbances = 0 => AsKept
    BY <1>1, <1>12 DEF Agreement
  <2> QED
    BY <1>2, <1>4, <1>5, <1>12, <2>1, <2>2, <2>4, <2>5, <2>6 DEF Agreement, ReadingAgrees,
       Walk!Walks
<1>13. CASE stage > 3
  <2>1. kept' = kept /\ result' = result /\ Walk!Doing \in {"list", "hash"}
    BY <1>2, <1>8, <1>13
  <2>2. (AsKept' <=> AsKept) /\ (AsAsked' <=> AsAsked)
    BY <1>9, <2>1 DEF AsKept, AsAsked
  <2>3. AsAsked \/ (ReadingAgrees /\ (AsKept => AsAsked))
    BY <1>1, <1>13 DEF Agreement
  <2>4. disturbances = 0 => AsKept
    BY <1>1, <1>13 DEF Agreement
  <2>5. CASE last
    <3>1. Walk!Doing = "hash"
      BY <1>8, <1>13, <2>5
    <3>2. ReadingAgrees => AsKept
      BY <1>3, <1>7, <2>5, <3>1 DEF ReadingAgrees, Walk!Same, AsKept
    <3> QED
      BY <1>3, <2>2, <2>3, <2>5, <3>2 DEF Agreement
  <2>6. CASE ~last
    <3>1. Walk!Doing = "list" /\ next = "hash"
      BY <1>8, <1>13, <2>6
    <3>2. ReadingAgrees => HashAgrees'
      BY <1>2, <1>4, <1>6, <2>6, <3>1, HashAgreesAtFirst DEF ReadingAgrees, Walk!Walks
    <3>3. ReadingAgrees => ReadingAgrees'
      BY <1>5, <2>6, <3>1, <3>2 DEF ReadingAgrees, Walk!Walks
    <3> QED
      BY <1>1, <1>2, <1>4, <1>13, <2>2, <2>3, <2>4, <2>6, <3>3 DEF Agreement
  <2> QED
    BY <2>5, <2>6
<1> QED
  BY <1>1, <1>10, <1>11, <1>12, <1>13

\* The invariant holds initially.
LEMMA AgreeInit == ASSUME Walk!TreeConstants, Walk!Init PROVE AgreeInv
<1>1. /\ Walk!Doing \in Walk!Walks /\ stage = 1 /\ status = "running" /\ disturbances = 0
      /\ result = Walk!NoTree /\ found = Walk!NoTree /\ Len(stack) = 1 /\ stack[1].path = Walk!Root
  BY StageTable DEF Walk!Init, Walk!Doing
<1>2. WalkAgrees
  BY <1>1, NoTreeDomain DEF WalkAgrees, Agrees, Coming
<1> QED
  BY <1>1, <1>2 DEF AgreeInv, Agreement, ReadingAgrees, Walk!Walks

\* The steps in a reading.
LEMMA AgreeReading ==
    ASSUME Walk!TreeConstants, SeenInv, job \in {"preview", "select"}, ~Walk!Reject,
           Walk!OpenDirectory \/ Walk!Inspect \/ Walk!Hash \/ Walk!Write \/ Walk!Copy, Agreement
    PROVE  Agreement' /\ disturbances' = disturbances
<1>1. Walk!Doing # "monitor" /\ Walk!Doing # "write" /\ (Walk!Doing = "copy" => stage = 3)
  BY DoingWhat DEF Walk!Doing, SeenInv, WalkTypes, Walk!TypeOK
<1>2. /\ Still /\ UNCHANGED <<stage, kept, status, disturbances>> /\ status = "running"
  BY DEF Walk!OpenDirectory, Walk!Inspect, Walk!Hash, Walk!Write, Walk!Copy, Walk!Record,
     Walk!Reading, Walk!Walking, Walk!walkVars, Still
<1>3. Walk!Doing' = Walk!Doing
  BY <1>2 DEF Walk!Doing, Still
<1>4. Walk!Doing = "copy" \/ result' = result
  BY DEF Walk!OpenDirectory, Walk!Inspect, Walk!Hash, Walk!Write, Walk!Copy, Walk!Record,
     Walk!Reading
<1>5. ReadingAgrees => ReadingAgrees'
  <2> SUFFICES ASSUME ReadingAgrees PROVE ReadingAgrees'
    OBVIOUS
  <2>1. CASE Walk!OpenDirectory
    BY <1>3, <2>1, AgreeOpen DEF Walk!OpenDirectory, Walk!Walking, ReadingAgrees, Walk!Walks
  <2>2. CASE Walk!Inspect
    BY <1>1, <1>3, <2>2, AgreeInspect DEF Walk!Inspect, Walk!Walking, ReadingAgrees, Walk!Walks
  <2>3. CASE Walk!Hash
    BY <1>3, <2>3, AgreeHash DEF Walk!Hash, Walk!Reading, ReadingAgrees, Walk!Walks
  <2>4. CASE Walk!Copy
    BY <1>3, <2>4, AgreeCopy DEF Walk!Copy, Walk!Reading, ReadingAgrees, Walk!Walks
  <2>5. CASE Walk!Write
    BY <1>1, <2>5 DEF Walk!Write, Walk!Reading
  <2> QED
    BY <2>1, <2>2, <2>3, <2>4, <2>5
<1>6. (AsKept' <=> AsKept) /\ (result' = result => (AsAsked' <=> AsAsked))
  BY <1>2, StillAgrees DEF AsKept, AsAsked, Walk!Fingerprint
<1>7. stage < 3 => result' = result
  BY <1>1, <1>4
<1>8. stage > 3 => result' = result
  BY <1>1, <1>4
<1> QED
  BY <1>2, <1>5, <1>6, <1>7, <1>8 DEF Agreement

\* Every step preserves the invariant.
LEMMA AgreeStep ==
    ASSUME Walk!TreeConstants, SeenInv, AgreeInv, [Walk!Next]_Walk!vars
    PROVE  AgreeInv'
<1>1. CASE Walk!Reject
  BY <1>1 DEF Walk!Reject, AgreeInv, Disturbed, Agreement
<1>2. CASE Walk!Next /\ ~Walk!Reject /\ ~Walk!EndStage /\ ~Walk!Change
  <2>1. disturbances' = disturbances /\ job' = job
    BY <1>2 DEF Walk!Next, Walk!OpenDirectory, Walk!Inspect, Walk!Hash, Walk!Write, Walk!Copy,
       Walk!Record, Walk!Reject
  <2>2. Disturbed /\ Agreement => Agreement'
    BY <1>2, AgreeReading DEF Walk!Next, Disturbed
  <2> QED
    BY <2>1, <2>2 DEF AgreeInv, Disturbed
<1>3. CASE Walk!EndStage /\ ~Walk!Reject
  <2>1. disturbances' = disturbances /\ job' = job
    BY <1>3 DEF Walk!EndStage
  <2>2. Disturbed /\ Agreement => Agreement'
    BY <1>3, AgreeEndStage DEF Disturbed, AgreeInv
  <2> QED
    BY <2>1, <2>2 DEF AgreeInv, Disturbed
<1>4. CASE Walk!Change
  <2>1. /\ UNCHANGED <<job, selection, stage, kept, result, status>> /\ status = "running"
        /\ disturbances' = disturbances + 1 /\ disturbances \in Nat
    BY <1>4 DEF Walk!Change, AgreeInv
  <2> SUFFICES ASSUME Disturbed' PROVE Agreement'
    BY <2>1 DEF AgreeInv
  <2>2. disturbances = 0 /\ Agreement /\ disturbances' # 0
    BY <2>1 DEF Disturbed, AgreeInv
  <2>3. stage > 2 => AsKept
    BY <2>1, <2>2 DEF Agreement
  <2>4. AsAsked' <=> AsAsked
    BY <2>1 DEF AsAsked, Walk!Fingerprint, Walk!Wanted
  <2>5. stage < 3 => result' = Walk!NoTree
    BY <2>1, <2>2 DEF Agreement
  <2>6. stage = 3 /\ AsKept' => ReadingAgrees'
    BY <1>4, <2>1, <2>2, <2>3, AgreeChange DEF Agreement
  <2>7. stage > 3 => AsAsked'
    <3>1. stage > 3 => stage > 2
      BY DoingWhat DEF SeenInv, WalkTypes, Walk!TypeOK
    <3> QED
      BY <2>1, <2>2, <2>3, <2>4, <3>1 DEF Agreement
  <2> QED
    BY <2>1, <2>2, <2>5, <2>6, <2>7 DEF Agreement
<1>5. CASE UNCHANGED Walk!vars
  <2>1. Still /\ UNCHANGED <<stage, stack, pending, found, todo, read, kept, result, status,
                             disturbances>>
    BY <1>5 DEF Walk!vars, Walk!walkVars, Still
  <2>2. Walk!Doing' = Walk!Doing /\ \A p : Coming(p)' <=> Coming(p)
    BY <2>1 DEF Walk!Doing, Coming, Still
  <2>3. Asked(selection \ todo)' = Asked(selection \ todo)
    BY <2>1, StillQuiet DEF Asked, Still
  <2>4. /\ WalkAgrees' <=> WalkAgrees
        /\ HashAgrees' <=> HashAgrees
        /\ CopyAgrees' <=> CopyAgrees
    BY <2>1, <2>2, <2>3, StillAgrees DEF WalkAgrees, HashAgrees, CopyAgrees, Still
  <2>5. (AsKept' <=> AsKept) /\ (AsAsked' <=> AsAsked)
    BY <2>1, StillAgrees DEF AsKept, AsAsked, Walk!Fingerprint
  <2>6. ReadingAgrees' <=> ReadingAgrees
    BY <2>2, <2>4 DEF ReadingAgrees
  <2> QED
    BY <2>1, <2>5, <2>6 DEF AgreeInv, Disturbed, Agreement, Still
<1> QED
  BY <1>1, <1>2, <1>3, <1>4, <1>5

\* What is accepted is what was asked for.
LEMMA AgreeIsEnough == ASSUME AgreeInv PROVE Walk!DeliveredIsFingerprinted
BY DEF AgreeInv, Disturbed, Agreement, AsAsked, Walk!DeliveredIsFingerprinted

-----------------------------------------------------------------------------
Phases == {"check", "candidates", "load", "open", "header", "skip", "directories", "create",
           "data", "stream", "final", "ended", "failing", "exited", "failed", "done"}
Counters == {"files", "directories", "member", "total", "entries", "listed"}
Entries == [kind : {"file", "dir"}, bytes : Nat, by : {"child", "other"}]
Stranger == [kind |-> "file", bytes |-> 0, by |-> "other"]

\* The second child has not created the stream's output yet.
Early == {"check", "candidates", "load", "open", "stream", "create"}

ReaderTypes ==
    /\ R!TypeOK
    /\ archive \in Archives /\ candidates \in Candidates
    /\ step \in Phases
    /\ position \in Nat
    /\ chunks \in Seq(Nat)
    /\ DOMAIN counted = Counters
    /\ counted.files \in Nat /\ counted.directories \in Nat
    /\ counted.member \in Nat /\ counted.total \in Nat
    /\ output \in [DOMAIN output -> Entries]

\* The phases of the one kind of archive and of the other.
Course ==
    /\ R!Raw => step \notin {"header", "skip", "directories"}
    /\ ~R!Raw => step \notin {"stream", "final"}
    /\ step = "directories" => pass = "extract" /\ R!Member.kind \in {"file", "dir"}
    /\ step = "create" => pass = "extract" /\ (~R!Raw => R!Member.kind = "file")
    /\ ~R!Raw /\ pass = "list" => step # "data"

\* Where the entries of the output are from.
Origins ==
    /\ pass = "list" => DOMAIN output = {}
    /\ \A p \in strays : p \in DOMAIN output /\ output[p] = Stranger
    /\ R!Raw => /\ R!Ours \subseteq {target}
                /\ R!OurFiles = R!Ours
                /\ step \in Early \/ (step = "failed" /\ ~stuck) => R!Ours = {}

\* What was counted of them.
Account ==
    /\ IsFiniteSet(R!Ours)
    /\ Cardinality(R!Ours \ R!OurFiles) = counted.directories
    /\ counted.directories <= MaxDirectories + 1
    /\ step \notin {"failing", "failed"} => counted.directories <= MaxDirectories
    /\ counted.files <= MaxFiles
    /\ ~R!Raw => Cardinality(R!OurFiles)
                 + (IF step \in {"directories", "create"} /\ R!Member.kind = "file" THEN 1 ELSE 0)
                 <= counted.files

\* The file that is written has the bytes that were counted, the others no more than
\* they may.
Volumes ==
    /\ \A p \in R!OurFiles : output[p].bytes <= MaxSingleFileBytes
    /\ R!Raw /\ step \in Early => counted.total = 0
    /\ step \in {"directories", "create"} /\ ~R!Raw => counted.member = 0
    /\ step = "data" /\ pass = "extract" =>
          /\ target \in R!OurFiles
          /\ output[target].bytes = IF R!Raw THEN counted.total ELSE counted.member

-----------------------------------------------------------------------------
\* The least of a set of numbers.
LEMMA MinIsElement ==
    ASSUME NEW S, S \subseteq Nat, S # {}
    PROVE  R!Min(S) \in S
BY Smallest DEF R!Min

\* All the bytes that are there were counted together.
BytesOf == [p \in R!OurFiles |-> output[p].bytes]
Budget ==
    ~R!Raw => counted.total <= MaxTotalBytes /\ Total(BytesOf, R!OurFiles) = counted.total

ReaderInv == ReaderTypes /\ Course /\ Origins /\ Account /\ Volumes /\ Budget

\* The limits are numbers.
LEMMA Limits ==
    ASSUME R!ReaderConstants
    PROVE  /\ MaxFiles \in Nat \ {0} /\ MaxDirectories \in Nat \ {0}
           /\ MaxTotalBytes \in Nat \ {0} /\ MaxSingleFileBytes \in Nat \ {0}
BY DEF R!ReaderConstants

\* The counters of a new pass.
LEMMA ZeroIs ==
    /\ DOMAIN R!Zero = Counters
    /\ R!Zero.files = 0 /\ R!Zero.directories = 0 /\ R!Zero.member = 0 /\ R!Zero.total = 0
BY DEF R!Zero, Counters

\* What the child creates.
LEMMA NewIs ==
    ASSUME NEW kind \in {"file", "dir"}
    PROVE  /\ R!New(kind) \in Entries /\ R!New(kind).by = "child" /\ R!New(kind).kind = kind
           /\ R!New(kind).bytes = 0 /\ R!New(kind) # Stranger
BY DEF R!New, Entries, Stranger

\* What is in the output after something was put there.
LEMMA PutIs ==
    ASSUME NEW p, NEW e
    PROVE  /\ DOMAIN R!Put(p, e) = DOMAIN output \cup {p}
           /\ R!Put(p, e)[p] = e
           /\ \A q \in DOMAIN output : q # p => R!Put(p, e)[q] = output[q]
BY DEF R!Put

\* An entry put into the output leaves entries there.
LEMMA PutTyped ==
    ASSUME ReaderTypes, NEW p, NEW e \in Entries, NEW f, f = R!Put(p, e)
    PROVE  f \in [DOMAIN f -> Entries]
<1>1. f = [q \in DOMAIN output \cup {p} |-> IF q = p THEN e ELSE output[q]]
  BY DEF R!Put
<1>2. \A q \in DOMAIN output : output[q] \in Entries
  BY DEF ReaderTypes
<1> QED
  BY <1>1, <1>2

\* The types of the initial states.
LEMMA ReaderTypeInit == ASSUME R!ReaderConstants, R!Init PROVE ReaderTypes
<1>1. archive \in Archives /\ candidates \in Candidates /\ Len(candidates) \in Nat
  BY LenProperties DEF R!Init, R!ReaderConstants
<1>2. counted = R!Zero /\ DOMAIN output = {} /\ output \in [DOMAIN output -> Entries]
  BY DEF R!Init
<1>3. chunks \in Seq(Nat)
  BY EmptySeq DEF R!Init
<1> QED
  BY <1>1, <1>2, <1>3, ZeroIs DEF R!Init, ReaderTypes, R!TypeOK, Phases

\* The steps that leave the output, the counters and the files of the archive alone.
CalmAction ==
    \/ R!CallFails \/ R!Check \/ R!ReadCandidates \/ R!Load \/ R!Open \/ R!LastHeader
    \/ R!Skip \/ R!ChainComplete \/ R!DataComplete \/ R!RawFinal \/ R!Close
    \/ R!ChoosePayload
Calm == CalmAction /\ UNCHANGED <<archive, candidates, pass, position, aliases, chain, chunks,
                                  target, counted, output, strays>>

\* The steps that neither count nor write anything.
LEMMA CalmSteps == ASSUME CalmAction PROVE Calm
BY DEF Calm, CalmAction, R!CallFails, R!Check, R!ReadCandidates, R!Load, R!Open, R!LastHeader,
   R!Skip,
       R!ChainComplete, R!DataComplete, R!RawFinal, R!Close, R!ChoosePayload, R!parentVars, R!readVars

\* Where such a step starts, and where it leads.
LEMMA CalmPhases ==
    ASSUME ReaderTypes, Course, CalmAction
    PROVE  /\ step' \in Phases \ {"data", "failed"} /\ step \notin {"failing", "failed"}
           /\ R!Raw /\ step' \in Early => step \in Early
           /\ step' \in {"directories", "create"} => step \in {"directories", "create"}
BY DEF CalmAction, R!CallFails, R!Check, R!ReadCandidates, R!Load, R!Open, R!LastHeader, R!Skip,
       R!ChainComplete, R!DataComplete, R!RawFinal, R!Close, R!ChoosePayload, R!Fail, Phases, Early,
       Course, ReaderTypes

\* They preserve the types.
LEMMA CalmTypes == ASSUME R!ReaderConstants, ReaderTypes, Course, Calm PROVE ReaderTypes'
<1>1. UNCHANGED <<archive, candidates, counted, output, chunks, pass, position, aliases, chain>>
  BY DEF Calm
<1>2. step' \in Phases
  BY CalmPhases DEF Calm
<1>3. library' \in 0 .. Len(candidates)
  <2>0. Len(candidates) \in Nat
    BY LenProperties DEF ReaderTypes, R!ReaderConstants
  <2>1. CASE R!Load
    <3> DEFINE complete == {i \in 1 .. Len(candidates) : candidates[i] = "complete"}
    <3>1. library' = library \/ (complete # {} /\ library' = R!Min(complete))
      BY <2>1 DEF R!Load
    <3>2. complete # {} => R!Min(complete) \in complete
      <4>1. complete \subseteq Nat
        BY <2>0
      <4> HIDE DEF complete
      <4> QED
        BY <4>1, MinIsElement
    <3> QED
      BY <2>0, <3>1, <3>2 DEF ReaderTypes, R!TypeOK
  <2>2. CASE ~R!Load
    <3>1. library' \in {library, 0}
      BY <2>2 DEF Calm, CalmAction, R!CallFails, R!Check, R!ReadCandidates, R!Open,
         R!LastHeader, R!Skip, R!ChainComplete,
         R!DataComplete, R!RawFinal, R!Close, R!ChoosePayload, R!readVars
    <3> QED
      BY <2>0, <3>1 DEF ReaderTypes, R!TypeOK
  <2> QED
    BY <2>1, <2>2
<1> QED
  BY <1>1, <1>2, <1>3 DEF ReaderTypes, R!TypeOK, R!Raw

\* A new entry, which the child creates.
LEMMA Created1 ==
    ASSUME ReaderTypes, NEW p, p \notin DOMAIN output, NEW kind \in {"file", "dir"},
           output' = R!Put(p, R!New(kind))
    PROVE  /\ R!Ours' = R!Ours \cup {p} /\ p \notin R!Ours
           /\ R!OurFiles' = (IF kind = "file" THEN R!OurFiles \cup {p} ELSE R!OurFiles)
           /\ DOMAIN output' = DOMAIN output \cup {p}
           /\ output' \in [DOMAIN output' -> Entries]
           /\ \A q \in DOMAIN output : output'[q] = output[q]
           /\ output'[p] = R!New(kind)
<1>0. output' \in [DOMAIN output' -> Entries]
  BY PutTyped, NewIs
<1>1. /\ DOMAIN output' = DOMAIN output \cup {p} /\ output'[p] = R!New(kind)
      /\ \A q \in DOMAIN output : output'[q] = output[q]
  BY DEF R!Put
<1>2. R!New(kind).by = "child" /\ R!New(kind).kind = kind
  BY NewIs
<1>3. R!Ours' = R!Ours \cup {p} /\ p \notin R!Ours
  BY <1>1, <1>2 DEF R!Ours
<1>4. \A q : q \in R!OurFiles' <=> q \in R!Ours' /\ output'[q].kind = "file"
  BY DEF R!OurFiles
<1>5. \A q : q \in R!OurFiles <=> q \in R!Ours /\ output[q].kind = "file"
  BY DEF R!OurFiles
<1>6. \A q \in R!Ours : output'[q] = output[q]
  BY <1>1 DEF R!Ours
<1>7. R!OurFiles' = (IF kind = "file" THEN R!OurFiles \cup {p} ELSE R!OurFiles)
  <2>1. CASE kind = "file"
    BY <1>1, <1>2, <1>3, <1>4, <1>5, <1>6, <2>1
  <2>2. CASE kind = "dir"
    <3>1. \A q : q \in R!OurFiles' <=> q \in R!OurFiles
      BY <1>1, <1>2, <1>3, <1>4, <1>5, <1>6, <2>2
    <3>2. R!OurFiles' = R!OurFiles
      <4> PICK a, b : a = R!OurFiles' /\ b = R!OurFiles
        OBVIOUS
      <4>1. \A q : q \in a <=> q \in b
        BY <3>1
      <4>2. a = b
        BY <4>1
      <4> QED
        BY <4>2
    <3> QED
      BY <2>2, <3>2
  <2> QED
    BY <2>1, <2>2
<1> QED
  BY <1>0, <1>1, <1>3, <1>7

\* A file that the child writes more bytes to.
LEMMA Written ==
    ASSUME ReaderTypes, NEW n \in Nat, target \in R!OurFiles,
           output' = [output EXCEPT ![target].bytes = @ + n], target' = target
    PROVE  /\ R!Ours' = R!Ours /\ R!OurFiles' = R!OurFiles
           /\ DOMAIN output' = DOMAIN output
           /\ output' \in [DOMAIN output' -> Entries]
           /\ \A q \in DOMAIN output : q # target => output'[q] = output[q]
           /\ output'[target].bytes = output[target].bytes + n
<1>1. target \in DOMAIN output /\ output[target] \in Entries
  BY DEF R!OurFiles, R!Ours, ReaderTypes
<1>2. output' = [output EXCEPT ![target] = [output[target] EXCEPT !.bytes = @ + n]]
  BY <1>1
<1> DEFINE e == [output[target] EXCEPT !.bytes = @ + n]
<1>3. /\ e \in Entries /\ e.kind = output[target].kind /\ e.by = output[target].by
      /\ e.bytes = output[target].bytes + n
  BY <1>1 DEF Entries
<1>4. output' = [output EXCEPT ![target] = e]
  BY <1>2
<1> HIDE DEF e
<1>5. /\ DOMAIN output' = DOMAIN output /\ output'[target] = e
      /\ \A q \in DOMAIN output : q # target => output'[q] = output[q]
      /\ output' \in [DOMAIN output' -> Entries]
  BY <1>1, <1>3, <1>4 DEF ReaderTypes
<1>6. R!Ours' = R!Ours
  BY <1>3, <1>5 DEF R!Ours
<1>7. R!OurFiles' = R!OurFiles
  <2>1. \A q \in R!Ours : output'[q].kind = output[q].kind
    BY <1>3, <1>5 DEF R!Ours
  <2> QED
    BY <1>6, <2>1 DEF R!OurFiles
<1> QED
  BY <1>3, <1>5, <1>6, <1>7

\* Every step of the child, the parent and the other program preserves the types.
LEMMA ReaderTypeStep ==
    ASSUME R!ReaderConstants, ReaderTypes, Course, Origins, Volumes, [R!Next]_R!vars
    PROVE  ReaderTypes'
<1>1. CASE CalmAction
  BY <1>1, CalmSteps, CalmTypes
<1>2. CASE R!ListMember
  <2>1. /\ UNCHANGED <<archive, candidates, library, aliases, chain, chunks, output, pass>>
        /\ step' \in {"skip", "failing"} /\ position' = position + 1
        /\ ~R!Raw
    BY <1>2 DEF R!ListMember, R!MoreMembers, R!Fail, R!parentVars, Course
  <2>2. /\ DOMAIN counted' = Counters
        /\ counted'.files = counted.files /\ counted'.directories = counted.directories
        /\ counted'.member = counted.member /\ counted'.total = counted.total
    BY <1>2 DEF R!ListMember, ReaderTypes, Counters
  <2> QED
    BY <2>1, <2>2 DEF ReaderTypes, R!TypeOK, Phases, R!Raw
<1>3. CASE R!ExtractMember
  <2>1. /\ UNCHANGED <<archive, candidates, library, output, pass>>
        /\ step' \in {"directories", "failing"} /\ position' = position + 1
        /\ ~R!Raw /\ position < Len(R!Members)
    BY <1>3 DEF R!ExtractMember, R!MoreMembers, R!Fail, R!parentVars, Course
  <2>2. /\ DOMAIN counted' = Counters
        /\ counted'.files \in {counted.files, counted.files + 1, counted.files + 0}
        /\ counted'.directories = counted.directories
        /\ counted'.member \in {counted.member, 0} /\ counted'.total = counted.total
    BY <1>3 DEF R!ExtractMember, ReaderTypes, Counters
  <2>3. chunks' \in Seq(Nat)
    <3>1. chunks' \in {chunks, R!Members[position + 1].chunks}
      BY <1>3 DEF R!ExtractMember
    <3>2. /\ R!Members \in Seq(R!Range(R!Members))
          /\ \A i \in 1 .. Len(R!Members) : R!Members[i].chunks \in Seq(Nat)
      BY <2>1 DEF R!ReaderConstants, ReaderTypes, R!Raw, R!Members
    <3>3. position + 1 \in 1 .. Len(R!Members)
      BY <2>1, <3>2, LenProperties DEF ReaderTypes
    <3> QED
      BY <3>1, <3>2, <3>3 DEF ReaderTypes
  <2> QED
    BY <2>1, <2>2, <2>3, SMTT(60) DEF ReaderTypes, R!TypeOK, Phases, R!Raw
<1>4. CASE R!EnsureDirectory
  <2>1. /\ UNCHANGED <<archive, candidates, pass, library, position, aliases, chunks>>
        /\ step' \in {step, "failing"} /\ ~R!Raw
    BY <1>4 DEF R!EnsureDirectory, R!Fail, R!parentVars, Course
  <2>2. /\ DOMAIN counted' = Counters
        /\ counted'.files = counted.files
        /\ counted'.directories \in {counted.directories, counted.directories + 1}
        /\ counted'.member = counted.member /\ counted'.total = counted.total
    BY <1>4 DEF R!EnsureDirectory, ReaderTypes, Counters
  <2>3. output' \in [DOMAIN output' -> Entries]
    <3>1. output' = output \/ (~R!Exists(Head(chain)) /\ output' = R!Put(Head(chain), R!New("dir")))
      BY <1>4 DEF R!EnsureDirectory
    <3> QED
      BY <3>1, PutTyped, NewIs DEF ReaderTypes
  <2> QED
    BY <2>1, <2>2, <2>3 DEF ReaderTypes, R!TypeOK, Phases, R!Raw, Entries
<1>5. CASE R!CreateTarget
  <2>1. /\ UNCHANGED <<archive, candidates, pass, library, position, aliases, chain, chunks, counted>>
        /\ step' \in {"data", "failing"}
    BY <1>5 DEF R!CreateTarget, R!Fail, R!parentVars, R!readVars
  <2>2. output' \in [DOMAIN output' -> Entries]
    <3>1. output' = output \/ output' = R!Put(target, R!New("file"))
      BY <1>5 DEF R!CreateTarget
    <3> QED
      BY <3>1, PutTyped, NewIs DEF ReaderTypes
  <2> QED
    BY <2>1, <2>2 DEF ReaderTypes, R!TypeOK, Phases, R!Raw, Entries
<1>6. CASE R!ReadData
  <2> DEFINE n == Head(chunks)
  <2>1. n \in Nat /\ Tail(chunks) \in Seq(Nat)
    BY <1>6, HeadTailProperties DEF R!ReadData, ReaderTypes
  <2>2. /\ UNCHANGED <<archive, candidates, pass, library, position, aliases, chain, target>>
        /\ step' \in {step, "failing"} /\ chunks' \in {chunks, Tail(chunks)}
    BY <1>6 DEF R!ReadData, R!Fail, R!parentVars
  <2>3. /\ DOMAIN counted' = Counters
        /\ counted'.files = counted.files /\ counted'.directories = counted.directories
        /\ counted'.member \in {counted.member, counted.member + n}
        /\ counted'.total \in {counted.total, counted.total + n}
    BY <1>6 DEF R!ReadData, ReaderTypes, Counters
  <2>4. output' \in [DOMAIN output' -> Entries]
    <3>1. \/ output' = output
          \/ pass = "extract" /\ output' = [output EXCEPT ![target].bytes = @ + n]
      BY <1>6 DEF R!ReadData
    <3>2. pass = "extract" => target \in R!OurFiles
      BY <1>6 DEF R!ReadData, Volumes
    <3> HIDE DEF n
    <3> QED
      BY <2>1, <2>2, <3>1, <3>2, Written DEF ReaderTypes
  <2> HIDE DEF n
  <2>5. /\ counted'.files \in Nat /\ counted'.directories \in Nat
        /\ counted'.member \in Nat /\ counted'.total \in Nat
    BY <2>1, <2>3 DEF ReaderTypes
  <2>6. step' \in Phases /\ chunks' \in Seq(Nat)
    BY <2>1, <2>2 DEF ReaderTypes, Phases
  <2>7. R!TypeOK'
    BY <2>2, <2>4 DEF ReaderTypes, R!TypeOK, R!Raw, Entries
  <2> QED
    BY <2>2, <2>3, <2>4, <2>5, <2>6, <2>7 DEF ReaderTypes
<1>7. CASE R!RawHeader
  <2>1. /\ UNCHANGED <<archive, candidates, pass, library, position, aliases, chain, counted, output>>
        /\ step' \in {"create", "data", "failing"} /\ chunks' \in {chunks, archive.chunks} /\ R!Raw
    BY <1>7 DEF R!RawHeader, R!Fail, R!parentVars, Course
  <2>2. chunks' \in Seq(Nat)
    BY <2>1 DEF R!Raw, ReaderTypes, R!ReaderConstants
  <2> QED
    BY <2>1, <2>2 DEF ReaderTypes, R!TypeOK, Phases, R!Raw
<1>8. CASE R!CleanUp
  <2>1. /\ UNCHANGED <<archive, candidates, pass, position, aliases, chain, chunks, counted>>
        /\ step' = "failed" /\ library' = 0
    BY <1>8 DEF R!CleanUp, R!parentVars
  <2>2. output' = output \/ output' = [p \in DOMAIN output \ R!Created |-> output[p]]
    BY <1>8 DEF R!CleanUp
  <2>3. output' \in [DOMAIN output' -> Entries]
    BY <2>2 DEF ReaderTypes
  <2>4. Len(candidates) \in Nat
    BY LenProperties DEF ReaderTypes, R!ReaderConstants
  <2> QED
    BY <2>1, <2>3, <2>4 DEF ReaderTypes, R!TypeOK, Phases, R!Raw, Entries
<1>9. CASE R!CheckListing
  <2>1. /\ UNCHANGED <<archive, candidates, library, aliases, chain, chunks, output>>
        /\ step' \in {"check", "failed"} /\ pass' \in {pass, "extract"}
        /\ position' \in {position, 0} /\ counted' \in {counted, R!Zero}
    BY <1>9 DEF R!CheckListing
  <2> QED
    BY <2>1, ZeroIs DEF ReaderTypes, R!TypeOK, Phases, R!Raw
<1>10. CASE R!Stray
  <2>1. /\ UNCHANGED <<archive, candidates, pass, step, library, position, aliases, chain>>
        /\ UNCHANGED <<chunks, counted>>
        /\ \E p : output' = R!Put(p, Stranger)
    BY <1>10 DEF R!Stray, R!readVars, Stranger
  <2>2. output' \in [DOMAIN output' -> Entries]
    <3>1. Stranger \in Entries
      BY DEF Entries, Stranger
    <3> QED
      BY <2>1, <3>1, PutTyped
  <2> QED
    BY <2>1, <2>2 DEF ReaderTypes, R!TypeOK, R!Raw, Entries
<1>11. CASE UNCHANGED R!vars
  BY <1>11 DEF R!vars, R!parentVars, R!readVars, ReaderTypes, R!TypeOK, R!Raw
<1> QED
  BY <1>1, <1>2, <1>3, <1>4, <1>5, <1>6, <1>7, <1>8, <1>9, <1>10, <1>11 DEF R!Next, CalmAction

\* A stream stays a stream: each kind of archive keeps to its own phases.
LEMMA CourseStep == ASSUME ReaderTypes, Course, [R!Next]_R!vars PROVE Course'
<1> USE DEF Course, R!Raw, R!Member, R!Members
<1>1. CASE R!CallFails \/ R!Check \/ R!ReadCandidates \/ R!Load
  BY <1>1 DEF CalmAction, R!CallFails, R!Check, R!ReadCandidates, R!Load, R!Fail, R!parentVars,
     R!readVars
<1>2. CASE R!Open \/ R!LastHeader \/ R!Skip \/ R!RawFinal \/ R!Close \/ R!CleanUp
  BY <1>2 DEF R!Open, R!LastHeader, R!Skip, R!RawFinal, R!Close, R!CleanUp, R!Fail,
     R!parentVars, R!readVars
<1>3. CASE R!ListMember \/ R!ExtractMember
  BY <1>3 DEF R!ListMember, R!ExtractMember, R!MoreMembers, R!Fail, R!parentVars
<1>4. CASE R!EnsureDirectory \/ R!ChainComplete
  BY <1>4 DEF R!EnsureDirectory, R!ChainComplete, R!Fail, R!parentVars, R!readVars
<1>5. CASE R!CreateTarget \/ R!ReadData
  BY <1>5 DEF R!CreateTarget, R!ReadData, R!Fail, R!parentVars, R!readVars
<1>6. CASE R!DataComplete \/ R!RawHeader
  BY <1>6 DEF R!DataComplete, R!RawHeader, R!Fail, R!parentVars, R!readVars, ReaderTypes,
     R!TypeOK
<1>7. CASE R!CheckListing \/ R!ChoosePayload \/ R!Stray
  BY <1>7 DEF R!CheckListing, R!ChoosePayload, R!Stray, R!readVars
<1>8. CASE UNCHANGED R!vars
  BY <1>8 DEF R!vars, R!parentVars, R!readVars
<1> QED
  BY <1>1, <1>2, <1>3, <1>4, <1>5, <1>6, <1>7, <1>8 DEF R!Next, CalmAction

\* A step that leaves the output and its owners alone.
Untouched == UNCHANGED <<archive, output, strays>>

\* While the output does not change, neither does what is the child's in it.
LEMMA UntouchedOurs ==
    ASSUME Untouched
    PROVE  R!Ours' = R!Ours /\ R!OurFiles' = R!OurFiles /\ (R!Raw' <=> R!Raw)
BY DEF Untouched, R!Ours, R!OurFiles, R!Raw

\* Nothing takes away what another program has put into the output.
LEMMA OriginsStep ==
    ASSUME ReaderTypes, Course, Origins, Volumes, [R!Next]_R!vars
    PROVE  Origins'
<1>1. CASE CalmAction
  <2>1. Untouched /\ UNCHANGED <<target, pass>>
    BY <1>1, CalmSteps DEF Calm, Untouched
  <2>2. R!Raw /\ (step' \in Early \/ (step' = "failed" /\ ~stuck')) => step \in Early
    BY <1>1, CalmPhases
  <2> QED
    BY <2>1, <2>2, UntouchedOurs DEF Origins, Untouched
<1>2. CASE R!ListMember \/ R!ExtractMember
  <2>1. Untouched /\ ~R!Raw /\ UNCHANGED pass
    BY <1>2 DEF R!ListMember, R!ExtractMember, R!MoreMembers, Untouched, R!parentVars, Course
  <2> QED
    BY <2>1, UntouchedOurs DEF Origins, Untouched
<1>3. CASE R!RawHeader \/ R!CheckListing
  <2>1. Untouched
    BY <1>3 DEF R!RawHeader, R!CheckListing, Untouched, R!parentVars
  <2>2. R!Ours = {} \/ ~R!Raw
    <3>1. CASE R!RawHeader
      BY <3>1 DEF R!RawHeader, Origins, Early
    <3>2. CASE R!CheckListing
      BY <3>2 DEF R!CheckListing, Origins, R!Ours
    <3> QED
      BY <1>3, <3>1, <3>2
  <2>3. pass' = "list" => pass = "list"
    BY <1>3 DEF R!RawHeader, R!CheckListing, R!parentVars
  <2> QED
    BY <2>1, <2>2, <2>3, UntouchedOurs DEF Origins, Untouched
<1>4. CASE R!EnsureDirectory
  <2>1. ~R!Raw /\ archive' = archive /\ pass = "extract" /\ pass' = pass /\ strays' = strays
    BY <1>4 DEF R!EnsureDirectory, Course, R!parentVars
  <2>2. \A p \in DOMAIN output : p \in DOMAIN output' /\ output'[p] = output[p]
    <3>1. \/ output' = output
          \/ Head(chain) \notin DOMAIN output /\ output' = R!Put(Head(chain), R!New("dir"))
      BY <1>4 DEF R!EnsureDirectory, R!Exists
    <3> QED
      BY <3>1 DEF R!Put
  <2> QED
    BY <2>1, <2>2 DEF Origins, R!Raw
<1>5. CASE R!CreateTarget
  <2>1. /\ pass = "extract" /\ step = "create" /\ step' \in {"data", "failing"}
        /\ UNCHANGED <<archive, pass, strays, target>>
    BY <1>5 DEF R!CreateTarget, Course, R!Fail, R!parentVars, R!readVars
  <2>2. CASE R!Creatable(target)
    <3>1. target \notin DOMAIN output /\ output' = R!Put(target, R!New("file"))
      BY <1>5, <2>2 DEF R!CreateTarget, R!Creatable, R!Exists
    <3>2. /\ R!Ours' = R!Ours \cup {target} /\ R!OurFiles' = R!OurFiles \cup {target}
          /\ \A q \in DOMAIN output : q \in DOMAIN output' /\ output'[q] = output[q]
      BY <3>1, Created1
    <3> QED
      BY <2>1, <3>2 DEF Origins, R!Raw, Early
  <2>3. CASE ~R!Creatable(target)
    <3>1. Untouched
      BY <1>5, <2>1, <2>3 DEF R!CreateTarget, Untouched
    <3> QED
      BY <2>1, <3>1, UntouchedOurs DEF Origins, Untouched, Early
  <2> QED
    BY <2>2, <2>3
<1>6. CASE R!ReadData
  <2>1. /\ step = "data" /\ step' \in {"data", "failing"}
        /\ UNCHANGED <<archive, pass, strays, target>>
    BY <1>6 DEF R!ReadData, R!Fail, R!parentVars
  <2>2. CASE output' = output
    <3>1. Untouched
      BY <2>1, <2>2 DEF Untouched
    <3> QED
      BY <2>1, <3>1, UntouchedOurs DEF Origins, Untouched, Early
  <2>3. CASE output' # output
    <3>1. pass = "extract" /\ chunks # <<>>
          /\ output' = [output EXCEPT ![target].bytes = @ + Head(chunks)]
      BY <1>6, <2>3 DEF R!ReadData
    <3>2. PICK n \in Nat : n = Head(chunks)
      BY <3>1, HeadTailProperties DEF ReaderTypes
    <3>3. target \in R!OurFiles
      BY <2>1, <3>1 DEF Volumes
    <3>4. /\ R!Ours' = R!Ours /\ R!OurFiles' = R!OurFiles /\ DOMAIN output' = DOMAIN output
          /\ \A q \in DOMAIN output : q # target => output'[q] = output[q]
      BY <2>1, <3>1, <3>2, <3>3, Written
    <3>5. \A p \in strays : p # target
      BY <3>3 DEF Origins, R!OurFiles, R!Ours, Stranger
    <3> QED
      BY <2>1, <3>1, <3>4, <3>5 DEF Origins, R!Raw, Early
  <2> QED
    BY <2>2, <2>3
<1>7. CASE R!CleanUp
  <2>1. UNCHANGED <<archive, pass, strays, target>> /\ step' = "failed"
    BY <1>7 DEF R!CleanUp, R!parentVars, R!readVars
  <2>2. CASE output' = [p \in DOMAIN output \ R!Created |-> output[p]]
    <3>1. \A p \in strays : p \notin R!Created
      BY DEF Origins, R!Created, Stranger
    <3>2. \A p \in DOMAIN output' : p \in DOMAIN output \ R!Created /\ output'[p] = output[p]
      BY <2>2
    <3>3. R!Raw => R!Ours' = {}
      <4>1. R!Raw /\ pass = "extract" => \A p \in R!Ours : p \in R!Created
        BY DEF Origins, R!Created, R!Ours, R!Exists
      <4>2. \A p \in R!Ours' : p \in R!Ours /\ p \notin R!Created
        BY <3>2 DEF R!Ours
      <4>3. R!Raw /\ pass # "extract" => R!Ours = {}
        BY DEF Origins, R!Ours, ReaderTypes, R!TypeOK
      <4> QED
        BY <4>1, <4>2, <4>3
    <3>4. R!Ours' = {} => R!OurFiles' = {}
      BY DEF R!OurFiles
    <3>5. \A p \in strays : p \in DOMAIN output' /\ output'[p] = output[p]
      BY <2>2, <3>1 DEF Origins
    <3>6. pass = "list" => DOMAIN output' = {}
      BY <3>2 DEF Origins
    <3> QED
      BY <2>1, <3>3, <3>4, <3>5, <3>6 DEF Origins, R!Raw
  <2>3. CASE output' # [p \in DOMAIN output \ R!Created |-> output[p]]
    <3>1. stuck' = TRUE /\ output' = output
      BY <1>7, <2>3 DEF R!CleanUp
    <3>2. Untouched
      BY <2>1, <3>1 DEF Untouched
    <3> QED
      BY <2>1, <3>1, <3>2, UntouchedOurs DEF Origins, Untouched, Early
  <2> QED
    BY <2>2, <2>3
<1>8. CASE R!Stray
  <2>1. PICK p : /\ p \notin DOMAIN output /\ output' = R!Put(p, Stranger) /\ strays' = {p}
                 /\ strays = {} /\ pass = "extract" /\ step # "failed"
                 /\ UNCHANGED <<archive, pass, step, target, stuck>>
    BY <1>8 DEF R!Stray, R!readVars, R!Exists, Stranger
  <2>2. /\ DOMAIN output' = DOMAIN output \cup {p} /\ output'[p] = Stranger
        /\ \A q \in DOMAIN output : output'[q] = output[q]
    BY <2>1 DEF R!Put
  <2>3. \A q : q \in R!Ours' <=> q \in R!Ours
    BY <2>1, <2>2 DEF R!Ours, Stranger
  <2>4. \A q : q \in R!OurFiles' <=> q \in R!OurFiles
    BY <2>2, <2>3 DEF R!OurFiles, R!Ours
  <2>5. R!Raw => \A q : q \in R!Ours <=> q \in R!OurFiles
    BY DEF Origins
  <2> QED
    BY <2>1, <2>2, <2>3, <2>4, <2>5 DEF Origins, R!Raw, Early
<1>9. CASE UNCHANGED R!vars
  <2>1. Untouched /\ UNCHANGED <<target, pass, step, stuck>>
    BY <1>9 DEF R!vars, R!parentVars, R!readVars, Untouched
  <2> QED
    BY <2>1, UntouchedOurs DEF Origins, Untouched
<1> QED
  BY <1>1, <1>2, <1>3, <1>4, <1>5, <1>6, <1>7, <1>8, <1>9 DEF R!Next, CalmAction

\* A directory more, or nothing new.
LEMMA DirectoryMade ==
    ASSUME ReaderTypes, R!EnsureDirectory
    PROVE  \/ /\ ~R!Exists(Head(chain)) /\ Head(chain) \notin R!Ours
              /\ R!Ours' = R!Ours \cup {Head(chain)} /\ R!OurFiles' = R!OurFiles
              /\ \A q \in DOMAIN output : output'[q] = output[q]
           \/ R!Exists(Head(chain)) /\ Untouched
<1>1. CASE ~R!Exists(Head(chain))
  <2>1. PICK d : d = Head(chain)
    OBVIOUS
  <2>2. d \notin DOMAIN output /\ output' = R!Put(d, R!New("dir"))
    BY <1>1, <2>1 DEF R!EnsureDirectory, R!Exists
  <2>3. /\ d \notin R!Ours /\ R!Ours' = R!Ours \cup {d} /\ R!OurFiles' = R!OurFiles
        /\ \A q \in DOMAIN output : output'[q] = output[q]
    BY <2>2, Created1
  <2> QED
    BY <1>1, <2>1, <2>3
<1>2. CASE R!Exists(Head(chain))
  <2>1. Untouched
    BY <1>2 DEF R!EnsureDirectory, Untouched, R!parentVars
  <2> QED
    BY <1>2, <2>1
<1> QED
  BY <1>1, <1>2

\* What a chunk does, if it is within the limits.
LEMMA ChunkRead ==
    ASSUME ReaderTypes, Origins, Volumes, R!ReadData
    PROVE  /\ R!Ours' = R!Ours /\ R!OurFiles' = R!OurFiles /\ (R!Raw' <=> R!Raw)
           /\ UNCHANGED <<archive, pass, target, position>>
           /\ counted'.files = counted.files /\ counted'.directories = counted.directories
           /\ \/ /\ step' = "failing" /\ output' = output /\ counted' = counted
              \/ /\ step' = "data" /\ R!WithinLimits(counted')
                 /\ pass = "extract" => target \in R!OurFiles
                 /\ \A q \in R!OurFiles : q # target => output'[q] = output[q]
                 /\ output'[target].bytes
                       = IF R!Raw THEN counted'.total ELSE counted'.member
                 /\ \E n \in Nat : /\ counted'.total = counted.total + n
                                   /\ pass = "extract" =>
                                        output'[target].bytes = output[target].bytes + n
              \/ /\ step' = "data" /\ pass = "list" /\ output' = output
<1>1. /\ UNCHANGED <<archive, pass, target, position, strays>> /\ step = "data"
      /\ chunks # <<>> /\ (R!Raw' <=> R!Raw)
  BY DEF R!ReadData, R!parentVars, R!Raw
<1>2. PICK n \in Nat : n = Head(chunks)
  BY <1>1, HeadTailProperties DEF ReaderTypes
<1> DEFINE c == [counted EXCEPT !.member = @ + n, !.total = @ + n]
<1>3. /\ c.files = counted.files /\ c.directories = counted.directories
      /\ c.member = counted.member + n /\ c.total = counted.total + n
  BY DEF ReaderTypes, Counters
<1>4. CASE R!WithinLimits(c)
  <2>1. /\ counted' = c /\ step' = step
        /\ output' = IF pass = "extract" THEN [output EXCEPT ![target].bytes = @ + n]
                     ELSE output
    BY <1>2, <1>4 DEF R!ReadData
  <2> HIDE DEF c
  <2>2. CASE pass = "extract"
    <3>1. target \in R!OurFiles /\ output' = [output EXCEPT ![target].bytes = @ + n]
      BY <1>1, <2>1, <2>2 DEF Volumes
    <3>2. /\ R!Ours' = R!Ours /\ R!OurFiles' = R!OurFiles
          /\ \A q \in DOMAIN output : q # target => output'[q] = output[q]
          /\ output'[target].bytes = output[target].bytes + n
      BY <1>1, <3>1, Written
    <3>3. \A q \in R!OurFiles : q \in DOMAIN output
      BY DEF R!OurFiles, R!Ours
    <3>4. output[target].bytes = IF R!Raw THEN counted.total ELSE counted.member
      BY <1>1, <2>2 DEF Volumes
    <3> QED
      BY <1>1, <1>3, <1>4, <2>1, <2>2, <3>1, <3>2, <3>3, <3>4
  <2>3. CASE pass # "extract"
    <3>1. Untouched /\ pass = "list"
      BY <1>1, <2>1, <2>3 DEF Untouched, ReaderTypes, R!TypeOK
    <3> QED
      BY <1>1, <1>3, <2>1, <3>1, UntouchedOurs DEF Untouched
  <2> QED
    BY <2>2, <2>3
<1>5. CASE ~R!WithinLimits(c)
  <2>1. step' = "failing" /\ UNCHANGED <<counted, output>>
    BY <1>2, <1>5 DEF R!ReadData, R!Fail
  <2>2. Untouched
    BY <1>1, <2>1 DEF Untouched
  <2> QED
    BY <1>1, <2>1, <2>2, UntouchedOurs
<1> QED
  BY <1>4, <1>5

\* What a clean-up leaves is as it was.
LEMMA CleanedUp ==
    ASSUME ReaderTypes, R!CleanUp
    PROVE  /\ R!Ours' \subseteq R!Ours /\ R!OurFiles' \subseteq R!OurFiles
           /\ R!Ours' \ R!OurFiles' \subseteq R!Ours \ R!OurFiles
           /\ \A q \in DOMAIN output' : q \in DOMAIN output /\ output'[q] = output[q]
<1>1. output' = output \/ output' = [p \in DOMAIN output \ R!Created |-> output[p]]
  BY DEF R!CleanUp
<1>2. \A q \in DOMAIN output' : q \in DOMAIN output /\ output'[q] = output[q]
  BY <1>1
<1>3. R!Ours' \subseteq R!Ours
  BY <1>2 DEF R!Ours
<1> QED
  BY <1>2, <1>3 DEF R!OurFiles, R!Ours

\* Another program's file is none of ours.
LEMMA StrayIsTheirs ==
    ASSUME ReaderTypes, R!Stray
    PROVE  /\ R!Ours' = R!Ours /\ R!OurFiles' = R!OurFiles
           /\ \A q \in R!OurFiles : output'[q] = output[q]
<1>1. PICK p : p \notin DOMAIN output /\ output' = R!Put(p, Stranger)
  BY DEF R!Stray, R!Exists, Stranger
<1>2. /\ DOMAIN output' = DOMAIN output \cup {p} /\ output'[p] = Stranger
      /\ \A q \in DOMAIN output : output'[q] = output[q]
  BY <1>1 DEF R!Put
<1>3. R!Ours' = R!Ours
  BY <1>1, <1>2 DEF R!Ours, Stranger
<1> QED
  BY <1>2, <1>3 DEF R!OurFiles, R!Ours

\* A file grows by the bytes that were counted, and no further than it may.
LEMMA VolumesStep ==
    ASSUME R!ReaderConstants, ReaderTypes, Course, Origins, Volumes, [R!Next]_R!vars
    PROVE  Volumes'
<1>0. MaxSingleFileBytes \in Nat
  BY Limits
<1>1. CASE CalmAction
  <2>1. Untouched /\ UNCHANGED <<target, pass, counted>>
    BY <1>1, CalmSteps DEF Calm, Untouched
  <2>2. /\ R!Raw /\ step' \in Early => step \in Early
        /\ ~R!Raw /\ step' \in {"directories", "create"} => step \in {"directories", "create"}
        /\ step' # "data"
    BY <1>1, CalmPhases
  <2> QED
    BY <2>1, <2>2, UntouchedOurs DEF Volumes, Untouched
<1>2. CASE R!ListMember \/ R!ExtractMember
  <2>1. Untouched /\ ~R!Raw /\ step' # "data"
    BY <1>2 DEF R!ListMember, R!ExtractMember, R!MoreMembers, R!Fail, Untouched, R!parentVars,
       Course
  <2>2. step' \in {"directories", "create"} => counted'.member = 0
    BY <1>2 DEF R!ListMember, R!ExtractMember, R!Fail, ReaderTypes, Counters
  <2> QED
    BY <2>1, <2>2, UntouchedOurs DEF Volumes, Untouched
<1>3. CASE R!RawHeader
  <2>1. /\ Untouched /\ R!Raw /\ counted' = counted /\ step \in Early
        /\ step' = "data" => pass' # "extract"
    BY <1>3 DEF R!RawHeader, Untouched, R!Fail, R!parentVars, Course, Early
  <2> QED
    BY <2>1, UntouchedOurs DEF Volumes, Untouched
<1>4. CASE R!CheckListing
  <2>1. /\ Untouched
        /\ (step' = "check" /\ counted' = R!Zero) \/ step' = "failed"
    BY <1>4 DEF R!CheckListing, Untouched
  <2> QED
    BY <2>1, UntouchedOurs, ZeroIs DEF Volumes, Untouched, Early
<1>5. CASE R!EnsureDirectory
  <2>1. /\ ~R!Raw /\ (R!Raw' <=> R!Raw)
        /\ step = "directories" /\ step' \in {"directories", "failing"}
    BY <1>5 DEF R!EnsureDirectory, R!Fail, Course, R!Raw, R!parentVars
  <2>2. counted'.member = counted.member
    BY <1>5 DEF R!EnsureDirectory, ReaderTypes, Counters
  <2>3. R!OurFiles' = R!OurFiles /\ \A q \in R!OurFiles : output'[q] = output[q]
    <3>1. CASE Untouched
      BY <3>1, UntouchedOurs DEF Untouched
    <3>2. CASE ~Untouched
      BY <1>5, <3>2, DirectoryMade DEF R!OurFiles, R!Ours
    <3> QED
      BY <3>1, <3>2
  <2> QED
    BY <2>1, <2>2, <2>3 DEF Volumes
<1>6. CASE R!CreateTarget
  <2>1. /\ pass = "extract" /\ step = "create" /\ step' \in {"data", "failing"}
        /\ UNCHANGED <<archive, pass, strays, target, counted>> /\ (R!Raw' <=> R!Raw)
    BY <1>6 DEF R!CreateTarget, Course, R!Fail, R!parentVars, R!readVars, R!Raw
  <2>2. CASE R!Creatable(target)
    <3>1. target \notin DOMAIN output /\ output' = R!Put(target, R!New("file"))
      BY <1>6, <2>2 DEF R!CreateTarget, R!Creatable, R!Exists
    <3>2. /\ R!OurFiles' = R!OurFiles \cup {target}
          /\ \A q \in DOMAIN output : output'[q] = output[q]
          /\ output'[target].bytes = 0
      BY <3>1, Created1, NewIs
    <3>3. \A q \in R!OurFiles : output'[q] = output[q]
      BY <3>2 DEF R!OurFiles, R!Ours
    <3>4. (IF R!Raw THEN counted.total ELSE counted.member) = 0
      BY <2>1 DEF Volumes, Early
    <3> QED
      BY <1>0, <2>1, <3>2, <3>3, <3>4 DEF Volumes, Early
  <2>3. CASE ~R!Creatable(target)
    <3>1. Untouched /\ step' = "failing"
      BY <1>6, <2>1, <2>3 DEF R!CreateTarget, Untouched, R!Fail
    <3> QED
      BY <3>1, UntouchedOurs DEF Volumes, Untouched, Early
  <2> QED
    BY <2>2, <2>3
<1>7. CASE R!ReadData
  <2>1. R!WithinLimits(counted') =>
            (IF R!Raw THEN counted'.total ELSE counted'.member) <= MaxSingleFileBytes
    BY DEF R!WithinLimits
  <2> QED
    BY <1>7, <2>1, ChunkRead DEF Volumes, Early
<1>8. CASE R!CleanUp
  <2>1. step' = "failed"
    BY <1>8 DEF R!CleanUp
  <2>2. \A q \in R!OurFiles' : q \in R!OurFiles /\ output'[q] = output[q]
    BY <1>8, CleanedUp DEF R!OurFiles, R!Ours
  <2> QED
    BY <2>1, <2>2 DEF Volumes, Early
<1>9. CASE R!Stray
  <2>1. UNCHANGED <<archive, pass, step, target, counted>> /\ (R!Raw' <=> R!Raw)
    BY <1>9 DEF R!Stray, R!readVars, R!Raw
  <2> QED
    BY <1>9, <2>1, StrayIsTheirs DEF Volumes
<1>10. CASE UNCHANGED R!vars
  <2>1. Untouched /\ UNCHANGED <<target, pass, step, counted>>
    BY <1>10 DEF R!vars, R!parentVars, R!readVars, Untouched
  <2> QED
    BY <2>1, UntouchedOurs DEF Volumes, Untouched
<1> QED
  BY <1>1, <1>2, <1>3, <1>4, <1>5, <1>6, <1>7, <1>8, <1>9, <1>10 DEF R!Next, CalmAction

\* The files are among the entries.
LEMMA FilesAreFinite ==
    ASSUME IsFiniteSet(R!Ours)
    PROVE  /\ IsFiniteSet(R!OurFiles) /\ IsFiniteSet(R!Ours \ R!OurFiles)
           /\ Cardinality(R!OurFiles) \in Nat /\ Cardinality(R!Ours \ R!OurFiles) \in Nat
<1>1. R!OurFiles \subseteq R!Ours
  BY DEF R!OurFiles
<1> QED
  BY <1>1, FS_Subset, FS_CardinalityType

\* The entries are the same, and so are the counters of them.
LEMMA SameAccount ==
    ASSUME ReaderTypes, Account, R!Ours' = R!Ours, R!OurFiles' = R!OurFiles, R!Raw' <=> R!Raw,
           counted'.files = counted.files, counted'.directories = counted.directories,
           step' \notin {"directories", "create"} \/
               (step \in {"directories", "create"} /\ R!Member' = R!Member),
           step \in {"failing", "failed"} => step' \in {"failing", "failed"}
    PROVE  Account'
<1>1. /\ IsFiniteSet(R!Ours') /\ Cardinality(R!Ours' \ R!OurFiles') = counted'.directories
      /\ counted'.directories <= MaxDirectories + 1 /\ counted'.files <= MaxFiles
      /\ step' \notin {"failing", "failed"} => counted'.directories <= MaxDirectories
  BY DEF Account
<1> PICK n : n = Cardinality(R!OurFiles)
  OBVIOUS
<1>2. n \in Nat /\ Cardinality(R!OurFiles') = n
  BY FilesAreFinite DEF Account
<1>3. ~R!Raw => n + (IF step' \in {"directories", "create"} /\ R!Member'.kind = "file" THEN 1 ELSE 0)
                <= counted'.files
  <2> DEFINE owed == IF step \in {"directories", "create"} /\ R!Member.kind = "file" THEN 1 ELSE 0
             owes == IF step' \in {"directories", "create"} /\ R!Member'.kind = "file" THEN 1 ELSE 0
  <2>1. owed \in {0, 1} /\ owes \in {0, 1} /\ owes <= owed
    OBVIOUS
  <2>2. ~R!Raw => n + owed <= counted.files
    BY DEF Account
  <2>3. counted.files \in Nat /\ counted'.files = counted.files
    BY DEF ReaderTypes
  <2> HIDE DEF owed, owes
  <2>4. ~R!Raw => n + owes <= counted'.files
    BY <1>2, <2>1, <2>2, <2>3
  <2> QED
    BY <2>4 DEF owes
<1> QED
  BY <1>1, <1>2, <1>3 DEF Account

\* Every entry is counted once; a directory after it was created, a file before.
LEMMA AccountStep ==
    ASSUME R!ReaderConstants, ReaderTypes, Course, Origins, Account, Volumes, [R!Next]_R!vars
    PROVE  Account'
<1>0. MaxFiles \in Nat /\ MaxDirectories \in Nat
  BY Limits
<1> DEFINE files == Cardinality(R!OurFiles)  directories == Cardinality(R!Ours \ R!OurFiles)
<1>f. /\ IsFiniteSet(R!Ours) /\ IsFiniteSet(R!OurFiles) /\ IsFiniteSet(R!Ours \ R!OurFiles)
      /\ files \in Nat /\ directories \in Nat
      /\ counted.files \in Nat /\ counted.directories \in Nat
  BY FilesAreFinite DEF Account, ReaderTypes
<1>1. CASE CalmAction
  <2>1. Untouched /\ UNCHANGED <<counted, position>>
    BY <1>1, CalmSteps DEF Calm, Untouched
  <2>2. /\ step' \in {"directories", "create"} => step \in {"directories", "create"}
        /\ step \notin {"failing", "failed"}
    BY <1>1, CalmPhases
  <2>3. R!Member' = R!Member
    BY <2>1 DEF R!Member, R!Members, Untouched
  <2> QED
    BY <2>1, <2>2, <2>3, UntouchedOurs, SameAccount
<1>2. CASE R!ListMember
  <2>1. Untouched /\ step' \notin {"directories", "create"} /\ step = "header"
    BY <1>2 DEF R!ListMember, R!MoreMembers, R!Fail, Untouched, R!parentVars
  <2>2. counted'.files = counted.files /\ counted'.directories = counted.directories
    BY <1>2 DEF R!ListMember, ReaderTypes, Counters
  <2> QED
    BY <2>1, <2>2, UntouchedOurs, SameAccount
<1>3. CASE R!ExtractMember
  <2>1. Untouched /\ step = "header" /\ ~R!Raw
    BY <1>3 DEF R!ExtractMember, R!MoreMembers, Untouched, R!parentVars, Course
  <2>2. CASE step' = "failing"
    <3>1. counted' = counted
      BY <1>3, <2>2 DEF R!ExtractMember, R!Fail
    <3> QED
      BY <2>1, <2>2, <3>1, UntouchedOurs, SameAccount
  <2>3. CASE step' # "failing"
    <3> PICK m : m = R!Members[position + 1]
      OBVIOUS
    <3> DEFINE more == counted.files + (IF m.kind = "file" THEN 1 ELSE 0)
    <3>1. /\ step' = "directories" /\ more <= MaxFiles
          /\ counted' = [counted EXCEPT !.files = more, !.member = 0]
          /\ position' = position + 1
      BY <1>3, <2>3 DEF R!ExtractMember, R!MoreMembers, R!Fail
    <3>2. counted'.files = more /\ counted'.directories = counted.directories
      BY <3>1 DEF ReaderTypes, Counters
    <3>3. R!Member' = m
      BY <2>1, <3>1 DEF R!Member, R!Members, Untouched
    <3>4. files <= counted.files
      BY <1>f, <2>1 DEF Account
    <3>5. /\ R!Ours' = R!Ours /\ R!OurFiles' = R!OurFiles /\ Cardinality(R!OurFiles') = files
          /\ Cardinality(R!Ours' \ R!OurFiles') = directories
      BY <2>1, UntouchedOurs
    <3>6. directories = counted.directories /\ counted.directories <= MaxDirectories
      BY <2>1 DEF Account
    <3>7. files + (IF m.kind = "file" THEN 1 ELSE 0) <= more
      BY <1>f, <3>4
    <3> HIDE DEF files, directories, more
    <3> QED
      BY <1>0, <1>f, <3>1, <3>2, <3>3, <3>5, <3>6, <3>7 DEF Account
  <2> QED
    BY <2>2, <2>3
<1>4. CASE R!EnsureDirectory
  <2>1. /\ UNCHANGED <<archive, position>> /\ (R!Raw' <=> R!Raw) /\ step = "directories"
        /\ step' \in {"directories", "failing"} /\ R!Member' = R!Member /\ ~R!Raw
    BY <1>4 DEF R!EnsureDirectory, R!Fail, R!parentVars, R!Raw, R!Member, R!Members, Course
  <2>2. counted'.files = counted.files
    BY <1>4 DEF R!EnsureDirectory, ReaderTypes, Counters
  <2>3. CASE R!Exists(Head(chain))
    <3>1. Untouched
      BY <1>4, <2>3, DirectoryMade
    <3>2. counted' = counted
      BY <1>4, <2>3 DEF R!EnsureDirectory
    <3> QED
      BY <2>1, <2>2, <3>1, <3>2, UntouchedOurs, SameAccount
  <2>4. CASE ~R!Exists(Head(chain))
    <3> PICK d : d = Head(chain)
      OBVIOUS
    <3>1. d \notin R!Ours /\ R!Ours' = R!Ours \cup {d} /\ R!OurFiles' = R!OurFiles
      BY <1>4, <2>4, DirectoryMade
    <3>2. R!Ours' \ R!OurFiles' = (R!Ours \ R!OurFiles) \cup {d}
      BY <3>1 DEF R!OurFiles
    <3>3. /\ IsFiniteSet(R!Ours \cup {d})
          /\ Cardinality((R!Ours \ R!OurFiles) \cup {d}) = directories + 1
      BY <1>f, <3>1, FS_AddElement
    <3>4. /\ counted'.directories = counted.directories + 1
          /\ step' # "failing" => counted'.directories <= MaxDirectories
      BY <1>4, <2>1, <2>4 DEF R!EnsureDirectory, R!Fail, ReaderTypes, Counters
    <3>5. directories = counted.directories /\ counted.directories <= MaxDirectories
      BY <2>1 DEF Account
    <3>6. files + (IF R!Member.kind = "file" THEN 1 ELSE 0) <= counted.files
      BY <1>f, <2>1 DEF Account
    <3>7. Cardinality(R!OurFiles') = files /\ Cardinality(R!Ours' \ R!OurFiles') = directories + 1
      BY <3>1, <3>2, <3>3
    <3>8. IsFiniteSet(R!Ours')
      BY <3>1, <3>3
    <3>9. counted'.files <= MaxFiles
      BY <2>2 DEF Account
    <3> HIDE DEF files, directories
    <3>10. files + (IF step' \in {"directories", "create"} /\ R!Member'.kind = "file" THEN 1 ELSE 0)
              <= counted'.files
      BY <1>f, <2>1, <2>2, <3>6
    <3> QED
      BY <1>0, <1>f, <2>1, <3>4, <3>5, <3>7, <3>8, <3>9, <3>10 DEF Account
  <2> QED
    BY <2>3, <2>4
<1>5. CASE R!CreateTarget
  <2>1. /\ step = "create" /\ step' \in {"data", "failing"} /\ counted' = counted
        /\ UNCHANGED <<archive, strays>> /\ (R!Raw' <=> R!Raw)
    BY <1>5 DEF R!CreateTarget, R!Fail, R!parentVars, R!readVars, R!Raw
  <2>2. CASE R!Creatable(target)
    <3>1. target \notin DOMAIN output /\ output' = R!Put(target, R!New("file"))
      BY <1>5, <2>2 DEF R!CreateTarget, R!Creatable, R!Exists
    <3> PICK t : t = target
      OBVIOUS
    <3>2. t \notin R!Ours /\ R!Ours' = R!Ours \cup {t} /\ R!OurFiles' = R!OurFiles \cup {t}
      BY <3>1, Created1
    <3>3. t \notin R!OurFiles /\ R!Ours' \ R!OurFiles' = R!Ours \ R!OurFiles
      BY <3>2 DEF R!OurFiles
    <3>4. IsFiniteSet(R!Ours \cup {t}) /\ Cardinality(R!OurFiles \cup {t}) = files + 1
      BY <1>f, <3>3, FS_AddElement
    <3>5. ~R!Raw => files + 1 <= counted.files
      BY <1>f, <2>1 DEF Account, Course
    <3>6. /\ Cardinality(R!OurFiles') = files + 1 /\ Cardinality(R!Ours' \ R!OurFiles') = directories
          /\ IsFiniteSet(R!Ours')
      BY <3>2, <3>3, <3>4
    <3>7. /\ directories = counted'.directories /\ counted'.directories <= MaxDirectories
          /\ counted'.files <= MaxFiles
      BY <2>1 DEF Account
    <3> HIDE DEF files, directories
    <3> QED
      BY <1>0, <1>f, <2>1, <3>5, <3>6, <3>7 DEF Account
  <2>3. CASE ~R!Creatable(target)
    <3>1. Untouched /\ step' = "failing"
      BY <1>5, <2>1, <2>3 DEF R!CreateTarget, Untouched, R!Fail
    <3> QED
      BY <2>1, <3>1, UntouchedOurs, SameAccount
  <2> QED
    BY <2>2, <2>3
<1>6. CASE R!ReadData
  <2>1. step = "data" /\ step' \in {"data", "failing"}
    BY <1>6 DEF R!ReadData, R!Fail
  <2> QED
    BY <1>6, <2>1, ChunkRead, SameAccount
<1>7. CASE R!RawHeader
  <2>1. Untouched /\ counted' = counted /\ R!Raw /\ step = "stream"
    BY <1>7 DEF R!RawHeader, Untouched, R!parentVars, Course
  <2> QED
    BY <2>1, UntouchedOurs DEF Account
<1>8. CASE R!CleanUp
  <2>1. counted' = counted /\ step' = "failed" /\ archive' = archive /\ (R!Raw' <=> R!Raw)
    BY <1>8 DEF R!CleanUp, R!parentVars, R!Raw
  <2>2. CASE R!Raw
    <3>1. R!Ours \ R!OurFiles = {} /\ R!Ours' \ R!OurFiles' = {}
      BY <1>8, <2>2, CleanedUp DEF Origins
    <3>2. IsFiniteSet(R!Ours')
      BY <1>8, <1>f, CleanedUp, FS_Subset
    <3> QED
      BY <2>1, <2>2, <3>1, <3>2 DEF Account
  <2>3. CASE ~R!Raw
    <3>1. output' = output
      BY <1>8, <2>3 DEF R!CleanUp, R!Created, ReaderTypes
    <3>2. R!Ours' = R!Ours /\ R!OurFiles' = R!OurFiles
      BY <3>1 DEF R!Ours, R!OurFiles
    <3> QED
      BY <2>1, <3>2, SameAccount
  <2> QED
    BY <2>2, <2>3
<1>9. CASE R!CheckListing
  <2>1. /\ Untouched /\ step = "exited" /\ pass = "list"
        /\ step' \in {"check", "failed"} /\ counted' \in {counted, R!Zero}
    BY <1>9 DEF R!CheckListing, Untouched
  <2>2. R!Ours = {} /\ R!OurFiles = {}
    BY <2>1 DEF Origins, R!Ours, R!OurFiles
  <2>3. Cardinality(R!OurFiles) = 0 /\ Cardinality(R!Ours \ R!OurFiles) = 0
    BY <2>2, FS_EmptySet
  <2>4. R!Ours' = R!Ours /\ R!OurFiles' = R!OurFiles
    BY <2>1, UntouchedOurs
  <2>5. /\ counted'.files \in Nat /\ counted'.files <= MaxFiles
        /\ counted'.directories = 0
    BY <1>0, <1>f, <2>1, <2>3, ZeroIs DEF Account
  <2>6. Cardinality(R!OurFiles') = 0 /\ Cardinality(R!Ours' \ R!OurFiles') = 0 /\ IsFiniteSet(R!Ours')
    BY <1>f, <2>3, <2>4
  <2> QED
    BY <1>0, <2>1, <2>5, <2>6 DEF Account
<1>10. CASE R!Stray
  <2>1. UNCHANGED <<archive, position, step, counted>> /\ R!Member' = R!Member /\ (R!Raw' <=> R!Raw)
    BY <1>10 DEF R!Stray, R!readVars, R!Member, R!Members, R!Raw
  <2> QED
    BY <1>10, <2>1, StrayIsTheirs, SameAccount
<1>11. CASE UNCHANGED R!vars
  <2>1. Untouched /\ UNCHANGED <<position, step, counted>> /\ R!Member' = R!Member
    BY <1>11 DEF R!vars, R!parentVars, R!readVars, Untouched, R!Member, R!Members
  <2> QED
    BY <2>1, UntouchedOurs, SameAccount
<1> QED
  BY <1>1, <1>2, <1>3, <1>4, <1>5, <1>6, <1>7, <1>8, <1>9, <1>10, <1>11 DEF R!Next, CalmAction

\* The sum is the same while the files are.
LEMMA SameBudget ==
    ASSUME Budget, R!OurFiles' = R!OurFiles, \A q \in R!OurFiles : output'[q] = output[q],
           counted'.total = counted.total, R!Raw' <=> R!Raw
    PROVE  Budget'
<1>1. BytesOf' = BytesOf
  BY DEF BytesOf
<1> QED
  BY <1>1 DEF Budget

\* No step brings the bytes of all files above what was counted for them.
LEMMA BudgetStep ==
    ASSUME R!ReaderConstants, ReaderInv, [R!Next]_R!vars
    PROVE  Budget'
<1> USE DEF ReaderInv
<1>0. /\ MaxTotalBytes \in Nat /\ IsFiniteSet(R!OurFiles) /\ counted.total \in Nat
      /\ \A q \in R!OurFiles : q \in DOMAIN output /\ output[q].bytes \in Nat
      /\ \A q \in R!OurFiles : BytesOf[q] = output[q].bytes
  BY Limits, FilesAreFinite DEF Account, R!OurFiles, R!Ours, ReaderTypes, Entries, BytesOf
<1>1. CASE CalmAction \/ R!RawHeader
  <2>1. Untouched /\ counted' = counted
    BY <1>1, CalmSteps DEF Calm, Untouched, R!RawHeader, R!parentVars
  <2> QED
    BY <2>1, UntouchedOurs, SameBudget DEF Untouched
<1>2. CASE R!ListMember \/ R!ExtractMember
  <2>1. Untouched
    BY <1>2 DEF R!ListMember, R!ExtractMember, Untouched, R!parentVars
  <2>2. counted'.total = counted.total
    BY <1>2 DEF R!ListMember, R!ExtractMember, ReaderTypes, Counters
  <2> QED
    BY <2>1, <2>2, UntouchedOurs, SameBudget DEF Untouched
<1>3. CASE R!EnsureDirectory
  <2>1. counted'.total = counted.total /\ (R!Raw' <=> R!Raw)
    BY <1>3 DEF R!EnsureDirectory, ReaderTypes, Counters, R!Raw, R!parentVars
  <2>2. R!OurFiles' = R!OurFiles /\ \A q \in R!OurFiles : output'[q] = output[q]
    <3>1. CASE Untouched
      BY <3>1, UntouchedOurs DEF Untouched
    <3>2. CASE ~Untouched
      BY <1>0, <1>3, <3>2, DirectoryMade
    <3> QED
      BY <3>1, <3>2
  <2> QED
    BY <2>1, <2>2, SameBudget
<1>4. CASE R!CreateTarget
  <2>1. counted' = counted /\ (R!Raw' <=> R!Raw) /\ UNCHANGED <<archive, strays>>
    BY <1>4 DEF R!CreateTarget, R!parentVars, R!readVars, R!Raw
  <2>2. CASE R!Creatable(target)
    <3>1. target \notin DOMAIN output /\ output' = R!Put(target, R!New("file"))
      BY <1>4, <2>2 DEF R!CreateTarget, R!Creatable, R!Exists
    <3> PICK t : t = target
      OBVIOUS
    <3>2. /\ R!OurFiles' = R!OurFiles \cup {t} /\ t \notin R!OurFiles
          /\ \A q \in R!OurFiles : output'[q] = output[q]
          /\ output'[t].bytes = 0
      BY <1>0, <3>1, Created1, NewIs DEF R!OurFiles
    <3> PICK F, b, c : F = R!OurFiles \cup {t} /\ b = BytesOf /\ c = BytesOf'
      OBVIOUS
    <3>3. IsFiniteSet(F) /\ F \ {t} = R!OurFiles
      BY <1>0, <3>2, FS_AddElement
    <3>4. \A q \in F : c[q] = output'[q].bytes
      BY <3>2 DEF BytesOf
    <3>5. c[t] = 0 /\ (\A q \in R!OurFiles : c[q] = b[q]) /\ \A q \in F : c[q] \in Nat
      BY <1>0, <3>2, <3>4
    <3>6. Total(c, F) = c[t] + Total(c, R!OurFiles)
      BY <3>3, <3>5, TotalWithout
    <3>7. Total(c, R!OurFiles) = Total(b, R!OurFiles)
      BY <1>0, <3>5, TotalsAgree
    <3>8. Total(c, F) = Total(b, R!OurFiles)
      <4>1. Total(c, R!OurFiles) \in Nat
        BY <1>0, <3>5, TotalIsNumber
      <4> QED
        BY <3>5, <3>6, <3>7, <4>1
    <3>9. Total(BytesOf, R!OurFiles)' = Total(BytesOf, R!OurFiles)
      BY <3>2, <3>8
    <3> QED
      BY <2>1, <3>9 DEF Budget
  <2>3. CASE ~R!Creatable(target)
    <3>1. Untouched
      BY <1>4, <2>1, <2>3 DEF R!CreateTarget, Untouched
    <3> QED
      BY <2>1, <3>1, UntouchedOurs, SameBudget DEF Untouched
  <2> QED
    BY <2>2, <2>3
<1>5. CASE R!ReadData
  <2>1. /\ R!OurFiles' = R!OurFiles /\ (R!Raw' <=> R!Raw) /\ step = "data"
        /\ ~R!Raw => pass = "extract"
    BY <1>5, ChunkRead DEF R!ReadData, Course, ReaderTypes, R!TypeOK
  <2>2. CASE R!Raw
    BY <2>1, <2>2 DEF Budget
  <2>3. CASE ~R!Raw /\ output' = output /\ counted' = counted
    BY <2>1, <2>3, SameBudget
  <2>4. CASE ~R!Raw /\ ~(output' = output /\ counted' = counted)
    <3>1. /\ R!WithinLimits(counted') /\ target \in R!OurFiles
          /\ \A q \in R!OurFiles : q # target => output'[q] = output[q]
          /\ \E n \in Nat : /\ counted'.total = counted.total + n
                            /\ output'[target].bytes = output[target].bytes + n
      BY <1>5, <2>1, <2>4, ChunkRead
    <3>2. PICK n \in Nat : /\ counted'.total = counted.total + n
                           /\ output'[target].bytes = output[target].bytes + n
      BY <3>1
    <3>3. counted'.total <= MaxTotalBytes
      BY <2>4, <3>1 DEF R!WithinLimits
    <3> PICK t, F, b, c : t = target /\ F = R!OurFiles /\ b = BytesOf /\ c = BytesOf'
      OBVIOUS
    <3>4. t \in F /\ IsFiniteSet(F) /\ F \ {t} \subseteq F
      BY <1>0, <3>1
    <3>5. \A q \in F : c[q] = output'[q].bytes
      BY <2>1 DEF BytesOf
    <3>6. /\ b[t] \in Nat /\ c[t] = b[t] + n /\ \A q \in F : b[q] \in Nat /\ c[q] \in Nat
          /\ \A q \in F \ {t} : c[q] = b[q]
      BY <1>0, <3>1, <3>2, <3>4, <3>5
    <3>7. Total(b, F) = b[t] + Total(b, F \ {t}) /\ Total(c, F) = c[t] + Total(c, F \ {t})
      BY <3>4, <3>6, TotalWithout
    <3>8. IsFiniteSet(F \ {t}) /\ \A q \in F \ {t} : c[q] = b[q] /\ c[q] \in Nat /\ b[q] \in Nat
      BY <3>4, <3>6, FS_Subset
    <3>9. Total(c, F \ {t}) = Total(b, F \ {t}) /\ Total(b, F \ {t}) \in Nat
      BY <3>8, TotalsAgree, TotalIsNumber
    <3>10. Total(c, F) = Total(b, F) + n
      BY <3>6, <3>7, <3>9
    <3>11. Total(b, F) = counted.total
      BY <2>4 DEF Budget
    <3>12. Total(BytesOf, R!OurFiles)' = counted'.total
      BY <2>1, <3>2, <3>10, <3>11
    <3> QED
      BY <3>3, <3>12 DEF Budget
  <2> QED
    BY <2>2, <2>3, <2>4
<1>6. CASE R!CleanUp
  <2>1. counted' = counted /\ (R!Raw' <=> R!Raw)
    BY <1>6 DEF R!CleanUp, R!parentVars, R!Raw
  <2>2. ~R!Raw => output' = output
    BY <1>6 DEF R!CleanUp, R!Created, ReaderTypes
  <2>3. ~R!Raw => R!OurFiles' = R!OurFiles
    BY <2>2 DEF R!Ours, R!OurFiles
  <2>4. CASE R!Raw
    BY <2>1, <2>4 DEF Budget
  <2>5. CASE ~R!Raw
    BY <2>1, <2>2, <2>3, <2>5, SameBudget
  <2> QED
    BY <2>4, <2>5
<1>7. CASE R!CheckListing
  <2>1. Untouched /\ pass = "list" /\ counted' \in {counted, R!Zero}
    BY <1>7 DEF R!CheckListing, Untouched
  <2>2. R!OurFiles = {} /\ R!OurFiles' = {} /\ (R!Raw' <=> R!Raw)
    BY <2>1, UntouchedOurs DEF Origins, R!Ours, R!OurFiles
  <2>3. Total(BytesOf, {}) = 0 /\ Total(BytesOf', {}) = 0
    <3> PICK b, c : b = BytesOf /\ c = BytesOf'
      OBVIOUS
    <3> QED
      BY TotalOfNone
  <2>4. ~R!Raw => counted.total = 0
    BY <2>2, <2>3 DEF Budget
  <2>5. ~R!Raw => counted'.total = 0
    BY <2>1, <2>4, ZeroIs
  <2>6. Total(BytesOf, R!OurFiles)' = 0
    BY <2>2, <2>3
  <2> QED
    BY <1>0, <2>2, <2>5, <2>6 DEF Budget
<1>8. CASE R!Stray
  <2>1. counted' = counted /\ (R!Raw' <=> R!Raw)
    BY <1>8 DEF R!Stray, R!readVars, R!Raw
  <2> QED
    BY <1>8, <2>1, StrayIsTheirs, SameBudget
<1>9. CASE UNCHANGED R!vars
  <2>1. Untouched /\ counted' = counted
    BY <1>9 DEF R!vars, R!parentVars, R!readVars, Untouched
  <2> QED
    BY <2>1, UntouchedOurs, SameBudget DEF Untouched
<1> QED
  BY <1>1, <1>2, <1>3, <1>4, <1>5, <1>6, <1>7, <1>8, <1>9 DEF R!Next, CalmAction

\* The invariant holds initially.
LEMMA ReaderInit == ASSUME R!ReaderConstants, R!Init PROVE ReaderInv
<1>1. ReaderTypes
  BY ReaderTypeInit
<1>2. DOMAIN output = {} /\ counted = R!Zero /\ step = "check" /\ pass = "list" /\ strays = {}
  BY DEF R!Init
<1>3. R!Ours = {} /\ R!OurFiles = {}
  BY <1>2 DEF R!Ours, R!OurFiles
<1>4. IsFiniteSet(R!Ours) /\ Cardinality(R!OurFiles) = 0 /\ Cardinality(R!Ours \ R!OurFiles) = 0
  BY <1>3, FS_EmptySet
<1>5. Account
  BY <1>2, <1>4, Limits, ZeroIs DEF Account
<1>6. Course /\ Origins /\ Volumes
  BY <1>2, <1>3, ZeroIs DEF Course, Origins, Volumes, Early
<1>7. Budget
  BY <1>2, <1>3, ZeroIs, Limits, TotalOfNone DEF Budget
<1> QED
  BY <1>1, <1>5, <1>6, <1>7 DEF ReaderInv

\* Every step preserves the invariant.
LEMMA ReaderStep == ASSUME R!ReaderConstants, ReaderInv, [R!Next]_R!vars PROVE ReaderInv'
BY ReaderTypeStep, CourseStep, OriginsStep, AccountStep, VolumesStep, BudgetStep DEF ReaderInv

\* The invariant keeps entries and single files within the limits,
LEMMA EntriesFit == ASSUME R!ReaderConstants, ReaderInv PROVE R!EntriesWithinLimits
<1>1. /\ MaxFiles \in Nat \ {0} /\ MaxDirectories \in Nat
      /\ IsFiniteSet(R!Ours) /\ IsFiniteSet(R!OurFiles) /\ Cardinality(R!OurFiles) \in Nat
      /\ counted.files \in Nat /\ counted.directories \in Nat
  BY Limits, FilesAreFinite DEF ReaderInv, Account, ReaderTypes
<1>2. Cardinality(R!OurFiles) <= MaxFiles
  <2>1. CASE R!Raw
    <3>1. R!OurFiles \subseteq {target}
      BY <2>1 DEF ReaderInv, Origins
    <3>2. IsFiniteSet({target}) /\ Cardinality({target}) = 1
      BY FS_Singleton
    <3>3. Cardinality(R!OurFiles) <= 1
      BY <3>1, <3>2, FS_Subset
    <3> QED
      BY <1>1, <3>3
  <2>2. CASE ~R!Raw
    <3> PICK n : n = Cardinality(R!OurFiles)
      OBVIOUS
    <3>1. n <= counted.files /\ counted.files <= MaxFiles
      BY <1>1, <2>2 DEF ReaderInv, Account
    <3> QED
      BY <1>1, <3>1
  <2> QED
    BY <2>1, <2>2
<1>3. /\ Cardinality(R!Ours \ R!OurFiles) <= MaxDirectories + 1
      /\ step = "done" => Cardinality(R!Ours \ R!OurFiles) <= MaxDirectories
  BY DEF ReaderInv, Account
<1>4. \A p \in R!OurFiles : output[p].bytes <= MaxSingleFileBytes
  BY DEF ReaderInv, Volumes
<1> QED
  BY <1>2, <1>3, <1>4 DEF R!EntriesWithinLimits, R!Cardinality, Cardinality

\* and the bytes of all of them.
LEMMA OutputFits == ASSUME R!ReaderConstants, ReaderInv PROVE R!OutputWithinLimits
<1> USE DEF ReaderInv
<1>0. /\ MaxTotalBytes \in Nat /\ MaxSingleFileBytes \in Nat
      /\ MaxSingleFileBytes <= MaxTotalBytes /\ IsFiniteSet(R!OurFiles)
      /\ \A q \in R!OurFiles : BytesOf[q] = output[q].bytes /\ output[q].bytes \in Nat
  BY Limits, FilesAreFinite DEF Account, R!OurFiles, R!Ours, ReaderTypes, Entries, BytesOf,
     R!ReaderConstants
<1>1. Total(BytesOf, R!OurFiles) <= MaxTotalBytes
  <2>1. CASE ~R!Raw
    BY <2>1 DEF Budget
  <2>2. CASE R!Raw /\ R!OurFiles = {}
    BY <1>0, <2>2, TotalOfNone
  <2>3. CASE R!Raw /\ R!OurFiles # {}
    <3>1. R!OurFiles = {target}
      BY <2>3 DEF Origins
    <3>2. Total(BytesOf, R!OurFiles) = BytesOf[target] + Total(BytesOf, R!OurFiles \ {target})
      BY <1>0, <3>1, TotalWithout
    <3>3. R!OurFiles \ {target} = {}
      BY <3>1
    <3>4. Total(BytesOf, R!OurFiles) = BytesOf[target] + 0
      BY <3>2, <3>3, TotalOfNone
    <3>5. BytesOf[target] \in Nat /\ BytesOf[target] <= MaxSingleFileBytes
      BY <1>0, <3>1 DEF Volumes
    <3> QED
      BY <1>0, <3>4, <3>5
  <2> QED
    BY <2>1, <2>2, <2>3
<1>2. R!MapThenSumSet(LAMBDA p : output[p].bytes, R!OurFiles) = Total(BytesOf, R!OurFiles)
  BY SumIsTotal
     DEF BytesOf, MapThenSumSet, MapThenFoldSet, R!MapThenSumSet, R!MapThenFoldSet
<1> QED
  BY <1>1, <1>2, EntriesFit DEF R!OutputWithinLimits

\* The invariant has a failed stream leave nothing.
LEMMA NothingTorn == ASSUME ReaderInv PROVE R!NoTornStream
BY DEF ReaderInv, Origins, R!NoTornStream, R!Exists, Stranger

-----------------------------------------------------------------------------
PathOf(i) == R!Path(R!Members[i].name.parts)

\* The paths from the top to p, and the directories that member i wants.
UpTo(p) == {SubSeq(p, 1, n) : n \in 1..Len(p)}
Way(i) == UpTo(IF R!Members[i].kind = "dir" THEN PathOf(i) ELSE R!Front(PathOf(i)))

\* The members that are extracted.
Busy == {"directories", "create", "data"}
Finished == 1..(IF step \in Busy THEN position - 1 ELSE position)

\* The bytes of the first n chunks of cs.
Adding(cs, f) ==
    f = [s \in SUBSET DOMAIN cs |-> IF s = {} THEN 0 ELSE f[s \ {R!Max(s)}] + cs[R!Max(s)]]
PartOf(cs, n) == (CHOOSE f : Adding(cs, f))[1..n]

\* The rest of cs is to come, the bytes are those of the chunks before.
Reached(cs, rest, bytes) ==
    \E n \in 0..Len(cs) : rest = SubSeq(cs, n + 1, Len(cs)) /\ bytes = PartOf(cs, n)
SoFar(cs) == Reached(cs, chunks, output[target].bytes)

IsDirectory(p) == p \in DOMAIN output /\ output[p].kind = "dir"

\* What is listed, and what the second child may rely on.
Listed ==
    /\ step = "done" => pass = "extract"
    /\ step \in {"check", "candidates", "load", "open"} => position = 0
    /\ step \notin {"failing", "failed"} =>
          IF R!Raw
          THEN /\ step # "check" \/ pass = "extract" => Len(archive.name.parts) = 1
               /\ step \in {"ended", "exited"} \/ pass = "extract" => listing = <<archive.name>>
          ELSE /\ position <= Len(R!Members)
               /\ step \in {"ended", "exited", "done"} => position = Len(R!Members)
               /\ listing = [i \in 1..(IF pass = "extract" THEN Len(R!Members) ELSE position)
                                |-> R!Members[i].name]

StreamTrue ==
    /\ step = "create" \/ step \notin Early => target = R!Path(archive.name.parts)
    /\ step = "create" => chunks = archive.chunks
    /\ step \notin Early => target \in DOMAIN output
    /\ step = "data" => SoFar(archive.chunks)
    /\ step \in {"final", "ended", "exited", "done"} =>
          output[target].bytes = PartOf(archive.chunks, Len(archive.chunks))

\* A member that is extracted.
Extracted(i) ==
    /\ PathOf(i) # <<>> /\ UpTo(PathOf(i)) \subseteq DOMAIN output
    /\ output[PathOf(i)].kind = R!Members[i].kind
    /\ R!Members[i].kind = "file" =>
          output[PathOf(i)].bytes = PartOf(R!Members[i].chunks, Len(R!Members[i].chunks))

\* The member that is being extracted.
AtWork ==
    /\ position \in 1..Len(R!Members) /\ R!Member.kind \in {"file", "dir"}
    /\ target = PathOf(position) /\ target # <<>>
    /\ step = "directories" =>
          /\ chain \in Seq(Way(position)) /\ chunks = R!Member.chunks
          /\ \A p \in Way(position) : p \in R!Range(chain) \/ IsDirectory(p)
    /\ step = "create" => Way(position) \subseteq DOMAIN output /\ chunks = R!Member.chunks
    /\ step = "data" =>
          /\ R!Member.kind = "file" /\ SoFar(R!Member.chunks)
          /\ UpTo(target) \subseteq DOMAIN output
          /\ \A i \in Finished : PathOf(i) # target

MembersTrue ==
    /\ \A p \in DOMAIN output : \E i \in 1..position : p \in UpTo(PathOf(i))
    /\ \A i \in Finished : Extracted(i)
    /\ \A i, j \in Finished : i < j /\ PathOf(i) = PathOf(j) => R!Members[j].kind # "file"
    /\ step \in Busy => AtWork

\* What there is.
Things ==
    \A p \in DOMAIN output : /\ output[p].kind = "dir" => output[p].bytes = 0
                             /\ output[p].by = "other" => p \in strays

Undisturbed == pass = "extract" /\ strays = {} /\ step \notin {"failing", "failed"}
Built == Undisturbed => IF R!Raw THEN StreamTrue ELSE MembersTrue

Published == step = "done" /\ strays = {} => \A p \in DOMAIN output : R!IsPrefix(payload, p)

TruthInv == Listed /\ Things /\ Built /\ Published

-----------------------------------------------------------------------------
\* The chunks, one more each time.
LEMMA PartsAdd ==
    ASSUME NEW cs \in Seq(Nat)
    PROVE  /\ PartOf(cs, 0) = 0
           /\ \A n \in 0 .. Len(cs) - 1 : PartOf(cs, n + 1) = PartOf(cs, n) + cs[n + 1]
<1>0. Len(cs) \in Nat /\ DOMAIN cs = 1 .. Len(cs) /\ \A i \in 1 .. Len(cs) : cs[i] \in Nat
  BY LenProperties
<1> PICK S : S = DOMAIN cs
  OBVIOUS
<1>1. IsFiniteSet(S)
  BY <1>0, FS_Interval
<1>2. \A s \in SUBSET S : s # {} => R!Max(s) \in s
  <2> SUFFICES ASSUME NEW s \in SUBSET S, s # {} PROVE R!Max(s) \in s
    OBVIOUS
  <2> DEFINE T == {Len(cs) - x : x \in s}
  <2>1. T \subseteq Nat /\ T # {}
    BY <1>0
  <2>2. PICK y \in T : \A z \in T : y =< z
    BY <2>1, Smallest
  <2>3. PICK x \in s : y = Len(cs) - x
    BY <2>2
  <2>4. \A z \in s : x >= z
    <3> SUFFICES ASSUME NEW z \in s PROVE x >= z
      OBVIOUS
    <3>1. Len(cs) - z \in T /\ z \in Nat /\ x \in Nat
      BY <1>0
    <3>2. Len(cs) - x =< Len(cs) - z
      BY <2>2, <2>3, <3>1
    <3> QED
      BY <1>0, <3>1, <3>2
  <2> QED
    BY <2>4 DEF R!Max
<1>3. \E f : Adding(cs, f)
  <2> DEFINE f == [s \in SUBSET S |-> Total(cs, s)]
             Right(s) == IF s = {} THEN 0 ELSE f[s \ {R!Max(s)}] + cs[R!Max(s)]
  <2>1. ASSUME NEW s \in SUBSET S PROVE f[s] = Right(s)
    <3>1. CASE s = {}
      BY <3>1, TotalOfNone
    <3>2. CASE s # {}
      <4> PICK x : x = R!Max(s)
        OBVIOUS
      <4>1. x \in s /\ s \ {x} \in SUBSET S /\ IsFiniteSet(s) /\ \A y \in s : cs[y] \in Nat
        BY <1>0, <1>1, <1>2, <3>2, FS_Subset
      <4>2. Total(cs, s) = cs[x] + Total(cs, s \ {x})
        BY <4>1, TotalWithout
      <4>3. Total(cs, s \ {x}) \in Nat
        <5>1. IsFiniteSet(s \ {x}) /\ \A y \in s \ {x} : cs[y] \in Nat
          BY <4>1, FS_Subset
        <5> QED
          BY <5>1, TotalIsNumber
      <4> QED
        BY <3>2, <4>1, <4>2, <4>3
    <3> QED
      BY <3>1, <3>2
  <2>2. f = [s \in SUBSET S |-> Right(s)]
    BY <2>1
  <2> HIDE DEF f
  <2> QED
    BY <2>2 DEF Adding
<1> PICK f : f = CHOOSE g : Adding(cs, g)
  OBVIOUS
<1>4. Adding(cs, f)
  BY <1>3
<1> PICK h : h = [s \in SUBSET S |-> IF s = {} THEN 0 ELSE f[s \ {R!Max(s)}] + cs[R!Max(s)]]
  OBVIOUS
<1>5. f = h
  BY <1>4 DEF Adding
<1>6. \A s \in SUBSET S : f[s] = IF s = {} THEN 0 ELSE f[s \ {R!Max(s)}] + cs[R!Max(s)]
  <2>1. \A s \in SUBSET S : h[s] = IF s = {} THEN 0 ELSE f[s \ {R!Max(s)}] + cs[R!Max(s)]
    OBVIOUS
  <2> QED
    BY <1>5, <2>1
<1>7. \A n : PartOf(cs, n) = f[1..n]
  BY DEF PartOf
<1>8. PartOf(cs, 0) = 0
  <2>1. 1..0 = {}
    OBVIOUS
  <2> QED
    BY <1>6, <1>7, <2>1
<1>9. ASSUME NEW n \in 0 .. Len(cs) - 1 PROVE PartOf(cs, n + 1) = PartOf(cs, n) + cs[n + 1]
  <2> PICK s : s = 1 .. n + 1
    OBVIOUS
  <2>0. n \in Nat /\ n + 1 <= Len(cs)
    BY <1>0
  <2>1. /\ s \in SUBSET S /\ n + 1 \in s /\ s \ {n + 1} = 1 .. n
        /\ \A y \in s : n + 1 >= y
    BY <1>0, <2>0
  <2>2. R!Max(s) = n + 1
    <3>1. \A x \in s : (\A y \in s : x >= y) => x = n + 1
      BY <2>0, <2>1
    <3> QED
      BY <2>1, <3>1 DEF R!Max
  <2>3. f[s] = f[1 .. n] + cs[n + 1]
    BY <1>6, <2>1, <2>2
  <2> QED
    BY <1>7, <2>3
<1> QED
  BY <1>8, <1>9

\* The fold of the specification is the sum of all chunks.
LEMMA FoldIsAll ==
    ASSUME NEW cs \in Seq(Nat)
    PROVE  R!FoldLeft(LAMBDA n, c : n + c, 0, cs) = PartOf(cs, Len(cs))
<1>1. DOMAIN cs = 1 .. Len(cs)
  BY LenProperties
<1>2. R!FoldLeft(LAMBDA n, c : n + c, 0, cs) = (CHOOSE f : Adding(cs, f))[DOMAIN cs]
  BY DEF R!FoldLeft, R!MapThenFoldSet, Adding
<1> QED
  BY <1>1, <1>2 DEF PartOf

\* A path, and those above it.
LEMMA UpToIs ==
    ASSUME NEW S, NEW p \in Seq(S)
    PROVE  /\ R!Range(R!Steps(p)) = UpTo(p) /\ R!Steps(p) \in Seq(UpTo(p))
           /\ p # <<>> => UpTo(p) = UpTo(R!Front(p)) \cup {p}
           /\ p # <<>> => p \in UpTo(p)
           /\ \A q \in UpTo(p) : /\ q \in Seq(S) /\ Len(q) >= 1
                                 /\ SubSeq(q, 1, 1) \in UpTo(p) /\ Len(SubSeq(q, 1, 1)) = 1
<1>0. Len(p) \in Nat /\ DOMAIN p = 1 .. Len(p) /\ \A i \in 1 .. Len(p) : p[i] \in S
  BY LenProperties
<1>1. DOMAIN R!Steps(p) = 1 .. Len(p) /\ \A n \in 1 .. Len(p) : R!Steps(p)[n] = SubSeq(p, 1, n)
  BY DEF R!Steps
<1>2. R!Range(R!Steps(p)) = UpTo(p)
  BY <1>1 DEF R!Range, UpTo
<1>3. R!Steps(p) \in Seq(UpTo(p))
  BY <1>0, IsASeq DEF R!Steps, UpTo
<1>4. ASSUME NEW n \in 0 .. Len(p)
      PROVE  /\ SubSeq(p, 1, n) \in Seq(S) /\ Len(SubSeq(p, 1, n)) = n
             /\ \A i \in 1 .. n : SubSeq(p, 1, n)[i] = p[i]
  BY <1>0, SubSeqProperties
<1>5. ASSUME NEW n \in 0 .. Len(p), NEW k \in 0 .. n
      PROVE  SubSeq(SubSeq(p, 1, n), 1, k) = SubSeq(p, 1, k)
  <2> PICK q : q = SubSeq(p, 1, n)
    OBVIOUS
  <2>1. q \in Seq(S) /\ Len(q) = n /\ \A i \in 1 .. n : q[i] = p[i]
    BY <1>4
  <2>2. \A i \in 1 .. k : q[i] \in S
    BY <1>0, <2>1
  <2>3. /\ SubSeq(q, 1, k) \in Seq(S) /\ Len(SubSeq(q, 1, k)) = k
        /\ \A i \in 1 .. k : SubSeq(q, 1, k)[i] = q[i]
    BY <2>2, SubSeqProperties
  <2>4. /\ SubSeq(p, 1, k) \in Seq(S) /\ Len(SubSeq(p, 1, k)) = k
        /\ \A i \in 1 .. k : SubSeq(p, 1, k)[i] = p[i]
    BY <1>0, <1>4
  <2>5. \A i \in 1 .. k : SubSeq(q, 1, k)[i] = SubSeq(p, 1, k)[i]
    BY <2>1, <2>3, <2>4
  <2> QED
    BY <2>3, <2>4, <2>5, SeqEqual
<1>6. SubSeq(p, 1, Len(p)) = p
  <2>1. \A i \in 1 .. Len(p) : SubSeq(p, 1, Len(p))[i] = p[i]
    BY <1>0, <1>4
  <2> QED
    BY <1>0, <1>4, <2>1, SeqEqual
<1>7. p # <<>> => Len(p) \in Nat \ {0}
  BY EmptySeq
<1>8. p # <<>> => p \in UpTo(p)
  <2> SUFFICES ASSUME p # <<>> PROVE p \in UpTo(p)
    OBVIOUS
  <2>1. Len(p) \in 1 .. Len(p)
    BY <1>7
  <2>2. SubSeq(p, 1, Len(p)) \in UpTo(p)
    BY <2>1 DEF UpTo
  <2> QED
    BY <1>6, <2>2
<1>9. p # <<>> => UpTo(p) = UpTo(R!Front(p)) \cup {p}
  <2> SUFFICES ASSUME p # <<>> PROVE UpTo(p) = UpTo(R!Front(p)) \cup {p}
    OBVIOUS
  <2> PICK m : m = Len(p) - 1
    OBVIOUS
  <2>1. m \in 0 .. Len(p) /\ m + 1 = Len(p) /\ R!Front(p) = SubSeq(p, 1, m)
    BY <1>0, <1>7 DEF R!Front
  <2>2. Len(R!Front(p)) = m
    BY <1>4, <2>1
  <2>3. \A k \in 1 .. m : SubSeq(R!Front(p), 1, k) = SubSeq(p, 1, k)
    BY <1>5, <2>1
  <2>4. UpTo(R!Front(p)) = {SubSeq(p, 1, k) : k \in 1 .. m}
    BY <2>2, <2>3 DEF UpTo
  <2>5. 1 .. Len(p) = (1 .. m) \cup {Len(p)}
    BY <1>0, <2>1
  <2> QED
    BY <1>6, <2>4, <2>5 DEF UpTo
<1>10. ASSUME NEW q \in UpTo(p)
       PROVE  /\ q \in Seq(S) /\ Len(q) >= 1
              /\ SubSeq(q, 1, 1) \in UpTo(p) /\ Len(SubSeq(q, 1, 1)) = 1
  <2>1. PICK n \in 1 .. Len(p) : q = SubSeq(p, 1, n)
    BY DEF UpTo
  <2>2. n \in 0 .. Len(p) /\ 1 \in 0 .. n /\ 1 \in 0 .. Len(p) /\ 1 \in 1 .. Len(p) /\ n >= 1
    BY <1>0, <2>1
  <2>3. q \in Seq(S) /\ Len(q) = n
    BY <1>4, <2>1, <2>2
  <2>4. SubSeq(q, 1, 1) = SubSeq(p, 1, 1)
    BY <1>5, <2>1, <2>2
  <2> QED
    BY <1>4, <2>2, <2>3, <2>4 DEF UpTo
<1> QED
  BY <1>2, <1>3, <1>8, <1>9, <1>10

\* A name and its path.
LEMMA PathIs ==
    ASSUME NEW parts, parts \in Seq(R!Range(parts))
    PROVE  /\ R!Path(parts) \in Seq(R!Range(R!Path(parts))) /\ Len(R!Path(parts)) = Len(parts)
           /\ Len(parts) \in Nat
           /\ parts # <<>> => R!Path(parts) # <<>>
<1>1. Len(parts) \in Nat
  BY LenProperties
<1>2. DOMAIN R!Path(parts) = 1 .. Len(parts)
      /\ R!Path(parts) = [i \in 1 .. Len(parts) |-> Volume[parts[i]]]
  BY DEF R!Path, R!Folded
<1>3. \A i \in 1 .. Len(parts) : Volume[parts[i]] \in R!Range(R!Path(parts))
  BY <1>2 DEF R!Range
<1>4. R!Path(parts) \in Seq(R!Range(R!Path(parts)))
  BY <1>1, <1>2, <1>3, IsASeq
<1>5. Len(R!Path(parts)) = Len(parts)
  BY <1>1, <1>2, <1>4, LenProperties
<1>6. parts # <<>> => Len(parts) # 0
  BY EmptySeq
<1> QED
  BY <1>1, <1>4, <1>5, <1>6, EmptySeq

\* The archives are sequences of members with names and data.
LEMMA MembersAre ==
    ASSUME R!ReaderConstants, ReaderTypes
    PROVE  /\ R!Raw => /\ archive.chunks \in Seq(Nat)
                       /\ archive.name.parts \in Seq(R!Range(archive.name.parts))
           /\ ~R!Raw => /\ Len(R!Members) \in Nat
                        /\ \A i \in 1 .. Len(R!Members) :
                              /\ R!Members[i].chunks \in Seq(Nat)
                              /\ R!Members[i].name.parts \in Seq(R!Range(R!Members[i].name.parts))
<1>1. CASE R!Raw
  BY <1>1 DEF R!ReaderConstants, ReaderTypes, R!Raw
<1>2. CASE ~R!Raw
  <2>1. /\ R!Members \in Seq(R!Range(R!Members))
        /\ \A i \in 1 .. Len(R!Members) :
              /\ R!Members[i].chunks \in Seq(Nat)
              /\ R!Members[i].name.parts \in Seq(R!Range(R!Members[i].name.parts))
    BY <1>2 DEF R!ReaderConstants, ReaderTypes, R!Raw, R!Members
  <2> QED
    BY <1>2, <2>1, LenProperties
<1> QED
  BY <1>1, <1>2

\* The path of a member is a sequence.
LEMMA MemberPaths ==
    ASSUME R!ReaderConstants, ReaderTypes, ~R!Raw, NEW i \in 1 .. Len(R!Members)
    PROVE  PathOf(i) \in Seq(R!Range(PathOf(i)))
BY MembersAre, PathIs DEF PathOf

\* The invariant holds initially.
LEMMA TruthInit == ASSUME R!ReaderConstants, R!Init PROVE TruthInv
<1>1. /\ step = "check" /\ pass = "list" /\ DOMAIN output = {} /\ position = 0
      /\ listing = <<>>
  BY DEF R!Init
<1>2. ~R!Raw => Len(R!Members) \in Nat
  BY MembersAre, ReaderTypeInit
<1>3. [i \in 1 .. 0 |-> R!Members[i].name] = <<>>
  OBVIOUS
<1>4. Listed
  BY <1>1, <1>2, <1>3 DEF Listed
<1> QED
  BY <1>1, <1>4 DEF TruthInv, Things, Built, Undisturbed, Published

\* The archive does not change.
LEMMA ArchiveStays ==
    ASSUME [R!Next]_R!vars
    PROVE  archive' = archive /\ (R!Raw' <=> R!Raw) /\ R!Members' = R!Members
<1>1. archive' = archive
  BY DEF R!Next, R!vars, R!parentVars, R!CallFails, R!Check, R!ReadCandidates, R!Load, R!Open,
     R!LastHeader,
         R!ListMember, R!Skip, R!ExtractMember, R!EnsureDirectory, R!ChainComplete, R!CreateTarget,
         R!ReadData, R!DataComplete, R!RawHeader, R!RawFinal, R!CleanUp, R!Close, R!CheckListing,
         R!ChoosePayload, R!Stray
<1> QED
  BY <1>1 DEF R!Raw, R!Members

\* Every step preserves what is known of the listing.
LEMMA ListedStep ==
    ASSUME R!ReaderConstants, ReaderTypes, Course, Listed, [R!Next]_R!vars
    PROVE  Listed'
<1>0. archive' = archive /\ (R!Raw' <=> R!Raw) /\ R!Members' = R!Members
  BY ArchiveStays
<1>m. position \in Nat /\ (~R!Raw => Len(R!Members) \in Nat)
  BY MembersAre DEF ReaderTypes
<1>1. CASE R!CallFails \/ R!CleanUp
  BY <1>1 DEF R!CallFails, R!CleanUp, R!Fail, Listed
<1>2. CASE R!Check
  BY <1>0, <1>2 DEF R!Check, R!Fail, R!RawPathsOK, Listed, R!parentVars, R!readVars
<1>3. CASE R!ReadCandidates \/ R!Load \/ R!Open
  <2>1. /\ UNCHANGED <<pass, position, listing>> /\ step \in {"candidates", "load", "open"}
        /\ step' \in {"failing", "load", "open", "stream", "header"}
    BY <1>3 DEF R!ReadCandidates, R!Load, R!Open, R!Fail, R!parentVars, R!readVars
  <2> QED
    BY <1>0, <2>1 DEF Listed
<1>4. CASE R!LastHeader
  BY <1>0, <1>4 DEF R!LastHeader, Listed, Course, R!parentVars, R!readVars
<1>5. CASE R!ListMember
  <2>1. pass = "list" /\ pass' = "list" /\ step = "header" /\ position' = position + 1
        /\ position < Len(R!Members) /\ ~R!Raw
    BY <1>5 DEF R!ListMember, R!MoreMembers, R!parentVars, Course
  <2>2. CASE step' = "failing"
    BY <2>1, <2>2 DEF Listed
  <2>3. CASE step' # "failing"
    <3>1. step' = "skip" /\ listing' = Append(listing, R!Members[position + 1].name)
      BY <1>5, <2>3 DEF R!ListMember, R!Fail
    <3>2. listing = [i \in 1 .. position |-> R!Members[i].name]
      BY <2>1 DEF Listed
    <3>3. Append(listing, R!Members[position + 1].name)
              = [i \in 1 .. position + 1 |-> R!Members[i].name]
      <4> PICK S : S = {R!Members[i].name : i \in 1 .. position + 1}
        OBVIOUS
      <4>1. listing \in Seq(S)
        BY <1>m, <3>2, IsASeq
      <4>2. Len(listing) = position
        BY <1>m, <3>2, <4>1, LenProperties
      <4> QED
        BY <1>m, <3>2, <4>1, <4>2, AppendProperties
    <3> QED
      BY <1>0, <1>m, <2>1, <3>1, <3>3 DEF Listed
  <2> QED
    BY <2>2, <2>3
<1>6. CASE \/ R!Skip \/ R!EnsureDirectory \/ R!ChainComplete \/ R!CreateTarget \/ R!ReadData
           \/ R!DataComplete \/ R!RawHeader
  <2>1. /\ UNCHANGED <<pass, position, listing>>
        /\ step \notin {"check", "failing", "failed"}
        /\ step' \in {"failing", "header", "directories", "skip", "create", "data", "final"}
    BY <1>6 DEF R!Skip, R!EnsureDirectory, R!ChainComplete, R!CreateTarget, R!ReadData,
       R!DataComplete,
                R!RawHeader, R!Fail, R!parentVars, R!readVars
  <2> QED
    BY <1>0, <2>1 DEF Listed
<1>7. CASE R!ExtractMember
  <2>1. /\ pass = "extract" /\ pass' = "extract" /\ step = "header" /\ position' = position + 1
        /\ position < Len(R!Members) /\ ~R!Raw /\ listing' = listing
        /\ step' \in {"directories", "failing"}
    BY <1>7 DEF R!ExtractMember, R!MoreMembers, R!parentVars, Course, R!Fail
  <2> QED
    BY <1>0, <1>m, <2>1 DEF Listed
<1>8. CASE R!RawFinal
  <2>1. /\ R!Raw /\ UNCHANGED <<pass, position>> /\ step = "final"
        /\ \/ step' = "failing"
           \/ /\ step' = "ended"
              /\ pass = "list" => listing' = <<archive.name>>
              /\ pass # "list" => listing' = listing
    BY <1>8 DEF R!RawFinal, R!Fail, Course, R!parentVars, R!readVars
  <2>2. pass = "list" \/ pass = "extract"
    BY DEF ReaderTypes, R!TypeOK
  <2> QED
    BY <1>0, <2>1, <2>2 DEF Listed
<1>9. CASE R!Close
  BY <1>0, <1>9 DEF R!Close, Listed, R!parentVars
<1>10. CASE R!CheckListing
  BY <1>0, <1>m, <1>10 DEF R!CheckListing, Listed
<1>11. CASE R!ChoosePayload
  BY <1>0, <1>11 DEF R!ChoosePayload, Listed, R!readVars
<1>12. CASE R!Stray
  BY <1>0, <1>12 DEF R!Stray, Listed, R!readVars
<1>13. CASE UNCHANGED R!vars
  BY <1>0, <1>13 DEF R!vars, R!parentVars, R!readVars, Listed
<1> QED
  BY <1>1, <1>2, <1>3, <1>4, <1>5, <1>6, <1>7, <1>8, <1>9, <1>10, <1>11, <1>12, <1>13 DEF R!Next

\* A directory has no bytes, and what is not the child's is another program's.
LEMMA ThingsStep ==
    ASSUME ReaderTypes, Origins, Volumes, Things, [R!Next]_R!vars
    PROVE  Things'
<1>1. CASE R!EnsureDirectory \/ R!CreateTarget
  <2>1. strays' = strays
    BY <1>1 DEF R!EnsureDirectory, R!CreateTarget, R!parentVars
  <2>2. PICK kind \in {"file", "dir"} : \E p : output' = output \/ output' = R!Put(p, R!New(kind))
    <3>1. \/ output' = output \/ output' = R!Put(Head(chain), R!New("dir"))
          \/ output' = R!Put(target, R!New("file"))
      BY <1>1 DEF R!EnsureDirectory, R!CreateTarget
    <3> QED
      BY <3>1
  <2> PICK p : output' = output \/ output' = R!Put(p, R!New(kind))
    BY <2>2
  <2>3. R!New(kind).by = "child" /\ R!New(kind).bytes = 0
    BY NewIs
  <2>4. \A q \in DOMAIN R!Put(p, R!New(kind)) :
            R!Put(p, R!New(kind))[q] = R!New(kind)
            \/ (q \in DOMAIN output /\ R!Put(p, R!New(kind))[q] = output[q])
    BY DEF R!Put
  <2> QED
    BY <2>1, <2>3, <2>4 DEF Things
<1>2. CASE R!ReadData
  <2>1. strays' = strays /\ step = "data"
    BY <1>2 DEF R!ReadData, R!parentVars
  <2>2. PICK n : output' = output
                 \/ (pass = "extract" /\ output' = [output EXCEPT ![target].bytes = @ + n])
    BY <1>2 DEF R!ReadData
  <2>3. CASE output' = output
    BY <2>1, <2>3 DEF Things
  <2>4. CASE pass = "extract" /\ output' = [output EXCEPT ![target].bytes = @ + n]
    <3>1. target \in R!OurFiles /\ output[target] \in Entries
      BY <2>1, <2>4 DEF Volumes, R!OurFiles, R!Ours, ReaderTypes
    <3>2. /\ DOMAIN output' = DOMAIN output
          /\ \A q \in DOMAIN output : q # target => output'[q] = output[q]
      BY <2>4
    <3>3. output'[target] = [output[target] EXCEPT !.bytes = @ + n]
      BY <2>4, <3>1 DEF R!OurFiles, R!Ours
    <3>4. output'[target].kind = "file" /\ output'[target].by = "child"
      BY <3>1, <3>3 DEF Entries, R!OurFiles, R!Ours
    <3> QED
      BY <2>1, <3>2, <3>4 DEF Things
  <2> QED
    BY <2>2, <2>3, <2>4
<1>3. CASE R!CleanUp
  <2>1. strays' = strays /\ \A q \in DOMAIN output' : q \in DOMAIN output /\ output'[q] = output[q]
    BY <1>3, CleanedUp DEF R!CleanUp, R!parentVars
  <2> QED
    BY <2>1 DEF Things
<1>4. CASE R!Stray
  <2>1. PICK p : output' = R!Put(p, Stranger) /\ strays' = {p} /\ strays = {}
    BY <1>4 DEF R!Stray, Stranger
  <2>2. \A q \in DOMAIN output' : (q = p /\ output'[q] = Stranger)
                                 \/ (q \in DOMAIN output /\ output'[q] = output[q])
    BY <2>1 DEF R!Put
  <2> QED
    BY <2>1, <2>2 DEF Things, Stranger
<1>5. CASE \/ CalmAction \/ R!ListMember \/ R!ExtractMember \/ R!RawHeader \/ R!CheckListing
           \/ UNCHANGED R!vars
  <2>1. output' = output /\ strays' = strays
    BY <1>5, CalmSteps DEF Calm, R!ListMember, R!ExtractMember, R!RawHeader, R!CheckListing,
       R!vars, R!parentVars
  <2> QED
    BY <2>1 DEF Things
<1> QED
  BY <1>1, <1>2, <1>3, <1>4, <1>5 DEF R!Next, CalmAction

\* At first all of it is to come.
LEMMA ReachedAtFirst == ASSUME NEW cs \in Seq(Nat) PROVE Reached(cs, cs, 0)
<1>1. Len(cs) \in Nat /\ PartOf(cs, 0) = 0
  BY LenProperties, PartsAdd
<1>2. cs = SubSeq(cs, 0 + 1, Len(cs))
  <2>1. \A i \in 1 .. Len(cs) : cs[i] \in Nat
    BY LenProperties
  <2>2. /\ SubSeq(cs, 1, Len(cs)) \in Seq(Nat) /\ Len(SubSeq(cs, 1, Len(cs))) = Len(cs)
        /\ \A i \in 1 .. Len(cs) : SubSeq(cs, 1, Len(cs))[i] = cs[i]
    BY <1>1, <2>1, SubSeqProperties
  <2> QED
    BY <2>2, SeqEqual
<1> QED
  BY <1>1, <1>2 DEF Reached

\* The next chunk.
LEMMA ReachedNext ==
    ASSUME NEW cs \in Seq(Nat), NEW rest, rest # <<>>, NEW b, Reached(cs, rest, b)
    PROVE  Reached(cs, Tail(rest), b + Head(rest))
<1>0. Len(cs) \in Nat
  BY LenProperties
<1>1. PICK n \in 0 .. Len(cs) : rest = SubSeq(cs, n + 1, Len(cs)) /\ b = PartOf(cs, n)
  BY DEF Reached
<1>2. n # Len(cs)
  BY <1>0, <1>1, SubSeqEmpty
<1>3. n \in 0 .. Len(cs) - 1 /\ n + 1 \in 1 .. Len(cs) /\ Len(cs) \in n + 1 .. Len(cs)
  BY <1>0, <1>2
<1>4. Head(rest) = cs[n + 1] /\ Tail(rest) = SubSeq(cs, (n + 1) + 1, Len(cs))
  BY <1>1, <1>3, HeadTailOfSubSeq
<1>5. PartOf(cs, n + 1) = PartOf(cs, n) + cs[n + 1]
  BY <1>3, PartsAdd
<1>6. n + 1 \in 0 .. Len(cs)
  BY <1>0, <1>3
<1> QED
  BY <1>1, <1>4, <1>5, <1>6 DEF Reached

\* At last all of it is written.
LEMMA ReachedAll ==
    ASSUME NEW cs \in Seq(Nat), NEW b, Reached(cs, <<>>, b)
    PROVE  b = PartOf(cs, Len(cs))
<1>0. Len(cs) \in Nat /\ \A i \in 1 .. Len(cs) : cs[i] \in Nat
  BY LenProperties
<1>1. PICK n \in 0 .. Len(cs) : <<>> = SubSeq(cs, n + 1, Len(cs)) /\ b = PartOf(cs, n)
  BY DEF Reached
<1> PICK m : m = Len(cs)
  OBVIOUS
<1>2. CASE n # m
  <2>1. m \in Int /\ n + 1 \in Int /\ n + 1 <= m
    BY <1>0, <1>2
  <2>2. \A i \in n + 1 .. m : cs[i] \in Nat
    BY <1>0, <2>1
  <2>3. Len(SubSeq(cs, n + 1, m)) = m - (n + 1) + 1
    BY <2>1, <2>2, SubSeqProperties
  <2>4. Len(SubSeq(cs, n + 1, m)) = 0
    BY <1>1, EmptySeq
  <2>5. m - (n + 1) + 1 # 0
    BY <1>0, <1>2, <2>1
  <2> QED
    BY <2>3, <2>4, <2>5
<1> QED
  BY <1>1, <1>2

\* The paths of the members do not change.
LEMMA PathsStay ==
    ASSUME archive' = archive, NEW i
    PROVE  PathOf(i)' = PathOf(i) /\ Way(i)' = Way(i) /\ R!Members'[i] = R!Members[i]
BY DEF PathOf, Way, R!Members

\* A member that is extracted stays so while its path is left alone.
LEMMA ExtractedStays ==
    ASSUME archive' = archive, NEW i, Extracted(i), DOMAIN output \subseteq DOMAIN output',
           output'[PathOf(i)] = output[PathOf(i)]
    PROVE  Extracted(i)'
BY PathsStay DEF Extracted

\* A chunk is written.
LEMMA ChunkWritten ==
    ASSUME ReaderTypes, Volumes, R!ReadData, pass = "extract", step' # "failing"
    PROVE  /\ step = "data" /\ step' = "data" /\ chunks # <<>> /\ chunks' = Tail(chunks)
           /\ UNCHANGED <<archive, pass, strays, position, chain, target>>
           /\ DOMAIN output' = DOMAIN output /\ target \in DOMAIN output
           /\ \A q \in DOMAIN output : q # target => output'[q] = output[q]
           /\ output'[target].kind = output[target].kind
           /\ output'[target].bytes = output[target].bytes + Head(chunks)
<1>1. /\ step = "data" /\ step' = "data" /\ chunks # <<>> /\ chunks' = Tail(chunks)
      /\ UNCHANGED <<archive, pass, strays, position, chain, target>>
      /\ output' = [output EXCEPT ![target].bytes = @ + Head(chunks)]
  BY DEF R!ReadData, R!Fail, R!parentVars
<1>2. target \in DOMAIN output /\ output[target] \in Entries
  BY <1>1 DEF Volumes, R!OurFiles, R!Ours, ReaderTypes
<1>3. DOMAIN output' = DOMAIN output
      /\ \A q \in DOMAIN output : q # target => output'[q] = output[q]
  BY <1>1
<1>4. output'[target] = [output[target] EXCEPT !.bytes = @ + Head(chunks)]
  BY <1>1, <1>2
<1>5. output'[target].kind = output[target].kind
      /\ output'[target].bytes = output[target].bytes + Head(chunks)
  BY <1>2, <1>4 DEF Entries
<1> QED
  BY <1>1, <1>2, <1>3, <1>5

\* These steps are none of a failed operation.
LEMMA CalmLives == ASSUME CalmAction PROVE step \notin {"failing", "failed"}
BY DEF CalmAction, R!CallFails, R!Check, R!ReadCandidates, R!Load, R!Open, R!LastHeader,
   R!Skip, R!ChainComplete,
       R!DataComplete, R!RawFinal, R!Close, R!ChoosePayload

\* A step of an extraction that nobody disturbs, or the one that begins it.
LEMMA StillUndisturbed ==
    ASSUME [R!Next]_R!vars, Undisturbed'
    PROVE  Undisturbed \/ R!CheckListing
<1> SUFFICES ASSUME ~R!CheckListing PROVE Undisturbed
  OBVIOUS
<1>1. pass' = "extract" /\ strays' = {} /\ step' # "failing" /\ step' # "failed"
  BY DEF Undisturbed
<1>2. CASE CalmAction
  BY <1>1, <1>2, CalmSteps, CalmLives DEF Calm, Undisturbed
<1>3. CASE \/ R!ListMember \/ R!ExtractMember \/ R!EnsureDirectory \/ R!CreateTarget \/ R!ReadData
           \/ R!RawHeader
  <2>1. pass' = pass /\ strays' = strays
    BY <1>3 DEF R!ListMember, R!ExtractMember, R!EnsureDirectory, R!CreateTarget, R!ReadData,
       R!RawHeader,
                R!parentVars
  <2>2. step \in {"header", "directories", "create", "data", "stream"}
    BY <1>3 DEF R!ListMember, R!ExtractMember, R!MoreMembers, R!EnsureDirectory,
       R!CreateTarget, R!ReadData,
                R!RawHeader
  <2> QED
    BY <1>1, <2>1, <2>2 DEF Undisturbed
<1>4. CASE R!CleanUp \/ R!Stray
  BY <1>1, <1>4 DEF R!CleanUp, R!Stray
<1>5. CASE UNCHANGED R!vars
  BY <1>1, <1>5 DEF R!vars, R!parentVars, Undisturbed
<1> QED
  BY <1>2, <1>3, <1>4, <1>5 DEF R!Next, CalmAction

\* Every step that nobody disturbs preserves what is known of the output of a stream.
LEMMA StreamStep ==
    ASSUME R!ReaderConstants, ReaderInv, TruthInv, [R!Next]_R!vars, Undisturbed', R!Raw
    PROVE  StreamTrue'
<1> USE DEF ReaderInv, TruthInv
<1>0. archive' = archive /\ archive.chunks \in Seq(Nat)
  BY ArchiveStays, MembersAre
<1>1. CASE R!CheckListing
  BY <1>1 DEF R!CheckListing, StreamTrue, Early, Undisturbed
<1>2. CASE ~R!CheckListing
  <2>0. Undisturbed /\ StreamTrue /\ step' # "failing" /\ step' # "failed"
    BY <1>2, StillUndisturbed DEF Built, Undisturbed
  <2>p. pass = "extract" /\ step \notin {"failing", "failed"}
    BY <2>0 DEF Undisturbed
  <2>1. CASE R!Check \/ R!ReadCandidates \/ R!Load \/ R!Open
    <3>1. step' \in Early \ {"create"}
      BY <2>0, <2>1 DEF R!Check, R!ReadCandidates, R!Load, R!Open, R!Fail, Early
    <3> QED
      BY <3>1 DEF StreamTrue, Early
  <2>2. CASE R!RawHeader
    <3>1. step' = "create" /\ target' = R!Path(archive.name.parts) /\ chunks' = archive.chunks
      BY <2>0, <2>p, <2>2 DEF R!RawHeader, R!Fail
    <3> QED
      BY <1>0, <3>1 DEF StreamTrue, Early
  <2>3. CASE R!CreateTarget
    <3>1. /\ step = "create" /\ step' = "data" /\ output' = R!Put(target, R!New("file"))
          /\ UNCHANGED <<target, chunks>>
      BY <2>0, <2>3 DEF R!CreateTarget, R!Fail, R!readVars
    <3>2. target = R!Path(archive.name.parts) /\ chunks = archive.chunks
      BY <2>0, <3>1 DEF StreamTrue
    <3>3. target \in DOMAIN output' /\ output'[target].bytes = 0
      <4>1. R!New("file").bytes = 0
        BY NewIs
      <4> QED
        BY <3>1, <4>1 DEF R!Put
    <3>4. Reached(archive.chunks, chunks, 0)
      BY <1>0, <3>2, ReachedAtFirst
    <3> QED
      BY <1>0, <3>1, <3>2, <3>3, <3>4 DEF StreamTrue, Early, SoFar
  <2>4. CASE R!ReadData
    <3>1. /\ step = "data" /\ step' = "data" /\ chunks # <<>> /\ chunks' = Tail(chunks)
          /\ target' = target /\ DOMAIN output' = DOMAIN output
          /\ output'[target].bytes = output[target].bytes + Head(chunks)
      BY <2>0, <2>p, <2>4, ChunkWritten
    <3>2. Reached(archive.chunks, chunks, output[target].bytes)
      BY <2>0, <3>1 DEF StreamTrue, SoFar
    <3>3. Reached(archive.chunks, Tail(chunks), output[target].bytes + Head(chunks))
      BY <1>0, <3>1, <3>2, ReachedNext
    <3> QED
      BY <1>0, <2>0, <3>1, <3>3 DEF StreamTrue, Early, SoFar
  <2>5. CASE R!DataComplete
    <3>1. /\ step = "data" /\ step' = "final" /\ chunks = <<>>
          /\ UNCHANGED <<target, output>>
      BY <2>5 DEF R!DataComplete, R!readVars
    <3>2. Reached(archive.chunks, <<>>, output[target].bytes)
      BY <2>0, <3>1 DEF StreamTrue, SoFar
    <3>3. output[target].bytes = PartOf(archive.chunks, Len(archive.chunks))
      BY <1>0, <3>2, ReachedAll
    <3> QED
      BY <1>0, <2>0, <3>1, <3>3 DEF StreamTrue, Early
  <2>6. CASE R!RawFinal \/ R!Close \/ R!ChoosePayload
    <3>1. /\ step \in {"final", "ended", "exited"} /\ step' \in {"ended", "exited", "done"}
          /\ UNCHANGED <<target, output>>
      BY <2>0, <2>6 DEF R!RawFinal, R!Close, R!ChoosePayload, R!Fail, R!readVars
    <3> QED
      BY <1>0, <2>0, <3>1 DEF StreamTrue, Early
  <2>7. CASE UNCHANGED R!vars
    BY <2>0, <2>7 DEF R!vars, R!parentVars, R!readVars, StreamTrue, SoFar
  <2>8. CASE R!CallFails \/ R!CleanUp
    BY <2>0, <2>8 DEF R!CallFails, R!CleanUp, R!Fail
  <2>9. CASE \/ R!LastHeader \/ R!ListMember \/ R!Skip \/ R!ExtractMember \/ R!EnsureDirectory
             \/ R!ChainComplete
    BY <2>9 DEF Course, R!LastHeader, R!ListMember, R!Skip, R!ExtractMember, R!MoreMembers,
                R!EnsureDirectory, R!ChainComplete
  <2>10. CASE R!Stray
    BY <2>10 DEF R!Stray, Undisturbed
  <2> QED
    BY <1>2, <2>1, <2>2, <2>3, <2>4, <2>5, <2>6, <2>7, <2>8, <2>9, <2>10 DEF R!Next
<1> QED
  BY <1>1, <1>2

\* A path without its last part.
LEMMA FrontIsSeq == ASSUME NEW S, NEW p \in Seq(S) PROVE R!Front(p) \in Seq(S)
<1>1. Len(p) \in Nat /\ \A i \in 1 .. Len(p) - 1 : p[i] \in S
  BY LenProperties
<1> QED
  BY <1>1, SubSeqProperties DEF R!Front

\* The directories that a member wants are those above its path, and itself if it is one.
LEMMA WayIsUpTo ==
    ASSUME R!ReaderConstants, ReaderTypes, ~R!Raw, NEW i \in 1 .. Len(R!Members), PathOf(i) # <<>>
    PROVE  /\ Way(i) \subseteq UpTo(PathOf(i)) /\ UpTo(PathOf(i)) \subseteq Way(i) \cup {PathOf(i)}
           /\ R!Members[i].kind = "dir" => UpTo(PathOf(i)) = Way(i)
BY MemberPaths, UpToIs DEF Way

\* A state of an extraction in which no member is being extracted.
LEMMA MembersAtRest ==
    ASSUME MembersTrue, UNCHANGED <<archive, output, position>>, step \notin Busy, step' \notin Busy
    PROVE  MembersTrue'
<1>1. Finished' = Finished /\ R!Members' = R!Members
  BY DEF Finished, R!Members
<1>2. \A i : PathOf(i)' = PathOf(i)
  BY PathsStay
<1>3. \A i \in Finished : Extracted(i)'
  BY ExtractedStays DEF MembersTrue
<1> QED
  BY <1>1, <1>2, <1>3 DEF MembersTrue

\* The next member.
LEMMA HeaderRead ==
    ASSUME R!ReaderConstants, ReaderInv, MembersTrue, ~R!Raw, R!ExtractMember, step' # "failing"
    PROVE  MembersTrue'
<1> USE DEF ReaderInv
<1> PICK k : k = position + 1
  OBVIOUS
<1>0. position \in Nat /\ Len(R!Members) \in Nat /\ k \in 1 .. Len(R!Members) /\ k \in Nat
  BY MembersAre DEF ReaderTypes, R!ExtractMember, R!MoreMembers
<1>1. /\ step = "header" /\ step' = "directories" /\ position' = k
      /\ archive' = archive /\ output' = output
      /\ target' = PathOf(k) /\ chunks' = R!Members[k].chunks
      /\ chain' = R!Steps(IF R!Members[k].kind = "dir" THEN PathOf(k) ELSE R!Front(PathOf(k)))
      /\ R!Members[k].kind \in {"file", "dir"} /\ R!Members[k].name.parts # <<>>
  BY DEF R!ExtractMember, R!MoreMembers, R!Fail, R!MemberPathOK, R!Readable, PathOf,
     R!parentVars
<1>2. PathOf(k) # <<>> /\ PathOf(k) \in Seq(R!Range(PathOf(k)))
  BY <1>0, <1>1, MembersAre, PathIs DEF PathOf
<1>3. Finished' = Finished /\ Finished = 1 .. position /\ R!Members' = R!Members
  BY <1>0, <1>1 DEF Finished, Busy, R!Members
<1>4. \A i : PathOf(i)' = PathOf(i) /\ Way(i)' = Way(i)
  BY <1>1, PathsStay
<1>5. \A i \in Finished : Extracted(i)'
  BY <1>1, ExtractedStays DEF MembersTrue
<1>6. chain' \in Seq(Way(k)) /\ Way(k) = R!Range(chain')
  <2> PICK p : p = IF R!Members[k].kind = "dir" THEN PathOf(k) ELSE R!Front(PathOf(k))
    OBVIOUS
  <2> PICK S : S = R!Range(PathOf(k))
    OBVIOUS
  <2>1. R!Front(PathOf(k)) \in Seq(S)
    BY <1>2, FrontIsSeq
  <2>2. p \in Seq(S)
    BY <1>2, <2>1
  <2>3. Way(k) = UpTo(p) /\ chain' = R!Steps(p)
    BY <1>1 DEF Way
  <2> QED
    BY <2>2, <2>3, UpToIs
<1>7. AtWork'
  <2>1. position' \in 1 .. Len(R!Members') /\ R!Member' = R!Members[k]
    BY <1>0, <1>1, <1>3 DEF R!Member
  <2> QED
    BY <1>1, <1>2, <1>4, <1>6, <2>1 DEF AtWork
<1>8. \A p \in DOMAIN output' : \E i \in 1 .. position' : p \in UpTo(PathOf(i)')
  <2> SUFFICES ASSUME NEW p \in DOMAIN output PROVE \E i \in 1 .. k : p \in UpTo(PathOf(i))
    BY <1>1, <1>4
  <2>1. PICK i \in 1 .. position : p \in UpTo(PathOf(i))
    BY DEF MembersTrue
  <2> QED
    BY <1>0, <2>1
<1>9. \A i, j \in Finished' : i < j /\ PathOf(i)' = PathOf(j)' => R!Members'[j].kind # "file"
  BY <1>3, <1>4 DEF MembersTrue
<1> QED
  BY <1>3, <1>5, <1>7, <1>8, <1>9 DEF MembersTrue

\* A directory on the way to it.
LEMMA DirectoryReady ==
    ASSUME R!ReaderConstants, ReaderInv, MembersTrue, ~R!Raw, R!EnsureDirectory, step' # "failing"
    PROVE  MembersTrue'
<1> USE DEF ReaderInv
<1> PICK d : d = Head(chain)
  OBVIOUS
<1>1. /\ step = "directories" /\ step' = "directories" /\ chain # <<>> /\ chain' = Tail(chain)
      /\ UNCHANGED <<archive, position, target, chunks>>
      /\ \/ d \notin DOMAIN output /\ output' = R!Put(d, R!New("dir"))
         \/ d \in DOMAIN output /\ output[d].kind = "dir" /\ output' = output
  BY DEF R!EnsureDirectory, R!Fail, R!parentVars, R!Exists
<1>2. AtWork /\ Finished' = Finished /\ R!Members' = R!Members /\ R!Member' = R!Member
  BY <1>1 DEF MembersTrue, Busy, Finished, R!Members, R!Member
<1>3. \A i : PathOf(i)' = PathOf(i) /\ Way(i)' = Way(i)
  BY <1>1, PathsStay
<1>4. /\ DOMAIN output' = DOMAIN output \cup {d}
      /\ \A q \in DOMAIN output : output'[q] = output[q]
      /\ output'[d].kind = "dir"
  <2>1. R!New("dir").kind = "dir"
    BY NewIs
  <2> QED
    BY <1>1, <2>1 DEF R!Put
<1>5. /\ chain \in Seq(Way(position)) /\ chunks = R!Member.chunks
      /\ \A p \in Way(position) : p \in R!Range(chain) \/ IsDirectory(p)
  BY <1>1, <1>2 DEF AtWork
<1>6. d \in Way(position) /\ Tail(chain) \in Seq(Way(position))
      /\ R!Range(chain) \subseteq {d} \cup R!Range(Tail(chain))
  <2> PICK S : S = Way(position)
    OBVIOUS
  <2>1. /\ chain \in Seq(S) /\ Tail(chain) \in Seq(S) /\ Head(chain) \in S
        /\ Len(Tail(chain)) = Len(chain) - 1
        /\ \A i \in 1 .. Len(Tail(chain)) : Tail(chain)[i] = chain[i + 1]
        /\ Len(chain) \in Nat /\ DOMAIN chain = 1 .. Len(chain)
        /\ DOMAIN Tail(chain) = 1 .. Len(Tail(chain))
    BY <1>1, <1>5, HeadTailProperties, LenProperties
  <2>2. ASSUME NEW n \in 1 .. Len(chain) PROVE chain[n] \in {d} \cup R!Range(Tail(chain))
    <3>1. CASE n = 1
      BY <2>1, <3>1
    <3>2. CASE n # 1
      <4>1. n - 1 \in 1 .. Len(Tail(chain))
        BY <2>1, <3>2
      <4>2. Tail(chain)[n - 1] = chain[n]
        BY <2>1, <4>1
      <4> QED
        BY <2>1, <4>1, <4>2 DEF R!Range
    <3> QED
      BY <3>1, <3>2
  <2> QED
    BY <2>1, <2>2 DEF R!Range
<1>7. ASSUME NEW i \in Finished PROVE Extracted(i)'
  <2>1. Extracted(i)
    BY DEF MembersTrue
  <2>2. i \in 1 .. Len(R!Members)
    BY <1>1, <1>2 DEF AtWork, Finished, Busy
  <2>3. PathOf(i) \in UpTo(PathOf(i))
    BY <2>1, <2>2, MemberPaths, UpToIs DEF Extracted
  <2>4. PathOf(i) \in DOMAIN output
    BY <2>1, <2>3 DEF Extracted
  <2> QED
    BY <1>1, <1>4, <2>1, <2>4, ExtractedStays
<1>8. AtWork'
  <2>1. \A p \in Way(position) : p \in R!Range(chain') \/ IsDirectory(p)'
    <3> SUFFICES ASSUME NEW p \in Way(position) PROVE p \in R!Range(chain') \/ IsDirectory(p)'
      OBVIOUS
    <3>1. p = d \/ p \in R!Range(Tail(chain)) \/ IsDirectory(p)
      BY <1>5, <1>6
    <3> QED
      BY <1>1, <1>4, <3>1 DEF IsDirectory
  <2>2. chain' \in Seq(Way(position)) /\ chunks' = R!Member.chunks
    BY <1>1, <1>5, <1>6
  <2> QED
    BY <1>1, <1>2, <1>3, <2>1, <2>2 DEF AtWork
<1>9. \A p \in DOMAIN output' : \E i \in 1 .. position' : p \in UpTo(PathOf(i)')
  <2> SUFFICES ASSUME NEW p \in DOMAIN output' PROVE \E i \in 1 .. position : p \in UpTo(PathOf(i))
    BY <1>1, <1>3
  <2>1. CASE p \in DOMAIN output
    BY <2>1 DEF MembersTrue
  <2>2. CASE p = d
    <3>1. position \in 1 .. Len(R!Members) /\ position \in 1 .. position /\ PathOf(position) # <<>>
      <4>1. Len(R!Members) \in Nat
        BY MembersAre
      <4> QED
        BY <1>2, <4>1 DEF AtWork
    <3>2. d \in UpTo(PathOf(position))
      BY <1>6, <3>1, WayIsUpTo
    <3> QED
      BY <2>2, <3>1, <3>2
  <2> QED
    BY <1>4, <2>1, <2>2
<1>10. \A i, j \in Finished' : i < j /\ PathOf(i)' = PathOf(j)' => R!Members'[j].kind # "file"
  BY <1>2, <1>3 DEF MembersTrue
<1> QED
  BY <1>2, <1>7, <1>8, <1>9, <1>10 DEF MembersTrue

\* The directories are there.
LEMMA WayReady ==
    ASSUME R!ReaderConstants, ReaderInv, MembersTrue, ~R!Raw, R!ChainComplete
    PROVE  MembersTrue'
<1> USE DEF ReaderInv
<1>0. Len(R!Members) \in Nat /\ position \in Nat
  BY MembersAre DEF ReaderTypes
<1>1. /\ step = "directories" /\ chain = <<>>
      /\ step' = (IF R!Member.kind = "dir" THEN "skip" ELSE "create")
      /\ UNCHANGED <<archive, position, target, chunks, output>>
  BY DEF R!ChainComplete, R!parentVars, R!readVars
<1>2. AtWork /\ R!Members' = R!Members /\ R!Member' = R!Member /\ Finished = 1 .. position - 1
  BY <1>1 DEF MembersTrue, Busy, Finished, R!Members, R!Member
<1>3. \A i : PathOf(i)' = PathOf(i) /\ Way(i)' = Way(i)
  BY <1>1, PathsStay
<1>4. \A p \in Way(position) : p \in DOMAIN output /\ output[p].kind = "dir"
  <2>1. R!Range(<<>>) = {}
    BY DEF R!Range
  <2> QED
    BY <1>1, <1>2, <2>1 DEF AtWork, IsDirectory
<1>5. \A i \in Finished : Extracted(i)'
  BY <1>1, ExtractedStays DEF MembersTrue
<1>6. \A p \in DOMAIN output' : \E i \in 1 .. position' : p \in UpTo(PathOf(i)')
  BY <1>1, <1>3 DEF MembersTrue
<1>7. position \in 1 .. Len(R!Members) /\ PathOf(position) # <<>> /\ target = PathOf(position)
      /\ R!Member = R!Members[position] /\ R!Member.kind \in {"file", "dir"}
  BY <1>2 DEF AtWork, R!Member
<1>8. CASE R!Member.kind = "dir"
  <2>1. step' = "skip" /\ Finished' = 1 .. position
    BY <1>1, <1>8 DEF Finished, Busy
  <2>2. UpTo(PathOf(position)) = Way(position) /\ PathOf(position) \in UpTo(PathOf(position))
    BY <1>7, <1>8, WayIsUpTo, MemberPaths, UpToIs
  <2>3. Extracted(position)
    BY <1>4, <1>7, <1>8, <2>2 DEF Extracted
  <2>6. \A i, j \in Finished' : i < j /\ PathOf(i)' = PathOf(j)' => R!Members'[j].kind # "file"
    <3> SUFFICES ASSUME NEW i \in Finished', NEW j \in Finished', i < j, PathOf(i) = PathOf(j)
                 PROVE  R!Members[j].kind # "file"
      BY <1>2, <1>3
    <3>1. CASE j = position
      BY <1>7, <1>8, <3>1
    <3>2. CASE j # position
      <4>1. i \in Finished /\ j \in Finished
        BY <1>0, <1>2, <2>1, <3>2
      <4> QED
        BY <4>1 DEF MembersTrue
    <3> QED
      BY <3>1, <3>2
  <2>7. \A i \in Finished' : Extracted(i)'
    <3> SUFFICES ASSUME NEW i \in 1 .. position PROVE Extracted(i)'
      BY <2>1
    <3>1. i \in Finished \/ i = position
      BY <1>0, <1>2
    <3>2. Extracted(i)
      BY <2>3, <3>1 DEF MembersTrue
    <3> QED
      BY <1>1, <3>2, ExtractedStays
  <2>8. step' \notin Busy
    BY <2>1 DEF Busy
  <2> QED
    BY <1>6, <2>6, <2>7, <2>8 DEF MembersTrue
<1>9. CASE R!Member.kind # "dir"
  <2>1. step' = "create" /\ Finished' = Finished
    BY <1>1, <1>9 DEF Finished, Busy
  <2>2. Way(position) \subseteq DOMAIN output /\ chunks = R!Member.chunks
    BY <1>1, <1>2, <1>4 DEF AtWork
  <2>3. AtWork'
    BY <1>1, <1>2, <1>3, <1>7, <2>1, <2>2 DEF AtWork
  <2>4. \A i, j \in Finished' : i < j /\ PathOf(i)' = PathOf(j)' => R!Members'[j].kind # "file"
    BY <1>2, <1>3, <2>1 DEF MembersTrue
  <2> QED
    BY <1>5, <1>6, <2>1, <2>3, <2>4 DEF MembersTrue
<1> QED
  BY <1>8, <1>9

\* Its file is there, and empty.
LEMMA FileReady ==
    ASSUME R!ReaderConstants, ReaderInv, MembersTrue, ~R!Raw, R!CreateTarget, step' # "failing"
    PROVE  MembersTrue'
<1> USE DEF ReaderInv
<1> PICK d : d = target
  OBVIOUS
<1>1. /\ step = "create" /\ step' = "data" /\ d \notin DOMAIN output
      /\ output' = R!Put(d, R!New("file"))
      /\ UNCHANGED <<archive, position, target, chunks>>
  BY DEF R!CreateTarget, R!Creatable, R!Exists, R!Fail, R!parentVars, R!readVars
<1>2. AtWork /\ Finished' = Finished /\ R!Members' = R!Members /\ R!Member' = R!Member
  BY <1>1 DEF MembersTrue, Busy, Finished, R!Members, R!Member
<1>3. \A i : PathOf(i)' = PathOf(i) /\ Way(i)' = Way(i)
  BY <1>1, PathsStay
<1>4. /\ DOMAIN output' = DOMAIN output \cup {d}
      /\ \A q \in DOMAIN output : output'[q] = output[q]
      /\ output'[d].bytes = 0
  <2>1. R!New("file").bytes = 0
    BY NewIs
  <2> QED
    BY <1>1, <2>1 DEF R!Put
<1>5. /\ Way(position) \subseteq DOMAIN output /\ chunks = R!Member.chunks
      /\ position \in 1 .. Len(R!Members) /\ R!Member = R!Members[position]
      /\ d = PathOf(position) /\ d # <<>> /\ Len(R!Members) \in Nat /\ R!Member.kind = "file"
  BY <1>1, <1>2, MembersAre DEF AtWork, R!Member, Course
<1>6. ASSUME NEW i \in Finished PROVE Extracted(i)' /\ PathOf(i) # d
  <2>1. Extracted(i)
    BY DEF MembersTrue
  <2>2. i \in 1 .. Len(R!Members)
    BY <1>1, <1>5 DEF Finished, Busy
  <2>3. PathOf(i) \in UpTo(PathOf(i))
    BY <2>1, <2>2, MemberPaths, UpToIs DEF Extracted
  <2>4. PathOf(i) \in DOMAIN output
    BY <2>1, <2>3 DEF Extracted
  <2> QED
    BY <1>1, <1>4, <2>1, <2>4, ExtractedStays
<1>7. UpTo(d) \subseteq DOMAIN output' /\ d \in UpTo(d)
  BY <1>4, <1>5, WayIsUpTo, MemberPaths, UpToIs
<1>8. SoFar(R!Member.chunks)'
  <2>1. Reached(R!Member.chunks, chunks, 0)
    BY <1>5, MembersAre, ReachedAtFirst
  <2> QED
    BY <1>1, <1>2, <1>4, <2>1 DEF SoFar
<1>9. AtWork'
  BY <1>1, <1>2, <1>3, <1>5, <1>6, <1>7, <1>8 DEF AtWork
<1>10. \A p \in DOMAIN output' : \E i \in 1 .. position' : p \in UpTo(PathOf(i)')
  <2> SUFFICES ASSUME NEW p \in DOMAIN output' PROVE \E i \in 1 .. position : p \in UpTo(PathOf(i))
    BY <1>1, <1>3
  <2>1. CASE p \in DOMAIN output
    BY <2>1 DEF MembersTrue
  <2>2. CASE p = d
    <3>1. position \in 1 .. position
      BY <1>5
    <3> QED
      BY <1>5, <1>7, <2>2, <3>1
  <2> QED
    BY <1>4, <2>1, <2>2
<1>11. \A i, j \in Finished' : i < j /\ PathOf(i)' = PathOf(j)' => R!Members'[j].kind # "file"
  BY <1>2, <1>3 DEF MembersTrue
<1> QED
  BY <1>2, <1>6, <1>9, <1>10, <1>11 DEF MembersTrue

\* A chunk of it.
LEMMA ChunkKept ==
    ASSUME R!ReaderConstants, ReaderInv, MembersTrue, ~R!Raw, R!ReadData, pass = "extract",
           step' # "failing"
    PROVE  MembersTrue'
<1> USE DEF ReaderInv
<1>1. /\ step = "data" /\ step' = "data" /\ chunks # <<>> /\ chunks' = Tail(chunks)
      /\ UNCHANGED <<archive, position, target>>
      /\ DOMAIN output' = DOMAIN output
      /\ \A q \in DOMAIN output : q # target => output'[q] = output[q]
      /\ output'[target].bytes = output[target].bytes + Head(chunks)
  BY ChunkWritten
<1>2. AtWork /\ Finished' = Finished /\ R!Members' = R!Members /\ R!Member' = R!Member
  BY <1>1 DEF MembersTrue, Busy, Finished, R!Members, R!Member
<1>3. \A i : PathOf(i)' = PathOf(i) /\ Way(i)' = Way(i)
  BY <1>1, PathsStay
<1>5. /\ UpTo(target) \subseteq DOMAIN output /\ SoFar(R!Member.chunks)
      /\ position \in 1 .. Len(R!Members) /\ R!Member = R!Members[position]
      /\ Len(R!Members) \in Nat /\ \A i \in Finished : PathOf(i) # target
  BY <1>1, <1>2, MembersAre DEF AtWork, R!Member
<1>6. ASSUME NEW i \in Finished PROVE Extracted(i)'
  <2>1. Extracted(i)
    BY DEF MembersTrue
  <2>2. i \in 1 .. Len(R!Members)
    BY <1>1, <1>5 DEF Finished, Busy
  <2>3. PathOf(i) \in UpTo(PathOf(i))
    BY <2>1, <2>2, MemberPaths, UpToIs DEF Extracted
  <2>4. PathOf(i) \in DOMAIN output
    BY <2>1, <2>3 DEF Extracted
  <2> QED
    BY <1>1, <1>5, <2>1, <2>4, ExtractedStays
<1>8. SoFar(R!Member.chunks)'
  <2>1. Reached(R!Member.chunks, chunks, output[target].bytes) /\ R!Member.chunks \in Seq(Nat)
    BY <1>5, MembersAre DEF SoFar
  <2>2. Reached(R!Member.chunks, Tail(chunks), output[target].bytes + Head(chunks))
    BY <1>1, <2>1, ReachedNext
  <2> QED
    BY <1>1, <1>2, <2>2 DEF SoFar
<1>9. AtWork'
  BY <1>1, <1>2, <1>3, <1>5, <1>8 DEF AtWork
<1>10. \A p \in DOMAIN output' : \E i \in 1 .. position' : p \in UpTo(PathOf(i)')
  BY <1>1, <1>3 DEF MembersTrue
<1>11. \A i, j \in Finished' : i < j /\ PathOf(i)' = PathOf(j)' => R!Members'[j].kind # "file"
  BY <1>2, <1>3 DEF MembersTrue
<1> QED
  BY <1>2, <1>6, <1>9, <1>10, <1>11 DEF MembersTrue

\* The end of it: the member is extracted.
LEMMA DataKept ==
    ASSUME R!ReaderConstants, ReaderInv, MembersTrue, ~R!Raw, R!DataComplete, pass = "extract"
    PROVE  MembersTrue'
<1> USE DEF ReaderInv
<1>0. Len(R!Members) \in Nat /\ position \in Nat
  BY MembersAre DEF ReaderTypes
<1>1. /\ step = "data" /\ step' = "header" /\ chunks = <<>>
      /\ UNCHANGED <<archive, position, target, chunks, output>>
  BY DEF R!DataComplete, R!parentVars, R!readVars
<1>2. AtWork /\ R!Members' = R!Members /\ Finished = 1 .. position - 1 /\ Finished' = 1 .. position
  BY <1>1 DEF MembersTrue, Busy, Finished, R!Members
<1>3. \A i : PathOf(i)' = PathOf(i)
  BY <1>1, PathsStay
<1>4. /\ UpTo(target) \subseteq DOMAIN output /\ SoFar(R!Member.chunks)
      /\ position \in 1 .. Len(R!Members) /\ R!Member = R!Members[position]
      /\ R!Member.kind \in {"file", "dir"}
      /\ target = PathOf(position) /\ target # <<>>
      /\ \A i \in Finished : PathOf(i) # target
  BY <1>1, <1>2 DEF AtWork, R!Member
<1>5. target \in R!OurFiles /\ R!Member.kind = "file"
  BY <1>1, <1>2 DEF Volumes, AtWork
<1>6. Extracted(position)
  <2>1. Reached(R!Member.chunks, <<>>, output[target].bytes) /\ R!Member.chunks \in Seq(Nat)
    BY <1>1, <1>4, MembersAre DEF SoFar
  <2>2. output[target].bytes = PartOf(R!Member.chunks, Len(R!Member.chunks))
    BY <2>1, ReachedAll
  <2> QED
    BY <1>4, <1>5, <2>2 DEF Extracted, R!OurFiles
<1>7. \A i \in Finished' : Extracted(i)'
  <2> SUFFICES ASSUME NEW i \in 1 .. position PROVE Extracted(i)'
    BY <1>2
  <2>1. i \in Finished \/ i = position
    BY <1>0, <1>2
  <2>2. Extracted(i)
    BY <1>6, <2>1 DEF MembersTrue
  <2> QED
    BY <1>1, <2>2, ExtractedStays
<1>8. \A p \in DOMAIN output' : \E i \in 1 .. position' : p \in UpTo(PathOf(i)')
  BY <1>1, <1>3 DEF MembersTrue
<1>9. \A i, j \in Finished' : i < j /\ PathOf(i)' = PathOf(j)' => R!Members'[j].kind # "file"
  <2> SUFFICES ASSUME NEW i \in 1 .. position, NEW j \in 1 .. position, i < j,
                      PathOf(i) = PathOf(j)
               PROVE  R!Members[j].kind # "file"
    BY <1>2, <1>3
  <2>1. i \in Finished
    BY <1>0, <1>2
  <2>2. j # position
    BY <1>4, <2>1
  <2>3. j \in Finished
    BY <1>0, <1>2, <2>2
  <2> QED
    BY <2>1, <2>3 DEF MembersTrue
<1> QED
  BY <1>1, <1>7, <1>8, <1>9 DEF MembersTrue, Busy

\* Every step that nobody disturbs preserves what is known of the extracted members.
LEMMA MembersStep ==
    ASSUME R!ReaderConstants, ReaderInv, TruthInv, [R!Next]_R!vars, Undisturbed', ~R!Raw
    PROVE  MembersTrue'
<1> USE DEF ReaderInv, TruthInv
<1>1. CASE R!CheckListing
  <2>1. DOMAIN output' = {} /\ position' = 0 /\ step' = "check"
    BY <1>1 DEF R!CheckListing, Origins, Undisturbed
  <2>2. Finished' = {}
    BY <2>1 DEF Finished, Busy
  <2> QED
    BY <2>1, <2>2 DEF MembersTrue, Busy
<1>2. CASE ~R!CheckListing
  <2>0. Undisturbed /\ MembersTrue /\ step' # "failing" /\ step' # "failed"
    BY <1>2, StillUndisturbed DEF Built, Undisturbed
  <2>p. pass = "extract"
    BY <2>0 DEF Undisturbed
  <2>1. CASE \/ R!Check \/ R!ReadCandidates \/ R!Load \/ R!Open \/ R!LastHeader \/ R!Skip \/ R!Close
             \/ R!ChoosePayload
    <3>1. UNCHANGED <<archive, output, position>>
      BY <2>1 DEF R!Check, R!ReadCandidates, R!Load, R!Open, R!LastHeader, R!Skip, R!Close,
         R!ChoosePayload,
                  R!parentVars, R!readVars
    <3>2. step \notin Busy /\ step' \notin Busy
      BY <2>0, <2>1 DEF R!Check, R!ReadCandidates, R!Load, R!Open, R!LastHeader, R!Skip,
         R!Close,
                        R!ChoosePayload, R!Fail, Busy
    <3> QED
      BY <2>0, <3>1, <3>2, MembersAtRest
  <2>2. CASE R!ExtractMember
    BY <2>0, <2>2, HeaderRead
  <2>3. CASE R!EnsureDirectory
    BY <2>0, <2>3, DirectoryReady
  <2>4. CASE R!ChainComplete
    BY <2>0, <2>4, WayReady
  <2>5. CASE R!CreateTarget
    BY <2>0, <2>5, FileReady
  <2>6. CASE R!ReadData
    BY <2>0, <2>p, <2>6, ChunkKept
  <2>7. CASE R!DataComplete
    BY <2>0, <2>p, <2>7, DataKept
  <2>8. CASE UNCHANGED R!vars
    BY <2>0, <2>8 DEF R!vars, R!parentVars, R!readVars, MembersTrue, Finished, Extracted,
       AtWork,
                      SoFar, PathOf, Way, R!Members, R!Member, IsDirectory
  <2>9. CASE R!CallFails \/ R!CleanUp
    BY <2>0, <2>9 DEF R!CallFails, R!CleanUp, R!Fail
  <2>10. CASE R!RawHeader \/ R!RawFinal
    BY <2>10 DEF Course, R!RawHeader, R!RawFinal
  <2>11. CASE R!ListMember \/ R!Stray
    BY <2>p, <2>11 DEF R!ListMember, R!Stray, Undisturbed
  <2> QED
    BY <1>2, <2>1, <2>2, <2>3, <2>4, <2>5, <2>6, <2>7, <2>8, <2>9, <2>10, <2>11 DEF R!Next
<1> QED
  BY <1>1, <1>2

\* A path of one part.
LEMMA OneStep == ASSUME NEW S, NEW p \in Seq(S), Len(p) = 1 PROVE SubSeq(p, 1, 1) = p
<1>1. p[1] \in S
  BY LenProperties
<1>2. /\ SubSeq(p, 1, 1) \in Seq(S) /\ Len(SubSeq(p, 1, 1)) = 1
      /\ \A i \in 1 .. 1 : SubSeq(p, 1, 1)[i] = p[i]
  BY <1>1, SubSeqProperties
<1> QED
  BY <1>2, SeqEqual

\* The empty path is a prefix of every path.
LEMMA PrefixOfAll == ASSUME NEW q, Len(q) \in Nat PROVE R!IsPrefix(<<>>, q)
<1>1. Len(<<>>) = 0 /\ SubSeq(<<>>, 1, 0) = <<>> /\ SubSeq(q, 1, 0) = <<>>
  BY EmptySeq, SubSeqEmpty
<1> QED
  BY <1>1 DEF R!IsPrefix

\* A path begins with its first part.
LEMMA PrefixOfOne ==
    ASSUME NEW q, Len(q) \in Nat, Len(q) >= 1, NEW x, SubSeq(q, 1, 1) = <<x>>
    PROVE  R!IsPrefix(<<x>>, q)
<1>1. <<x>> \in Seq({x}) /\ Len(<<x>>) = 1
  OBVIOUS
<1>2. SubSeq(<<x>>, 1, 1) = <<x>>
  BY <1>1, OneStep
<1> QED
  BY <1>1, <1>2 DEF R!IsPrefix

\* Without another program, all that is there is the child's.
LEMMA TheirsAreStrays ==
    ASSUME ReaderTypes, Things, strays = {}
    PROVE  DOMAIN output \subseteq R!Ours
BY DEF ReaderTypes, Entries, Things, R!Ours

\* All that is there is below the directory that is chosen.
LEMMA PayloadLeavesNothingOut ==
    ASSUME R!ReaderConstants, ReaderInv, TruthInv, R!ChoosePayload, strays = {},
           NEW q \in DOMAIN output
    PROVE  R!IsPrefix(payload', q)
<1> USE DEF ReaderInv, TruthInv
<1> DEFINE top == {p \in DOMAIN output : Len(p) = 1}
<1>1. /\ step = "exited" /\ pass = "extract"
      /\ \/ payload' = <<>>
         \/ payload' = <<Base>> /\ \E p \in top : top = {p} /\ p = <<Base>>
  BY DEF R!ChoosePayload
<1>2. Undisturbed
  BY <1>1 DEF Undisturbed
<1>3. PICK S : q \in Seq(S) /\ Len(q) >= 1 /\ SubSeq(q, 1, 1) \in top
  <2>1. CASE R!Raw
    <3> PICK p : p = R!Path(archive.name.parts)
      OBVIOUS
    <3>1. target \in DOMAIN output /\ target = p /\ Len(archive.name.parts) = 1
      BY <1>1, <1>2, <2>1 DEF Built, StreamTrue, Early, Listed
    <3>2. p \in Seq(R!Range(p)) /\ Len(p) = 1
      BY <2>1, <3>1, MembersAre, PathIs
    <3>3. q = p
      <4>1. q \in R!Ours
        BY <1>2, TheirsAreStrays DEF Undisturbed
      <4> QED
        BY <2>1, <3>1, <4>1 DEF Origins
    <3>4. SubSeq(p, 1, 1) = p
      BY <3>2, OneStep
    <3>5. SubSeq(q, 1, 1) = q /\ Len(q) = 1
      BY <3>2, <3>3, <3>4
    <3>6. q \in top
      BY <3>5
    <3> HIDE DEF top
    <3>7. SubSeq(q, 1, 1) \in top
      BY <3>5, <3>6
    <3>8. Len(q) >= 1
      BY <3>5
    <3>9. q \in Seq(R!Range(p))
      BY <3>2, <3>3
    <3> QED
      BY <3>7, <3>8, <3>9
  <2>2. CASE ~R!Raw
    <3>1. position = Len(R!Members) /\ Len(R!Members) \in Nat /\ Finished = 1 .. position
      BY <1>1, <2>2, MembersAre DEF Listed, Finished, Busy
    <3>2. PICK i \in 1 .. position : q \in UpTo(PathOf(i))
      BY <1>2, <2>2 DEF Built, MembersTrue
    <3>3. PathOf(i) \in Seq(R!Range(PathOf(i)))
      BY <2>2, <3>1, MemberPaths
    <3>4. /\ q \in Seq(R!Range(PathOf(i))) /\ Len(q) >= 1
          /\ SubSeq(q, 1, 1) \in UpTo(PathOf(i)) /\ Len(SubSeq(q, 1, 1)) = 1
      BY <3>2, <3>3, UpToIs
    <3>5. UpTo(PathOf(i)) \subseteq DOMAIN output
      BY <1>2, <2>2, <3>1 DEF Built, MembersTrue, Extracted
    <3> QED
      BY <3>4, <3>5
  <2> QED
    BY <2>1, <2>2
<1>4. Len(q) \in Nat /\ \A i \in 1 .. 1 : q[i] \in S
  BY <1>3, LenProperties
<1>5. CASE payload' = <<>>
  BY <1>4, <1>5, PrefixOfAll
<1>6. CASE payload' = <<Base>> /\ SubSeq(q, 1, 1) = <<Base>>
  BY <1>3, <1>4, <1>6, PrefixOfOne
<1> HIDE DEF top
<1> QED
  BY <1>1, <1>3, <1>5, <1>6

\* What is published leaves nothing out.
LEMMA PublishedStep ==
    ASSUME R!ReaderConstants, ReaderInv, TruthInv, [R!Next]_R!vars
    PROVE  Published'
<1> SUFFICES ASSUME step' = "done", strays' = {}
             PROVE  \A p \in DOMAIN output' : R!IsPrefix(payload', p)
  BY DEF Published
<1>1. CASE R!ChoosePayload
  <2>1. output' = output /\ strays = {}
    BY <1>1 DEF R!ChoosePayload
  <2> QED
    BY <1>1, <2>1, PayloadLeavesNothingOut
<1>2. CASE UNCHANGED R!vars
  BY <1>2 DEF R!vars, R!parentVars, TruthInv, Published
<1>3. CASE ~R!ChoosePayload /\ R!Next
  BY <1>3 DEF R!Next, R!CallFails, R!Check, R!ReadCandidates, R!Load, R!Open, R!LastHeader,
     R!ListMember, R!Skip,
              R!ExtractMember, R!MoreMembers, R!EnsureDirectory, R!ChainComplete, R!CreateTarget,
              R!ReadData, R!DataComplete, R!RawHeader, R!RawFinal, R!CleanUp, R!Close, R!CheckListing,
              R!Stray, R!Fail
<1> QED
  BY <1>1, <1>2, <1>3

\* Every step preserves the invariant.
LEMMA TruthStep ==
    ASSUME R!ReaderConstants, ReaderInv, TruthInv, [R!Next]_R!vars
    PROVE  TruthInv'
<1>1. Built'
  <2> SUFFICES ASSUME Undisturbed' PROVE IF R!Raw' THEN StreamTrue' ELSE MembersTrue'
    BY DEF Built
  <2> QED
    BY ArchiveStays, StreamStep, MembersStep
<1> QED
  BY <1>1, ListedStep, ThingsStep, PublishedStep DEF TruthInv, ReaderInv

\* What the invariant says of the end is the property.
LEMMA TruthIsEnough ==
    ASSUME R!ReaderConstants, ReaderInv, TruthInv
    PROVE  R!OutputIsTheArchive
<1> USE DEF ReaderInv, TruthInv
<1> SUFFICES ASSUME step = "done", strays = {} PROVE R!OutputIsTheArchive
  BY DEF R!OutputIsTheArchive
<1>0. Undisturbed /\ \A p \in DOMAIN output : R!IsPrefix(payload, p)
  BY DEF Listed, Undisturbed, Published
<1>1. CASE R!Raw
  <2> DEFINE m == [name |-> archive.name, kind |-> "file", chunks |-> archive.chunks]
             members == <<m>>
  <2> PICK p : p = R!Path(archive.name.parts)
    OBVIOUS
  <2>1. /\ target = p /\ p \in DOMAIN output /\ listing = <<archive.name>>
        /\ output[p].bytes = PartOf(archive.chunks, Len(archive.chunks))
        /\ Len(archive.name.parts) = 1
    BY <1>0, <1>1 DEF Built, StreamTrue, Early, Listed, Undisturbed
  <2>2. DOMAIN output = {p} /\ output[p].kind = "file"
    <3>1. DOMAIN output \subseteq R!Ours
      BY TheirsAreStrays
    <3>2. R!Ours = {p} /\ R!OurFiles = {p}
      BY <1>1, <2>1, <3>1 DEF Origins
    <3> QED
      BY <2>1, <3>1, <3>2 DEF R!OurFiles
  <2>3. p \in Seq(R!Range(p)) /\ Len(p) = 1
    BY <1>1, <2>1, MembersAre, PathIs
  <2>4. R!Range(R!Steps(p)) = {p}
    <3>1. R!Range(R!Steps(p)) = UpTo(p) /\ SubSeq(p, 1, 1) = p
      BY <2>3, UpToIs, OneStep
    <3> QED
      BY <2>3, <3>1 DEF UpTo
  <2>5. Len(members) = 1 /\ members[1] = m /\ listing = [i \in 1 .. Len(members) |-> members[i].name]
    BY <2>1
  <2>6. R!Delivered(m)
    <3>1. R!FoldLeft(LAMBDA n, c : n + c, 0, archive.chunks) = output[p].bytes
      BY <1>1, <2>1, MembersAre, FoldIsAll
    <3> QED
      BY <2>2, <3>1 DEF R!Delivered, R!Exists
  <2>7. {R!Path(members[i].name.parts) : i \in 1 .. Len(members)} = {p}
    BY <2>5
  <2>8. DOMAIN output = UNION {R!Range(R!Steps(q)) : q \in {p}}
    BY <2>2, <2>4
  <2> HIDE DEF members
  <2>9. \A i \in 1 .. Len(members) : i = 1
    BY <2>5
  <2> QED
    BY <1>0, <1>1, <2>5, <2>6, <2>7, <2>8, <2>9 DEF R!OutputIsTheArchive, members
<1>2. CASE ~R!Raw
  <2> DEFINE named == {PathOf(i) : i \in 1 .. Len(R!Members)}
  <2>1. /\ position = Len(R!Members) /\ Len(R!Members) \in Nat /\ Finished = 1 .. Len(R!Members)
        /\ listing = [i \in 1 .. Len(R!Members) |-> R!Members[i].name]
    BY <1>0, <1>2, MembersAre DEF Listed, Finished, Busy, Undisturbed
  <2>2. MembersTrue
    BY <1>0, <1>2 DEF Built
  <2>3. ASSUME NEW i \in 1 .. Len(R!Members)
        PROVE  /\ PathOf(i) \in DOMAIN output /\ output[PathOf(i)].kind = R!Members[i].kind
               /\ R!Range(R!Steps(PathOf(i))) = UpTo(PathOf(i))
               /\ UpTo(PathOf(i)) \subseteq DOMAIN output
               /\ R!Delivered(R!Members[i])
    <3>1. Extracted(i)
      BY <2>1, <2>2 DEF MembersTrue
    <3>2. PathOf(i) \in UpTo(PathOf(i)) /\ R!Range(R!Steps(PathOf(i))) = UpTo(PathOf(i))
      BY <1>2, <3>1, MemberPaths, UpToIs DEF Extracted
    <3>3. /\ PathOf(i) \in DOMAIN output /\ output[PathOf(i)].kind = R!Members[i].kind
          /\ UpTo(PathOf(i)) \subseteq DOMAIN output
      BY <3>1, <3>2 DEF Extracted
    <3>4. output[PathOf(i)].kind \in {"file", "dir"}
      BY <3>3 DEF ReaderTypes, Entries
    <3>5. R!Members[i].kind = "file" =>
              output[PathOf(i)].bytes = R!FoldLeft(LAMBDA n, c : n + c, 0, R!Members[i].chunks)
      <4>1. R!Members[i].chunks \in Seq(Nat)
        BY <1>2, MembersAre
      <4>2. R!FoldLeft(LAMBDA n, c : n + c, 0, R!Members[i].chunks)
                = PartOf(R!Members[i].chunks, Len(R!Members[i].chunks))
        BY <4>1, FoldIsAll
      <4> QED
        BY <3>1, <4>2 DEF Extracted
    <3>6. R!Members[i].kind # "file" => output[PathOf(i)].bytes = 0
      BY <3>3, <3>4 DEF Things
    <3> QED
      BY <3>2, <3>3, <3>5, <3>6 DEF R!Delivered, R!Exists, PathOf
  <2>4. ASSUME NEW i \in 1 .. Len(R!Members), NEW j \in 1 .. Len(R!Members),
               R!Members[i].kind = "file", PathOf(i) = PathOf(j)
        PROVE  i = j
    <3>1. R!Members[j].kind = "file"
      BY <2>3, <2>4
    <3>2. ~(i < j) /\ ~(j < i)
      BY <2>1, <2>2, <2>4, <3>1 DEF MembersTrue
    <3> QED
      BY <2>1, <3>2
  <2>5. DOMAIN output = UNION {R!Range(R!Steps(p)) : p \in named}
    <3>1. ASSUME NEW q \in DOMAIN output PROVE \E p \in named : q \in R!Range(R!Steps(p))
      <4>1. PICK i \in 1 .. Len(R!Members) : q \in UpTo(PathOf(i))
        BY <2>1, <2>2 DEF MembersTrue
      <4> QED
        BY <2>3, <4>1
    <3>2. \A p \in named : R!Range(R!Steps(p)) \subseteq DOMAIN output
      BY <2>3
    <3> QED
      BY <3>1, <3>2
  <2> QED
    BY <1>0, <1>2, <2>1, <2>3, <2>4, <2>5 DEF R!OutputIsTheArchive, PathOf
<1> QED
  BY <1>1, <1>2

-----------------------------------------------------------------------------
\* A behaviour of one component stays one of it, from its first state to each step.
LEMMA Halves ==
    ASSUME [Next]_vars
    PROVE  /\ half' = half
           /\ half = "walk" => [Walk!Next]_Walk!vars
           /\ half = "reader" => [R!Next]_R!vars
BY DEF Next, vars, walkVars, readerVars, Walk!vars, Walk!walkVars, R!vars, R!parentVars,
       R!readVars

WalkHalf == half = "walk" => SeenInv
QuietHalf == half = "walk" => SeenInv /\ QuietInv
AgreeHalf == half = "walk" => SeenInv /\ AgreeInv
ReaderHalf == half = "reader" => ReaderInv
TruthHalf == half = "reader" => ReaderInv /\ TruthInv

\* The walks keep their invariant in every behaviour of the components.
LEMMA WalkHolds == ASSUME Walk!TreeConstants PROVE Spec => []WalkHalf
<1>1. Init => WalkHalf
  BY SeenInit DEF Init, WalkHalf
<1>2. WalkHalf /\ [Next]_vars => WalkHalf'
  BY Halves, SeenStep DEF WalkHalf
<1> QED
  BY <1>1, <1>2, PTL DEF Spec

\* And the one about a tree at rest, which needs the other for what a walk has seen.
LEMMA QuietHolds == ASSUME Walk!TreeConstants, Walk!FiniteTrees PROVE Spec => []QuietHalf
<1>1. Init => QuietHalf
  BY SeenInit, QuietInit DEF Init, QuietHalf
<1>2. QuietHalf /\ [Next]_vars => QuietHalf'
  BY Halves, SeenStep, QuietStep DEF QuietHalf
<1> QED
  BY <1>1, <1>2, PTL DEF Spec

\* And the one about a tree that changes once.
LEMMA AgreeHolds == ASSUME Walk!TreeConstants PROVE Spec => []AgreeHalf
<1>1. Init => AgreeHalf
  BY SeenInit, AgreeInit DEF Init, AgreeHalf
<1>2. AgreeHalf /\ [Next]_vars => AgreeHalf'
  BY Halves, SeenStep, AgreeStep DEF AgreeHalf
<1> QED
  BY <1>1, <1>2, PTL DEF Spec

\* The reader keeps its invariant in every behaviour of the components.
LEMMA ReaderHolds == ASSUME R!ReaderConstants PROVE Spec => []ReaderHalf
<1>1. Init => ReaderHalf
  BY ReaderInit DEF Init, ReaderHalf
<1>2. ReaderHalf /\ [Next]_vars => ReaderHalf'
  BY Halves, ReaderStep DEF ReaderHalf
<1> QED
  BY <1>1, <1>2, PTL DEF Spec

\* And the one about what it delivers, which needs the other for the entries of the output.
LEMMA TruthHolds == ASSUME R!ReaderConstants PROVE Spec => []TruthHalf
<1>1. Init => TruthHalf
  BY ReaderInit, TruthInit DEF Init, TruthHalf
<1>2. TruthHalf /\ [Next]_vars => TruthHalf'
  BY Halves, ReaderStep, TruthStep DEF TruthHalf
<1> QED
  BY <1>1, <1>2, PTL DEF Spec

\* The state of every walk of a tree (audit, monitor, serialisation, preview, selection)
\* is well formed, whatever the tree is and becomes.
THEOREM WalkTypeCorrect ==
    ASSUME Walk!TreeConstants
    PROVE  Spec => [](half = "walk" => Walk!TypeOK)
<1>1. WalkHalf => (half = "walk" => Walk!TypeOK)
  BY DEF WalkHalf, SeenInv, WalkTypes
<1> QED
  BY <1>1, WalkHolds, PTL

\* Whatever another program does to the tree meanwhile: a job that succeeds has delivered
\* each entry that it was to deliver and that stayed as it is, with the directories above
\* it, and nothing that was at no time there (audit_tree and the readings built like it).
THEOREM StableEntriesSeen == ASSUME Walk!TreeConstants PROVE Spec => []StableEntriesAreSeen
<1>1. WalkHalf => StableEntriesAreSeen
  BY SeenIsEnough DEF WalkHalf, StableEntriesAreSeen
<1> QED
  BY <1>1, WalkHolds, PTL

\* A job that nobody disturbs accepts its tree exactly if every entry is a directory or a
\* file with one name, every path is valid but for the monitor, which does not ask, and
\* the tree is within every limit of the job, whatever the limits and the tree are; and
\* it delivers all of it, or of the selectors: no limit is off by one, a path's bytes
\* included, and no order of the names changes the verdict.
THEOREM QuietJudgedExactly ==
    ASSUME Walk!TreeConstants, Walk!FiniteTrees
    PROVE  Spec => []QuietTreesAreJudgedExactly
<1>1. QuietHalf => QuietTreesAreJudgedExactly
  BY QuietIsEnough DEF QuietHalf, QuietTreesAreJudgedExactly
<1> QED
  BY <1>1, QuietHolds, PTL

\* A preview or a selection that is accepted although one thing changed, at any
\* time, shows what its fingerprints are of: its paths, kinds and contents.
THEOREM DeliveredAsFingerprinted ==
    ASSUME Walk!TreeConstants
    PROVE  Spec => []DeliveredIsFingerprinted
<1>1. AgreeHalf => DeliveredIsFingerprinted
  BY AgreeIsEnough DEF AgreeHalf, DeliveredIsFingerprinted
<1> QED
  BY <1>1, AgreeHolds, PTL

\* The state of the reader is well formed, whatever the archive holds, the library answers
\* and other programs do (write_utf8_archive_listing, extract_password_archive,
\* process_raw_archive).
THEOREM ReaderTypeCorrect ==
    ASSUME R!ReaderConstants
    PROVE  Spec => [](half = "reader" => R!TypeOK)
<1>1. ReaderHalf => (half = "reader" => R!TypeOK)
  BY DEF ReaderHalf, ReaderInv, ReaderTypes
<1> QED
  BY <1>1, ReaderHolds, PTL

\* A stream that was not read to its end leaves no output, unless its removal failed; and
\* what another program has put into the output stays there (process_raw_archive).
THEOREM StreamsAreWhole == ASSUME R!ReaderConstants PROVE Spec => []NoTornStream
<1>1. ReaderHalf => NoTornStream
  BY NothingTorn DEF ReaderHalf, NoTornStream
<1> QED
  BY <1>1, ReaderHolds, PTL

\* At every moment, so also after the child was killed: what it has written is within the
\* limits on files, on directories but for one, on each file and on all their bytes.
THEOREM OutputStaysWithinLimits ==
    ASSUME R!ReaderConstants
    PROVE  Spec => []OutputWithinLimits
<1>1. ReaderHalf => OutputWithinLimits
  BY OutputFits DEF ReaderHalf, OutputWithinLimits
<1> QED
  BY <1>1, ReaderHolds, PTL

\* Whatever the archive, the volume and the faults are: an extraction that ends well and
\* that no other program has touched has every member under its own name, with its kind
\* and all its data, two files never under one name, the directories above them and nothing
\* else; the listing that was accepted is of the same members (extract_archive_entries,
\* read_raw_archive), and choose_payload_root leaves none of it out.
THEOREM DeliversTheArchive ==
    ASSUME R!ReaderConstants
    PROVE  Spec => []OutputIsTheArchive
<1>1. TruthHalf => OutputIsTheArchive
  BY TruthIsEnough DEF TruthHalf, OutputIsTheArchive
<1> QED
  BY <1>1, TruthHolds, PTL
=============================================================================
