------------------------ MODULE TransparencyLogProofs ------------------------
(***************************************************************************)
(* For any writers, events and bounds: TypeOK, SeqMatchesPosition,         *)
(* RootCommitsPrefix, AckedIsPublished and RootDistinguishesPrefixes are   *)
(* invariants of TransparencyLog, its steps keep to DamageStopsTheEpoch,   *)
(* it implements PublicLog, and AcceptedIsPublished and OldRootBindsLeaves *)
(* are invariants of LogReader.  For leaf hashes of any number:            *)
(* ProofsVerify and ProofsBindLeaf are invariants of MCMerkle, whose       *)
(* variable "leaves" plays no part in the rest.                            *)
(***************************************************************************)
EXTENDS LogReader, MCMerkle, SequenceTheorems, WellFoundedInduction, NaturalsInduction, TLAPS

-----------------------------------------------------------------------------
(* The Merkle tree: the loops stop, every inclusion proof verifies and     *)
(* verifies one leaf hash only, and the root tells lists without           *)
(* repetition apart.                                                       *)

\* A list, whatever its elements are.
IsList(s) == Len(s) \in Nat /\ s = [i \in 1..Len(s) |-> s[i]]

\* The leaf hashes of an epoch: the body of each, which carries its seq,
\* occurs once.
Distinct(s) == \A i, j \in 1..Len(s) : s[i] = s[j] => i = j
IsLeafList(s) ==
  /\ IsList(s) /\ Distinct(s)
  /\ \A i \in 1..Len(s) : \E b : s[i] = LeafHash(b)

LEMMA LeastOf ==
  ASSUME NEW S \in SUBSET Nat, S # {}
  PROVE  \E x \in S : \A y \in S : x <= y
<1>1. PICK x \in S : \A y \in S : ~(<<y, x>> \in OpToRel(<, Nat))
  BY NatLessThanWellFounded, WFMin
<1>2. \A y \in S : ~(y < x)
  BY <1>1 DEF OpToRel
<1>. QED
  BY <1>2

LEMMA FunctionIsList ==
  ASSUME NEW n \in Nat, NEW f, f = [i \in 1..n |-> f[i]]
  PROVE  Len(f) = n /\ IsList(f)
<1>. DEFINE S == {f[i] : i \in 1..n}
<1>1. f \in [1..n -> S]
  OBVIOUS
<1>2. f \in Seq(S) /\ Len(f) = n
  BY <1>1
<1>. QED
  BY <1>2 DEF IsList

LEMMA SeqIsList == ASSUME NEW S, NEW s \in Seq(S) PROVE IsList(s)
BY DEF IsList

LEMMA EqualLists ==
  ASSUME NEW a, NEW b, IsList(a), IsList(b), Len(a) = Len(b),
         \A i \in 1..Len(a) : a[i] = b[i]
  PROVE  a = b
BY DEF IsList

LEMMA NextLayerFacts ==
  ASSUME NEW layer, IsList(layer)
  PROVE  /\ IsList(NextLayer(layer))
         /\ Len(NextLayer(layer)) = (Len(layer) + 1) \div 2
         /\ \A i \in 1..((Len(layer) + 1) \div 2) :
              NextLayer(layer)[i] =
                InternalHash(layer[2*i - 1],
                             IF 2*i <= Len(layer) THEN layer[2*i] ELSE layer[2*i - 1])
<1>. DEFINE n == (Len(layer) + 1) \div 2
<1>1. n \in Nat
  BY DEF IsList
<1>2. NextLayer(layer) = [i \in 1..n |-> NextLayer(layer)[i]]
  BY DEF NextLayer
<1>3. Len(NextLayer(layer)) = n /\ IsList(NextLayer(layer))
  BY <1>1, <1>2, FunctionIsList
<1>. QED
  BY <1>3 DEF NextLayer
-----------------------------------------------------------------------------
(* The three loops have a value after every turn.  Each is a recursive      *)
(* function on an interval, so its existence is shown for the first m turns, *)
(* of a least m for which it would fail.                                    *)

LEMMA LayersExist ==
  ASSUME NEW leaves_0, NEW n \in Nat
  PROVE  \E f : f = [d \in 0..n |-> IF d = 0 THEN leaves_0 ELSE NextLayer(f[d - 1])]
<1>. DEFINE Good(m) ==
       \E f : f = [d \in 0..m |-> IF d = 0 THEN leaves_0 ELSE NextLayer(f[d - 1])]
     Bad == {m \in 0..n : ~Good(m)}
<1>1. SUFFICES ASSUME Bad # {} PROVE FALSE
  OBVIOUS
<1>2. PICK m \in Bad : \A k \in Bad : m <= k
  <2>. HIDE DEF Good
  <2>1. Bad \in SUBSET Nat
    OBVIOUS
  <2>. HIDE DEF Bad
  <2>. QED
    BY <1>1, <2>1, LeastOf
<1>3. m \in 0..n /\ m \in Nat /\ ~Good(m)
  OBVIOUS
<1>4. CASE m = 0
  <2>. DEFINE g == [d \in 0..0 |-> leaves_0]
  <2>1. g = [d \in 0..m |-> IF d = 0 THEN leaves_0 ELSE NextLayer(g[d - 1])]
    BY <1>4
  <2>. QED
    BY <2>1, <1>3
<1>5. CASE m # 0
  <2>1. m - 1 \in 0..n /\ Good(m - 1)
    <3>. HIDE DEF Good
    <3>. QED
      BY <1>2, <1>3, <1>5
  <2>2. PICK f : f = [d \in 0..(m - 1) |-> IF d = 0 THEN leaves_0 ELSE NextLayer(f[d - 1])]
    BY <2>1
  <2>. DEFINE g == [d \in 0..m |-> IF d = 0 THEN leaves_0 ELSE NextLayer(f[d - 1])]
  <2>3. \A d \in 0..(m - 1) : g[d] = f[d]
    BY <2>2, <1>3
  <2>4. ASSUME NEW d \in 0..m, d # 0 PROVE g[d - 1] = f[d - 1]
    <3>1. d - 1 \in 0..(m - 1)
      BY <1>3, <2>4
    <3>. HIDE DEF g
    <3>. QED
      BY <3>1, <2>3
  <2>5. g = [d \in 0..m |-> IF d = 0 THEN leaves_0 ELSE NextLayer(g[d - 1])]
    BY <2>4
  <2>. QED
    BY <2>5, <1>3
<1>. QED
  BY <1>4, <1>5

LEMMA IndicesExist ==
  ASSUME NEW x, NEW n \in Nat
  PROVE  \E f : f = [d \in 0..n |-> IF d = 0 THEN x ELSE f[d - 1] \div 2]
<1>. DEFINE Good(m) == \E f : f = [d \in 0..m |-> IF d = 0 THEN x ELSE f[d - 1] \div 2]
            Bad == {m \in 0..n : ~Good(m)}
<1>1. SUFFICES ASSUME Bad # {} PROVE FALSE
  OBVIOUS
<1>2. PICK m \in Bad : \A k \in Bad : m <= k
  <2>. HIDE DEF Good
  <2>1. Bad \in SUBSET Nat
    OBVIOUS
  <2>. HIDE DEF Bad
  <2>. QED
    BY <1>1, <2>1, LeastOf
<1>3. m \in 0..n /\ m \in Nat /\ ~Good(m)
  OBVIOUS
<1>4. CASE m = 0
  <2>. DEFINE g == [d \in 0..0 |-> x]
  <2>1. g = [d \in 0..m |-> IF d = 0 THEN x ELSE g[d - 1] \div 2]
    BY <1>4
  <2>. QED
    BY <2>1, <1>3
<1>5. CASE m # 0
  <2>1. m - 1 \in 0..n /\ Good(m - 1)
    <3>. HIDE DEF Good
    <3>. QED
      BY <1>2, <1>3, <1>5
  <2>2. PICK f : f = [d \in 0..(m - 1) |-> IF d = 0 THEN x ELSE f[d - 1] \div 2]
    BY <2>1
  <2>. DEFINE g == [d \in 0..m |-> IF d = 0 THEN x ELSE f[d - 1] \div 2]
  <2>3. \A d \in 0..(m - 1) : g[d] = f[d]
    BY <2>2, <1>3
  <2>4. ASSUME NEW d \in 0..m, d # 0 PROVE g[d - 1] = f[d - 1]
    <3>1. d - 1 \in 0..(m - 1)
      BY <1>3, <2>4
    <3>. HIDE DEF g
    <3>. QED
      BY <3>1, <2>3
  <2>5. g = [d \in 0..m |-> IF d = 0 THEN x ELSE g[d - 1] \div 2]
    BY <2>4
  <2>. QED
    BY <2>5, <1>3
<1>. QED
  BY <1>4, <1>5

\* One turn of verify_inclusion_proof's loop.
Replayed(step, h) ==
  IF step.position = "left" THEN InternalHash(step.sibling, h)
  ELSE InternalHash(h, step.sibling)

LEMMA ReplaysExist ==
  ASSUME NEW x, NEW path, NEW n \in Nat
  PROVE  \E f : f = [d \in 0..n |-> IF d = 0 THEN x ELSE Replayed(path[d], f[d - 1])]
<1>. DEFINE Good(m) ==
       \E f : f = [d \in 0..m |-> IF d = 0 THEN x ELSE Replayed(path[d], f[d - 1])]
     Bad == {m \in 0..n : ~Good(m)}
<1>1. SUFFICES ASSUME Bad # {} PROVE FALSE
  OBVIOUS
<1>2. PICK m \in Bad : \A k \in Bad : m <= k
  <2>. HIDE DEF Good
  <2>1. Bad \in SUBSET Nat
    OBVIOUS
  <2>. HIDE DEF Bad
  <2>. QED
    BY <1>1, <2>1, LeastOf
<1>3. m \in 0..n /\ m \in Nat /\ ~Good(m)
  OBVIOUS
<1>4. CASE m = 0
  <2>. DEFINE g == [d \in 0..0 |-> x]
  <2>1. g = [d \in 0..m |-> IF d = 0 THEN x ELSE Replayed(path[d], g[d - 1])]
    BY <1>4
  <2>. QED
    BY <2>1, <1>3
<1>5. CASE m # 0
  <2>1. m - 1 \in 0..n /\ Good(m - 1)
    <3>. HIDE DEF Good
    <3>. QED
      BY <1>2, <1>3, <1>5
  <2>2. PICK f : f = [d \in 0..(m - 1) |-> IF d = 0 THEN x ELSE Replayed(path[d], f[d - 1])]
    BY <2>1
  <2>. DEFINE g == [d \in 0..m |-> IF d = 0 THEN x ELSE Replayed(path[d], f[d - 1])]
  <2>3. \A d \in 0..(m - 1) : g[d] = f[d]
    BY <2>2, <1>3
  <2>4. ASSUME NEW d \in 0..m, d # 0 PROVE g[d - 1] = f[d - 1]
    <3>1. d - 1 \in 0..(m - 1)
      BY <1>3, <2>4
    <3>. HIDE DEF g
    <3>. QED
      BY <3>1, <2>3
  <2>5. g = [d \in 0..m |-> IF d = 0 THEN x ELSE Replayed(path[d], g[d - 1])]
    BY <2>4
  <2>. QED
    BY <2>5, <1>3
<1>. QED
  BY <1>4, <1>5
-----------------------------------------------------------------------------
(* What the loops compute *)

LEMMA LayersValue ==
  ASSUME NEW l, IsList(l)
  PROVE  Layers(l) = [d \in 0..Len(l) |-> IF d = 0 THEN l ELSE NextLayer(Layers(l)[d - 1])]
<1>1. Len(l) \in Nat
  BY DEF IsList
<1>2. \E f : f = [d \in 0..Len(l) |-> IF d = 0 THEN l ELSE NextLayer(f[d - 1])]
  BY <1>1, LayersExist
<1>. QED
  BY <1>2 DEF Layers

LEMMA PathIndexValue ==
  ASSUME NEW x, NEW n \in Nat
  PROVE  PathIndex(x, n) = [d \in 0..n |-> IF d = 0 THEN x ELSE PathIndex(x, n)[d - 1] \div 2]
<1>1. \E f : f = [d \in 0..n |-> IF d = 0 THEN x ELSE f[d - 1] \div 2]
  BY IndicesExist
<1>. QED
  BY <1>1 DEF PathIndex

LEMMA ReplayValue ==
  ASSUME NEW x, NEW path, IsList(path)
  PROVE  \E h : /\ h = [k \in 0..Len(path) |->
                          IF k = 0 THEN x ELSE Replayed(path[k], h[k - 1])]
                /\ Replay(x, path) = h[Len(path)]
<1>1. Len(path) \in Nat
  BY DEF IsList
<1>. DEFINE H == CHOOSE h : h = [k \in 0..Len(path) |->
                                   IF k = 0 THEN x ELSE Replayed(path[k], h[k - 1])]
<1>2. H = [k \in 0..Len(path) |-> IF k = 0 THEN x ELSE Replayed(path[k], H[k - 1])]
  BY <1>1, ReplaysExist
<1>3. Replay(x, path) = H[Len(path)]
  BY DEF Replay, Replayed
<1>. QED
  BY <1>2, <1>3

LEMMA Halved ==
  ASSUME NEW a \in Nat, a >= 1
  PROVE  /\ (a + 1) \div 2 \in Nat /\ (a + 1) \div 2 >= 1
         /\ (a + 1) \div 2 = 1 \/ (a + 1) \div 2 <= a - 1
         /\ a = 1 => (a + 1) \div 2 = 1
         /\ \A i \in 0..(a - 1) : i \div 2 \in 0..((a + 1) \div 2 - 1)
<1>. DEFINE q == (a + 1) \div 2
<1>1. q \in Int /\ (a + 1 = 2*q \/ a + 1 = 2*q + 1)
  OBVIOUS
<1>2. ASSUME NEW i \in 0..(a - 1) PROVE i \div 2 \in 0..(q - 1)
  <2>1. i \div 2 \in Int /\ (i = 2*(i \div 2) \/ i = 2*(i \div 2) + 1)
    OBVIOUS
  <2>. HIDE DEF q
  <2>. QED
    BY <1>1, <2>1
<1>. HIDE DEF q
<1>3. q \in Nat /\ q >= 1 /\ (q = 1 \/ q <= a - 1) /\ (a = 1 => q = 1)
  BY <1>1
<1>. QED
  BY <1>2, <1>3 DEF q

\* The list after d turns: never empty, and shorter after every turn until
\* one hash is left.
LEMMA LayerFacts ==
  ASSUME NEW l, IsList(l), Len(l) > 0, NEW d \in 0..Len(l)
  PROVE  /\ IsList(Layers(l)[d])
         /\ Len(Layers(l)[d]) >= 1
         /\ Len(Layers(l)[d]) = 1 \/ Len(Layers(l)[d]) <= Len(l) - d
         /\ d < Len(l) => Layers(l)[d + 1] = NextLayer(Layers(l)[d])
<1>. DEFINE n == Len(l)
            L == Layers(l)
            Good(e) == /\ IsList(L[e]) /\ Len(L[e]) >= 1
                       /\ Len(L[e]) = 1 \/ Len(L[e]) <= n - e
            Bad == {e \in 0..n : ~Good(e)}
<1>1. n \in Nat /\ n > 0
  BY DEF IsList
<1>2. L = [e \in 0..n |-> IF e = 0 THEN l ELSE NextLayer(L[e - 1])]
  BY LayersValue
<1>3. L[0] = l
  <2>. HIDE DEF n, L
  <2>. QED
    BY <1>1, <1>2
<1>4. ASSUME NEW e \in 0..n, e # 0 PROVE L[e] = NextLayer(L[e - 1])
  <2>. HIDE DEF n, L
  <2>. QED
    BY <1>2, <1>4
<1>. HIDE DEF L
<1>5. Bad = {}
  <2>1. SUFFICES ASSUME Bad # {} PROVE FALSE
    OBVIOUS
  <2>2. PICK m \in Bad : \A k \in Bad : m <= k
    <3>. HIDE DEF Good
    <3>1. Bad \in SUBSET Nat
      OBVIOUS
    <3>. HIDE DEF Bad
    <3>. QED
      BY <2>1, <3>1, LeastOf
  <2>3. m \in 0..n /\ m \in Nat /\ ~Good(m)
    OBVIOUS
  <2>4. m # 0
    BY <1>1, <1>3, <2>3
  <2>5. m - 1 \in 0..n /\ Good(m - 1)
    <3>. HIDE DEF Good
    <3>. QED
      BY <1>1, <2>2, <2>3, <2>4
  <2>6. L[m] = NextLayer(L[m - 1])
    BY <1>4, <2>3, <2>4
  <2>7. IsList(L[m]) /\ Len(L[m]) = (Len(L[m - 1]) + 1) \div 2
    BY <2>5, <2>6, NextLayerFacts
  <2>8. Len(L[m - 1]) \in Nat
    BY <2>5 DEF IsList
  <2>9. Good(m)
    <3>. DEFINE a == Len(L[m - 1])
                b == Len(L[m])
    <3>1. a \in Nat /\ a >= 1 /\ (a = 1 \/ a <= n - (m - 1))
      BY <2>5, <2>8
    <3>2. b = (a + 1) \div 2
      BY <2>7
    <3>. HIDE DEF a, n
    <3>3. b \in Nat /\ b >= 1 /\ (b = 1 \/ b <= a - 1) /\ (a = 1 => b = 1)
      BY <3>1, <3>2, Halved
    <3>. HIDE DEF b
    <3>4. b = 1 \/ b <= n - m
      BY <1>1, <2>3, <3>1, <3>3
    <3>. QED
      BY <2>7, <3>3, <3>4 DEF b
  <2>. QED
    BY <2>3, <2>9
<1>6. Good(d)
  BY <1>5
<1>7. ASSUME d < n PROVE L[d + 1] = NextLayer(L[d])
  <2>1. d + 1 \in 0..n /\ d + 1 # 0 /\ (d + 1) - 1 = d
    BY <1>1, <1>7
  <2>. QED
    BY <2>1, <1>4
<1>. QED
  BY <1>6, <1>7 DEF L

\* The loops stop, after Depth turns, with one hash left.
LEMMA DepthFacts ==
  ASSUME NEW l, IsList(l), Len(l) > 0
  PROVE  /\ Depth(l) \in 0..(Len(l) - 1)
         /\ Len(Layers(l)[Depth(l)]) = 1
         /\ \A e \in 0..(Depth(l) - 1) : Len(Layers(l)[e]) > 1
<1>. DEFINE n == Len(l)
            S == {d \in 0..n : Len(Layers(l)[d]) = 1}
<1>1. n \in Nat /\ n > 0
  BY DEF IsList
<1>2. n - 1 \in S
  <2>1. n - 1 \in 0..n
    BY <1>1
  <2>2. /\ Len(Layers(l)[n - 1]) >= 1 /\ IsList(Layers(l)[n - 1])
        /\ Len(Layers(l)[n - 1]) = 1 \/ Len(Layers(l)[n - 1]) <= n - (n - 1)
    BY <2>1, LayerFacts
  <2>3. Len(Layers(l)[n - 1]) \in Nat
    BY <2>2 DEF IsList
  <2>. QED
    BY <1>1, <2>1, <2>2, <2>3
<1>3. PICK m \in S : \A k \in S : m <= k
  <2>1. S \in SUBSET Nat
    OBVIOUS
  <2>. HIDE DEF S
  <2>. QED
    BY <1>2, <2>1, LeastOf
<1>4. m \in 0..(n - 1) /\ Len(Layers(l)[m]) = 1
  BY <1>1, <1>2, <1>3
<1>5. ASSUME NEW e \in 0..(m - 1) PROVE Len(Layers(l)[e]) > 1
  <2>1. e \in 0..n /\ e \notin S
    BY <1>1, <1>3, <1>4
  <2>2. Len(Layers(l)[e]) # 1 /\ Len(Layers(l)[e]) >= 1
    BY <2>1, LayerFacts
  <2>3. Len(Layers(l)[e]) \in Nat
    BY <2>1, LayerFacts DEF IsList
  <2>. DEFINE a == Len(Layers(l)[e])
  <2>. HIDE DEF a
  <2>4. a # 1 /\ a >= 1 /\ a \in Nat => a > 1
    OBVIOUS
  <2>. QED
    BY <2>2, <2>3, <2>4 DEF a
<1>. DEFINE P(d) == /\ Len(Layers(l)[d]) = 1
                    /\ \A e \in 0..(d - 1) : Len(Layers(l)[e]) > 1
<1>6. m \in 0..Len(l) /\ P(m)
  BY <1>1, <1>4, <1>5
<1>7. Depth(l) = CHOOSE d \in 0..Len(l) : P(d)
  BY DEF Depth
<1>8. Depth(l) \in 0..n /\ P(Depth(l))
  <2>. HIDE DEF P
  <2>. QED
    BY <1>6, <1>7
<1>9. m \notin 0..(Depth(l) - 1)
  <2>1. ASSUME m \in 0..(Depth(l) - 1) PROVE FALSE
    <3>1. Len(Layers(l)[m]) > 1 /\ Len(Layers(l)[m]) = 1
      BY <1>4, <1>8, <2>1
    <3>. QED
      BY <3>1
  <2>. QED
    BY <2>1
<1>. QED
  BY <1>1, <1>4, <1>8, <1>9

\* The position of the leaf's ancestor after d turns is one of that layer.
LEMMA PathIndexFacts ==
  ASSUME NEW l, IsList(l), NEW x \in 0..(Len(l) - 1), NEW d \in 0..Len(l)
  PROVE  /\ PathIndex(x, Len(l))[d] \in 0..(Len(Layers(l)[d]) - 1)
         /\ PathIndex(x, Len(l))[0] = x
         /\ d < Len(l) =>
              PathIndex(x, Len(l))[d + 1] = PathIndex(x, Len(l))[d] \div 2
<1>. DEFINE n == Len(l)
            L == Layers(l)
            I == PathIndex(x, n)
            Good(e) == I[e] \in 0..(Len(L[e]) - 1)
            Bad == {e \in 0..n : ~Good(e)}
<1>1. n \in Nat /\ n > 0
  BY DEF IsList
<1>2. I = [e \in 0..n |-> IF e = 0 THEN x ELSE I[e - 1] \div 2]
  BY <1>1, PathIndexValue
<1>3. I[0] = x
  <2>. HIDE DEF n, I
  <2>. QED
    BY <1>1, <1>2
<1>4. ASSUME NEW e \in 0..n, e # 0 PROVE I[e] = I[e - 1] \div 2
  <2>. HIDE DEF n, I
  <2>. QED
    BY <1>2, <1>4
<1>5. L[0] = l
  <2>1. L = [e \in 0..n |-> IF e = 0 THEN l ELSE NextLayer(L[e - 1])]
    BY LayersValue
  <2>. HIDE DEF n, L
  <2>. QED
    BY <1>1, <2>1
<1>. HIDE DEF I
<1>6. Bad = {}
  <2>1. SUFFICES ASSUME Bad # {} PROVE FALSE
    OBVIOUS
  <2>2. PICK m \in Bad : \A k \in Bad : m <= k
    <3>. HIDE DEF Good
    <3>1. Bad \in SUBSET Nat
      OBVIOUS
    <3>. HIDE DEF Bad
    <3>. QED
      BY <2>1, <3>1, LeastOf
  <2>3. m \in 0..n /\ m \in Nat /\ ~Good(m)
    OBVIOUS
  <2>4. m # 0
    BY <1>1, <1>3, <1>5, <2>3
  <2>5. m - 1 \in 0..n /\ m - 1 < n /\ Good(m - 1) /\ (m - 1) + 1 = m
    <3>. HIDE DEF Good
    <3>. QED
      BY <1>1, <2>2, <2>3, <2>4
  <2>6. I[m] = I[m - 1] \div 2
    BY <1>4, <2>3, <2>4
  <2>7. L[m] = NextLayer(L[m - 1]) /\ IsList(L[m - 1])
    BY <1>1, <2>5, LayerFacts
  <2>8. Len(L[m]) = (Len(L[m - 1]) + 1) \div 2
    BY <2>7, NextLayerFacts
  <2>9. Len(L[m - 1]) \in Nat
    BY <2>7 DEF IsList
  <2>10. Good(m)
    <3>. DEFINE a == Len(L[m - 1])
                b == Len(L[m])
    <3>1. I[m - 1] \in 0..(a - 1) /\ a \in Nat /\ b = (a + 1) \div 2
      BY <2>5, <2>8, <2>9
    <3>. HIDE DEF a, b
    <3>2. a >= 1
      BY <3>1
    <3>3. I[m] \in 0..(b - 1)
      BY <2>6, <3>1, <3>2, Halved
    <3>. QED
      BY <3>3 DEF b
  <2>. QED
    BY <2>3, <2>10
<1>7. Good(d)
  BY <1>6
<1>8. ASSUME d < n PROVE I[d + 1] = I[d] \div 2
  <2>1. d + 1 \in 0..n /\ d + 1 # 0 /\ (d + 1) - 1 = d
    BY <1>1, <1>8
  <2>. QED
    BY <2>1, <1>4
<1>. QED
  BY <1>3, <1>7, <1>8 DEF I

-----------------------------------------------------------------------------
(* Inclusion proofs *)

\* What compute_inclusion_proof appends to the path at one turn.
Sibling(layer, idx) ==
  IF idx % 2 = 1
  THEN [sibling |-> layer[idx], position |-> "left"]
  ELSE [sibling  |-> layer[IF idx + 2 <= Len(layer) THEN idx + 2 ELSE idx + 1],
        position |-> "right"]

\* One turn of the verifier goes from a hash of a layer to the hash above it:
\* the path builder and the root builder pair alike.
LEMMA SiblingHashed ==
  ASSUME NEW layer, IsList(layer), NEW idx \in 0..(Len(layer) - 1)
  PROVE  Replayed(Sibling(layer, idx), layer[idx + 1]) = NextLayer(layer)[idx \div 2 + 1]
<1>. DEFINE q == idx \div 2
            n == Len(layer)
            m == (Len(layer) + 1) \div 2
<1>1. n \in Nat /\ n >= 1
  BY DEF IsList
<1>2. q \in 0..(m - 1)
  BY <1>1, Halved
<1>3. m \in Nat
  BY <1>1, Halved
<1>4. q + 1 \in 1..m
  <2>. HIDE DEF q, m
  <2>. QED
    BY <1>2, <1>3
<1>5. NextLayer(layer)[q + 1] =
        InternalHash(layer[2*(q + 1) - 1],
                     IF 2*(q + 1) <= n THEN layer[2*(q + 1)] ELSE layer[2*(q + 1) - 1])
  <2>. HIDE DEF q
  <2>. QED
    BY <1>4, NextLayerFacts
<1>6. CASE idx % 2 = 1
  <2>1. q \in Int /\ idx = 2*q + 1 /\ 2*(q + 1) <= n
        /\ 2*(q + 1) - 1 = idx /\ 2*(q + 1) = idx + 1
    BY <1>1, <1>6
  <2>2. NextLayer(layer)[q + 1] = InternalHash(layer[idx], layer[idx + 1])
    <3>. HIDE DEF q, n
    <3>. QED
      BY <1>5, <2>1
  <2>3. Sibling(layer, idx) = [sibling |-> layer[idx], position |-> "left"]
    BY <1>6 DEF Sibling
  <2>. QED
    BY <2>2, <2>3 DEF Replayed
<1>7. CASE idx % 2 # 1
  <2>1. q \in Int /\ idx = 2*q
    BY <1>1, <1>7
  <2>2. 2*(q + 1) - 1 = idx + 1 /\ 2*(q + 1) = idx + 2
    <3>. HIDE DEF q
    <3>. QED
      BY <2>1
  <2>. DEFINE s == IF idx + 2 <= n THEN idx + 2 ELSE idx + 1
  <2>3. NextLayer(layer)[q + 1] = InternalHash(layer[idx + 1], layer[s])
    <3>. HIDE DEF q, n
    <3>. QED
      BY <1>5, <2>2
  <2>4. Sibling(layer, idx) = [sibling |-> layer[s], position |-> "right"]
    BY <1>7 DEF Sibling
  <2>. QED
    BY <2>3, <2>4 DEF Replayed
<1>. QED
  BY <1>6, <1>7

LEMMA PathFacts ==
  ASSUME NEW l, IsList(l), Len(l) > 0, NEW x \in 0..(Len(l) - 1)
  PROVE  /\ IsList(InclusionPath(x, l)) /\ Len(InclusionPath(x, l)) = Depth(l)
         /\ \A k \in 1..Depth(l) :
              InclusionPath(x, l)[k] =
                Sibling(Layers(l)[k - 1], PathIndex(x, Len(l))[k - 1])
<1>. DEFINE p == InclusionPath(x, l)
<1>1. Depth(l) \in Nat
  BY DepthFacts
<1>2. p = [k \in 1..Depth(l) |-> Sibling(Layers(l)[k - 1], PathIndex(x, Len(l))[k - 1])]
  BY DEF InclusionPath, Sibling
<1>3. \A k \in 1..Depth(l) : p[k] = Sibling(Layers(l)[k - 1], PathIndex(x, Len(l))[k - 1])
  <2>. HIDE DEF p
  <2>. QED
    BY <1>2
<1>4. p = [k \in 1..Depth(l) |-> p[k]]
  <2>. HIDE DEF p
  <2>. QED
    BY <1>2
<1>5. IsList(p) /\ Len(p) = Depth(l)
  <2>. HIDE DEF p
  <2>. QED
    BY <1>1, <1>4, FunctionIsList
<1>. QED
  BY <1>3, <1>5

\* The proof made for a leaf replays to the root.
LEMMA InclusionVerifies ==
  ASSUME NEW l, IsList(l), NEW x \in 0..(Len(l) - 1)
  PROVE  VerifyInclusionProof(InclusionProof(x, l))
<1>. DEFINE n == Len(l)
            D == Depth(l)
            L == Layers(l)
            I == PathIndex(x, n)
            p == InclusionPath(x, l)
<1>1. n \in Nat /\ n > 0 /\ D \in 0..(n - 1) /\ D \in Nat
  BY DepthFacts DEF IsList
<1>2. IsList(p) /\ Len(p) = D
  BY <1>1, PathFacts
<1>3. PICK h : /\ h = [k \in 0..D |-> IF k = 0 THEN l[x + 1] ELSE Replayed(p[k], h[k - 1])]
               /\ Replay(l[x + 1], p) = h[D]
  <2>. HIDE DEF p, D
  <2>. QED
    BY <1>2, ReplayValue
<1>4. L[0] = l /\ I[0] = x
  <2>1. L = [e \in 0..n |-> IF e = 0 THEN l ELSE NextLayer(L[e - 1])]
    BY LayersValue
  <2>2. I[0] = x
    BY <1>1, PathIndexFacts
  <2>. HIDE DEF n, L
  <2>3. L[0] = l
    BY <1>1, <2>1
  <2>. QED
    BY <2>2, <2>3
<1>5. ASSUME NEW k \in 1..D PROVE Replayed(p[k], L[k - 1][I[k - 1] + 1]) = L[k][I[k] + 1]
  <2>1. k - 1 \in 0..n /\ k - 1 < n /\ (k - 1) + 1 = k
    BY <1>1
  <2>2. p[k] = Sibling(L[k - 1], I[k - 1])
    BY <1>1, PathFacts
  <2>3. IsList(L[k - 1]) /\ L[k] = NextLayer(L[k - 1])
    BY <1>1, <2>1, LayerFacts
  <2>4. I[k - 1] \in 0..(Len(L[k - 1]) - 1) /\ I[k] = I[k - 1] \div 2
    BY <2>1, PathIndexFacts
  <2>. HIDE DEF L, I, p
  <2>. QED
    BY <2>2, <2>3, <2>4, SiblingHashed
<1>. DEFINE Good(k) == h[k] = L[k][I[k] + 1]
            Bad == {k \in 0..D : ~Good(k)}
<1>6. Bad = {}
  <2>1. SUFFICES ASSUME Bad # {} PROVE FALSE
    OBVIOUS
  <2>2. PICK m \in Bad : \A k \in Bad : m <= k
    <3>. HIDE DEF Good, D
    <3>1. Bad \in SUBSET Nat
      BY <1>1
    <3>. HIDE DEF Bad
    <3>. QED
      BY <2>1, <3>1, LeastOf
  <2>3. m \in 0..D /\ m \in Nat /\ ~Good(m)
    BY <1>1
  <2>. HIDE DEF n, L, I, p, D
  <2>4. m # 0
    BY <1>1, <1>3, <1>4, <2>3
  <2>5. m - 1 \in 0..D /\ m \in 1..D
    BY <1>1, <2>3, <2>4
  <2>6. Good(m - 1)
    <3>. HIDE DEF Good
    <3>1. ~(m <= m - 1)
      BY <2>3
    <3>. QED
      BY <2>2, <2>5, <3>1
  <2>7. h[m] = Replayed(p[m], h[m - 1])
    BY <1>3, <2>3, <2>4
  <2>. QED
    BY <1>5, <2>3, <2>5, <2>6, <2>7
<1>7. h[D] = L[D][I[D] + 1]
  BY <1>1, <1>6
<1>8. I[D] = 0 /\ Len(L[D]) = 1
  <2>1. Len(L[D]) = 1
    BY <1>1, DepthFacts
  <2>2. I[D] \in 0..(Len(L[D]) - 1)
    BY <1>1, PathIndexFacts
  <2>. HIDE DEF I, L
  <2>. QED
    BY <2>1, <2>2
<1>9. MerkleRoot(l) = L[D][1]
  <2>1. l # <<>>
    BY <1>1
  <2>. QED
    BY <2>1 DEF MerkleRoot
<1>. HIDE DEF I, L, D
<1>10. Replay(l[x + 1], p) = MerkleRoot(l)
  BY <1>3, <1>7, <1>8, <1>9
<1>. QED
  BY <1>10 DEF VerifyInclusionProof, InclusionProof

LEMMA InternalHashInjective ==
  ASSUME NEW a, NEW b, NEW c, NEW d, InternalHash(a, b) = InternalHash(c, d)
  PROVE  a = c /\ b = d
BY DEF InternalHash

\* A path leads from two different hashes to two different ones.
LEMMA ReplayInjective ==
  ASSUME NEW x, NEW y, NEW path, IsList(path), Replay(x, path) = Replay(y, path)
  PROVE  x = y
<1>. DEFINE n == Len(path)
<1>1. n \in Nat
  BY DEF IsList
<1>2. PICK h : /\ h = [k \in 0..n |-> IF k = 0 THEN x ELSE Replayed(path[k], h[k - 1])]
               /\ Replay(x, path) = h[n]
  BY ReplayValue
<1>3. PICK g : /\ g = [k \in 0..n |-> IF k = 0 THEN y ELSE Replayed(path[k], g[k - 1])]
               /\ Replay(y, path) = g[n]
  BY ReplayValue
<1>. HIDE DEF n
<1>. DEFINE S == {k \in 0..n : h[k] = g[k]}
<1>4. S \in SUBSET Nat /\ n \in S
  <2>1. h[n] = g[n]
    BY <1>2, <1>3
  <2>. QED
    BY <1>1, <2>1
<1>5. PICK m \in S : \A k \in S : m <= k
  <2>. HIDE DEF S
  <2>. QED
    BY <1>4, LeastOf
<1>6. m \in 0..n /\ m \in Nat /\ h[m] = g[m]
  BY <1>1
<1>7. ASSUME m # 0 PROVE FALSE
  <2>1. m - 1 \in 0..n /\ ~(m <= m - 1)
    BY <1>1, <1>6, <1>7
  <2>2. Replayed(path[m], h[m - 1]) = Replayed(path[m], g[m - 1])
    <3>1. h[m] = Replayed(path[m], h[m - 1])
      BY <1>2, <1>6, <1>7
    <3>2. g[m] = Replayed(path[m], g[m - 1])
      BY <1>3, <1>6, <1>7
    <3>. QED
      BY <1>6, <3>1, <3>2
  <2>3. h[m - 1] = g[m - 1]
    BY <2>2, InternalHashInjective DEF Replayed
  <2>4. m - 1 \in S
    BY <2>1, <2>3
  <2>. QED
    BY <1>5, <2>1, <2>4
<1>8. h[0] = x /\ g[0] = y
  BY <1>1, <1>2, <1>3
<1>. QED
  BY <1>6, <1>7, <1>8

\* The path of one leaf verifies no other leaf hash.
LEMMA PathBindsLeaf ==
  ASSUME NEW l, IsList(l), NEW x \in 0..(Len(l) - 1), NEW hash,
         VerifyInclusionProof([InclusionProof(x, l) EXCEPT !.leaf_hash = hash])
  PROVE  l[x + 1] = hash
<1>. DEFINE p == InclusionPath(x, l)
<1>1. IsList(p)
  BY PathFacts DEF IsList
<1>2. Replay(l[x + 1], p) = MerkleRoot(l)
  BY InclusionVerifies DEF VerifyInclusionProof, InclusionProof
<1>3. Replay(hash, p) = MerkleRoot(l)
  BY DEF VerifyInclusionProof, InclusionProof
<1>. QED
  BY <1>1, <1>2, <1>3, ReplayInjective

-----------------------------------------------------------------------------
(* Roots of different lists *)

\* Pairing keeps the hashes of a layer distinct, and tells distinct layers
\* apart: only the last hash of an odd layer is paired with itself.
LEMMA NextLayerDistinct ==
  ASSUME NEW a, IsList(a), Distinct(a)
  PROVE  Distinct(NextLayer(a))
<1>. DEFINE m == (Len(a) + 1) \div 2
<1>1. Len(a) \in Nat
  BY DEF IsList
<1>2. Len(NextLayer(a)) = m
  BY NextLayerFacts
<1>3. ASSUME NEW i \in 1..m, NEW j \in 1..m, NextLayer(a)[i] = NextLayer(a)[j]
      PROVE  i = j
  <2>1. a[2*i - 1] = a[2*j - 1]
    BY <1>3, NextLayerFacts, InternalHashInjective
  <2>2. 2*i - 1 \in 1..Len(a) /\ 2*j - 1 \in 1..Len(a)
    BY <1>1
  <2>3. 2*i - 1 = 2*j - 1
    BY <2>1, <2>2 DEF Distinct
  <2>. QED
    BY <2>3
<1>. QED
  BY <1>2, <1>3 DEF Distinct

LEMMA NextLayerInjective ==
  ASSUME NEW a, NEW b, IsList(a), IsList(b), Distinct(a), Distinct(b),
         NextLayer(a) = NextLayer(b)
  PROVE  a = b
<1>. DEFINE m == (Len(a) + 1) \div 2
<1>1. Len(a) \in Nat /\ Len(b) \in Nat
  BY DEF IsList
<1>2. m = (Len(b) + 1) \div 2
  BY NextLayerFacts
<1>3. ASSUME NEW i \in 1..m
      PROVE  /\ a[2*i - 1] = b[2*i - 1]
             /\ (IF 2*i <= Len(a) THEN a[2*i] ELSE a[2*i - 1]) =
                (IF 2*i <= Len(b) THEN b[2*i] ELSE b[2*i - 1])
  <2>1. InternalHash(a[2*i - 1], IF 2*i <= Len(a) THEN a[2*i] ELSE a[2*i - 1]) =
        InternalHash(b[2*i - 1], IF 2*i <= Len(b) THEN b[2*i] ELSE b[2*i - 1])
    BY <1>2, NextLayerFacts
  <2>. QED
    BY <2>1, InternalHashInjective
<1>4. ASSUME NEW i \in 1..m PROVE 2*i <= Len(a) <=> 2*i <= Len(b)
  <2>1. 2*i <= Len(a) => a[2*i] # a[2*i - 1]
    BY <1>1 DEF Distinct
  <2>2. 2*i <= Len(b) => b[2*i] # b[2*i - 1]
    BY <1>1 DEF Distinct
  <2>. QED
    BY <1>3, <2>1, <2>2
<1>5. Len(a) = Len(b)
  <2>1. CASE m = 0
    BY <1>1, <1>2, <2>1
  <2>2. CASE m # 0
    <3>1. m \in 1..m /\ (Len(a) = 2*m \/ Len(a) = 2*m - 1)
          /\ (Len(b) = 2*m \/ Len(b) = 2*m - 1)
      BY <1>1, <1>2, <2>2
    <3>2. 2*m <= Len(a) <=> 2*m <= Len(b)
      BY <1>4, <3>1
    <3>. HIDE DEF m
    <3>3. m \in Int
      BY <3>1
    <3>. QED
      BY <1>1, <3>1, <3>2, <3>3
  <2>. QED
    BY <2>1, <2>2
<1>6. ASSUME NEW k \in 1..Len(a) PROVE a[k] = b[k]
  <2>1. PICK i \in 1..m : k = 2*i - 1 \/ k = 2*i
    <3>1. (k + 1) \div 2 \in 1..m /\ (k = 2*((k + 1) \div 2) - 1 \/ k = 2*((k + 1) \div 2))
      BY <1>1
    <3>. QED
      BY <3>1
  <2>. QED
    BY <1>1, <1>3, <1>5, <2>1
<1>. QED
  BY <1>5, <1>6, EqualLists

LEMMA LayersDistinct ==
  ASSUME NEW l, IsList(l), Len(l) > 0, Distinct(l), NEW d \in 0..Len(l)
  PROVE  Distinct(Layers(l)[d])
<1>. DEFINE n == Len(l)
            L == Layers(l)
            Bad == {e \in 0..n : ~Distinct(L[e])}
<1>1. n \in Nat
  BY DEF IsList
<1>2. L[0] = l
  <2>1. L = [e \in 0..n |-> IF e = 0 THEN l ELSE NextLayer(L[e - 1])]
    BY LayersValue
  <2>. HIDE DEF n, L
  <2>. QED
    BY <1>1, <2>1
<1>3. SUFFICES ASSUME Bad # {} PROVE FALSE
  OBVIOUS
<1>4. PICK m \in Bad : \A k \in Bad : m <= k
  <2>1. Bad \in SUBSET Nat
    OBVIOUS
  <2>. HIDE DEF Bad
  <2>. QED
    BY <1>3, <2>1, LeastOf
<1>5. m \in 0..n /\ m \in Nat /\ ~Distinct(L[m])
  OBVIOUS
<1>6. m # 0
  BY <1>2, <1>5
<1>7. m - 1 \in 0..n /\ m - 1 < n /\ (m - 1) + 1 = m /\ ~(m <= m - 1)
  BY <1>1, <1>5, <1>6
<1>8. Distinct(L[m - 1])
  BY <1>4, <1>7
<1>9. IsList(L[m - 1]) /\ L[m] = NextLayer(L[m - 1])
  BY <1>7, LayerFacts
<1>. QED
  BY <1>5, <1>8, <1>9, NextLayerDistinct

\* A layer above the leaves holds no leaf hash.
LEMMA LeavesAreNotInternal ==
  ASSUME NEW l, IsList(l), Len(l) > 0, NEW d \in 0..Len(l), d # 0, NEW b
  PROVE  Layers(l)[d][1] # LeafHash(b)
<1>. DEFINE below == Layers(l)[d - 1]
<1>1. d - 1 \in 0..Len(l) /\ d - 1 < Len(l) /\ (d - 1) + 1 = d
  BY DEF IsList
<1>2. IsList(below) /\ Len(below) >= 1 /\ Layers(l)[d] = NextLayer(below)
  BY <1>1, LayerFacts
<1>. HIDE DEF below
<1>3. 1 \in 1..((Len(below) + 1) \div 2)
  BY <1>2, Halved DEF IsList
<1>4. \E x, y : Layers(l)[d][1] = InternalHash(x, y)
  BY <1>2, <1>3, NextLayerFacts
<1>5. ASSUME NEW x, NEW y PROVE InternalHash(x, y) # LeafHash(b)
  <2>1. Len(<<x, y>>) = 2 /\ Len(<<b>>) = 1
    OBVIOUS
  <2>. QED
    BY <2>1 DEF InternalHash, LeafHash
<1>. QED
  BY <1>4, <1>5

\* Lists of leaf hashes that do not repeat have the same root only if they
\* are equal.
LEMMA RootInjective ==
  ASSUME NEW a, NEW b, IsLeafList(a), IsLeafList(b), Len(a) > 0, Len(b) > 0,
         MerkleRoot(a) = MerkleRoot(b), Depth(a) <= Depth(b)
  PROVE  a = b
<1>. DEFINE A == Layers(a)
            B == Layers(b)
            D == Depth(a)
            E == Depth(b)
<1>1. /\ IsList(a) /\ IsList(b) /\ Distinct(a) /\ Distinct(b)
      /\ Len(a) \in Nat /\ Len(b) \in Nat
  BY DEF IsLeafList, IsList
<1>2. D \in 0..Len(a) /\ D < Len(a) /\ E \in 0..Len(b) /\ E < Len(b) /\ D <= E
  BY <1>1, DepthFacts
<1>3. A[D] = B[E]
  <2>1. Len(A[D]) = 1 /\ Len(B[E]) = 1
    BY <1>1, DepthFacts
  <2>2. IsList(A[D]) /\ IsList(B[E])
    BY <1>1, <1>2, LayerFacts
  <2>3. A[D][1] = B[E][1]
    <3>1. a # <<>> /\ b # <<>>
      BY <1>1
    <3>. QED
      BY <3>1 DEF MerkleRoot
  <2>. HIDE DEF A, B, D, E
  <2>4. \A i \in 1..Len(A[D]) : A[D][i] = B[E][i]
    BY <2>1, <2>3
  <2>. QED
    BY <2>1, <2>2, <2>4, EqualLists
<1>4. A[0] = a /\ B[0] = b
  <2>1. A = [e \in 0..Len(a) |-> IF e = 0 THEN a ELSE NextLayer(A[e - 1])]
    BY <1>1, LayersValue
  <2>2. B = [e \in 0..Len(b) |-> IF e = 0 THEN b ELSE NextLayer(B[e - 1])]
    BY <1>1, LayersValue
  <2>. HIDE DEF A, B
  <2>. QED
    BY <1>1, <2>1, <2>2
<1>. DEFINE S == {k \in 0..D : A[k] = B[E - D + k]}
<1>5. D \in S
  <2>1. D \in 0..D /\ E - D + D = E
    BY <1>1, <1>2
  <2>. HIDE DEF A, B, D, E
  <2>. QED
    BY <1>3, <2>1
<1>6. PICK m \in S : \A k \in S : m <= k
  <2>1. S \in SUBSET Nat
    OBVIOUS
  <2>. HIDE DEF S
  <2>. QED
    BY <1>5, <2>1, LeastOf
<1>7. m \in 0..D /\ m \in Nat /\ A[m] = B[E - D + m]
  OBVIOUS
<1>8. ASSUME m # 0 PROVE FALSE
  <2>. DEFINE i == m - 1
              j == E - D + (m - 1)
  <2>1. /\ i \in 0..Len(a) /\ i < Len(a) /\ i + 1 = m /\ i \in 0..D /\ ~(m <= i)
        /\ j \in 0..Len(b) /\ j < Len(b) /\ j + 1 = E - D + m
    <3>. HIDE DEF D, E
    <3>. QED
      BY <1>1, <1>2, <1>7, <1>8
  <2>2. IsList(A[i]) /\ A[i + 1] = NextLayer(A[i]) /\ Distinct(A[i])
    BY <1>1, <2>1, LayerFacts, LayersDistinct
  <2>3. IsList(B[j]) /\ B[j + 1] = NextLayer(B[j]) /\ Distinct(B[j])
    BY <1>1, <2>1, LayerFacts, LayersDistinct
  <2>. HIDE DEF A, B, D, E
  <2>4. NextLayer(A[i]) = NextLayer(B[j])
    BY <1>7, <2>1, <2>2, <2>3
  <2>5. A[i] = B[j]
    <3>. HIDE DEF i, j
    <3>. QED
      BY <2>2, <2>3, <2>4, NextLayerInjective
  <2>6. i \in S
    BY <2>1, <2>5
  <2>. QED
    BY <1>6, <2>1, <2>6
<1>9. a = B[E - D]
  <2>1. E - D + 0 = E - D
    BY <1>1, <1>2
  <2>. HIDE DEF A, B, D, E
  <2>. QED
    BY <1>4, <1>7, <1>8, <2>1
<1>10. E - D = 0
  <2>1. SUFFICES ASSUME E - D # 0 PROVE FALSE
    OBVIOUS
  <2>2. E - D \in 0..Len(b)
    BY <1>1, <1>2
  <2>3. PICK x : a[1] = LeafHash(x)
    <3>1. 1 \in 1..Len(a)
      BY <1>1
    <3>. QED
      BY <3>1 DEF IsLeafList
  <2>4. B[E - D][1] # LeafHash(x)
    <3>. HIDE DEF D, E
    <3>. QED
      BY <1>1, <2>1, <2>2, LeavesAreNotInternal
  <2>. QED
    BY <1>9, <2>3, <2>4
<1>. QED
  BY <1>4, <1>9, <1>10

LEMMA RootOfNonEmpty ==
  ASSUME NEW a, IsLeafList(a), Len(a) > 0
  PROVE  MerkleRoot(a) # EmptyRoot
<1>. DEFINE A == Layers(a)
            D == Depth(a)
<1>1. IsList(a) /\ Len(a) \in Nat
  BY DEF IsLeafList, IsList
<1>2. D \in 0..Len(a) /\ D < Len(a) /\ Len(A[D]) = 1
  BY <1>1, DepthFacts
<1>3. MerkleRoot(a) = A[D][1]
  <2>1. a # <<>>
    BY <1>1
  <2>. QED
    BY <2>1 DEF MerkleRoot
<1>4. CASE D = 0
  <2>1. A = [e \in 0..Len(a) |-> IF e = 0 THEN a ELSE NextLayer(A[e - 1])]
    BY <1>1, LayersValue
  <2>2. A[0] = a
    <3>. HIDE DEF A
    <3>. QED
      BY <1>1, <2>1
  <2>3. PICK x : a[1] = LeafHash(x)
    <3>1. 1 \in 1..Len(a)
      BY <1>1
    <3>. QED
      BY <3>1 DEF IsLeafList
  <2>4. LeafHash(x) # EmptyRoot
    <3>1. Len(<<x>>) = 1 /\ Len(<<>>) = 0
      OBVIOUS
    <3>. QED
      BY <3>1 DEF LeafHash, EmptyRoot
  <2>. QED
    BY <1>3, <1>4, <2>2, <2>3, <2>4
<1>5. CASE D # 0
  <2>. DEFINE below == A[D - 1]
  <2>1. D - 1 \in 0..Len(a) /\ D - 1 < Len(a) /\ (D - 1) + 1 = D
    <3>. HIDE DEF D
    <3>. QED
      BY <1>1, <1>2, <1>5
  <2>2. IsList(below) /\ Len(below) >= 1 /\ A[D] = NextLayer(below)
    BY <1>1, <2>1, LayerFacts
  <2>. HIDE DEF below, A, D
  <2>3. 1 \in 1..((Len(below) + 1) \div 2)
    BY <2>2, Halved DEF IsList
  <2>4. PICK x, y : A[D][1] = InternalHash(x, y)
    BY <2>2, <2>3, NextLayerFacts
  <2>5. InternalHash(x, y) # EmptyRoot
    <3>1. Len(<<x, y>>) = 2 /\ Len(<<>>) = 0
      OBVIOUS
    <3>. QED
      BY <3>1 DEF InternalHash, EmptyRoot
  <2>. QED
    BY <1>3, <2>4, <2>5
<1>. QED
  BY <1>4, <1>5

LEMMA RootDeterminesLeaves ==
  ASSUME NEW a, NEW b, IsLeafList(a), IsLeafList(b), MerkleRoot(a) = MerkleRoot(b)
  PROVE  a = b
<1>1. Len(a) \in Nat /\ Len(b) \in Nat /\ IsList(a) /\ IsList(b)
  BY DEF IsLeafList, IsList
<1>2. \A s : IsList(s) /\ Len(s) = 0 => s = <<>>
  BY DEF IsList
<1>3. MerkleRoot(<<>>) = EmptyRoot
  BY DEF MerkleRoot
<1>4. CASE Len(a) = 0 /\ Len(b) = 0
  BY <1>1, <1>2, <1>4
<1>5. CASE Len(a) = 0 /\ Len(b) > 0
  BY <1>1, <1>2, <1>3, <1>5, RootOfNonEmpty
<1>6. CASE Len(a) > 0 /\ Len(b) = 0
  BY <1>1, <1>2, <1>3, <1>6, RootOfNonEmpty
<1>7. CASE Len(a) > 0 /\ Len(b) > 0
  <2>1. Depth(a) \in Nat /\ Depth(b) \in Nat
    BY <1>1, <1>7, DepthFacts
  <2>2. CASE Depth(a) <= Depth(b)
    BY <1>7, <2>2, RootInjective
  <2>3. CASE Depth(b) <= Depth(a)
    BY <1>7, <2>3, RootInjective
  <2>. QED
    BY <2>1, <2>2, <2>3
<1>. QED
  BY <1>1, <1>4, <1>5, <1>6, <1>7
-----------------------------------------------------------------------------
(* The tree that grows a leaf at a time *)

LEMMA TreeLists == TreeSpec => []IsList(leaves)
<1>. DEFINE Hashes == {LeafHash(b) : b \in Bodies}
            Grown == leaves \in Seq(Hashes)
<1>1. TreeInit => Grown
  BY DEF TreeInit
<1>2. Grown /\ [TreeNext]_leaves => Grown'
  BY DEF TreeNext, Grow
<1>3. Grown => IsList(leaves)
  <2>. HIDE DEF Hashes
  <2>. QED
    BY SeqIsList
<1>. QED
  BY <1>1, <1>2, <1>3, PTL DEF TreeSpec

\* Whatever the number of leaves, the proof compute_inclusion_proof builds
\* for any of them passes verify_inclusion_proof.
THEOREM ProofsAlwaysVerify == TreeSpec => []ProofsVerify
<1>1. IsList(leaves) => ProofsVerify
  BY InclusionVerifies DEF ProofsVerify, Indices
<1>. QED
  BY <1>1, TreeLists, PTL

\* The proof of one leaf passes for no other leaf hash.
THEOREM ProofsAlwaysBind == TreeSpec => []ProofsBindLeaf
<1>1. IsList(leaves) => ProofsBindLeaf
  BY PathBindsLeaf DEF ProofsBindLeaf, Indices
<1>. QED
  BY <1>1, TreeLists, PTL

-----------------------------------------------------------------------------
(* The log *)

\* The entry the call of w appends.
EntryOf(w) == Entry(calls[w].next_seq, calls[w].event)

\* The line of w's call is the last one of a file that can be read.
AppendedLast(w) ==
  /\ tail = "ok"
  /\ Len(lines) = calls[w].next_seq + 1
  /\ lines[Len(lines)] = EntryOf(w)

\* What w's call knows at each of its steps.  This is what makes the
\* invariants inductive: the length read is still the length of the file
\* when the line is written, and the payload is still that of the whole file
\* when it replaces root.json.
CallKnows(w) ==
  /\ calls[w].pc # "idle" => calls[w].event \in Events
  /\ calls[w].pc = "read" => Len(lines) < MaxLines
  /\ calls[w].pc = "write" =>
       Readable /\ Len(lines) < MaxLines /\ calls[w].next_seq = Len(lines)
  /\ calls[w].pc = "refresh" => AppendedLast(w) \/ tail = "torn"
  /\ calls[w].pc = "tmp" => AppendedLast(w) /\ calls[w].entries = lines
  /\ calls[w].pc = "replace" => AppendedLast(w) /\ tmp = RootPayload(lines)
  /\ calls[w].pc = "return" => AppendedLast(w) /\ root.entry_count = Len(lines)

\* A line without its newline is under no root: the next append may run
\* into it without taking anything published away.
UnterminatedIsUnpublished ==
  tail = "noeol" => Len(lines) > 0 /\ root.entry_count < Len(lines)

IInv ==
  /\ TypeOK
  /\ SeqMatchesPosition
  /\ RootCommitsPrefix
  /\ AckedIsPublished
  /\ \A w \in Writers : CallKnows(w)
  /\ UnterminatedIsUnpublished
-----------------------------------------------------------------------------
(* Facts about the helpers *)

LEMMA EntryFacts ==
  ASSUME NEW s \in 0..MaxLines, NEW e \in Events
  PROVE  Entry(s, e) \in EntrySet /\ Entry(s, e).seq = s
<1>1. <<s, e>> \in (0..MaxLines) \X Events
  OBVIOUS
<1>2. Entry(<<s, e>>[1], <<s, e>>[2]) = Entry(s, e)
  OBVIOUS
<1>3. Entry(s, e) \in EntrySet
  BY <1>1, <1>2 DEF EntrySet
<1>. QED
  BY <1>3 DEF Entry, LeafHash

LEMMA EntrySetFacts ==
  ASSUME NEW x \in EntrySet
  PROVE  x.seq \in 0..MaxLines
<1>1. PICK p \in (0..MaxLines) \X Events : x = Entry(p[1], p[2])
  BY DEF EntrySet
<1>. QED
  BY <1>1, EntryFacts

LEMMA AppendFacts ==
  ASSUME NEW S, NEW s \in Seq(S), NEW x \in S
  PROVE  /\ Append(s, x) \in Seq(S)
         /\ Len(Append(s, x)) = Len(s) + 1
         /\ \A i \in 1..Len(s) : Append(s, x)[i] = s[i]
         /\ Append(s, x)[Len(s) + 1] = x
OBVIOUS

LEMMA PrefixFacts ==
  ASSUME NEW S, NEW s \in Seq(S), NEW n \in 0..Len(s)
  PROVE  /\ SubSeq(s, 1, n) \in Seq(S)
         /\ Len(SubSeq(s, 1, n)) = n
         /\ \A i \in 1..n : SubSeq(s, 1, n)[i] = s[i]
<1>1. Len(s) \in Nat /\ \A i \in 1..n : s[i] \in S
  OBVIOUS
<1>. QED
  BY <1>1, SubSeqProperties

LEMMA NoRootFacts == NoRoot.entry_count = 0
BY DEF NoRoot, RootPayload

LEMMA PayloadFacts ==
  ASSUME lines \in Seq(EntrySet)
  PROVE  Commits(RootPayload(lines)) /\ RootPayload(lines).entry_count = Len(lines)
BY DEF Commits, RootPayload, LeafHashes

\* A step that keeps root.json and the lines under it keeps what depends on
\* them.
LEMMA CommittedLinesKept ==
  ASSUME TypeOK, RootCommitsPrefix, AckedIsPublished,
         root' = root, acked' = acked,
         root.entry_count <= Len(lines'), Len(lines') \in Nat,
         \A i \in 1..root.entry_count : lines'[i] = lines[i]
  PROVE  RootCommitsPrefix' /\ AckedIsPublished'
<1>1. root.entry_count \in 0..Len(lines)
  BY DEF RootCommitsPrefix, Commits
<1>2. [i \in 1..root'.entry_count |-> lines'[i].leaf_hash] =
      [i \in 1..root.entry_count |-> lines[i].leaf_hash]
  OBVIOUS
<1>3. RootCommitsPrefix'
  <2>1. root'.entry_count \in 0..Len(lines')
    BY <1>1
  <2>2. root'.merkle_root_hash =
          MerkleRoot([i \in 1..root'.entry_count |-> lines'[i].leaf_hash])
    BY <1>2, Zenon DEF RootCommitsPrefix, Commits
  <2>. QED
    BY <2>1, <2>2 DEF RootCommitsPrefix, Commits
<1>4. ASSUME NEW e \in acked
      PROVE  e.seq < root'.entry_count /\ lines'[e.seq + 1] = e
  <2>1. e.seq \in Nat
    BY EntrySetFacts DEF TypeOK
  <2>2. e.seq + 1 \in 1..root.entry_count
    BY <1>1, <2>1 DEF AckedIsPublished, TypeOK
  <2>. QED
    BY <2>2 DEF AckedIsPublished
<1>. QED
  BY <1>3, <1>4 DEF AckedIsPublished
-----------------------------------------------------------------------------
(* The invariant *)

LEMMA InitIInv == Init => IInv
<1>. SUFFICES ASSUME Init PROVE IInv
  OBVIOUS
<1>. USE DEF Init
<1>1. TypeOK
  BY ConstantsOK, NoRootFacts DEF TypeOK, CallSet, Idle, Steps
<1>2. SeqMatchesPosition
  BY DEF SeqMatchesPosition
<1>3. RootCommitsPrefix
  BY PayloadFacts DEF RootCommitsPrefix, NoRoot
<1>4. AckedIsPublished /\ UnterminatedIsUnpublished
  BY DEF AckedIsPublished, UnterminatedIsUnpublished
<1>5. \A w \in Writers : CallKnows(w)
  BY DEF CallKnows, Idle
<1>. QED
  BY <1>1, <1>2, <1>3, <1>4, <1>5 DEF IInv

\* Only the holder of the caller's transaction is in a call, so a step of w
\* leaves the other calls outside any step: they know nothing to preserve.
LEMMA OthersIdle ==
  ASSUME TypeOK, NEW w \in Writers, NEW u \in Writers, u # w,
         calls[w].pc # "idle" \/ lock = NoWriter,
         calls'[u] = calls[u]
  PROVE  CallKnows(u)'
<1>1. calls[u].pc = "idle"
  BY ConstantsOK DEF TypeOK
<1>. QED
  BY <1>1 DEF CallKnows

\* A call that ends leaves nothing to preserve either.
LEMMA EndCallKnows ==
  ASSUME TypeOK, NEW w \in Writers, calls[w].pc # "idle", EndCall(w)
  PROVE  \A u \in Writers : CallKnows(u)'
<1>1. CallKnows(w)'
  BY DEF EndCall, TypeOK, CallKnows, Idle
<1>2. ASSUME NEW u \in Writers, u # w PROVE CallKnows(u)'
  BY <1>2, OthersIdle DEF EndCall, TypeOK
<1>. QED
  BY <1>1, <1>2

\* A step inside a call moves pc and nothing else of the local state.
LEMMA GotoFacts ==
  ASSUME TypeOK, NEW w \in Writers, calls[w].pc # "idle",
         NEW pc \in Steps \ {"idle"}, Goto(w, pc), lock' = lock
  PROVE  /\ calls' \in [Writers -> CallSet]
         /\ \A u \in Writers : calls'[u].pc # "idle" <=> lock' = u
         /\ calls'[w].pc = pc /\ calls'[w].event = calls[w].event
         /\ calls'[w].next_seq = calls[w].next_seq
         /\ \A u \in Writers : u # w => calls'[u] = calls[u]
<1>. DEFINE c == [calls[w] EXCEPT !.pc = pc]
<1>1. calls' = [calls EXCEPT ![w] = c]
  BY DEF Goto
<1>2. calls[w] \in CallSet /\ calls \in [Writers -> CallSet]
  BY DEF TypeOK
<1>3. c \in CallSet /\ c.pc = pc /\ c.event = calls[w].event
        /\ c.next_seq = calls[w].next_seq
  BY <1>2 DEF CallSet, Steps
<1>. HIDE DEF c
<1>4. calls'[w] = c /\ \A u \in Writers : u # w => calls'[u] = calls[u]
  BY <1>1, <1>2
<1>5. calls' \in [Writers -> CallSet]
  BY <1>1, <1>2, <1>3
<1>6. \A u \in Writers : calls'[u].pc # "idle" <=> lock' = u
  BY <1>3, <1>4 DEF TypeOK
<1>. QED
  BY <1>3, <1>4, <1>5, <1>6

\* A call that ends without touching the files preserves the invariant.
LEMMA EndCallIInv ==
  ASSUME IInv, NEW w \in Writers, calls[w].pc # "idle", EndCall(w),
         lines' = lines, tail' = tail, root' = root, acked' = acked,
         tmp'.entry_count \in Nat
  PROVE  IInv'
<1>. USE DEF IInv
<1>1. TypeOK'
  BY ConstantsOK DEF TypeOK, EndCall, CallSet, Idle, Steps
<1>2. SeqMatchesPosition' /\ RootCommitsPrefix' /\ AckedIsPublished'
        /\ UnterminatedIsUnpublished'
  BY DEF SeqMatchesPosition, RootCommitsPrefix, Commits, AckedIsPublished,
         UnterminatedIsUnpublished
<1>3. \A u \in Writers : CallKnows(u)'
  BY EndCallKnows
<1>. QED
  BY <1>1, <1>2, <1>3

LEMMA CallIInv ==
  ASSUME IInv, NEW w \in Writers, NEW e \in Events, Call(w, e)
  PROVE  IInv'
<1>. USE DEF IInv, Call
<1>1. TypeOK'
  BY ConstantsOK DEF TypeOK, CallSet, Steps
<1>2. SeqMatchesPosition' /\ RootCommitsPrefix' /\ AckedIsPublished'
        /\ UnterminatedIsUnpublished'
  BY DEF SeqMatchesPosition, RootCommitsPrefix, Commits, AckedIsPublished,
         UnterminatedIsUnpublished
<1>3. CallKnows(w)'
  BY DEF CallKnows, TypeOK, CallSet
<1>4. ASSUME NEW u \in Writers, u # w PROVE CallKnows(u)'
  BY <1>4, OthersIdle DEF TypeOK
<1>. QED
  BY <1>1, <1>2, <1>3, <1>4

LEMMA ReadExistingIInv ==
  ASSUME IInv, NEW w \in Writers, ReadExisting(w)
  PROVE  IInv'
<1>. USE DEF IInv, ReadExisting
<1>1. CASE ~Readable
  BY <1>1, EndCallIInv DEF TypeOK
<1>2. CASE Readable
  <2>. DEFINE c == [calls[w] EXCEPT !.pc = "write", !.next_seq = Len(lines)]
  <2>0. calls' = [calls EXCEPT ![w] = c] /\ c \in CallSet /\ lock' = lock
    <3>1. Len(lines) \in 0..MaxLines
      BY ConstantsOK DEF TypeOK
    <3>2. calls[w] \in CallSet
      BY DEF TypeOK
    <3>3. c \in CallSet
      BY <3>1, <3>2 DEF CallSet, Steps
    <3>. QED
      BY <1>2, <3>3
  <2>1. TypeOK'
    BY <2>0 DEF TypeOK, CallSet
  <2>2. SeqMatchesPosition' /\ RootCommitsPrefix' /\ AckedIsPublished'
          /\ UnterminatedIsUnpublished'
    BY DEF SeqMatchesPosition, RootCommitsPrefix, Commits, AckedIsPublished,
           UnterminatedIsUnpublished
  <2>3. CallKnows(w)'
    <3>1. /\ calls'[w].pc = "write" /\ calls'[w].next_seq = Len(lines)
          /\ calls'[w].event = calls[w].event
      BY <2>0 DEF TypeOK, CallSet
    <3>. QED
      BY <1>2, <3>1 DEF CallKnows, Readable
  <2>4. ASSUME NEW u \in Writers, u # w PROVE CallKnows(u)'
    BY <2>0, <2>4, OthersIdle DEF TypeOK
  <2>. QED
    BY <2>1, <2>2, <2>3, <2>4
<1>. QED
  BY <1>1, <1>2

\* What one write to entries.ndjson leaves of the lines: the committed ones,
\* in place and in sequence.
LEMMA LinesAfterFacts ==
  ASSUME IInv, NEW w \in Writers, calls[w].pc = "write",
         lines' = LinesAfter(EntryOf(w))
  PROVE  /\ lines' \in Seq(EntrySet) /\ Len(lines') <= MaxLines
         /\ root.entry_count <= Len(lines')
         /\ \A i \in 1..root.entry_count : lines'[i] = lines[i]
         /\ SeqMatchesPosition'
         /\ tail = "ok" => /\ Len(lines') = calls[w].next_seq + 1
                           /\ lines'[Len(lines')] = EntryOf(w)
<1>. USE DEF IInv
<1>1. /\ lines \in Seq(EntrySet) /\ Len(lines) \in Nat /\ Len(lines) < MaxLines
      /\ calls[w].next_seq = Len(lines) /\ tail \in {"ok", "noeol"}
      /\ EntryOf(w) \in EntrySet /\ EntryOf(w).seq = Len(lines)
      /\ root.entry_count \in 0..Len(lines)
  BY ConstantsOK, EntryFacts
     DEF CallKnows, TypeOK, CallSet, EntryOf, Readable, RootCommitsPrefix, Commits
<1>2. CASE tail = "ok"
  <2>1. lines' = Append(lines, EntryOf(w))
    BY <1>2 DEF LinesAfter
  <2>2. /\ lines' \in Seq(EntrySet) /\ Len(lines') = Len(lines) + 1
        /\ \A i \in 1..Len(lines) : lines'[i] = lines[i]
        /\ lines'[Len(lines) + 1] = EntryOf(w)
    BY <1>1, <2>1, AppendFacts
  <2>3. SeqMatchesPosition'
    <3>1. SeqMatchesPosition
      OBVIOUS
    <3>. QED
      BY <1>1, <2>2, <3>1 DEF SeqMatchesPosition
  <2>. QED
    BY <1>1, <1>2, <2>2, <2>3, ConstantsOK
<1>3. CASE tail = "noeol"
  <2>1. lines' = SubSeq(lines, 1, Len(lines) - 1)
    BY <1>3 DEF LinesAfter
  <2>2. Len(lines) > 0 /\ root.entry_count < Len(lines)
    BY <1>3 DEF UnterminatedIsUnpublished
  <2>3. /\ lines' \in Seq(EntrySet) /\ Len(lines') = Len(lines) - 1
        /\ \A i \in 1..(Len(lines) - 1) : lines'[i] = lines[i]
    <3>. DEFINE n == Len(lines) - 1
    <3>1. n \in 0..Len(lines)
      BY <1>1, <2>2
    <3>2. /\ SubSeq(lines, 1, n) \in Seq(EntrySet) /\ Len(SubSeq(lines, 1, n)) = n
          /\ \A i \in 1..n : SubSeq(lines, 1, n)[i] = lines[i]
      BY <1>1, <3>1, PrefixFacts, Zenon
    <3>. QED
      BY <2>1, <3>2, Zenon
  <2>4. SeqMatchesPosition'
    <3>1. SeqMatchesPosition
      OBVIOUS
    <3>2. \A i \in 1..Len(lines') : i \in 1..Len(lines) /\ lines'[i] = lines[i]
      BY <1>1, <2>3
    <3>. QED
      BY <3>1, <3>2 DEF SeqMatchesPosition
  <2>. QED
    BY <1>1, <1>3, <2>2, <2>3, <2>4, ConstantsOK
<1>. QED
  BY <1>1, <1>2, <1>3

LEMMA WriteLineIInv ==
  ASSUME IInv, NEW w \in Writers, WriteLine(w)
  PROVE  IInv'
<1>. USE DEF IInv, WriteLine
<1>1. lines' = LinesAfter(EntryOf(w))
  BY DEF EntryOf
<1>2. TypeOK'
  BY <1>1, LinesAfterFacts, GotoFacts DEF TypeOK, Steps
<1>3. SeqMatchesPosition'
  BY <1>1, LinesAfterFacts
<1>4. RootCommitsPrefix' /\ AckedIsPublished'
  BY <1>1, <1>2, LinesAfterFacts, CommittedLinesKept DEF TypeOK
<1>5. UnterminatedIsUnpublished'
  BY DEF UnterminatedIsUnpublished
<1>6. CallKnows(w)'
  <2>1. calls'[w].pc = "refresh" /\ EntryOf(w)' = EntryOf(w)
          /\ calls'[w].next_seq = calls[w].next_seq /\ calls'[w].event = calls[w].event
    BY DEF Goto, TypeOK, CallSet, EntryOf
  <2>2. AppendedLast(w)' \/ tail' = "torn"
    BY <1>1, <2>1, LinesAfterFacts DEF AppendedLast
  <2>. QED
    BY <2>1, <2>2 DEF CallKnows
<1>7. ASSUME NEW u \in Writers, u # w PROVE CallKnows(u)'
  BY <1>7, OthersIdle DEF TypeOK, Goto
<1>. QED
  BY <1>2, <1>3, <1>4, <1>5, <1>6, <1>7

LEMMA ShortWriteIInv ==
  ASSUME IInv, NEW w \in Writers, NEW how \in {"noeol", "torn"}, ShortWrite(w, how)
  PROVE  IInv'
<1>. USE DEF IInv, ShortWrite
<1>1. CASE tail = "ok" /\ how = "torn"
  \* Bytes that do not parse follow the lines: no entry is gained or lost.
  <2>1. TypeOK'
    BY <1>1, ConstantsOK DEF TypeOK, EndCall, CallSet, Idle, Steps
  <2>2. SeqMatchesPosition' /\ RootCommitsPrefix' /\ AckedIsPublished'
          /\ UnterminatedIsUnpublished'
    BY <1>1 DEF SeqMatchesPosition, RootCommitsPrefix, Commits, AckedIsPublished,
                UnterminatedIsUnpublished
  <2>. QED
    BY <2>1, <2>2, EndCallKnows
<1>2. CASE ~(tail = "ok" /\ how = "torn")
  <2>1. lines' = LinesAfter(EntryOf(w))
    BY <1>2 DEF EntryOf
  <2>2. TypeOK'
    BY <1>2, <2>1, LinesAfterFacts, ConstantsOK
       DEF TypeOK, EndCall, CallSet, Idle, Steps
  <2>3. SeqMatchesPosition'
    BY <2>1, LinesAfterFacts
  <2>4. RootCommitsPrefix' /\ AckedIsPublished'
    BY <2>1, <2>2, LinesAfterFacts, CommittedLinesKept DEF TypeOK
  <2>5. UnterminatedIsUnpublished'
    <3>1. CASE tail = "ok"
      <4>1. Len(lines') = Len(lines) + 1 /\ root.entry_count <= Len(lines)
        BY <2>1, <3>1, LinesAfterFacts DEF CallKnows, RootCommitsPrefix, Commits
      <4>2. Len(lines) \in Nat /\ root.entry_count \in Nat
        BY DEF TypeOK
      <4>. QED
        BY <4>1, <4>2 DEF UnterminatedIsUnpublished
    <3>2. CASE tail # "ok"
      BY <3>2 DEF UnterminatedIsUnpublished
    <3>. QED
      BY <3>1, <3>2
  <2>. QED
    BY <2>2, <2>3, <2>4, <2>5, EndCallKnows
<1>. QED
  BY <1>1, <1>2

LEMMA RefreshReadIInv ==
  ASSUME IInv, NEW w \in Writers, RefreshRead(w)
  PROVE  IInv'
<1>. USE DEF IInv, RefreshRead
<1>1. CASE ~Readable
  BY <1>1, EndCallIInv DEF TypeOK
<1>2. CASE Readable
  <2>. DEFINE c == [calls[w] EXCEPT !.pc = "tmp", !.entries = lines]
  <2>0. calls' = [calls EXCEPT ![w] = c] /\ c \in CallSet /\ lock' = lock
    <3>1. calls[w] \in CallSet /\ lines \in Seq(EntrySet)
      BY DEF TypeOK
    <3>2. c \in CallSet
      BY <3>1 DEF CallSet, Steps
    <3>. QED
      BY <1>2, <3>2
  <2>1. TypeOK'
    BY <2>0 DEF TypeOK, CallSet
  <2>2. SeqMatchesPosition' /\ RootCommitsPrefix' /\ AckedIsPublished'
          /\ UnterminatedIsUnpublished'
    BY DEF SeqMatchesPosition, RootCommitsPrefix, Commits, AckedIsPublished,
           UnterminatedIsUnpublished
  <2>3. CallKnows(w)'
    <3>1. /\ calls'[w].pc = "tmp" /\ calls'[w].entries = lines
          /\ calls'[w].event = calls[w].event /\ calls'[w].next_seq = calls[w].next_seq
      BY <2>0 DEF TypeOK, CallSet
    <3>2. AppendedLast(w)
      BY <1>2 DEF CallKnows, Readable
    <3>. QED
      BY <3>1, <3>2 DEF CallKnows, AppendedLast, EntryOf
  <2>4. ASSUME NEW u \in Writers, u # w PROVE CallKnows(u)'
    BY <2>0, <2>4, OthersIdle DEF TypeOK
  <2>. QED
    BY <2>1, <2>2, <2>3, <2>4
<1>. QED
  BY <1>1, <1>2

LEMMA WriteTmpIInv ==
  ASSUME IInv, NEW w \in Writers, WriteTmp(w)
  PROVE  IInv'
<1>. USE DEF IInv, WriteTmp
<1>1. tmp' = RootPayload(lines) /\ AppendedLast(w)
  BY DEF CallKnows
<1>2. TypeOK'
  <2>1. tmp'.entry_count \in Nat
    BY <1>1, PayloadFacts DEF TypeOK
  <2>. QED
    BY <2>1, GotoFacts DEF TypeOK, Steps
<1>3. SeqMatchesPosition' /\ RootCommitsPrefix' /\ AckedIsPublished'
        /\ UnterminatedIsUnpublished'
  BY DEF SeqMatchesPosition, RootCommitsPrefix, Commits, AckedIsPublished,
         UnterminatedIsUnpublished
<1>4. CallKnows(w)'
  <2>1. /\ calls'[w].pc = "replace" /\ calls'[w].event = calls[w].event
        /\ calls'[w].next_seq = calls[w].next_seq
    BY GotoFacts DEF Steps
  <2>2. RootPayload(lines)' = RootPayload(lines)
    BY DEF RootPayload, LeafHashes
  <2>. QED
    BY <1>1, <2>1, <2>2 DEF CallKnows, AppendedLast, EntryOf
<1>5. ASSUME NEW u \in Writers, u # w PROVE CallKnows(u)'
  BY <1>5, OthersIdle DEF TypeOK, Goto
<1>. QED
  BY <1>2, <1>3, <1>4, <1>5

LEMMA ReplaceIInv ==
  ASSUME IInv, NEW w \in Writers, Replace(w)
  PROVE  IInv'
<1>. USE DEF IInv, Replace
<1>1. root' = RootPayload(lines) /\ root'.entry_count = Len(lines) /\ AppendedLast(w)
  BY PayloadFacts DEF CallKnows, TypeOK
<1>2. TypeOK'
  <2>1. root'.entry_count \in Nat /\ tmp'.entry_count \in Nat
    BY NoRootFacts DEF TypeOK
  <2>. QED
    BY <2>1, GotoFacts DEF TypeOK, Steps
<1>3. SeqMatchesPosition'
  BY DEF SeqMatchesPosition
<1>4. RootCommitsPrefix'
  BY <1>1, PayloadFacts DEF RootCommitsPrefix, Commits, TypeOK
<1>5. AckedIsPublished'
  <2>1. ASSUME NEW e \in acked PROVE e.seq < root'.entry_count /\ lines'[e.seq + 1] = e
    <3>1. e.seq < root.entry_count /\ lines[e.seq + 1] = e /\ e.seq \in Int
      BY EntrySetFacts DEF AckedIsPublished, TypeOK
    <3>2. root.entry_count <= Len(lines) /\ Len(lines) \in Nat /\ root.entry_count \in Nat
      BY DEF RootCommitsPrefix, Commits, TypeOK
    <3>. QED
      BY <1>1, <3>1, <3>2
  <2>. QED
    BY <2>1 DEF AckedIsPublished
<1>6. UnterminatedIsUnpublished'
  BY <1>1 DEF UnterminatedIsUnpublished, AppendedLast
<1>7. CallKnows(w)'
  <2>1. /\ calls'[w].pc = "return" /\ calls'[w].event = calls[w].event
        /\ calls'[w].next_seq = calls[w].next_seq
    BY GotoFacts DEF Steps
  <2>. QED
    BY <1>1, <2>1 DEF CallKnows, AppendedLast, EntryOf
<1>8. ASSUME NEW u \in Writers, u # w PROVE CallKnows(u)'
  BY <1>8, OthersIdle DEF TypeOK, Goto
<1>. QED
  BY <1>2, <1>3, <1>4, <1>5, <1>6, <1>7, <1>8

LEMMA ReturnIInv ==
  ASSUME IInv, NEW w \in Writers, Return(w)
  PROVE  IInv'
<1>. USE DEF IInv, Return
<1>1. /\ EntryOf(w) \in EntrySet /\ EntryOf(w).seq = calls[w].next_seq
      /\ calls[w].next_seq \in Nat
  BY EntryFacts, ConstantsOK DEF EntryOf, CallKnows, TypeOK, CallSet
<1>2. acked' = acked \cup {EntryOf(w)}
  BY DEF EntryOf
<1>3. TypeOK'
  BY <1>1, <1>2, ConstantsOK DEF TypeOK, EndCall, CallSet, Idle, Steps
<1>4. SeqMatchesPosition' /\ RootCommitsPrefix' /\ UnterminatedIsUnpublished'
  BY DEF SeqMatchesPosition, RootCommitsPrefix, Commits, UnterminatedIsUnpublished
<1>5. AckedIsPublished'
  <2>1. /\ Len(lines) = calls[w].next_seq + 1 /\ lines[Len(lines)] = EntryOf(w)
        /\ root.entry_count = Len(lines)
    BY DEF CallKnows, AppendedLast
  <2>2. EntryOf(w).seq < root.entry_count /\ lines[EntryOf(w).seq + 1] = EntryOf(w)
    BY <1>1, <2>1
  <2>. QED
    BY <1>2, <2>2 DEF AckedIsPublished
<1>. QED
  BY <1>3, <1>4, <1>5, EndCallKnows

LEMMA CrashIInv ==
  ASSUME IInv, NEW w \in Writers, Crash(w)
  PROVE  IInv'
<1>1. tmp'.entry_count \in Nat
  BY NoRootFacts DEF Crash, IInv, TypeOK
<1>. QED
  BY <1>1, EndCallIInv DEF Crash

LEMMA StutterIInv ==
  ASSUME IInv, UNCHANGED vars
  PROVE  IInv'
<1>. USE DEF vars, IInv
<1>1. TypeOK' /\ SeqMatchesPosition' /\ RootCommitsPrefix' /\ AckedIsPublished'
        /\ UnterminatedIsUnpublished'
  BY DEF TypeOK, SeqMatchesPosition, RootCommitsPrefix, Commits, AckedIsPublished,
         UnterminatedIsUnpublished
<1>2. \A w \in Writers : CallKnows(w)'
  BY DEF CallKnows, AppendedLast, EntryOf, Readable, RootPayload, LeafHashes
<1>. QED
  BY <1>1, <1>2

LEMMA NextIInv == IInv /\ [Next]_vars => IInv'
<1>. SUFFICES ASSUME IInv, [Next]_vars PROVE IInv'
  OBVIOUS
<1>1. CASE UNCHANGED vars
  BY <1>1, StutterIInv
<1>2. CASE Next
  <2>1. PICK w \in Writers :
          \/ \E e \in Events : Call(w, e)
          \/ Step(w)
          \/ \E how \in {"noeol", "torn"} : ShortWrite(w, how)
          \/ Crash(w)
    BY <1>2 DEF Next
  <2>2. CASE \E e \in Events : Call(w, e)
    BY <2>2, CallIInv
  <2>3. CASE Step(w)
    BY <2>3, ReadExistingIInv, WriteLineIInv, RefreshReadIInv, WriteTmpIInv,
       ReplaceIInv, ReturnIInv DEF Step
  <2>4. CASE \E how \in {"noeol", "torn"} : ShortWrite(w, how)
    BY <2>4, ShortWriteIInv
  <2>5. CASE Crash(w)
    BY <2>5, CrashIInv
  <2>. QED
    BY <2>1, <2>2, <2>3, <2>4, <2>5
<1>. QED
  BY <1>1, <1>2

THEOREM Invariance == Spec => []IInv
BY InitIInv, NextIInv, PTL DEF Spec

\* Every variable keeps its type and the transaction admits one call.
THEOREM TypeCorrect == Spec => []TypeOK
<1>1. IInv => TypeOK
  BY DEF IInv
<1>. QED
  BY <1>1, Invariance, PTL

\* The log has no gaps whatever appends died: assert_monotonic_no_gaps.
THEOREM NoGaps == Spec => []SeqMatchesPosition
<1>1. IInv => SeqMatchesPosition
  BY DEF IInv
<1>. QED
  BY <1>1, Invariance, PTL

\* root.json is never torn and always the root of a prefix of the log.
THEOREM RootIsOfPrefix == Spec => []RootCommitsPrefix
<1>1. IInv => RootCommitsPrefix
  BY DEF IInv
<1>. QED
  BY <1>1, Invariance, PTL

\* What append_entry returned stays in the log and under its root.
THEOREM Durability == Spec => []AckedIsPublished
<1>1. IInv => AckedIsPublished
  BY DEF IInv
<1>. QED
  BY <1>1, Invariance, PTL

\* However many calls follow a write that was cut short, none of them publishes
\* a root or is acknowledged.
THEOREM DamageStops == Spec => DamageStopsTheEpoch
<1>1. ASSUME IInv, [Next]_vars, tail # "ok" PROVE UNCHANGED <<root, acked>>
  <2>1. ASSUME NEW w \in Writers, Replace(w) \/ Return(w) PROVE FALSE
    <3>1. calls[w].pc \in {"replace", "return"}
      BY <2>1 DEF Replace, Return
    <3>2. AppendedLast(w)
      BY <1>1, <3>1 DEF IInv, CallKnows
    <3>. QED
      BY <1>1, <3>2 DEF AppendedLast
  <2>2. CASE UNCHANGED vars
    BY <2>2 DEF vars
  <2>3. CASE Next
    <3>1. PICK w \in Writers : \/ \E e \in Events : Call(w, e)
                               \/ Step(w)
                               \/ \E how \in {"noeol", "torn"} : ShortWrite(w, how)
                               \/ Crash(w)
      BY <2>3 DEF Next
    <3>2. CASE \E e \in Events : Call(w, e)
      BY <3>2 DEF Call
    <3>3. CASE Step(w)
      BY <2>1, <3>3 DEF Step, ReadExisting, WriteLine, RefreshRead, WriteTmp
    <3>4. CASE \E how \in {"noeol", "torn"} : ShortWrite(w, how)
      BY <3>4 DEF ShortWrite
    <3>5. CASE Crash(w)
      BY <3>5 DEF Crash
    <3>. QED
      BY <3>1, <3>2, <3>3, <3>4, <3>5
  <2>. QED
    BY <1>1, <2>2, <2>3
<1>. QED
  BY <1>1, Invariance, PTL DEF Spec, DamageStopsTheEpoch
-----------------------------------------------------------------------------
(* TransparencyLog implements PublicLog *)

Published == SubSeq(lines, 1, root.entry_count)

LEMMA PublishedFacts ==
  ASSUME IInv
  PROVE  /\ Published \in Seq(EntrySet) /\ Len(Published) = root.entry_count
         /\ root.entry_count \in 0..Len(lines)
         /\ \A i \in 1..root.entry_count : Published[i] = lines[i]
<1>1. lines \in Seq(EntrySet) /\ root.entry_count \in 0..Len(lines)
  BY DEF IInv, TypeOK, RootCommitsPrefix, Commits
<1>. QED
  BY <1>1, PrefixFacts DEF Published

LEMMA PublishedFactsPrimed ==
  ASSUME IInv'
  PROVE  /\ Published' \in Seq(EntrySet) /\ Len(Published') = root'.entry_count
         /\ \A i \in 1..root'.entry_count : Published'[i] = lines'[i]
<1>1. lines' \in Seq(EntrySet) /\ root'.entry_count \in 0..Len(lines')
  BY DEF IInv, TypeOK, RootCommitsPrefix, Commits
<1>. QED
  BY <1>1, PrefixFacts DEF Published

\* What the steps before the rename do to the file leaves the published
\* prefix as it is.
LEMMA PublishedKept ==
  ASSUME IInv, IInv', root' = root,
         \A i \in 1..root.entry_count : lines'[i] = lines[i]
  PROVE  Published' = Published
<1>1. /\ Published \in Seq(EntrySet) /\ Published' \in Seq(EntrySet)
      /\ Len(Published) = Len(Published')
  BY PublishedFacts, PublishedFactsPrimed
<1>2. \A i \in 1..Len(Published) : Published[i] = Published'[i]
  BY PublishedFacts, PublishedFactsPrimed
<1>. QED
  BY <1>1, <1>2, SeqEqual

LEMMA WriteKeepsPublished ==
  ASSUME IInv, IInv', NEW w \in Writers, calls[w].pc = "write", root' = root,
         lines' = LinesAfter(EntryOf(w)) \/ lines' = lines
  PROVE  Published' = Published
BY LinesAfterFacts, PublishedKept

LEMMA ReplacePublishes ==
  ASSUME IInv, IInv', NEW w \in Writers, Replace(w)
  PROVE  PL!Publish \/ Published' = Published
<1>1. lines' = lines /\ acked' = acked /\ root'.entry_count = Len(lines)
  BY PayloadFacts DEF Replace, IInv, TypeOK, CallKnows
<1>2. /\ Len(Published) = root.entry_count /\ Len(Published') = Len(lines)
      /\ root.entry_count \in 0..Len(lines) /\ Len(lines) \in Nat
      /\ \A i \in 1..root.entry_count : Published[i] = lines[i]
      /\ \A i \in 1..Len(lines) : Published'[i] = lines[i]
  BY <1>1, PublishedFacts, PublishedFactsPrimed DEF IInv, TypeOK
<1>3. CASE root.entry_count = Len(lines)
  BY <1>1, <1>3 DEF Published
<1>4. CASE root.entry_count < Len(lines)
  <2>1. Len(Published') > Len(Published)
    BY <1>2, <1>4
  <2>2. \A i \in 1..Len(Published) : Published'[i] = Published[i]
    BY <1>2
  <2>3. \A i \in (Len(Published) + 1)..Len(Published') : Published'[i].seq = i - 1
    BY <1>2 DEF IInv, SeqMatchesPosition
  <2>. QED
    BY <1>1, <2>1, <2>2, <2>3 DEF PL!Publish, Published
<1>. QED
  BY <1>2, <1>3, <1>4

LEMMA ReturnAcknowledges ==
  ASSUME IInv, IInv', NEW w \in Writers, Return(w)
  PROVE  PL!Acknowledge
<1>1. /\ lines' = lines /\ root' = root
      /\ acked' = acked \cup {EntryOf(w)}
      /\ AppendedLast(w) /\ root.entry_count = Len(lines)
      /\ calls[w].next_seq \in Nat
  BY DEF Return, EntryOf, IInv, CallKnows, TypeOK, CallSet
<1>2. /\ Len(Published) = Len(lines) /\ Len(lines) >= 1 /\ Len(lines) \in Nat
      /\ Published[Len(lines)] = EntryOf(w)
  BY <1>1, PublishedFacts DEF AppendedLast
<1>3. \E i \in 1..Len(Published) : acked' = acked \cup {Published[i]}
  BY <1>1, <1>2
<1>. QED
  BY <1>1, <1>3 DEF PL!Acknowledge, Published

LEMMA NextRefines ==
  IInv /\ IInv' /\ [Next]_vars => [PL!Next]_<<Published, acked>>
<1>. SUFFICES ASSUME IInv, IInv', [Next]_vars,
                     ~(Published' = Published /\ acked' = acked)
              PROVE  PL!Next
  OBVIOUS
<1>1. CASE UNCHANGED vars
  BY <1>1 DEF vars, Published
<1>2. CASE Next
  <2>1. PICK w \in Writers :
          \/ \E e \in Events : Call(w, e)
          \/ Step(w)
          \/ \E how \in {"noeol", "torn"} : ShortWrite(w, how)
          \/ Crash(w)
    BY <1>2 DEF Next
  <2>2. CASE \/ \E e \in Events : Call(w, e)
             \/ ReadExisting(w) \/ RefreshRead(w) \/ WriteTmp(w) \/ Crash(w)
    BY <2>2 DEF Call, ReadExisting, RefreshRead, WriteTmp, Crash, Published
  <2>3. CASE WriteLine(w)
    BY <2>3, WriteKeepsPublished DEF WriteLine, EntryOf
  <2>4. CASE \E how \in {"noeol", "torn"} : ShortWrite(w, how)
    <3>1. /\ calls[w].pc = "write" /\ root' = root /\ acked' = acked
          /\ lines' = LinesAfter(EntryOf(w)) \/ lines' = lines
      BY <2>4 DEF ShortWrite, EntryOf
    <3>. QED
      BY <3>1, WriteKeepsPublished
  <2>5. CASE Replace(w)
    BY <2>5, ReplacePublishes DEF PL!Next, Replace
  <2>6. CASE Return(w)
    BY <2>6, ReturnAcknowledges DEF PL!Next
  <2>. QED
    BY <2>1, <2>2, <2>3, <2>4, <2>5, <2>6 DEF Step
<1>. QED
  BY <1>1, <1>2

LEMMA InitRefines == Init => PL!Init
BY NoRootFacts DEF Init, PL!Init

\* Whatever writes are cut short and whichever writers die, the epoch keeps
\* the promise of PublicLog.
THEOREM Refinement == Spec => PublicLogSpec
<1>1. Init => PL!Init
  BY InitRefines
<1>2. IInv /\ IInv' /\ [Next]_vars => [PL!Next]_<<Published, acked>>
  BY NextRefines
<1>. QED
  BY <1>1, <1>2, Invariance, PTL DEF Spec, PublicLogSpec, PL!Spec, Published
-----------------------------------------------------------------------------
(* Roots tell the states of the log apart *)

LEMMA LeafHashInjective ==
  ASSUME NEW a, NEW b, LeafHash(a) = LeafHash(b)
  PROVE  a = b
BY DEF LeafHash

\* Leaf hashes over a body that carries the position do not repeat.
LEMMA PositionedLeaves ==
  ASSUME NEW h, IsList(h), \A i \in 1..Len(h) : \E x : h[i] = LeafHash(<<i - 1, x>>)
  PROVE  IsLeafList(h)
<1>1. Len(h) \in Nat
  BY DEF IsList
<1>2. ASSUME NEW i \in 1..Len(h), NEW j \in 1..Len(h), h[i] = h[j] PROVE i = j
  <2>1. PICK x : h[i] = LeafHash(<<i - 1, x>>)
    OBVIOUS
  <2>2. PICK y : h[j] = LeafHash(<<j - 1, y>>)
    OBVIOUS
  <2>3. <<i - 1, x>> = <<j - 1, y>>
    BY <1>2, <2>1, <2>2, LeafHashInjective
  <2>. QED
    BY <2>3
<1>. QED
  BY <1>2 DEF IsLeafList, Distinct

LEMMA EntryLeaves ==
  ASSUME NEW s, IsList(s), \A i \in 1..Len(s) : \E x : s[i].leaf_hash = LeafHash(<<i - 1, x>>)
  PROVE  /\ IsLeafList(LeafHashes(s)) /\ Len(LeafHashes(s)) = Len(s)
         /\ \A i \in 1..Len(s) : LeafHashes(s)[i] = s[i].leaf_hash
<1>1. Len(s) \in Nat
  BY DEF IsList
<1>2. LeafHashes(s) = [i \in 1..Len(s) |-> LeafHashes(s)[i]]
  BY DEF LeafHashes
<1>3. IsList(LeafHashes(s)) /\ Len(LeafHashes(s)) = Len(s)
  BY <1>1, <1>2, FunctionIsList
<1>4. \A i \in 1..Len(s) : LeafHashes(s)[i] = s[i].leaf_hash
  BY DEF LeafHashes
<1>. QED
  BY <1>3, <1>4, PositionedLeaves

LEMMA EntryLeafHash ==
  ASSUME NEW x \in EntrySet
  PROVE  \E e \in Events : x = Entry(x.seq, e) /\ x.leaf_hash = LeafHash(<<x.seq, e>>)
<1>1. PICK p \in (0..MaxLines) \X Events : x = Entry(p[1], p[2])
  BY DEF EntrySet
<1>2. x.seq = p[1] /\ x.leaf_hash = LeafHash(<<p[1], p[2]>>) /\ p[2] \in Events
  BY <1>1 DEF Entry, LeafHash
<1>. QED
  BY <1>1, <1>2

\* The root of a prefix of the log names that prefix: no two states of
\* entries.ndjson share a root, in spite of the duplicated odd leaf.
THEOREM PrefixesHaveOwnRoots == Spec => []RootDistinguishesPrefixes
<1>1. ASSUME IInv, NEW m \in 0..Len(lines), NEW n \in 0..Len(lines),
             MerkleRoot(LeafHashes(SubSeq(lines, 1, m))) =
             MerkleRoot(LeafHashes(SubSeq(lines, 1, n)))
      PROVE  m = n
  <2>1. lines \in Seq(EntrySet) /\ SeqMatchesPosition
    BY <1>1 DEF IInv, TypeOK
  <2>2. ASSUME NEW k \in 0..Len(lines)
        PROVE  /\ IsLeafList(LeafHashes(SubSeq(lines, 1, k)))
               /\ Len(LeafHashes(SubSeq(lines, 1, k))) = k
    <3>. DEFINE s == SubSeq(lines, 1, k)
    <3>1. s \in Seq(EntrySet) /\ Len(s) = k /\ \A i \in 1..k : s[i] = lines[i]
      BY <2>1, PrefixFacts
    <3>2. IsList(s)
      BY <3>1, SeqIsList
    <3>3. ASSUME NEW i \in 1..k PROVE \E x : s[i].leaf_hash = LeafHash(<<i - 1, x>>)
      <4>1. s[i] \in EntrySet /\ s[i].seq = i - 1
        <5>1. i \in 1..Len(lines) /\ s[i] = lines[i]
          BY <2>1, <3>1
        <5>. HIDE DEF s
        <5>. QED
          BY <2>1, <5>1 DEF SeqMatchesPosition
      <4>. QED
        BY <4>1, EntryLeafHash
    <3>. HIDE DEF s
    <3>4. IsLeafList(LeafHashes(s)) /\ Len(LeafHashes(s)) = k
      BY <3>1, <3>2, <3>3, EntryLeaves
    <3>. QED
      BY <3>4 DEF s
  <2>3. LeafHashes(SubSeq(lines, 1, m)) = LeafHashes(SubSeq(lines, 1, n))
    BY <1>1, <2>2, RootDeterminesLeaves
  <2>4. Len(LeafHashes(SubSeq(lines, 1, m))) = m /\ Len(LeafHashes(SubSeq(lines, 1, n))) = n
    BY <2>2
  <2>. QED
    BY <2>3, <2>4
<1>2. IInv => RootDistinguishesPrefixes
  BY <1>1 DEF RootDistinguishesPrefixes
<1>. QED
  BY <1>2, Invariance, PTL
-----------------------------------------------------------------------------
(* The relying party: the invariant of LogReader *)

\* A line as a writer or an edit leaves it: its leaf hash covers its seq.
Line(seq, event, sealedEvent) ==
  [seq |-> seq, event |-> event, leaf_hash |-> LeafHash(<<seq, sealedEvent>>)]

LineSet == {Line(p[1], p[2], p[3]) : p \in (0..MaxLines) \X Events \X Events}

\* Entries as somebody may read them: seq counts the lines.
IsEntries(s) ==
  /\ s \in Seq(LineSet)
  /\ \A i \in 1..Len(s) : s[i].seq = i - 1

EditedCallSet == [pc : Steps, event : Events \cup {NoEvent}, next_seq : 0..MaxLines,
                  entries : Seq(LineSet)]

\* What w's call still knows of a file that is edited under it: how many
\* lines there are.
CallCounts(w) ==
  /\ calls[w].pc # "idle" => calls[w].event \in Events
  /\ calls[w].pc = "read" => Len(lines) < MaxLines
  /\ calls[w].pc = "write" =>
       Readable /\ Len(lines) < MaxLines /\ calls[w].next_seq = Len(lines)
  /\ calls[w].pc = "refresh" => tail # "noeol" /\ (tail = "ok" => Len(lines) > 0)
  /\ calls[w].pc = "tmp" =>
       tail = "ok" /\ Len(lines) > 0 /\ Len(calls[w].entries) = Len(lines)
  /\ calls[w].pc = "replace" =>
       tail = "ok" /\ Len(lines) > 0 /\ tmp.entry_count = Len(lines)

\* The writers, whether or not lines were edited.
Counted ==
  /\ IsEntries(lines) /\ Len(lines) <= MaxLines
  /\ tail \in {"ok", "noeol", "torn"}
  /\ root.entry_count \in 0..Len(lines)
  /\ lock \in Writers \cup {NoWriter}
  /\ calls \in [Writers -> EditedCallSet]
  /\ \A w \in Writers : calls[w].pc # "idle" <=> lock = w
  /\ \A w \in Writers : CallCounts(w)
  /\ UnterminatedIsUnpublished

\* The leaf hashes of the history: one for each line, over that line's seq.
SealedLines ==
  /\ sealed \in Seq({LeafHash(p) : p \in (0..MaxLines) \X Events})
  /\ Len(sealed) = Len(lines)
  /\ \A i \in 1..Len(sealed) : \E e \in Events : sealed[i] = LeafHash(<<i - 1, e>>)

\* A root published before any edit is for good the root of what was sealed
\* first.
CleanRoots ==
  \A r \in clean_roots :
    /\ r.entry_count \in 1..root.entry_count
    /\ r.merkle_root_hash = MerkleRoot(SubSeq(sealed, 1, r.entry_count))

\* While nothing is edited, the log is that of TransparencyLog and all roots
\* about are clean.
Unedited ==
  edits = 0 =>
    /\ IInv
    /\ sealed = LeafHashes(lines)
    /\ {root, got_root} \subseteq clean_roots \cup {NoRoot}
    /\ got_entries \in Seq(EntrySet)
    /\ \A a \in accepted : a.root \in clean_roots /\ a.entry \in EntrySet

Held ==
  /\ IsEntries(got_entries)
  /\ \A a \in accepted :
       a.entry.seq = a.seq /\ (a.root \in clean_roots => a.seq \in 0..(a.root.entry_count - 1))

RInv ==
  /\ edits \in Nat
  /\ Counted
  /\ SealedLines
  /\ CleanRoots
  /\ Unedited
  /\ Held
  /\ OldRootBindsLeaves

LEMMA LineFacts ==
  ASSUME NEW x \in LineSet
  PROVE  /\ x.seq \in 0..MaxLines /\ x.event \in Events
         /\ \E e \in Events : x.leaf_hash = LeafHash(<<x.seq, e>>)
<1>1. PICK p \in (0..MaxLines) \X Events \X Events : x = Line(p[1], p[2], p[3])
  BY DEF LineSet
<1>2. p[1] \in 0..MaxLines /\ p[2] \in Events /\ p[3] \in Events
  OBVIOUS
<1>. QED
  BY <1>1, <1>2 DEF Line

LEMMA LineIn ==
  ASSUME NEW s \in 0..MaxLines, NEW e \in Events, NEW f \in Events
  PROVE  Line(s, e, f) \in LineSet
<1>. DEFINE p == <<s, e, f>>
<1>1. p \in (0..MaxLines) \X Events \X Events /\ Line(p[1], p[2], p[3]) = Line(s, e, f)
  OBVIOUS
<1>. QED
  BY <1>1 DEF LineSet

LEMMA EntriesAreLines == EntrySet \subseteq LineSet
<1>1. ASSUME NEW x \in EntrySet PROVE x \in LineSet
  <2>1. PICK p \in (0..MaxLines) \X Events : x = Entry(p[1], p[2])
    BY DEF EntrySet
  <2>2. x = Line(p[1], p[2], p[2]) /\ p[1] \in 0..MaxLines /\ p[2] \in Events
    BY <2>1 DEF Entry, Line
  <2>. QED
    BY <2>2, LineIn
<1>. QED
  BY <1>1

\* Changing the local state of w's call leaves the other calls idle.
LEMMA CallMoves ==
  ASSUME Counted, NEW w \in Writers, calls[w].pc # "idle",
         NEW c \in EditedCallSet, c.pc # "idle",
         calls' = [calls EXCEPT ![w] = c], lock' = lock
  PROVE  /\ calls' \in [Writers -> EditedCallSet] /\ lock' \in Writers \cup {NoWriter}
         /\ \A u \in Writers : calls'[u].pc # "idle" <=> lock' = u
         /\ calls'[w] = c
         /\ \A u \in Writers : u # w => CallCounts(u)'
<1>. USE DEF Counted
<1>1. calls' \in [Writers -> EditedCallSet] /\ calls'[w] = c
        /\ \A u \in Writers : u # w => calls'[u] = calls[u]
  OBVIOUS
<1>2. \A u \in Writers : calls'[u].pc # "idle" <=> lock' = u
  BY <1>1
<1>3. ASSUME NEW u \in Writers, u # w PROVE CallCounts(u)'
  <2>1. calls'[u].pc = "idle"
    BY <1>1, <1>2, <1>3
  <2>. QED
    BY <2>1 DEF CallCounts
<1>. QED
  BY <1>1, <1>2, <1>3

LEMMA CallStops ==
  ASSUME Counted, NEW w \in Writers, calls[w].pc # "idle", EndCall(w)
  PROVE  /\ calls' \in [Writers -> EditedCallSet] /\ lock' \in Writers \cup {NoWriter}
         /\ \A u \in Writers : calls'[u].pc # "idle" <=> lock' = u
         /\ \A u \in Writers : CallCounts(u)'
<1>. USE DEF Counted, EndCall
<1>1. Idle \in EditedCallSet /\ Idle.pc = "idle"
  BY ConstantsOK DEF Idle, EditedCallSet, Steps
<1>2. calls' \in [Writers -> EditedCallSet] /\ calls'[w] = Idle
        /\ \A u \in Writers : u # w => calls'[u] = calls[u]
  BY <1>1
<1>3. \A u \in Writers : calls'[u].pc = "idle"
  BY <1>1, <1>2
<1>4. \A u \in Writers : CallCounts(u)'
  BY <1>3 DEF CallCounts
<1>. QED
  BY <1>2, <1>3, <1>4, ConstantsOK

\* A step that leaves the files alone.
FilesKept == lines' = lines /\ tail' = tail /\ root' = root

LEMMA FilesKeptCounts ==
  ASSUME Counted, FilesKept,
         calls' \in [Writers -> EditedCallSet], lock' \in Writers \cup {NoWriter},
         \A u \in Writers : calls'[u].pc # "idle" <=> lock' = u,
         \A u \in Writers : CallCounts(u)'
  PROVE  Counted'
BY DEF Counted, FilesKept, IsEntries, UnterminatedIsUnpublished

LEMMA CallCounted ==
  ASSUME Counted, NEW w \in Writers, NEW e \in Events, Call(w, e)
  PROVE  Counted' /\ FilesKept
<1>. DEFINE c == [calls[w] EXCEPT !.pc = "read", !.event = e]
<1>1. calls[w] \in EditedCallSet /\ calls \in [Writers -> EditedCallSet]
  BY DEF Counted
<1>2. c \in EditedCallSet /\ c.pc = "read" /\ c.event = e
  BY <1>1 DEF EditedCallSet, Steps
<1>3. calls' = [calls EXCEPT ![w] = c]
  BY DEF Call
<1>. HIDE DEF c
<1>4. calls' \in [Writers -> EditedCallSet] /\ calls'[w] = c
        /\ \A u \in Writers : u # w => calls'[u] = calls[u]
  BY <1>1, <1>2, <1>3
<1>5. \A u \in Writers : u # w => calls[u].pc = "idle"
  BY ConstantsOK DEF Counted, Call
<1>6. \A u \in Writers : calls'[u].pc # "idle" <=> lock' = u
  BY <1>2, <1>4, <1>5 DEF Call
<1>7. ASSUME NEW u \in Writers PROVE CallCounts(u)'
  <2>1. CASE u = w
    BY <1>2, <1>4, <2>1 DEF CallCounts, Call
  <2>2. CASE u # w
    BY <1>4, <1>5, <2>2 DEF CallCounts
  <2>. QED
    BY <2>1, <2>2
<1>8. FilesKept /\ lock' \in Writers \cup {NoWriter}
  BY DEF FilesKept, Call
<1>. QED
  BY <1>4, <1>6, <1>7, <1>8, FilesKeptCounts

LEMMA ReadExistingCounted ==
  ASSUME Counted, NEW w \in Writers, ReadExisting(w)
  PROVE  Counted' /\ FilesKept
<1>1. FilesKept
  BY DEF FilesKept, ReadExisting
<1>2. CASE ~Readable
  BY <1>1, <1>2, CallStops, FilesKeptCounts DEF ReadExisting
<1>3. CASE Readable
  <2>. DEFINE c == [calls[w] EXCEPT !.pc = "write", !.next_seq = Len(lines)]
  <2>1. calls[w] \in EditedCallSet /\ Len(lines) \in 0..MaxLines
          /\ calls[w].event \in Events /\ Len(lines) < MaxLines
    BY ConstantsOK DEF Counted, IsEntries, CallCounts, ReadExisting
  <2>2. c \in EditedCallSet /\ c.pc = "write" /\ c.next_seq = Len(lines)
          /\ c.event = calls[w].event
    BY <2>1 DEF EditedCallSet, Steps
  <2>3. calls' = [calls EXCEPT ![w] = c] /\ lock' = lock /\ calls[w].pc # "idle"
    BY <1>3 DEF ReadExisting
  <2>. HIDE DEF c
  <2>4. CallCounts(w)'
    <3>1. calls'[w] = c
      BY <2>2, <2>3, CallMoves
    <3>. QED
      BY <1>1, <1>3, <2>1, <2>2, <3>1 DEF CallCounts, FilesKept, Readable
  <2>. QED
    BY <1>1, <2>2, <2>3, <2>4, CallMoves, FilesKeptCounts
<1>. QED
  BY <1>1, <1>2, <1>3

LEMMA RefreshReadCounted ==
  ASSUME Counted, NEW w \in Writers, RefreshRead(w)
  PROVE  Counted' /\ FilesKept
<1>1. FilesKept
  BY DEF FilesKept, RefreshRead
<1>2. CASE ~Readable
  BY <1>1, <1>2, CallStops, FilesKeptCounts DEF RefreshRead
<1>3. CASE Readable
  <2>. DEFINE c == [calls[w] EXCEPT !.pc = "tmp", !.entries = lines]
  <2>1. calls[w] \in EditedCallSet /\ lines \in Seq(LineSet)
          /\ calls[w].event \in Events /\ tail = "ok" /\ Len(lines) > 0
    BY <1>3 DEF Counted, IsEntries, CallCounts, RefreshRead, Readable
  <2>2. c \in EditedCallSet /\ c.pc = "tmp" /\ c.entries = lines
          /\ c.event = calls[w].event
    BY <2>1 DEF EditedCallSet, Steps
  <2>3. calls' = [calls EXCEPT ![w] = c] /\ lock' = lock /\ calls[w].pc # "idle"
    BY <1>3 DEF RefreshRead
  <2>. HIDE DEF c
  <2>4. CallCounts(w)'
    <3>1. calls'[w] = c
      BY <2>2, <2>3, CallMoves
    <3>. QED
      BY <1>1, <1>3, <2>1, <2>2, <3>1 DEF CallCounts, FilesKept, Readable
  <2>. QED
    BY <1>1, <2>2, <2>3, <2>4, CallMoves, FilesKeptCounts
<1>. QED
  BY <1>1, <1>2, <1>3

LEMMA WriteTmpCounted ==
  ASSUME Counted, NEW w \in Writers, WriteTmp(w)
  PROVE  Counted' /\ FilesKept
<1>. DEFINE c == [calls[w] EXCEPT !.pc = "replace"]
<1>1. FilesKept
  BY DEF FilesKept, WriteTmp
<1>2. calls[w] \in EditedCallSet /\ calls[w].event \in Events /\ tail = "ok"
        /\ Len(lines) > 0 /\ Len(calls[w].entries) = Len(lines)
  BY DEF Counted, CallCounts, WriteTmp
<1>3. c \in EditedCallSet /\ c.pc = "replace" /\ c.event = calls[w].event
  BY <1>2 DEF EditedCallSet, Steps
<1>4. calls' = [calls EXCEPT ![w] = c] /\ lock' = lock /\ calls[w].pc # "idle"
  BY DEF WriteTmp, Goto
<1>. HIDE DEF c
<1>5. tmp'.entry_count = Len(lines)
  BY <1>2 DEF WriteTmp, RootPayload
<1>6. CallCounts(w)'
  <2>1. calls'[w] = c
    BY <1>3, <1>4, CallMoves
  <2>. QED
    BY <1>1, <1>2, <1>3, <1>5, <2>1 DEF CallCounts, FilesKept
<1>. QED
  BY <1>1, <1>3, <1>4, <1>6, CallMoves, FilesKeptCounts

LEMMA ReturnCounted ==
  ASSUME Counted, NEW w \in Writers, Return(w) \/ Crash(w)
  PROVE  Counted' /\ FilesKept
<1>1. FilesKept /\ calls[w].pc # "idle" /\ EndCall(w)
  BY DEF FilesKept, Return, Crash
<1>. QED
  BY <1>1, CallStops, FilesKeptCounts

LEMMA ReplaceCounted ==
  ASSUME Counted, NEW w \in Writers, Replace(w)
  PROVE  /\ Counted' /\ lines' = lines /\ tail' = tail
         /\ Len(lines) > 0 /\ root'.entry_count = Len(lines)
<1>. DEFINE c == [calls[w] EXCEPT !.pc = "return"]
<1>1. lines' = lines /\ tail' = tail /\ root' = tmp
  BY DEF Replace
<1>2. calls[w] \in EditedCallSet /\ calls[w].event \in Events /\ tail = "ok"
        /\ Len(lines) > 0 /\ tmp.entry_count = Len(lines)
  BY DEF Counted, CallCounts, Replace
<1>3. c \in EditedCallSet /\ c.pc = "return" /\ c.event = calls[w].event
  BY <1>2 DEF EditedCallSet, Steps
<1>4. calls' = [calls EXCEPT ![w] = c] /\ lock' = lock /\ calls[w].pc # "idle"
  BY DEF Replace, Goto
<1>. HIDE DEF c
<1>5. CallCounts(w)'
  <2>1. calls'[w] = c
    BY <1>3, <1>4, CallMoves
  <2>. QED
    BY <1>2, <1>3, <2>1 DEF CallCounts
<1>6. root'.entry_count \in 0..Len(lines')
  BY <1>1, <1>2 DEF Counted, IsEntries
<1>7. \A u \in Writers : CallCounts(u)'
  BY <1>3, <1>4, <1>5, CallMoves
<1>8. calls' \in [Writers -> EditedCallSet] /\ lock' \in Writers \cup {NoWriter}
        /\ \A u \in Writers : calls'[u].pc # "idle" <=> lock' = u
  BY <1>3, <1>4, CallMoves
<1>9. IsEntries(lines)' /\ Len(lines') <= MaxLines /\ tail' \in {"ok", "noeol", "torn"}
        /\ UnterminatedIsUnpublished'
  BY <1>1, <1>2 DEF Counted, IsEntries, UnterminatedIsUnpublished
<1>. QED
  BY <1>1, <1>2, <1>6, <1>7, <1>8, <1>9 DEF Counted

\* The line a call writes is a new last line, or it takes away a last one that
\* was not terminated and is under no root.
LineAdded(e) ==
  Len(lines) < MaxLines /\ lines' = Append(lines, Entry(Len(lines), e))
LineSpoilt ==
  /\ Len(lines) > 0 /\ root.entry_count < Len(lines)
  /\ lines' = SubSeq(lines, 1, Len(lines) - 1)

LEMMA LinesAfterCounted ==
  ASSUME Counted, NEW w \in Writers, calls[w].pc = "write", root' = root,
         lines' = LinesAfter(EntryOf(w))
  PROVE  /\ IsEntries(lines') /\ Len(lines') <= MaxLines
         /\ root'.entry_count \in 0..Len(lines')
         /\ tail = "ok" => root.entry_count < Len(lines')
         /\ (\E e \in Events : LineAdded(e)) \/ LineSpoilt
<1>. DEFINE e == calls[w].event
<1>1. /\ lines \in Seq(LineSet) /\ Len(lines) \in Nat /\ Len(lines) < MaxLines
      /\ calls[w].next_seq = Len(lines) /\ tail \in {"ok", "noeol"} /\ e \in Events
      /\ root.entry_count \in 0..Len(lines) /\ \A i \in 1..Len(lines) : lines[i].seq = i - 1
  BY ConstantsOK DEF Counted, IsEntries, CallCounts, Readable
<1>2. EntryOf(w) = Entry(Len(lines), e)
  BY <1>1 DEF EntryOf
<1>3. EntryOf(w) \in LineSet /\ EntryOf(w).seq = Len(lines)
  <2>1. Len(lines) \in 0..MaxLines
    BY <1>1, ConstantsOK
  <2>2. EntryOf(w) = Line(Len(lines), e, e)
    BY <1>2 DEF Entry, Line
  <2>. HIDE DEF e
  <2>3. Line(Len(lines), e, e) \in LineSet
    BY <1>1, <2>1, LineIn
  <2>. QED
    BY <2>2, <2>3 DEF Line
<1>4. CASE tail = "ok"
  <2>1. lines' = Append(lines, EntryOf(w))
    BY <1>4 DEF LinesAfter
  <2>2. /\ lines' \in Seq(LineSet) /\ Len(lines') = Len(lines) + 1
        /\ \A i \in 1..Len(lines) : lines'[i] = lines[i]
        /\ lines'[Len(lines) + 1] = EntryOf(w)
    BY <1>1, <1>3, <2>1, AppendFacts
  <2>3. \A i \in 1..Len(lines') : lines'[i].seq = i - 1
    BY <1>1, <1>3, <2>2
  <2>4. LineAdded(e)
    BY <1>1, <1>2, <2>1 DEF LineAdded
  <2>. HIDE DEF e
  <2>. QED
    BY <1>1, <2>2, <2>3, <2>4, ConstantsOK DEF IsEntries
<1>5. CASE tail = "noeol"
  <2>. DEFINE n == Len(lines) - 1
  <2>1. Len(lines) > 0 /\ root.entry_count < Len(lines)
    BY <1>5 DEF Counted, UnterminatedIsUnpublished
  <2>2. lines' = SubSeq(lines, 1, n)
    BY <1>5 DEF LinesAfter
  <2>3. n \in 0..Len(lines)
    BY <1>1, <2>1
  <2>4. LineSpoilt
    BY <2>1, <2>2 DEF LineSpoilt
  <2>. HIDE DEF n
  <2>5. /\ lines' \in Seq(LineSet) /\ Len(lines') = n
        /\ \A i \in 1..n : lines'[i] = lines[i]
    <3>1. /\ SubSeq(lines, 1, n) \in Seq(LineSet) /\ Len(SubSeq(lines, 1, n)) = n
          /\ \A i \in 1..n : SubSeq(lines, 1, n)[i] = lines[i]
      BY <1>1, <2>3, PrefixFacts
    <3>. QED
      BY <2>2, <3>1, Zenon
  <2>6. \A i \in 1..Len(lines') : lines'[i].seq = i - 1
    BY <1>1, <2>3, <2>5
  <2>7. IsEntries(lines')
    BY <2>5, <2>6 DEF IsEntries
  <2>. QED
    BY <1>1, <1>5, <2>1, <2>3, <2>4, <2>5, <2>7, ConstantsOK DEF n
<1>. QED
  BY <1>1, <1>4, <1>5

LEMMA WriteLineCounted ==
  ASSUME Counted, NEW w \in Writers, WriteLine(w)
  PROVE  Counted' /\ root' = root /\ ((\E e \in Events : LineAdded(e)) \/ LineSpoilt)
<1>. DEFINE c == [calls[w] EXCEPT !.pc = "refresh"]
<1>1. root' = root /\ calls[w].pc = "write" /\ lines' = LinesAfter(EntryOf(w))
        /\ tail' = (IF tail = "ok" THEN "ok" ELSE "torn")
  BY DEF WriteLine, EntryOf
<1>2. calls[w] \in EditedCallSet /\ calls[w].event \in Events
  BY DEF Counted, CallCounts, WriteLine
<1>3. c \in EditedCallSet /\ c.pc = "refresh" /\ c.event = calls[w].event
  BY <1>2 DEF EditedCallSet, Steps
<1>4. calls' = [calls EXCEPT ![w] = c] /\ lock' = lock /\ calls[w].pc # "idle"
  BY DEF WriteLine, Goto
<1>. HIDE DEF c
<1>5. IsEntries(lines') /\ Len(lines') <= MaxLines /\ root'.entry_count \in 0..Len(lines')
        /\ (tail = "ok" => Len(lines') > 0)
        /\ ((\E e \in Events : LineAdded(e)) \/ LineSpoilt)
  <2>1. /\ IsEntries(lines') /\ root.entry_count \in 0..Len(lines)
        /\ tail = "ok" => root.entry_count < Len(lines')
    BY <1>1, LinesAfterCounted DEF Counted
  <2>2. tail = "ok" => Len(lines') > 0
    BY <2>1 DEF Counted, IsEntries
  <2>. QED
    BY <1>1, <2>2, LinesAfterCounted
<1>6. CallCounts(w)'
  <2>1. calls'[w] = c
    BY <1>3, <1>4, CallMoves
  <2>. QED
    BY <1>1, <1>2, <1>3, <1>5, <2>1 DEF CallCounts
<1>7. \A u \in Writers : CallCounts(u)'
  BY <1>3, <1>4, <1>6, CallMoves
<1>8. calls' \in [Writers -> EditedCallSet] /\ lock' \in Writers \cup {NoWriter}
        /\ \A u \in Writers : calls'[u].pc # "idle" <=> lock' = u
  BY <1>3, <1>4, CallMoves
<1>9. UnterminatedIsUnpublished'
  BY <1>1 DEF UnterminatedIsUnpublished
<1>. QED
  BY <1>1, <1>7, <1>8, <1>5, <1>9 DEF Counted, IsEntries

LEMMA ShortWriteCounted ==
  ASSUME Counted, NEW w \in Writers, NEW how \in {"noeol", "torn"}, ShortWrite(w, how)
  PROVE  /\ Counted' /\ root' = root
         /\ lines' = lines \/ (\E e \in Events : LineAdded(e)) \/ LineSpoilt
<1>1. root' = root /\ calls[w].pc = "write" /\ calls[w].pc # "idle" /\ EndCall(w)
  BY DEF ShortWrite
<1>2. /\ calls' \in [Writers -> EditedCallSet] /\ lock' \in Writers \cup {NoWriter}
      /\ \A u \in Writers : calls'[u].pc # "idle" <=> lock' = u
      /\ \A u \in Writers : CallCounts(u)'
  BY <1>1, CallStops
<1>3. CASE tail = "ok" /\ how = "torn"
  <2>1. lines' = lines /\ tail' = "torn"
    BY <1>3 DEF ShortWrite
  <2>. QED
    BY <1>1, <1>2, <2>1 DEF Counted, IsEntries, UnterminatedIsUnpublished
<1>4. CASE ~(tail = "ok" /\ how = "torn")
  <2>1. lines' = LinesAfter(EntryOf(w)) /\ tail' = (IF tail = "ok" THEN how ELSE "torn")
    BY <1>4 DEF ShortWrite, EntryOf
  <2>2. /\ IsEntries(lines') /\ Len(lines') <= MaxLines /\ root'.entry_count \in 0..Len(lines')
        /\ (\E e \in Events : LineAdded(e)) \/ LineSpoilt
        /\ tail = "ok" => root.entry_count < Len(lines')
    BY <1>1, <2>1, LinesAfterCounted
  <2>3. UnterminatedIsUnpublished'
    BY <1>1, <2>1, <2>2 DEF UnterminatedIsUnpublished, IsEntries
  <2>4. tail' \in {"ok", "noeol", "torn"}
    BY <2>1
  <2>. QED
    BY <1>1, <1>2, <2>2, <2>3, <2>4 DEF Counted, IsEntries
<1>. QED
  BY <1>3, <1>4

\* What a step of the writers does to the files.
LEMMA WriterSteps ==
  ASSUME Counted, Next
  PROVE  /\ Counted'
         /\ lines' = lines \/ (\E e \in Events : LineAdded(e)) \/ LineSpoilt
         /\ root' = root \/ (lines' = lines /\ Len(lines) > 0 /\ root'.entry_count = Len(lines))
<1>1. PICK w \in Writers :
        \/ \E e \in Events : Call(w, e)
        \/ Step(w)
        \/ \E how \in {"noeol", "torn"} : ShortWrite(w, how)
        \/ Crash(w)
  BY DEF Next
<1>2. CASE \E e \in Events : Call(w, e)
  BY <1>2, CallCounted DEF FilesKept
<1>3. CASE ReadExisting(w) \/ RefreshRead(w) \/ WriteTmp(w) \/ Return(w) \/ Crash(w)
  BY <1>3, ReadExistingCounted, RefreshReadCounted, WriteTmpCounted, ReturnCounted
     DEF FilesKept
<1>4. CASE WriteLine(w)
  BY <1>4, WriteLineCounted
<1>5. CASE \E how \in {"noeol", "torn"} : ShortWrite(w, how)
  BY <1>5, ShortWriteCounted
<1>6. CASE Replace(w)
  BY <1>6, ReplaceCounted
<1>. QED
  BY <1>1, <1>2, <1>3, <1>4, <1>5, <1>6 DEF Step

LEMMA SealedFacts ==
  ASSUME SealedLines
  PROVE  /\ IsList(sealed)
         /\ \A n \in 0..Len(lines) :
              /\ IsLeafList(SubSeq(sealed, 1, n)) /\ Len(SubSeq(sealed, 1, n)) = n
              /\ \A i \in 1..n : SubSeq(sealed, 1, n)[i] = sealed[i]
<1>. DEFINE Hashes == {LeafHash(p) : p \in (0..MaxLines) \X Events}
<1>1. sealed \in Seq(Hashes) /\ Len(sealed) = Len(lines)
      /\ \A i \in 1..Len(sealed) : \E e \in Events : sealed[i] = LeafHash(<<i - 1, e>>)
  BY DEF SealedLines
<1>. HIDE DEF Hashes
<1>2. ASSUME NEW n \in 0..Len(lines)
      PROVE  /\ IsLeafList(SubSeq(sealed, 1, n)) /\ Len(SubSeq(sealed, 1, n)) = n
             /\ \A i \in 1..n : SubSeq(sealed, 1, n)[i] = sealed[i]
  <2>. DEFINE h == SubSeq(sealed, 1, n)
  <2>1. h \in Seq(Hashes) /\ Len(h) = n /\ \A i \in 1..n : h[i] = sealed[i]
    BY <1>1, PrefixFacts
  <2>2. \A i \in 1..n : i \in 1..Len(sealed)
    BY <1>1
  <2>. HIDE DEF h
  <2>3. \A i \in 1..Len(h) : \E x : h[i] = LeafHash(<<i - 1, x>>)
    BY <1>1, <2>1, <2>2
  <2>4. IsLeafList(h)
    BY <2>1, <2>3, SeqIsList, PositionedLeaves
  <2>. QED
    BY <2>1, <2>4 DEF h
<1>. QED
  BY <1>1, <1>2, SeqIsList

LEMMA EqualPrefixes ==
  ASSUME NEW S, NEW s \in Seq(S), NEW t \in Seq(S), NEW n \in Nat,
         n <= Len(s), n <= Len(t), \A i \in 1..n : t[i] = s[i]
  PROVE  SubSeq(t, 1, n) = SubSeq(s, 1, n)
<1>. DEFINE a == SubSeq(s, 1, n)
            b == SubSeq(t, 1, n)
<1>1. n \in 0..Len(s) /\ n \in 0..Len(t)
  OBVIOUS
<1>2. a \in Seq(S) /\ Len(a) = n /\ \A i \in 1..n : a[i] = s[i]
  BY <1>1, PrefixFacts
<1>3. b \in Seq(S) /\ Len(b) = n /\ \A i \in 1..n : b[i] = t[i]
  BY <1>1, PrefixFacts
<1>. HIDE DEF a, b
<1>4. a = b
  BY <1>2, <1>3, EqualLists, SeqIsList
<1>. QED
  BY <1>4 DEF a, b

\* The history follows the lines, and keeps what is under the root.
LEMMA SealedSteps ==
  ASSUME Counted, SealedLines, Write
  PROVE  /\ SealedLines'
         /\ \A i \in 1..root.entry_count : sealed'[i] = sealed[i]
         /\ \A n \in 0..root.entry_count : SubSeq(sealed', 1, n) = SubSeq(sealed, 1, n)
         /\ sealed = LeafHashes(lines) => sealed' = LeafHashes(lines')
<1>. DEFINE Hashes == {LeafHash(p) : p \in (0..MaxLines) \X Events}
<1>1. sealed \in Seq(Hashes) /\ Len(sealed) = Len(lines)
      /\ \A i \in 1..Len(sealed) : \E e \in Events : sealed[i] = LeafHash(<<i - 1, e>>)
  BY DEF SealedLines
<1>2. lines \in Seq(LineSet) /\ Len(lines) \in Nat /\ root.entry_count \in 0..Len(lines)
  BY DEF Counted, IsEntries
<1>3. sealed' = IF Len(lines') > Len(lines)
                THEN Append(sealed, lines'[Len(lines')].leaf_hash)
                ELSE SubSeq(sealed, 1, Len(lines'))
  BY DEF Write
<1>4. SUFFICES
        /\ sealed' \in Seq(Hashes) /\ Len(sealed') = Len(lines')
        /\ root.entry_count <= Len(lines')
        /\ \A i \in 1..Len(sealed') : \E e \in Events : sealed'[i] = LeafHash(<<i - 1, e>>)
        /\ \A i \in 1..root.entry_count : sealed'[i] = sealed[i]
        /\ sealed = LeafHashes(lines) => sealed' = LeafHashes(lines')
  <2>1. ASSUME sealed' \in Seq(Hashes), Len(sealed') = Len(lines'),
               root.entry_count <= Len(lines'),
               \A i \in 1..root.entry_count : sealed'[i] = sealed[i],
               NEW n \in 0..root.entry_count
        PROVE  SubSeq(sealed', 1, n) = SubSeq(sealed, 1, n)
    <3>1. n \in Nat /\ n <= Len(sealed) /\ n <= Len(sealed')
      BY <1>1, <1>2, <2>1
    <3>2. \A i \in 1..n : sealed'[i] = sealed[i]
      BY <1>2, <2>1
    <3>. HIDE DEF Hashes
    <3>. QED
      BY <1>1, <2>1, <3>1, <3>2, EqualPrefixes
  <2>. QED
    BY <2>1 DEF SealedLines
<1>5. CASE lines' = lines
  <2>1. sealed' = SubSeq(sealed, 1, Len(sealed))
    BY <1>1, <1>2, <1>3, <1>5
  <2>2. sealed' = sealed
    <3>. HIDE DEF Hashes
    <3>. QED
      BY <1>1, <2>1
  <2>3. root.entry_count <= Len(lines')
    BY <1>2, <1>5
  <2>. HIDE DEF Hashes
  <2>4. sealed' \in Seq(Hashes) /\ Len(sealed') = Len(lines')
    BY <1>1, <1>5, <2>2
  <2>5. sealed = LeafHashes(lines) => sealed' = LeafHashes(lines')
    BY <1>5, <2>2
  <2>. QED
    BY <1>1, <2>2, <2>3, <2>4, <2>5, Zenon
<1>6. ASSUME NEW e \in Events, LineAdded(e) PROVE
        /\ sealed' \in Seq(Hashes) /\ Len(sealed') = Len(lines')
        /\ root.entry_count <= Len(lines')
        /\ \A i \in 1..Len(sealed') : \E f \in Events : sealed'[i] = LeafHash(<<i - 1, f>>)
        /\ \A i \in 1..root.entry_count : sealed'[i] = sealed[i]
        /\ sealed = LeafHashes(lines) => sealed' = LeafHashes(lines')
  <2>. DEFINE n == Len(lines)
              leaf == LeafHash(<<n, e>>)
  <2>1. n \in 0..MaxLines
    BY <1>2, <1>6, ConstantsOK DEF LineAdded
  <2>2. leaf \in Hashes
    <3>1. <<n, e>> \in (0..MaxLines) \X Events
      BY <2>1
    <3>. QED
      BY <3>1
  <2>3. Entry(n, e) \in LineSet /\ Entry(n, e).leaf_hash = leaf
    BY <2>1, EntryFacts, EntriesAreLines DEF Entry
  <2>4. /\ lines' = Append(lines, Entry(n, e)) /\ Len(lines') = n + 1
        /\ \A i \in 1..n : lines'[i] = lines[i]
        /\ lines'[n + 1] = Entry(n, e)
    BY <1>2, <1>6, <2>3, AppendFacts DEF LineAdded
  <2>5. sealed' = Append(sealed, leaf)
    BY <1>2, <1>3, <2>3, <2>4
  <2>. HIDE DEF Hashes, leaf
  <2>6. /\ sealed' \in Seq(Hashes) /\ Len(sealed') = Len(sealed) + 1
        /\ \A i \in 1..Len(sealed) : sealed'[i] = sealed[i]
        /\ sealed'[Len(sealed) + 1] = leaf
    BY <1>1, <2>2, <2>5, AppendFacts
  <2>7. \A i \in 1..Len(sealed') : \E f \in Events : sealed'[i] = LeafHash(<<i - 1, f>>)
    <3>1. ASSUME NEW i \in 1..(n + 1)
          PROVE  \E f \in Events : sealed'[i] = LeafHash(<<i - 1, f>>)
      <4>1. CASE i = n + 1
        <5>1. i - 1 = n
          BY <1>2, <4>1
        <5>. QED
          BY <1>1, <2>6, <4>1, <5>1 DEF leaf
      <4>2. CASE i # n + 1
        <5>1. i \in 1..Len(sealed)
          BY <1>1, <1>2, <4>2
        <5>. QED
          BY <1>1, <2>6, <5>1
      <4>. QED
        BY <4>1, <4>2
    <3>. QED
      BY <1>1, <2>6, <3>1
  <2>8. ASSUME sealed = LeafHashes(lines) PROVE sealed' = LeafHashes(lines')
    <3>1. \A i \in 1..n : sealed[i] = lines[i].leaf_hash
      BY <2>8 DEF LeafHashes
    <3>2. LeafHashes(lines') = [i \in 1..(n + 1) |-> lines'[i].leaf_hash]
      BY <2>4 DEF LeafHashes
    <3>3. sealed' = [i \in 1..(n + 1) |-> sealed'[i]]
      BY <1>1, <2>6
    <3>4. ASSUME NEW i \in 1..(n + 1) PROVE sealed'[i] = lines'[i].leaf_hash
      <4>1. CASE i = n + 1
        BY <1>1, <2>3, <2>4, <2>6, <4>1
      <4>2. CASE i # n + 1
        <5>1. i \in 1..n
          BY <1>2, <4>2
        <5>. QED
          BY <1>1, <2>4, <2>6, <3>1, <5>1
      <4>. QED
        BY <4>1, <4>2
    <3>. QED
      BY <3>2, <3>3, <3>4
  <2>9. root.entry_count <= Len(lines') /\ \A i \in 1..root.entry_count : i \in 1..n
    BY <1>2, <2>4
  <2>10. Len(sealed') = Len(lines')
    BY <1>1, <2>4, <2>6
  <2>. QED
    BY <1>1, <2>6, <2>7, <2>8, <2>9, <2>10
<1>7. ASSUME LineSpoilt PROVE
        /\ sealed' \in Seq(Hashes) /\ Len(sealed') = Len(lines')
        /\ root.entry_count <= Len(lines')
        /\ \A i \in 1..Len(sealed') : \E f \in Events : sealed'[i] = LeafHash(<<i - 1, f>>)
        /\ \A i \in 1..root.entry_count : sealed'[i] = sealed[i]
        /\ sealed = LeafHashes(lines) => sealed' = LeafHashes(lines')
  <2>. DEFINE n == Len(lines) - 1
  <2>1. n \in 0..Len(lines) /\ n < Len(lines) /\ root.entry_count <= n
    BY <1>2, <1>7 DEF LineSpoilt
  <2>2. lines' = SubSeq(lines, 1, n)
    BY <1>7 DEF LineSpoilt
  <2>. HIDE DEF n, Hashes
  <2>3. Len(lines') = n /\ \A i \in 1..n : lines'[i] = lines[i]
    BY <1>2, <2>1, <2>2, PrefixFacts
  <2>4. sealed' = SubSeq(sealed, 1, n)
    BY <1>2, <1>3, <2>1, <2>3
  <2>5. sealed' \in Seq(Hashes) /\ Len(sealed') = n /\ \A i \in 1..n : sealed'[i] = sealed[i]
    BY <1>1, <2>1, <2>4, PrefixFacts
  <2>6. \A i \in 1..n : i \in 1..Len(sealed) /\ i \in 1..Len(lines)
    BY <1>1, <1>2, <2>1
  <2>7. ASSUME sealed = LeafHashes(lines) PROVE sealed' = LeafHashes(lines')
    <3>1. \A i \in 1..n : sealed[i] = lines[i].leaf_hash
      BY <2>6, <2>7 DEF LeafHashes
    <3>2. LeafHashes(lines') = [i \in 1..n |-> lines'[i].leaf_hash]
      BY <2>3 DEF LeafHashes
    <3>3. sealed' = [i \in 1..n |-> sealed'[i]]
      BY <2>5
    <3>. QED
      BY <2>3, <2>5, <3>1, <3>2, <3>3
  <2>8. \A i \in 1..root.entry_count : i \in 1..n
    BY <1>2, <2>1
  <2>. QED
    BY <1>1, <2>1, <2>3, <2>5, <2>6, <2>7, <2>8
<1>8. lines' = lines \/ (\E e \in Events : LineAdded(e)) \/ LineSpoilt
  BY WriterSteps DEF Write
<1>. QED
  BY <1>5, <1>6, <1>7, <1>8

-----------------------------------------------------------------------------
(* Every step of SpecReader preserves the invariant *)

LEMMA InitCounted == Init => Counted
<1>. SUFFICES ASSUME Init PROVE Counted
  OBVIOUS
<1>. USE DEF Init
<1>1. Idle \in EditedCallSet /\ Idle.pc = "idle"
  BY ConstantsOK DEF Idle, EditedCallSet, Steps
<1>2. calls \in [Writers -> EditedCallSet] /\ \A w \in Writers : calls[w].pc = "idle"
  BY <1>1
<1>3. \A w \in Writers : CallCounts(w) /\ (calls[w].pc # "idle" <=> lock = w)
  BY <1>2, ConstantsOK DEF CallCounts
<1>4. IsEntries(lines) /\ Len(lines) <= MaxLines /\ root.entry_count \in 0..Len(lines)
        /\ UnterminatedIsUnpublished
  BY ConstantsOK, NoRootFacts DEF IsEntries, UnterminatedIsUnpublished
<1>. QED
  BY <1>2, <1>3, <1>4 DEF Counted

LEMMA InitRInv == InitReader => RInv
<1>. SUFFICES ASSUME InitReader PROVE RInv
  OBVIOUS
<1>1. Init /\ IInv /\ Counted
  BY InitIInv, InitCounted DEF InitReader
<1>2. SealedLines /\ sealed = LeafHashes(lines)
  <2>1. lines = <<>> /\ sealed = <<>>
    BY DEF InitReader, Init
  <2>. QED
    BY <2>1 DEF SealedLines, LeafHashes
<1>3. Unedited
  BY <1>1, <1>2 DEF Unedited, InitReader, Init
<1>. QED
  BY <1>1, <1>2, <1>3
     DEF RInv, InitReader, CleanRoots, Held, IsEntries, OldRootBindsLeaves

LEMMA WriteRInv ==
  ASSUME RInv, Write
  PROVE  RInv'
<1>. USE DEF RInv
<1>1. /\ got_entries' = got_entries /\ got_root' = got_root /\ accepted' = accepted
      /\ edits' = edits
  BY DEF Write, rvars
<1>2. /\ Counted'
      /\ root' = root \/ (lines' = lines /\ Len(lines) > 0 /\ root'.entry_count = Len(lines))
  BY WriterSteps DEF Write
<1>3. /\ SealedLines'
      /\ \A i \in 1..root.entry_count : sealed'[i] = sealed[i]
      /\ \A n \in 0..root.entry_count : SubSeq(sealed', 1, n) = SubSeq(sealed, 1, n)
      /\ sealed = LeafHashes(lines) => sealed' = LeafHashes(lines')
  BY SealedSteps
<1>4. /\ root.entry_count \in Nat /\ root'.entry_count \in Nat
      /\ root.entry_count <= root'.entry_count
  <2>1. root.entry_count \in 0..Len(lines) /\ root'.entry_count \in 0..Len(lines')
          /\ Len(lines) \in Nat /\ Len(lines') \in Nat
    BY <1>2 DEF Counted, IsEntries
  <2>. QED
    BY <1>2, <2>1
<1>5. edits = 0 => IInv'
  BY NextIInv DEF Unedited, Write
<1>6. clean_roots' = IF edits = 0 /\ root' # root
                     THEN clean_roots \cup {root'} ELSE clean_roots
  BY DEF Write
<1>7. ASSUME NEW r \in clean_roots
      PROVE  /\ r.entry_count \in 1..root'.entry_count
             /\ r.merkle_root_hash = MerkleRoot(SubSeq(sealed', 1, r.entry_count))
  <2>1. r.entry_count \in 1..root.entry_count
        /\ r.merkle_root_hash = MerkleRoot(SubSeq(sealed, 1, r.entry_count))
    BY DEF CleanRoots
  <2>2. r.entry_count \in 0..root.entry_count /\ r.entry_count \in 1..root'.entry_count
    BY <1>4, <2>1
  <2>. QED
    BY <1>3, <2>1, <2>2
<1>8. ASSUME edits = 0, root' # root
      PROVE  /\ root'.entry_count \in 1..root'.entry_count
             /\ root'.merkle_root_hash = MerkleRoot(SubSeq(sealed', 1, root'.entry_count))
  <2>. DEFINE n == root'.entry_count
  <2>1. lines' = lines /\ Len(lines) > 0 /\ n = Len(lines')
    BY <1>2, <1>8
  <2>2. RootCommitsPrefix' /\ sealed' = LeafHashes(lines')
    BY <1>3, <1>5, <1>8 DEF Unedited, IInv
  <2>3. root'.merkle_root_hash = MerkleRoot(sealed')
    <3>1. root'.merkle_root_hash = MerkleRoot([i \in 1..n |-> lines'[i].leaf_hash])
      BY <2>2 DEF RootCommitsPrefix, Commits
    <3>2. [i \in 1..n |-> lines'[i].leaf_hash] = LeafHashes(lines')
      BY <2>1 DEF LeafHashes
    <3>. HIDE DEF n
    <3>. QED
      BY <2>2, <3>1, <3>2
  <2>4. SubSeq(sealed', 1, n) = sealed'
    <3>1. Len(sealed') = n
      BY <1>3, <2>1 DEF SealedLines
    <3>. DEFINE Hashes == {LeafHash(p) : p \in (0..MaxLines) \X Events}
    <3>2. sealed' \in Seq(Hashes)
      BY <1>3 DEF SealedLines
    <3>. HIDE DEF n, Hashes
    <3>. QED
      BY <3>1, <3>2
  <2>5. n \in 1..n
    BY <1>4, <2>1
  <2>. QED
    BY <2>3, <2>4, <2>5
<1>9. CleanRoots'
  BY <1>6, <1>7, <1>8 DEF CleanRoots
<1>10. clean_roots \subseteq clean_roots' /\ (edits = 0 /\ root' # root => root' \in clean_roots')
  BY <1>6
<1>11. Unedited'
  <2>1. SUFFICES ASSUME edits = 0
        PROVE  /\ IInv' /\ sealed' = LeafHashes(lines')
               /\ {root', got_root} \subseteq clean_roots' \cup {NoRoot}
               /\ got_entries \in Seq(EntrySet)
               /\ \A a \in accepted : a.root \in clean_roots' /\ a.entry \in EntrySet
    BY <1>1 DEF Unedited
  <2>2. /\ sealed = LeafHashes(lines)
        /\ {root, got_root} \subseteq clean_roots \cup {NoRoot}
        /\ got_entries \in Seq(EntrySet)
        /\ \A a \in accepted : a.root \in clean_roots /\ a.entry \in EntrySet
    BY <2>1 DEF Unedited
  <2>3. {root', got_root} \subseteq clean_roots' \cup {NoRoot}
    BY <1>10, <2>1, <2>2
  <2>. QED
    BY <1>3, <1>5, <1>10, <2>1, <2>2, <2>3
<1>12. ASSUME NEW a \in accepted, a.root \in clean_roots'
       PROVE  a.root \in clean_roots
  BY <1>6, <1>12 DEF Unedited
<1>13. Held'
  BY <1>1, <1>12 DEF Held
<1>14. OldRootBindsLeaves'
  <2>1. ASSUME NEW a \in accepted, a.root \in clean_roots'
        PROVE  a.entry.leaf_hash = sealed'[a.seq + 1]
    <3>1. a.root \in clean_roots
      BY <1>12, <2>1
    <3>2. a.seq \in 0..(a.root.entry_count - 1) /\ a.entry.leaf_hash = sealed[a.seq + 1]
      BY <3>1 DEF Held, OldRootBindsLeaves
    <3>3. a.root.entry_count \in 1..root.entry_count
      BY <3>1 DEF CleanRoots
    <3>4. a.seq + 1 \in 1..root.entry_count
      BY <1>4, <3>2, <3>3
    <3>. QED
      BY <1>3, <3>2, <3>4
  <2>. QED
    BY <1>1, <2>1 DEF OldRootBindsLeaves
<1>. QED
  BY <1>1, <1>2, <1>3, <1>9, <1>11, <1>13, <1>14

\* What no step of a relying party changes.
LEMMA ReaderSteps ==
  ASSUME RInv, UNCHANGED <<vars, hvars>>
  PROVE  /\ edits' \in Nat /\ Counted' /\ SealedLines' /\ CleanRoots'
         /\ edits = 0 => IInv' /\ sealed' = LeafHashes(lines')
<1>. USE DEF RInv, vars, hvars
<1>1. Counted'
  BY DEF Counted, IsEntries, CallCounts, Readable, UnterminatedIsUnpublished
<1>2. SealedLines' /\ CleanRoots'
  BY DEF SealedLines, CleanRoots
<1>3. edits = 0 => IInv'
  BY StutterIInv DEF Unedited
<1>4. edits = 0 => sealed' = LeafHashes(lines')
  BY DEF Unedited
<1>. QED
  BY <1>1, <1>2, <1>3, <1>4

LEMMA FetchEntriesRInv ==
  ASSUME RInv, FetchEntries
  PROVE  RInv'
<1>. USE DEF RInv
<1>1. /\ lines' = lines /\ root' = root /\ sealed' = sealed /\ edits' = edits
      /\ clean_roots' = clean_roots /\ accepted' = accepted /\ got_root' = got_root
      /\ got_entries' = lines
  BY DEF FetchEntries, vars, hvars
<1>2. /\ edits' \in Nat /\ Counted' /\ SealedLines' /\ CleanRoots'
      /\ edits = 0 => IInv' /\ sealed' = LeafHashes(lines')
  BY ReaderSteps DEF FetchEntries
<1>3. Unedited'
  BY <1>1, <1>2 DEF Unedited, IInv, TypeOK
<1>4. Held' /\ OldRootBindsLeaves'
  BY <1>1 DEF Held, OldRootBindsLeaves, Counted
<1>. QED
  BY <1>2, <1>3, <1>4

LEMMA FetchRootRInv ==
  ASSUME RInv, FetchRoot
  PROVE  RInv'
<1>. USE DEF RInv
<1>1. /\ lines' = lines /\ root' = root /\ sealed' = sealed /\ edits' = edits
      /\ clean_roots' = clean_roots /\ accepted' = accepted /\ got_root' = root
      /\ got_entries' = got_entries
  BY DEF FetchRoot, vars, hvars
<1>2. /\ edits' \in Nat /\ Counted' /\ SealedLines' /\ CleanRoots'
      /\ edits = 0 => IInv' /\ sealed' = LeafHashes(lines')
  BY ReaderSteps DEF FetchRoot
<1>3. Unedited'
  BY <1>1, <1>2 DEF Unedited
<1>4. Held' /\ OldRootBindsLeaves'
  BY <1>1 DEF Held, OldRootBindsLeaves
<1>. QED
  BY <1>2, <1>3, <1>4

\* Against a clean root only the entries that were sealed under it are
\* accepted.
LEMMA CleanRootDecides ==
  ASSUME RInv, NEW seq \in 0..(MaxLines - 1), seq < Len(got_entries),
         got_root \in clean_roots, Accepts(seq)
  PROVE  /\ seq \in 0..(got_root.entry_count - 1)
         /\ got_entries[seq + 1].leaf_hash = sealed[seq + 1]
<1>. DEFINE n == got_root.entry_count
            h == SubSeq(sealed, 1, n)
            g == LeafHashes(got_entries)
<1>1. n \in 1..root.entry_count /\ got_root.merkle_root_hash = MerkleRoot(h)
  BY DEF RInv, CleanRoots
<1>2. n \in Nat /\ n \in 0..Len(lines)
  BY <1>1 DEF RInv, Counted, IsEntries
<1>3. IsLeafList(h) /\ Len(h) = n /\ \A i \in 1..n : h[i] = sealed[i]
  BY <1>2, SealedFacts DEF RInv
<1>4. got_entries \in Seq(LineSet) /\ \A i \in 1..Len(got_entries) : got_entries[i].seq = i - 1
  BY DEF RInv, Held, IsEntries
<1>5. /\ IsLeafList(g) /\ Len(g) = Len(got_entries)
      /\ \A i \in 1..Len(got_entries) : g[i] = got_entries[i].leaf_hash
  <2>1. ASSUME NEW i \in 1..Len(got_entries)
        PROVE  \E x : got_entries[i].leaf_hash = LeafHash(<<i - 1, x>>)
    <3>1. got_entries[i] \in LineSet /\ got_entries[i].seq = i - 1
      BY <1>4
    <3>. QED
      BY <3>1, LineFacts
  <2>2. IsList(got_entries)
    BY <1>4, SeqIsList
  <2>. QED
    BY <2>1, <2>2, EntryLeaves
<1>6. MerkleRoot(g) = MerkleRoot(h)
  BY <1>1 DEF Accepts, InclusionProof
<1>. HIDE DEF g, h, n
<1>7. g = h
  BY <1>3, <1>5, <1>6, RootDeterminesLeaves
<1>8. seq + 1 \in 1..n
  BY <1>2, <1>3, <1>4, <1>5, <1>7
<1>9. seq + 1 \in 1..Len(got_entries)
  BY <1>3, <1>5, <1>7, <1>8
<1>10. seq \in 0..(n - 1)
  BY <1>2, <1>8
<1>. QED
  BY <1>3, <1>5, <1>7, <1>8, <1>9, <1>10 DEF n

LEMMA CheckEntryRInv ==
  ASSUME RInv, NEW seq \in 0..(MaxLines - 1), CheckEntry(seq)
  PROVE  RInv'
<1>. USE DEF RInv
<1>1. /\ lines' = lines /\ root' = root /\ sealed' = sealed /\ edits' = edits
      /\ clean_roots' = clean_roots /\ got_root' = NoRoot /\ got_entries' = <<>>
      /\ got_root # NoRoot /\ seq < Len(got_entries)
      /\ accepted' = {} \/ (/\ Accepts(seq)
                            /\ accepted' = {[entry |-> got_entries[seq + 1], seq |-> seq,
                                             root |-> got_root]})
  BY DEF CheckEntry, vars, hvars
<1>2. /\ edits' \in Nat /\ Counted' /\ SealedLines' /\ CleanRoots'
      /\ edits = 0 => IInv' /\ sealed' = LeafHashes(lines')
  BY ReaderSteps DEF CheckEntry
<1>3. IsEntries(got_entries')
  BY <1>1 DEF IsEntries
<1>4. seq + 1 \in 1..Len(got_entries)
  BY <1>1 DEF Held, IsEntries
<1>5. CASE accepted' = {}
  <2>1. Unedited'
    BY <1>1, <1>2, <1>5 DEF Unedited
  <2>. QED
    BY <1>2, <1>3, <1>5, <2>1 DEF Held, OldRootBindsLeaves
<1>6. CASE accepted' # {}
  <2>. DEFINE b == [entry |-> got_entries[seq + 1], seq |-> seq, root |-> got_root]
  <2>1. Accepts(seq) /\ accepted' = {b}
    BY <1>1, <1>6
  <2>2. b.entry = got_entries[seq + 1] /\ b.seq = seq /\ b.root = got_root
    OBVIOUS
  <2>3. b.entry.seq = b.seq
    BY <1>4, <2>2 DEF Held, IsEntries
  <2>4. ASSUME b.root \in clean_roots
        PROVE  b.seq \in 0..(b.root.entry_count - 1) /\ b.entry.leaf_hash = sealed[b.seq + 1]
    BY <1>1, <2>1, <2>4, CleanRootDecides
  <2>5. edits = 0 => b.root \in clean_roots /\ b.entry \in EntrySet
    BY <1>1, <1>4 DEF Unedited
  <2>. HIDE DEF b
  <2>6. Unedited'
    BY <1>1, <1>2, <2>1, <2>5 DEF Unedited
  <2>7. Held' /\ OldRootBindsLeaves'
    BY <1>1, <1>3, <2>1, <2>3, <2>4 DEF Held, OldRootBindsLeaves
  <2>. QED
    BY <1>2, <2>6, <2>7
<1>. QED
  BY <1>5, <1>6

LEMMA EditRInv ==
  ASSUME RInv, NEW i \in 1..Len(lines), NEW e \in Events, Edit(i, e)
  PROVE  RInv'
<1>. USE DEF RInv
<1>1. /\ tail' = tail /\ tmp' = tmp /\ root' = root /\ lock' = lock /\ calls' = calls
      /\ got_entries' = got_entries /\ got_root' = got_root /\ accepted' = accepted
      /\ sealed' = sealed /\ clean_roots' = clean_roots /\ edits' = edits + 1
  BY DEF Edit, rvars
<1>2. lines \in Seq(LineSet) /\ \A k \in 1..Len(lines) : lines[k].seq = k - 1
  BY DEF Counted, IsEntries
<1>3. PICK x : /\ lines' = [lines EXCEPT ![i] = x]
               /\ x = [lines[i] EXCEPT !.event = e]
                  \/ x = [lines[i] EXCEPT !.leaf_hash = LeafHash(<<lines[i].seq, e>>)]
  BY DEF Edit
<1>4. x \in LineSet /\ x.seq = i - 1
  <2>1. lines[i] \in LineSet /\ lines[i].seq = i - 1
    BY <1>2
  <2>2. PICK p \in (0..MaxLines) \X Events \X Events : lines[i] = Line(p[1], p[2], p[3])
    BY <2>1 DEF LineSet
  <2>3. x = Line(p[1], e, p[3]) \/ x = Line(p[1], p[2], e)
    BY <1>3, <2>2 DEF Line
  <2>4. p[1] \in 0..MaxLines /\ p[2] \in Events /\ p[3] \in Events
    OBVIOUS
  <2>5. x \in LineSet
    BY <2>3, <2>4, LineIn
  <2>6. x.seq = p[1] /\ lines[i].seq = p[1]
    BY <2>2, <2>3 DEF Line
  <2>. QED
    BY <2>1, <2>5, <2>6
<1>5. Len(lines') = Len(lines) /\ IsEntries(lines')
  <2>1. lines' \in Seq(LineSet) /\ Len(lines') = Len(lines)
    BY <1>2, <1>3, <1>4
  <2>2. \A k \in 1..Len(lines) : lines'[k].seq = k - 1
    BY <1>2, <1>3, <1>4
  <2>. QED
    BY <2>1, <2>2 DEF IsEntries
<1>6. Counted'
  <2>1. \A w \in Writers : CallCounts(w)'
    BY <1>1, <1>5 DEF Counted, CallCounts, Readable
  <2>2. UnterminatedIsUnpublished'
    BY <1>1, <1>5 DEF Counted, UnterminatedIsUnpublished
  <2>. QED
    BY <1>1, <1>5, <2>1, <2>2 DEF Counted, IsEntries
<1>7. SealedLines' /\ CleanRoots'
  BY <1>1, <1>5 DEF SealedLines, CleanRoots
<1>8. edits' \in Nat /\ Unedited'
  BY <1>1 DEF Unedited
<1>9. Held' /\ OldRootBindsLeaves'
  BY <1>1 DEF Held, OldRootBindsLeaves
<1>. QED
  BY <1>6, <1>7, <1>8, <1>9

LEMMA NextRInv == RInv /\ [NextReader]_<<vars, rvars, hvars>> => RInv'
<1>. SUFFICES ASSUME RInv, [NextReader]_<<vars, rvars, hvars>> PROVE RInv'
  OBVIOUS
<1>1. CASE UNCHANGED <<vars, rvars, hvars>>
  <2>1. /\ edits' \in Nat /\ Counted' /\ SealedLines' /\ CleanRoots'
        /\ edits = 0 => IInv' /\ sealed' = LeafHashes(lines')
    BY <1>1, ReaderSteps
  <2>2. Unedited' /\ Held' /\ OldRootBindsLeaves'
    BY <1>1, <2>1 DEF RInv, vars, rvars, hvars, Unedited, Held, OldRootBindsLeaves
  <2>. QED
    BY <2>1, <2>2 DEF RInv
<1>2. CASE NextReader
  BY <1>2, WriteRInv, FetchEntriesRInv, FetchRootRInv, CheckEntryRInv, EditRInv
     DEF NextReader
<1>. QED
  BY <1>1, <1>2

THEOREM ReaderInvariance == SpecReader => []RInv
BY InitRInv, NextRInv, PTL DEF SpecReader

\* However often and wherever the files are edited: what a relying party
\* accepts against a root it fetched before has the leaf hash its writer gave.
THEOREM OldRootsBind == SpecReader => []OldRootBindsLeaves
<1>1. RInv => OldRootBindsLeaves
  BY DEF RInv
<1>. QED
  BY <1>1, ReaderInvariance, PTL

\* Whatever the relying party's two fetches overlapped with, what it accepts
\* of an unedited log is on its line under root.json, for good.
THEOREM AcceptedStaysPublished == SpecReader => []AcceptedIsPublished
<1>1. ASSUME RInv, edits = 0, NEW a \in accepted
      PROVE  a.entry.seq = a.seq /\ a.seq < root.entry_count /\ lines[a.seq + 1] = a.entry
  <2>1. /\ IInv /\ sealed = LeafHashes(lines) /\ a.root \in clean_roots
        /\ a.entry \in EntrySet
    BY <1>1 DEF RInv, Unedited
  <2>2. a.entry.seq = a.seq /\ a.seq \in 0..(a.root.entry_count - 1)
        /\ a.entry.leaf_hash = sealed[a.seq + 1]
    BY <1>1, <2>1 DEF RInv, Held, OldRootBindsLeaves
  <2>3. a.root.entry_count \in 1..root.entry_count
    BY <1>1, <2>1 DEF RInv, CleanRoots
  <2>4. root.entry_count \in 0..Len(lines) /\ Len(lines) \in Nat /\ lines \in Seq(EntrySet)
        /\ SeqMatchesPosition
    BY <1>1, <2>1 DEF RInv, Counted, IsEntries, IInv, TypeOK
  <2>5. a.seq < root.entry_count /\ a.seq + 1 \in 1..Len(lines) /\ a.seq \in Nat
    BY <2>2, <2>3, <2>4
  <2>. DEFINE x == lines[a.seq + 1]
  <2>6. x \in EntrySet /\ x.seq = a.seq
    <3>1. x.seq = (a.seq + 1) - 1
      BY <2>4, <2>5 DEF SeqMatchesPosition
    <3>. QED
      BY <2>4, <2>5, <3>1
  <2>7. x.leaf_hash = a.entry.leaf_hash
    BY <2>1, <2>2, <2>5 DEF LeafHashes
  <2>. HIDE DEF x
  <2>8. PICK e \in Events : x = Entry(a.seq, e) /\ x.leaf_hash = LeafHash(<<a.seq, e>>)
    BY <2>6, EntryLeafHash
  <2>9. PICK f \in Events : a.entry = Entry(a.seq, f) /\ a.entry.leaf_hash = LeafHash(<<a.seq, f>>)
    BY <2>1, <2>2, EntryLeafHash
  <2>10. e = f
    <3>1. <<a.seq, e>> = <<a.seq, f>>
      BY <2>7, <2>8, <2>9, LeafHashInjective
    <3>. QED
      BY <3>1
  <2>. QED
    BY <2>2, <2>5, <2>8, <2>9, <2>10 DEF x
<1>2. RInv => AcceptedIsPublished
  BY <1>1 DEF AcceptedIsPublished
<1>. QED
  BY <1>2, ReaderInvariance, PTL
=============================================================================
