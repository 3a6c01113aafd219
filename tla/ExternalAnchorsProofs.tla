------------------------ MODULE ExternalAnchorsProofs ------------------------
(***************************************************************************)
(* For any number of anchors, of files lost and of files altered: the      *)
(* properties of MirrorHistory and of ExternalAnchors are invariants of    *)
(* AnchorSpec, which implements AuthenticHistory.                          *)
(***************************************************************************)
EXTENDS ExternalAnchors, FiniteSetTheorems, SequenceTheorems, WellFoundedInduction, TLAPS

\* A sequence of whatever its elements are.
IsList(s) == s \in Seq({s[i] : i \in 1..Len(s)})

\* Every sequence is a list.
LEMMA ListOf ==
  ASSUME NEW S, NEW s \in Seq(S)
  PROVE  IsList(s)
<1>. DEFINE T == {s[i] : i \in 1..Len(s)}
<1>1. Len(s) \in Nat /\ s \in [1..Len(s) -> S]
  BY LenProperties
<1>2. s \in [1..Len(s) -> T]
  BY <1>1
<1>3. s \in Seq(T)
  BY <1>1, <1>2
<1>. QED
  BY <1>3 DEF IsList

\* A list is a function on 1..n.
LEMMA ListFacts ==
  ASSUME NEW s, IsList(s)
  PROVE  Len(s) \in Nat /\ DOMAIN s = 1..Len(s) /\ s = [i \in 1..Len(s) |-> s[i]]
<1>. DEFINE S == {s[i] : i \in 1..Len(s)}
<1>1. s \in Seq(S)
  BY DEF IsList
<1>. HIDE DEF S
<1>2. Len(s) \in Nat /\ s \in [1..Len(s) -> S]
  BY <1>1, LenProperties
<1>. QED
  BY <1>2

\* A function on 1..n is a list of length n.
LEMMA TupleList ==
  ASSUME NEW n \in Nat, NEW s, s = [i \in 1..n |-> s[i]]
  PROVE  IsList(s) /\ Len(s) = n
<1>. DEFINE S == {s[i] : i \in 1..n}
<1>1. s \in [1..n -> S]
  OBVIOUS
<1>2. s \in Seq(S) /\ Len(s) = n
  BY <1>1
<1>. QED
  BY <1>2, ListOf

\* What EXCEPT returns of a list.
LEMMA ExceptList ==
  ASSUME NEW s, IsList(s), NEW i \in 1..Len(s), NEW e
  PROVE  /\ IsList([s EXCEPT ![i] = e]) /\ Len([s EXCEPT ![i] = e]) = Len(s)
         /\ \A j \in 1..Len(s) : [s EXCEPT ![i] = e][j] = IF j = i THEN e ELSE s[j]
<1>. DEFINE S == {s[k] : k \in 1..Len(s)} \cup {e}
<1>1. s \in Seq(S) /\ e \in S
  BY SeqMonotonic DEF IsList
<1>. HIDE DEF S
<1>2. /\ [s EXCEPT ![i] = e] \in Seq(S) /\ Len([s EXCEPT ![i] = e]) = Len(s)
      /\ \A j \in 1..Len(s) : [s EXCEPT ![i] = e][j] = IF j = i THEN e ELSE s[j]
  BY <1>1, ExceptSeq
<1>. QED
  BY <1>2, ListOf
-----------------------------------------------------------------------------
\* A set of naturals has a least element.
LEMMA LeastOf ==
  ASSUME NEW S \in SUBSET Nat, S # {}
  PROVE  \E x \in S : \A y \in S : x <= y
<1>1. PICK x \in S : \A y \in S : ~(<<y, x>> \in OpToRel(<, Nat))
  BY NatLessThanWellFounded, WFMin
<1>2. \A y \in S : ~(y < x)
  BY <1>1 DEF OpToRel
<1>. QED
  BY <1>2

\* Only the identity maps 1..n to itself with every value above the one before.
LEMMA IncreasingIsIdentity ==
  ASSUME NEW n \in Nat, NEW v \in [1..n -> 1..n],
         \A r \in 2..n : v[r - 1] < v[r]
  PROVE  \A r \in 1..n : v[r] = r
<1>1. ASSUME NEW q \in 1..n, v[q] < q PROVE FALSE
  <2>. DEFINE S == {r \in 1..n : v[r] < r}
  <2>1. S \in SUBSET Nat /\ q \in S
    BY <1>1
  <2>2. PICK r \in S : \A y \in S : r <= y
    BY <2>1, LeastOf
  <2>3. r \in 2..n /\ v[r] < r
    BY <2>2
  <2>4. r - 1 \in 1..n /\ r - 1 \notin S
    BY <2>2, <2>3
  <2>5. ~(v[r - 1] < r - 1)
    BY <2>4
  <2>. QED
    BY <2>3, <2>4, <2>5
<1>2. ASSUME NEW q \in 1..n, v[q] > q PROVE FALSE
  <2>. DEFINE S == {d \in 0..(n - 1) : v[n - d] > n - d}
  <2>1. S \in SUBSET Nat /\ n - q \in S
    BY <1>2
  <2>2. PICK d \in S : \A y \in S : d <= y
    BY <2>1, LeastOf
  <2>3. d \in 1..(n - 1) /\ v[n - d] > n - d
    BY <2>2
  <2>4. d - 1 \in 0..(n - 1) /\ ~(d <= d - 1)
    BY <2>3
  <2>5. ~(v[n - (d - 1)] > n - (d - 1))
    BY <2>2, <2>4
  <2>6. n - (d - 1) \in 2..n /\ n - (d - 1) - 1 = n - d /\ n - d \in 1..n
    BY <2>3
  <2>7. v[n - d] < v[n - (d - 1)]
    BY <2>6
  <2>. QED
    BY <2>3, <2>5, <2>6, <2>7
<1>. QED
  BY <1>1, <1>2

\* Min and Max of FiniteSetsExt are what their names say.
LEMMA MinMax ==
  ASSUME NEW n \in Nat, NEW S \in SUBSET (0..n), S # {}
  PROVE  /\ Min(S) \in S /\ \A y \in S : Min(S) <= y
         /\ Max(S) \in S /\ \A y \in S : Max(S) >= y
<1>1. \E x \in S : \A y \in S : x <= y
  BY LeastOf
<1>2. \E x \in S : \A y \in S : x >= y
  <2>. DEFINE T == {t \in 0..n : n - t \in S}
  <2>1. T \in SUBSET Nat /\ \A y \in S : n - y \in T
    OBVIOUS
  <2>2. PICK t \in T : \A u \in T : t <= u
    <3>. HIDE DEF T
    <3>. QED
      BY <2>1, LeastOf
  <2>3. n - t \in S /\ \A y \in S : n - t >= y
    BY <2>1, <2>2
  <2>. QED
    BY <2>3
<1>3. Min(S) \in S /\ \A y \in S : Min(S) <= y
  BY <1>1 DEF Min
<1>4. Max(S) \in S /\ \A y \in S : Max(S) >= y
  BY <1>2 DEF Max
<1>. QED
  BY <1>3, <1>4
-----------------------------------------------------------------------------
(* Anchors *)

\* What the directories hold, whatever happens to them: no new signature.
IsAnchor(a) ==
  /\ a = [chain_head_index |-> a.chain_head_index, anchor_hash |-> a.anchor_hash,
          previous_anchor_hash |-> a.previous_anchor_hash, day |-> a.day,
          anchor_signature |-> a.anchor_signature]
  /\ a.chain_head_index \in 0..count /\ a.day \in 0..count
  /\ \E n \in 1..count : a.anchor_signature = Hash(n)

\* What is hashed tells the anchors of the platform apart.
LEMMA HashedAnchor ==
  ASSUME NEW n \in Nat
  PROVE  /\ Hashed(Anchor(n)) = <<n, n, Hash(n - 1)>>
         /\ \A m \in Nat : Hashed(Anchor(m)) = Hashed(Anchor(n)) => m = n
         /\ \A m \in Nat : Hash(m) = Hash(n) => m = n
<1>1. \A m \in Nat : Hashed(Anchor(m)) = <<m, m, Hash(m - 1)>>
  BY DEF Hashed, Anchor
<1>2. \A m \in Nat : Hashed(Anchor(m)) = Hashed(Anchor(n)) => m = n
  BY <1>1
<1>3. \A m \in Nat : Hash(m) = Hash(n) => m = n
  BY DEF Hash
<1>. QED
  BY <1>1, <1>2, <1>3

\* A computed hash is one of the platform's only if it is of what the platform
\* hashed.
LEMMA HashDecides ==
  ASSUME count \in Nat, NEW a, NEW n \in Nat, HashOf(a) = Hash(n)
  PROVE  n \in 1..count /\ Hashed(a) = Hashed(Anchor(n))
<1>1. CASE \E m \in 1..count : Hashed(a) = Hashed(Anchor(m))
  <2>. DEFINE m == CHOOSE m \in 1..count : Hashed(a) = Hashed(Anchor(m))
  <2>1. m \in 1..count /\ Hashed(a) = Hashed(Anchor(m))
    BY <1>1
  <2>2. HashOf(a) = Hash(m)
    BY <1>1 DEF HashOf
  <2>. HIDE DEF m
  <2>3. m \in Nat /\ Hash(m) = Hash(n)
    BY <2>1, <2>2
  <2>4. m = n
    BY <2>3, HashedAnchor
  <2>. QED
    BY <2>1, <2>4
<1>2. CASE ~\E m \in 1..count : Hashed(a) = Hashed(Anchor(m))
  <2>1. HashOf(a) = <<Hashed(a), Hashed(a)>>
    BY <1>2 DEF HashOf
  <2>2. Hashed(a) = <<n>>
    BY <2>1 DEF Hash
  <2>3. Len(Hashed(a)) = 3 /\ Len(<<n>>) = 1
    BY DEF Hashed
  <2>. QED
    BY <2>2, <2>3
<1>. QED
  BY <1>1, <1>2

\* The platform's anchors have the hash that is computed, and are valid.
LEMMA AnchorsValid ==
  ASSUME count \in Nat, NEW n \in 1..count, NEW signatures
  PROVE  HashOf(Anchor(n)) = Hash(n) /\ AnchorValid(Anchor(n), signatures)
<1>1. HashOf(Anchor(n)) = Hash(n)
  <2>. DEFINE m == CHOOSE m \in 1..count : Hashed(Anchor(n)) = Hashed(Anchor(m))
  <2>1. m \in 1..count /\ Hashed(Anchor(n)) = Hashed(Anchor(m))
    OBVIOUS
  <2>2. HashOf(Anchor(n)) = Hash(m)
    BY DEF HashOf
  <2>. HIDE DEF m
  <2>3. m \in Nat /\ n \in Nat
    BY <2>1
  <2>4. m = n
    BY <2>1, <2>3, HashedAnchor
  <2>. QED
    BY <2>2, <2>4
<1>2. HashValid(Anchor(n)) /\ SignatureValid(Anchor(n))
  BY <1>1 DEF HashValid, SignatureValid, Anchor
<1>3. Hash(n) # NoHash /\ Hash(n - 1) # NoHash
  BY DEF Hash, NoHash
<1>4. SchemaValid(Anchor(n))
  BY <1>3 DEF SchemaValid, Anchor, NoIndex
<1>. QED
  BY <1>1, <1>2, <1>4 DEF AnchorValid

\* A valid anchor whose hash is one of the platform's is the platform's.
LEMMA ValidIsPublished ==
  ASSUME count \in Nat, NEW a, IsAnchor(a), NEW signatures, AnchorValid(a, signatures),
         NEW n \in Nat, a.anchor_hash = Hash(n)
  PROVE  /\ n \in 1..count /\ Published(a)
         /\ a.chain_head_index = n /\ a.day = n /\ a.previous_anchor_hash = Hash(n - 1)
<1>1. HashOf(a) = Hash(n)
  BY DEF AnchorValid, HashValid
<1>2. n \in 1..count /\ Hashed(a) = Hashed(Anchor(n))
  BY <1>1, HashDecides
<1>3. a.chain_head_index = n /\ a.day = n /\ a.previous_anchor_hash = Hash(n - 1)
  BY <1>2, HashedAnchor DEF Hashed
<1>4. [a EXCEPT !.anchor_signature = Hash(n)] = Anchor(n)
  BY <1>3 DEF IsAnchor, Anchor
<1>. QED
  BY <1>2, <1>3, <1>4 DEF Published
-----------------------------------------------------------------------------
(* The invariant *)

\* The directories hold anchors of the platform, altered or not.
FilesGenuine ==
  /\ count \in 1..MaxAnchors /\ faults \in 0..MaxFaults /\ DOMAIN files = Directories
  /\ \A d \in Directories :
       /\ IsList(files[d]) /\ Len(files[d]) <= count
       /\ \A k \in 1..Len(files[d]) : IsAnchor(files[d][k])

Loadable(d) == {k \in 1..Len(files[d]) : files[d][k].anchor_hash # NoHash}
Current(d) == {k \in Loadable(d) : Taken(files[d][k])}

\* A directory that was taken was taken as a whole, but for the filters.
Loads ==
  /\ pc \in {"copy", "load", "check", "done"} /\ since \in 1..(count + 1)
  /\ DOMAIN loaded = Directories
  /\ \A d \in Directories :
       /\ pc = "copy" => loaded[d] = {}
       /\ pc = "load" => loaded[d] \in {{}, Loadable(d)}
       /\ pc \in {"check", "done"} => loaded[d] \in {{}, Current(d)}

Indices == (UNION {Kept(d) : d \in Directories}) \ {NoIndex}

\* j is the index the loop looked at before i.
Precedes(j, i) == j < i /\ \A h \in DOMAIN agreed : h <= j \/ h >= i

\* What the loop holds against an index.
Faulty(i) ==
  \/ Mismatch(i)
  \/ \E j \in DOMAIN agreed : /\ Precedes(j, i)
                              /\ agreed[i].previous_anchor_hash # agreed[j].anchor_hash

\* How far the loop is: every index was looked at or is to be, in order, and
\* broken says what was found.
Looping ==
  /\ pc \in {"copy", "load"} => todo = {} /\ DOMAIN agreed = {} /\ expected = NoHash
  /\ pc \in {"check", "done"} => todo \cup DOMAIN agreed = Indices
  /\ \A i \in DOMAIN agreed, j \in todo : i < j
  /\ \A i \in DOMAIN agreed : agreed[i] = Agreed(i)
  /\ broken = {i \in DOMAIN agreed : Faulty(i)}
  /\ expected = IF DOMAIN agreed = {} THEN NoHash ELSE agreed[Max(DOMAIN agreed)].anchor_hash

Ended ==
  /\ status \in {"NONE", "PASS", "FAIL", "ERROR"}
  /\ (status # "NONE") <=> (pc = "done")
  /\ pc = "check" \/ status \in {"PASS", "FAIL"} => todo \cup DOMAIN agreed # {}
  /\ status = "PASS" => todo = {} /\ broken = {}
  /\ status = "FAIL" => todo = {} /\ broken # {}

InOrder(s) == \A r \in 2..Len(s) : s[r - 1].chain_head_index <= s[r].chain_head_index

\* What one of the other two commands read, and what it said of it.
Judged ==
  /\ command = "none" => exit = "NONE"
  /\ command # "none" =>
       /\ command \in {"file", "chain"} /\ checked \in BOOLEAN
       /\ IsList(read) /\ Len(read) <= count /\ \A k \in 1..Len(read) : IsAnchor(read[k])
       /\ command = "file" =>
            /\ Len(read) = 1
            /\ exit = "PASS" => AnchorValid(read[1], checked)
            /\ exit = "FAIL" /\ key # "unusable" => ~AnchorValid(read[1], checked)
       /\ command = "chain" =>
            /\ InOrder(read)
            /\ exit = "PASS" => ChainValid(read, checked)
            /\ exit = "FAIL" /\ key # "unusable" => ~ChainValid(read, checked)

IInv == FilesGenuine /\ Loads /\ Looping /\ Ended /\ Judged

\* Numbers and lists that the steps need.
LEMMA FilesFacts ==
  ASSUME FilesGenuine
  PROVE  /\ MaxAnchors \in Nat /\ MaxFaults \in Nat /\ count \in Nat /\ 1 \in 1..count
         /\ \A d \in Directories : Len(files[d]) \in Nat /\ Len(files[d]) \in 0..count
<1>1. MaxAnchors \in Nat /\ MaxFaults \in Nat
  BY HistoryBoundsOK
<1>2. count \in 1..MaxAnchors
  BY DEF FilesGenuine
<1>3. ASSUME NEW d \in Directories PROVE Len(files[d]) \in Nat /\ Len(files[d]) <= count
  BY <1>3, ListFacts DEF FilesGenuine
<1>. QED
  BY <1>1, <1>2, <1>3

\* The platform's anchors, as they are and backwards.
LEMMA InitGenuine == Init => FilesGenuine
<1>. SUFFICES ASSUME Init PROVE FilesGenuine
  OBVIOUS
<1>1. count \in 1..MaxAnchors /\ faults = 0 /\ MaxAnchors \in Nat /\ MaxFaults \in Nat
  BY HistoryBoundsOK DEF Init
<1>2. PICK listing \in {[n \in 1..count |-> Anchor(n)], [n \in 1..count |-> Anchor(count + 1 - n)]} :
        files = [d \in Directories |-> listing]
  BY DEF Init
<1>3. ASSUME NEW n \in 1..count PROVE IsAnchor(Anchor(n))
  <2>1. n \in 0..count /\ Anchor(n).anchor_signature = Hash(n)
    BY <1>1 DEF Anchor
  <2>. QED
    BY <2>1 DEF IsAnchor, Anchor
<1>4. IsList(listing) /\ Len(listing) = count
  <2>1. count \in Nat
    BY <1>1
  <2>2. listing = [n \in 1..count |-> listing[n]]
    OBVIOUS
  <2>. QED
    BY <2>1, <2>2, TupleList
<1>5. \A k \in 1..count : IsAnchor(listing[k])
  <2>1. \A k \in 1..count : count + 1 - k \in 1..count
    BY <1>1
  <2>. QED
    BY <1>3, <2>1
<1>. QED
  BY <1>1, <1>2, <1>4, <1>5 DEF FilesGenuine

\* The invariant holds at the start.
LEMMA InitIInv == AnchorInit => IInv
<1>. SUFFICES ASSUME AnchorInit PROVE IInv
  OBVIOUS
<1>1. FilesGenuine
  BY InitGenuine DEF AnchorInit
<1>2. Loads
  BY <1>1, FilesFacts DEF AnchorInit, Init, Loads
<1>3. Looping
  <2>1. agreed = <<>> /\ todo = {} /\ expected = NoHash /\ pc = "copy" /\ broken = {}
    BY DEF AnchorInit, Init
  <2>2. DOMAIN agreed = {}
    BY <2>1
  <2>. QED
    BY <2>1, <2>2 DEF Looping
<1>4. Ended /\ Judged
  BY DEF AnchorInit, Init, Ended, Judged
<1>. QED
  BY <1>1, <1>2, <1>3, <1>4 DEF IInv
-----------------------------------------------------------------------------
(* The files on their way *)

\* While the files are on their way nothing has been looked at, so that any
\* change keeps the invariant that leaves anchors in the directory.
LEMMA FaultKeepsIInv ==
  ASSUME IInv, command = "none", UNCHANGED anchorVars, Faulting,
         NEW d \in Directories, NEW f, Fault(d, f),
         IsList(f), Len(f) <= count, \A k \in 1..Len(f) : IsAnchor(f[k])
  PROVE  IInv'
<1>. USE DEF IInv
<1>1. /\ pc = "copy" /\ pc' = "copy" /\ faults < MaxFaults
      /\ UNCHANGED <<count, since, loaded, todo, expected, agreed, broken, status>>
      /\ files' = [files EXCEPT ![d] = f] /\ faults' = faults + 1
  BY DEF Faulting, Fault
<1>2. FilesGenuine'
  <2>1. DOMAIN files' = Directories
    BY <1>1 DEF FilesGenuine
  <2>2. \A e \in Directories : files'[e] = IF e = d THEN f ELSE files[e]
    BY <1>1 DEF FilesGenuine
  <2>3. \A a : IsAnchor(a)' <=> IsAnchor(a)
    BY <1>1 DEF IsAnchor
  <2>4. count' \in 1..MaxAnchors /\ faults' \in 0..MaxFaults
    BY <1>1, FilesFacts DEF FilesGenuine
  <2>5. ASSUME NEW e \in Directories
        PROVE  (/\ IsList(files[e]) /\ Len(files[e]) <= count
                /\ \A k \in 1..Len(files[e]) : IsAnchor(files[e][k]))'
    <3>1. PICK g : /\ g = files'[e] /\ IsList(g) /\ Len(g) <= count
                   /\ \A k \in 1..Len(g) : IsAnchor(g[k])
      BY <2>2 DEF FilesGenuine
    <3>. QED
      BY <3>1, <1>1 DEF IsAnchor
  <2>. QED
    BY <2>1, <2>4, <2>5 DEF FilesGenuine
<1>3. Loads'
  BY <1>1 DEF Loads
<1>4. Looping'
  <2>1. todo' = {} /\ DOMAIN agreed' = {} /\ expected' = NoHash /\ broken' = broken
    BY <1>1 DEF Looping
  <2>2. broken = {}
    BY <1>1 DEF Looping
  <2>. QED
    BY <1>1, <2>1, <2>2 DEF Looping
<1>5. Ended'
  BY <1>1 DEF Ended
<1>6. Judged'
  BY DEF Judged, anchorVars
<1>. QED
  BY <1>2, <1>3, <1>4, <1>5, <1>6

LEMMA LoseKeepsIInv ==
  ASSUME IInv, command = "none", UNCHANGED anchorVars,
         NEW d \in Directories, NEW k \in 1..Len(files[d]), Lose(d, k)
  PROVE  IInv'
<1>. DEFINE n == Len(files[d]) - 1
            f == [j \in 1..n |-> IF j < k THEN files[d][j] ELSE files[d][j + 1]]
<1>1. Faulting /\ Fault(d, f)
  BY DEF Lose
<1>2. Len(files[d]) \in Nat /\ Len(files[d]) <= count /\ k \in 1..Len(files[d]) /\ count \in Nat
  BY FilesFacts DEF IInv, FilesGenuine
<1>3. n \in Nat /\ n <= count
  BY <1>2
<1>4. \A j \in 1..n : IsAnchor(f[j])
  <2>1. \A j \in 1..n : j \in 1..Len(files[d]) /\ j + 1 \in 1..Len(files[d])
    BY <1>2
  <2>. QED
    BY <2>1 DEF IInv, FilesGenuine
<1>5. f = [j \in 1..n |-> f[j]]
  OBVIOUS
<1>. HIDE DEF n, f
<1>6. IsList(f) /\ Len(f) = n
  BY <1>3, <1>5, TupleList
<1>. QED
  BY <1>1, <1>3, <1>4, <1>6, FaultKeepsIInv

\* What is altered is an anchor still, and signed as before or as another.
LEMMA AlterationsGenuine ==
  ASSUME IInv, NEW d \in Directories, NEW a, IsAnchor(a), NEW b \in Alterations(d, a)
  PROVE  IsAnchor(b)
<1>1. \A e \in Edits(d, a) : IsAnchor(e)
  <2>1. \A n \in 0..count : IsAnchor([a EXCEPT !.chain_head_index = n])
                              /\ IsAnchor([a EXCEPT !.day = n])
    BY DEF IsAnchor
  <2>2. \A h : IsAnchor([a EXCEPT !.previous_anchor_hash = h])
    BY DEF IsAnchor
  <2>. QED
    BY <2>1, <2>2 DEF Edits
<1>2. \A e, h : IsAnchor(e) => IsAnchor([e EXCEPT !.anchor_hash = h])
  BY DEF IsAnchor
<1>3. \A n \in 1..count : IsAnchor([a EXCEPT !.anchor_signature = Hash(n)])
  BY DEF IsAnchor
<1>. QED
  BY <1>1, <1>2, <1>3 DEF Alterations

LEMMA AlterKeepsIInv ==
  ASSUME IInv, command = "none", UNCHANGED anchorVars,
         NEW d \in Directories, NEW k \in 1..Len(files[d]), Alter(d, k)
  PROVE  IInv'
<1>1. PICK a \in Alterations(d, files[d][k]) : Fault(d, [files[d] EXCEPT ![k] = a])
  BY DEF Alter
<1>2. /\ Faulting /\ IsList(files[d]) /\ Len(files[d]) <= count
      /\ \A j \in 1..Len(files[d]) : IsAnchor(files[d][j])
  BY DEF IInv, FilesGenuine, Alter
<1>3. IsAnchor(a)
  BY <1>1, <1>2, AlterationsGenuine
<1>4. /\ IsList([files[d] EXCEPT ![k] = a]) /\ Len([files[d] EXCEPT ![k] = a]) = Len(files[d])
      /\ \A j \in 1..Len(files[d]) :
           [files[d] EXCEPT ![k] = a][j] = IF j = k THEN a ELSE files[d][j]
  BY <1>2, ExceptList
<1>5. \A j \in 1..Len(files[d]) : IsAnchor([files[d] EXCEPT ![k] = a][j])
  BY <1>2, <1>3, <1>4
<1>. QED
  BY <1>1, <1>2, <1>4, <1>5, FaultKeepsIInv
-----------------------------------------------------------------------------
(* The index map *)

\* An index of the map has a file in its first and in its last directory, with
\* a hash, and what is agreed on has the hash of the first.
LEMMA IndexFacts ==
  ASSUME FilesGenuine, Loads, pc \in {"check", "done"}
  PROVE  /\ Indices \in SUBSET (1..count)
         /\ \A d \in Directories : loaded[d] \in SUBSET Loadable(d)
         /\ \A i \in Indices :
              /\ FirstSource(i) \in Sources(i) /\ LastSource(i) \in Sources(i)
              /\ Sources(i) \in SUBSET Directories
              /\ \A d \in Sources(i) : \E k \in loaded[d] :
                   Result(d, i) = files[d][k] /\ files[d][k].chain_head_index = i
              /\ Agreed(i).anchor_hash = Result(FirstSource(i), i).anchor_hash
              /\ Agreed(i).anchor_hash # NoHash
<1>1. \A d \in Directories : loaded[d] \in SUBSET Loadable(d)
  BY DEF Loads, Current
<1>2. \A d \in Directories : Loadable(d) \in SUBSET (1..Len(files[d])) /\ Len(files[d]) \in 0..count
  BY FilesFacts DEF Loadable
<1>3. Indices \in SUBSET (1..count)
  <2>1. ASSUME NEW d \in Directories, NEW k \in loaded[d]
        PROVE  files[d][k].chain_head_index \in 0..count
    BY <1>1, <1>2 DEF FilesGenuine, IsAnchor
  <2>2. \A i \in Indices : i \in 0..count /\ i # 0
    BY <2>1 DEF Indices, Kept, NoIndex
  <2>3. count \in Nat
    BY FilesFacts
  <2>. QED
    BY <2>2, <2>3
<1>4. ASSUME NEW i \in Indices
      PROVE  /\ FirstSource(i) \in Sources(i) /\ LastSource(i) \in Sources(i)
             /\ Sources(i) \in SUBSET Directories
  <2>1. PICK d \in Directories : \E k \in loaded[d] : files[d][k].chain_head_index = i
    BY DEF Indices, Kept
  <2>2. Positions(d, i) # {}
    BY <2>1 DEF Positions
  <2>3. d \in Sources(i) /\ Sources(i) \in SUBSET Directories
    BY <2>2 DEF Sources, Loads
  <2>. QED
    BY <2>3 DEF FirstSource, LastSource, Directories
<1>5. ASSUME NEW i \in Indices, NEW d \in Sources(i)
      PROVE  \E k \in loaded[d] : Result(d, i) = files[d][k] /\ files[d][k].chain_head_index = i
  <2>1. d \in Directories /\ Positions(d, i) # {}
    BY <1>4 DEF Sources
  <2>2. Len(files[d]) \in Nat /\ Positions(d, i) \in SUBSET (0..Len(files[d]))
    BY <1>1, <1>2, <2>1 DEF Positions
  <2>3. Max(Positions(d, i)) \in Positions(d, i)
    BY <2>1, <2>2, MinMax
  <2>. QED
    BY <2>3 DEF Positions, Result
<1>6. ASSUME NEW i \in Indices
      PROVE  /\ Agreed(i).anchor_hash = Result(FirstSource(i), i).anchor_hash
             /\ Agreed(i).anchor_hash # NoHash
  <2>1. PICK d \in Directories : d = FirstSource(i) /\ d \in Sources(i)
    BY <1>4
  <2>2. PICK k \in loaded[d] : Result(d, i) = files[d][k]
    BY <1>5, <2>1
  <2>3. k \in Loadable(d)
    BY <1>1, <2>1, <2>2
  <2>4. IsAnchor(files[d][k]) /\ files[d][k].anchor_hash # NoHash
    BY <2>3 DEF Loadable, FilesGenuine
  <2>5. Agreed(i).anchor_hash = files[d][k].anchor_hash
    BY <2>1, <2>2, <2>4 DEF Agreed, IsAnchor
  <2>. QED
    BY <2>1, <2>2, <2>4, <2>5
<1>. QED
  BY <1>1, <1>3, <1>4, <1>5, <1>6

\* Files and what was loaded decide what the loop sees at an index.
LEMMA Unchanged ==
  ASSUME UNCHANGED <<files, loaded>>
  PROVE  /\ Indices' = Indices
         /\ \A i : Agreed(i)' = Agreed(i) /\ (Mismatch(i)' <=> Mismatch(i))
         /\ \A d : Loadable(d)' = Loadable(d)
<1>1. \A i : Sources(i)' = Sources(i)
  BY DEF Sources, Positions
<1>2. \A d, i : Result(d, i)' = Result(d, i)
  BY DEF Result, Positions
<1>3. \A i : Mismatch(i)' <=> Mismatch(i)
  BY <1>1, <1>2 DEF Mismatch
<1>4. \A i : FirstSource(i)' = FirstSource(i) /\ LastSource(i)' = LastSource(i)
  BY <1>1 DEF FirstSource, LastSource
<1>5. \A i : Agreed(i)' = Agreed(i)
  BY <1>2, <1>3, <1>4 DEF Agreed
<1>6. Indices' = Indices /\ \A d : Loadable(d)' = Loadable(d)
  BY DEF Indices, Kept, Loadable
<1>. QED
  BY <1>3, <1>5, <1>6
-----------------------------------------------------------------------------
(* The steps of mirror verify-anchors *)

LEMMA NoSourceKeepsIInv ==
  ASSUME IInv, command = "none", UNCHANGED anchorVars, NoSource
  PROVE  IInv'
<1>. USE DEF IInv
<1>1. /\ pc = "copy" /\ pc' = "done" /\ status' = "ERROR"
      /\ UNCHANGED <<count, files, faults, since, loaded, todo, expected, agreed, broken>>
  BY DEF NoSource, copies
<1>2. FilesGenuine'
  BY <1>1 DEF FilesGenuine, IsAnchor
<1>3. Loads'
  BY <1>1 DEF Loads
<1>4. Looping'
  <2>1. \A d \in Directories : loaded[d] = {}
    BY <1>1 DEF Loads
  <2>2. Indices = {}
    BY <2>1 DEF Indices, Kept
  <2>3. Indices' = {}
    BY <1>1, <2>2, Unchanged
  <2>4. todo' = {} /\ DOMAIN agreed' = {} /\ expected' = NoHash /\ broken' = {}
    BY <1>1 DEF Looping
  <2>. QED
    BY <1>1, <2>3, <2>4 DEF Looping
<1>5. Ended'
  BY <1>1 DEF Ended
<1>6. Judged'
  BY DEF Judged, anchorVars
<1>. QED
  BY <1>2, <1>3, <1>4, <1>5, <1>6

LEMMA LoadKeepsIInv ==
  ASSUME IInv, command = "none", UNCHANGED anchorVars, Load
  PROVE  IInv'
<1>. USE DEF IInv
<1>1. PICK given \in SUBSET DOMAIN files, day \in 1..(count + 1) :
        /\ since' = day
        /\ loaded' = [d \in DOMAIN files |->
                        {k \in 1..Len(files[d]) : d \in given /\ files[d][k].anchor_hash # NoHash}]
  BY DEF Load
<1>2. /\ pc = "copy" /\ pc' = "load"
      /\ UNCHANGED <<count, files, faults, todo, expected, agreed, broken, status>>
  BY DEF Load, copies
<1>3. FilesGenuine'
  BY <1>2 DEF FilesGenuine, IsAnchor
<1>4. Loads'
  <2>1. DOMAIN files = Directories /\ DOMAIN loaded' = Directories
    BY <1>1 DEF FilesGenuine
  <2>2. ASSUME NEW d \in Directories PROVE loaded'[d] \in {{}, Loadable(d)'}
    <3>1. CASE d \in given
      BY <3>1, <2>1, <1>1, <1>2 DEF Loadable
    <3>2. CASE d \notin given
      BY <3>2, <2>1, <1>1
    <3>. QED
      BY <3>1, <3>2
  <2>3. since' \in 1..(count' + 1)
    BY <1>1, <1>2
  <2>. QED
    BY <1>2, <2>1, <2>2, <2>3 DEF Loads
<1>5. Looping'
  <2>1. todo' = {} /\ DOMAIN agreed' = {} /\ expected' = NoHash /\ broken' = {}
    BY <1>2 DEF Looping
  <2>. QED
    BY <1>2, <2>1 DEF Looping
<1>6. Ended'
  BY <1>2 DEF Ended
<1>7. Judged'
  BY DEF Judged, anchorVars
<1>. QED
  BY <1>3, <1>4, <1>5, <1>6, <1>7

LEMMA BuildIndexMapKeepsIInv ==
  ASSUME IInv, command = "none", UNCHANGED anchorVars, BuildIndexMap
  PROVE  IInv'
<1>. USE DEF IInv
<1>1. /\ pc = "load" /\ pc' \in {"check", "done"}
      /\ loaded' = [d \in DOMAIN loaded |-> {k \in loaded[d] : Taken(files[d][k])}]
      /\ UNCHANGED <<count, files, faults, since, expected, agreed, broken>>
      /\ pc' = "done" => todo' = {} /\ status' = "ERROR"
      /\ pc' = "check" => status' = status /\ todo' # {}
  BY DEF BuildIndexMap, copies
<1>2. FilesGenuine'
  BY <1>1 DEF FilesGenuine, IsAnchor
<1>3. \A a : Taken(a)' <=> Taken(a)
  BY <1>1 DEF Taken
<1>4. DOMAIN loaded' = Directories
  BY <1>1 DEF Loads
<1>5. Loads'
  <2>1. ASSUME NEW d \in Directories PROVE loaded'[d] \in {{}, Current(d)'}
    <3>1. CASE loaded[d] = {}
      BY <3>1, <1>1 DEF Loads
    <3>2. CASE loaded[d] = Loadable(d)
      <4>1. loaded'[d] = {k \in Loadable(d) : Taken(files[d][k])}
        BY <3>2, <1>1 DEF Loads
      <4>2. Loadable(d)' = Loadable(d)
        BY <1>1 DEF Loadable
      <4>3. Current(d)' = {k \in Loadable(d) : Taken(files[d][k])}
        BY <4>2, <1>1, <1>3 DEF Current
      <4>. QED
        BY <4>1, <4>3
    <3>. QED
      BY <3>1, <3>2, <1>1 DEF Loads
  <2>. QED
    BY <1>1, <1>4, <2>1 DEF Loads
<1>6. Looping'
  <2>1. DOMAIN agreed' = {} /\ expected' = NoHash /\ broken' = {}
    BY <1>1 DEF Looping
  <2>2. todo' = Indices'
    <3>1. todo' = (UNION {{files[d][k].chain_head_index : k \in loaded'[d]} : d \in DOMAIN loaded})
                    \ {NoIndex}
      BY DEF BuildIndexMap
    <3>2. Indices' = (UNION {{files[d][k].chain_head_index : k \in loaded'[d]} : d \in Directories})
                       \ {NoIndex}
      BY <1>1 DEF Indices, Kept
    <3>. QED
      BY <3>1, <3>2 DEF Loads
  <2>. QED
    BY <1>1, <2>1, <2>2 DEF Looping
<1>7. Ended'
  BY <1>1 DEF Ended
<1>8. Judged'
  BY DEF Judged, anchorVars
<1>. QED
  BY <1>2, <1>5, <1>6, <1>7, <1>8

\* One turn of the loop of verify_anchor_chain: it looks at the least index
\* left, and expected is the hash of the one it looked at before.
LEMMA CheckIndexKeepsIInv ==
  ASSUME IInv, command = "none", UNCHANGED anchorVars, CheckIndex
  PROVE  IInv'
<1>. USE DEF IInv
<1>. PICK idx, a, seen : idx = Min(todo) /\ a = Agreed(idx) /\ seen = DOMAIN agreed
  OBVIOUS
<1>1. /\ pc = "check" /\ pc' = "check" /\ todo # {}
      /\ UNCHANGED <<count, files, faults, since, loaded, status>>
      /\ agreed' = [i \in seen \cup {idx} |-> IF i = idx THEN a ELSE agreed[i]]
      /\ broken' = IF Mismatch(idx) \/ (expected # NoHash /\ a.previous_anchor_hash # expected)
                   THEN broken \cup {idx} ELSE broken
      /\ expected' = a.anchor_hash /\ todo' = todo \ {idx}
  BY DEF CheckIndex, copies
<1>2. count \in Nat /\ Indices \in SUBSET (1..count) /\ todo \cup seen = Indices
  <2>1. todo \cup seen = Indices
    BY <1>1 DEF Looping
  <2>. QED
    BY <1>1, <2>1, FilesFacts, IndexFacts
<1>3. idx \in todo /\ \A y \in todo : idx <= y
  <2>1. \A y \in todo : y \in 1..count
    BY <1>2
  <2>2. todo \in SUBSET (0..count) /\ todo # {}
    BY <1>1, <1>2, <2>1
  <2>. QED
    BY <1>2, <2>2, MinMax
<1>4. \A i \in seen, j \in todo : i < j
  BY DEF Looping
<1>5. idx \in 1..count /\ idx \notin seen /\ \A i \in seen : i < idx /\ i \in 1..count
  <2>1. \A i \in todo \cup seen : i \in 1..count
    BY <1>2
  <2>2. \A i \in seen : i < idx
    BY <1>3, <1>4
  <2>. QED
    BY <1>2, <1>3, <2>1, <2>2
<1>6. DOMAIN agreed' = seen \cup {idx} /\ agreed'[idx] = a
      /\ \A i \in seen : agreed'[i] = agreed[i]
  BY <1>1, <1>5
<1>7. a.anchor_hash # NoHash /\ \A i \in seen : agreed[i].anchor_hash # NoHash
  <2>1. \A i \in Indices : Agreed(i).anchor_hash # NoHash
    BY <1>1, IndexFacts
  <2>. QED
    BY <2>1, <1>2, <1>3 DEF Looping
<1>8. FilesGenuine'
  BY <1>1 DEF FilesGenuine, IsAnchor
<1>9. Loads'
  <2>1. \A d : Current(d)' = Current(d)
    BY <1>1 DEF Current, Loadable, Taken
  <2>. QED
    BY <1>1, <2>1 DEF Loads
<1>10. /\ Indices' = Indices
       /\ \A i : Agreed(i)' = Agreed(i) /\ (Mismatch(i)' <=> Mismatch(i))
  BY <1>1, Unchanged
<1>11. \A j \in seen \cup {idx}, i \in seen : Precedes(j, i)' <=> j # idx /\ Precedes(j, i)
  BY <1>5, <1>6 DEF Precedes
<1>12. \A i \in seen : Faulty(i)' <=> Faulty(i)
  <2>1. ASSUME NEW i \in seen PROVE Faulty(i)' <=> Faulty(i)
    <3>1. Faulty(i)' <=> \/ Mismatch(i)
                         \/ \E j \in seen \cup {idx} : /\ Precedes(j, i)'
                              /\ agreed'[i].previous_anchor_hash # agreed'[j].anchor_hash
      BY <1>6, <1>10 DEF Faulty
    <3>2. Faulty(i) <=> \/ Mismatch(i)
                        \/ \E j \in seen : /\ Precedes(j, i)
                              /\ agreed[i].previous_anchor_hash # agreed[j].anchor_hash
      BY DEF Faulty
    <3>. QED
      BY <3>1, <3>2, <1>5, <1>6, <1>11
  <2>. QED
    BY <2>1
<1>13. Faulty(idx)' <=> Mismatch(idx) \/ (expected # NoHash /\ a.previous_anchor_hash # expected)
  <2>1. Faulty(idx)' <=> \/ Mismatch(idx)
                         \/ \E j \in seen \cup {idx} : /\ Precedes(j, idx)'
                              /\ a.previous_anchor_hash # agreed'[j].anchor_hash
    BY <1>6, <1>10 DEF Faulty
  <2>2. CASE seen = {}
    <3>1. expected = NoHash
      BY <2>2 DEF Looping
    <3>2. ~Precedes(idx, idx)'
      BY <1>5 DEF Precedes
    <3>. QED
      BY <2>1, <2>2, <3>1, <3>2
  <2>3. CASE seen # {}
    <3>. DEFINE m == Max(seen)
    <3>1. m \in seen /\ \A y \in seen : m >= y
      <4>1. seen \in SUBSET (0..count)
        BY <1>2, <1>5
      <4>. QED
        BY <2>3, <4>1, <1>2, MinMax
    <3>2. expected = agreed[m].anchor_hash
      BY <2>3 DEF Looping
    <3>. HIDE DEF m
    <3>3. \A j \in seen \cup {idx} : Precedes(j, idx)' <=> j = m
      <4>1. \A j \in seen \cup {idx} :
              Precedes(j, idx)' <=> j < idx /\ \A h \in seen \cup {idx} : h <= j \/ h >= idx
        BY <1>6 DEF Precedes
      <4>2. ASSUME NEW j \in seen, \A h \in seen \cup {idx} : h <= j \/ h >= idx PROVE j = m
        BY <4>2, <3>1, <1>5
      <4>3. m < idx /\ \A h \in seen \cup {idx} : h <= m \/ h >= idx
        BY <3>1, <1>5
      <4>. QED
        BY <4>1, <4>2, <4>3, <1>5
    <3>4. agreed'[m] = agreed[m] /\ expected # NoHash
      BY <3>1, <3>2, <1>6, <1>7
    <3>. QED
      BY <2>1, <3>1, <3>2, <3>3, <3>4
  <2>. QED
    BY <2>2, <2>3
<1>14. broken' = {i \in seen \cup {idx} : Faulty(i)'}
  <2>1. broken = {i \in seen : Faulty(i)}
    BY DEF Looping
  <2>. QED
    BY <2>1, <1>1, <1>5, <1>12, <1>13
<1>15. expected' = agreed'[Max(DOMAIN agreed')].anchor_hash
  <2>1. DOMAIN agreed' \in SUBSET (0..count) /\ DOMAIN agreed' # {}
    BY <1>2, <1>5, <1>6
  <2>2. Max(DOMAIN agreed') \in DOMAIN agreed' /\ \A y \in DOMAIN agreed' : Max(DOMAIN agreed') >= y
    BY <2>1, <1>2, MinMax
  <2>3. Max(DOMAIN agreed') = idx
    BY <2>2, <1>5, <1>6
  <2>. QED
    BY <2>3, <1>1, <1>6
<1>16. Looping'
  <2>1. todo' \cup DOMAIN agreed' = Indices'
    BY <1>1, <1>2, <1>3, <1>6, <1>10
  <2>2. \A i \in DOMAIN agreed', j \in todo' : i < j
    <3>1. \A j \in todo' : j \in todo /\ j # idx /\ j \in 1..count
      BY <1>1, <1>2
    <3>. QED
      BY <3>1, <1>3, <1>4, <1>5, <1>6
  <2>3. \A i \in DOMAIN agreed' : agreed'[i] = Agreed(i)'
    BY <1>6, <1>10 DEF Looping
  <2>4. broken' = {i \in DOMAIN agreed' : Faulty(i)'}
    BY <1>6, <1>14
  <2>5. DOMAIN agreed' # {}
    BY <1>6
  <2>. QED
    BY <1>1, <2>1, <2>2, <2>3, <2>4, <2>5, <1>15 DEF Looping
<1>17. Ended'
  BY <1>1, <1>6 DEF Ended
<1>18. Judged'
  BY DEF Judged, anchorVars
<1>. QED
  BY <1>8, <1>9, <1>16, <1>17, <1>18

LEMMA FinishKeepsIInv ==
  ASSUME IInv, command = "none", UNCHANGED anchorVars, Finish
  PROVE  IInv'
<1>. USE DEF IInv
<1>1. /\ pc = "check" /\ pc' = "done" /\ todo = {}
      /\ status' = IF broken = {} THEN "PASS" ELSE "FAIL"
      /\ UNCHANGED <<count, files, faults, since, loaded, todo, expected, agreed, broken>>
  BY DEF Finish, copies
<1>2. FilesGenuine'
  BY <1>1 DEF FilesGenuine, IsAnchor
<1>3. Loads'
  <2>1. \A d : Current(d)' = Current(d)
    BY <1>1 DEF Current, Loadable, Taken
  <2>. QED
    BY <1>1, <2>1 DEF Loads
<1>4. Looping'
  <2>1. /\ Indices' = Indices
        /\ \A i : Agreed(i)' = Agreed(i) /\ (Faulty(i)' <=> Faulty(i))
    BY <1>1, Unchanged DEF Faulty, Precedes
  <2>. QED
    BY <1>1, <2>1 DEF Looping
<1>5. Ended'
  BY <1>1 DEF Ended
<1>6. Judged'
  BY DEF Judged, anchorVars
<1>. QED
  BY <1>2, <1>3, <1>4, <1>5, <1>6
-----------------------------------------------------------------------------
(* The steps of verify-external-anchor and -chain *)

\* Sorting loses no anchor, invents none, and puts none before a smaller one.
LEMMA SortedFacts ==
  ASSUME FilesGenuine, NEW d \in Directories, NEW s \in Sorted(files[d])
  PROVE  /\ IsList(s) /\ Len(s) = Len(files[d]) /\ InOrder(s)
         /\ \A k \in 1..Len(s) : IsAnchor(s[k])
         /\ \E p \in Bijection(1..Len(s), 1..Len(s)) :
              \A r \in 1..Len(s) : s[r] = files[d][p[r]]
<1>. DEFINE f == files[d]
            n == Len(f)
            before(j, k) == \/ f[j].chain_head_index < f[k].chain_head_index
                            \/ f[j].chain_head_index = f[k].chain_head_index /\ j < k
<1>1. n \in Nat /\ \A k \in 1..n : IsAnchor(f[k])
  BY FilesFacts DEF FilesGenuine
<1>2. PICK p \in Bijection(1..n, 1..n) :
        /\ \A r \in 2..n : before(p[r - 1], p[r])
        /\ s = [r \in 1..n |-> f[p[r]]]
  BY DEF Sorted
<1>3. \A r \in 1..n : p[r] \in 1..n /\ s[r] = f[p[r]]
  BY <1>2 DEF Bijection, Injection
<1>4. IsList(s) /\ Len(s) = n
  <2>1. s = [r \in 1..n |-> s[r]]
    BY <1>2
  <2>. HIDE DEF n
  <2>. QED
    BY <1>1, <2>1, TupleList
<1>5. \A r \in 1..n : IsAnchor(s[r])
  BY <1>1, <1>3
<1>6. ASSUME NEW r \in 2..n PROVE s[r - 1].chain_head_index <= s[r].chain_head_index
  <2>1. r - 1 \in 1..n /\ r \in 1..n
    BY <1>1
  <2>2. s[r - 1] = f[p[r - 1]] /\ s[r] = f[p[r]] /\ before(p[r - 1], p[r])
    BY <1>2, <1>3, <2>1
  <2>3. s[r - 1].chain_head_index \in 0..count /\ s[r].chain_head_index \in 0..count
    BY <1>5, <2>1 DEF IsAnchor
  <2>4. \/ s[r - 1].chain_head_index < s[r].chain_head_index
        \/ s[r - 1].chain_head_index = s[r].chain_head_index
    BY <2>2
  <2>5. count \in Nat
    BY FilesFacts
  <2>. QED
    BY <2>3, <2>4, <2>5
<1>. QED
  BY <1>2, <1>3, <1>4, <1>5, <1>6 DEF InOrder

\* The judgements depend on the anchors and on what was published.
LEMMA SameJudgements ==
  ASSUME count' = count
  PROVE  /\ \A a : IsAnchor(a)' <=> IsAnchor(a)
         /\ \A a, b : AnchorValid(a, b)' <=> AnchorValid(a, b)
         /\ \A s, b : ChainValid(s, b)' <=> ChainValid(s, b)
<1>1. \A a : IsAnchor(a)' <=> IsAnchor(a)
  BY DEF IsAnchor
<1>2. \A a, b : AnchorValid(a, b)' <=> AnchorValid(a, b)
  BY DEF AnchorValid, SchemaValid, HashValid, HashOf, SignatureValid
<1>3. \A s, b : ChainValid(s, b)' <=> ChainValid(s, b)
  BY <1>2 DEF ChainValid, Linked
<1>. QED
  BY <1>1, <1>2, <1>3

\* Whatever a command read and judged, the rest stays as it was.
LEMMA JudgeKeepsIInv ==
  ASSUME IInv, UNCHANGED vars, NEW name \in {"file", "chain"}, NEW s, IsList(s), Len(s) <= count,
         \A k \in 1..Len(s) : IsAnchor(s[k]), NEW valid, Judge(name, s, valid),
         name = "file" => Len(s) = 1 /\ \A b \in BOOLEAN : valid[b] <=> AnchorValid(s[1], b),
         name = "chain" => InOrder(s) /\ \A b \in BOOLEAN : valid[b] <=> ChainValid(s, b)
  PROVE  IInv'
<1>. USE DEF IInv
<1>1. FilesGenuine' /\ Loads'
  BY DEF vars, FilesGenuine, IsAnchor, Loads, Current, Loadable, Taken
<1>2. Looping'
  <2>1. /\ Indices' = Indices
        /\ \A i : Agreed(i)' = Agreed(i) /\ (Faulty(i)' <=> Faulty(i))
    BY Unchanged DEF Faulty, Precedes, vars
  <2>. QED
    BY <2>1 DEF Looping, vars
<1>3. Ended'
  BY DEF Ended, vars
<1>4. Judged'
  <2>1. /\ command' = name /\ read' = s /\ checked' \in BOOLEAN /\ count' = count
        /\ exit' = "PASS" => valid[checked']
        /\ exit' = "FAIL" /\ key' # "unusable" => ~valid[checked']
    BY DEF Judge, vars
  <2>2. CASE name = "file"
    BY <2>1, <2>2, SameJudgements DEF Judged
  <2>3. CASE name = "chain"
    BY <2>1, <2>3, SameJudgements DEF Judged, InOrder
  <2>. QED
    BY <2>2, <2>3
<1>. QED
  BY <1>1, <1>2, <1>3, <1>4

LEMMA VerifyFileKeepsIInv ==
  ASSUME IInv, UNCHANGED vars, NEW d \in Directories, NEW k \in 1..Len(files[d]), VerifyFile(d, k)
  PROVE  IInv'
<1>. DEFINE s == <<files[d][k]>>
            valid == [signatures \in BOOLEAN |-> AnchorValid(files[d][k], signatures)]
<1>1. Judge("file", s, valid)
  BY DEF VerifyFile
<1>2. IsAnchor(files[d][k]) /\ count \in Nat /\ 1 \in 1..count
  BY FilesFacts DEF IInv, FilesGenuine
<1>3. IsList(s) /\ Len(s) = 1 /\ s[1] = files[d][k]
  <2>1. s = [i \in 1..1 |-> s[i]] /\ 1 \in Nat
    OBVIOUS
  <2>. QED
    BY <2>1, TupleList
<1>4. \A b \in BOOLEAN : valid[b] <=> AnchorValid(s[1], b)
  OBVIOUS
<1>. HIDE DEF s, valid
<1>5. Len(s) <= count /\ \A j \in 1..Len(s) : IsAnchor(s[j])
  BY <1>2, <1>3
<1>. QED
  BY <1>1, <1>3, <1>4, <1>5, JudgeKeepsIInv

LEMMA VerifyChainKeepsIInv ==
  ASSUME IInv, UNCHANGED vars, NEW d \in Directories, VerifyChain(d)
  PROVE  IInv'
<1>1. PICK s \in Sorted(files[d]) :
        Judge("chain", s, [signatures \in BOOLEAN |-> ChainValid(s, signatures)])
  BY DEF VerifyChain
<1>. DEFINE valid == [signatures \in BOOLEAN |-> ChainValid(s, signatures)]
<1>2. \A b \in BOOLEAN : valid[b] <=> ChainValid(s, b)
  OBVIOUS
<1>3. Judge("chain", s, valid)
  BY <1>1
<1>. HIDE DEF valid
<1>4. /\ IsList(s) /\ Len(s) = Len(files[d]) /\ InOrder(s)
      /\ \A k \in 1..Len(s) : IsAnchor(s[k])
  BY SortedFacts DEF IInv
<1>5. Len(s) <= count
  BY <1>4 DEF IInv, FilesGenuine
<1>. QED
  BY <1>2, <1>3, <1>4, <1>5, JudgeKeepsIInv

\* Every step keeps the invariant.
LEMMA NextKeepsIInv == IInv /\ [AnchorNext]_<<vars, anchorVars>> => IInv'
<1>. SUFFICES ASSUME IInv, [AnchorNext]_<<vars, anchorVars>> PROVE IInv'
  OBVIOUS
<1>1. CASE command = "none" /\ Next /\ UNCHANGED anchorVars
  <2>1. DOMAIN files = Directories
    BY DEF IInv, FilesGenuine
  <2>2. CASE \E d \in Directories : \E k \in 1..Len(files[d]) : Lose(d, k) \/ Alter(d, k)
    BY <1>1, <2>2, LoseKeepsIInv, AlterKeepsIInv
  <2>3. CASE NoSource
    BY <1>1, <2>3, NoSourceKeepsIInv
  <2>4. CASE Load
    BY <1>1, <2>4, LoadKeepsIInv
  <2>5. CASE BuildIndexMap
    BY <1>1, <2>5, BuildIndexMapKeepsIInv
  <2>6. CASE CheckIndex
    BY <1>1, <2>6, CheckIndexKeepsIInv
  <2>7. CASE Finish
    BY <1>1, <2>7, FinishKeepsIInv
  <2>. QED
    BY <1>1, <2>1, <2>2, <2>3, <2>4, <2>5, <2>6, <2>7 DEF Next
<1>2. CASE /\ UNCHANGED vars
           /\ \E d \in DOMAIN files : VerifyChain(d) \/ \E k \in 1..Len(files[d]) : VerifyFile(d, k)
  <2>1. DOMAIN files = Directories
    BY DEF IInv, FilesGenuine
  <2>. QED
    BY <1>2, <2>1, VerifyChainKeepsIInv, VerifyFileKeepsIInv
<1>3. CASE UNCHANGED <<vars, anchorVars>>
  <2>. USE DEF IInv
  <2>1. UNCHANGED vars
    BY <1>3
  <2>2. FilesGenuine' /\ Loads'
    BY <2>1 DEF vars, FilesGenuine, IsAnchor, Loads, Current, Loadable, Taken
  <2>3. Looping'
    <3>1. /\ Indices' = Indices
          /\ \A i : Agreed(i)' = Agreed(i) /\ (Faulty(i)' <=> Faulty(i))
      BY <2>1, Unchanged DEF Faulty, Precedes, vars
    <3>. QED
      BY <2>1, <3>1 DEF Looping, vars
  <2>4. Ended'
    BY <2>1 DEF Ended, vars
  <2>5. Judged'
    <3>1. UNCHANGED <<count, command, read, key, checked, exit>>
      BY <1>3 DEF vars, anchorVars
    <3>2. InOrder(read)' <=> InOrder(read)
      BY <3>1 DEF InOrder
    <3>. QED
      BY <3>1, <3>2, SameJudgements DEF Judged
  <2>. QED
    BY <2>2, <2>3, <2>4, <2>5
<1>. QED
  BY <1>1, <1>2, <1>3 DEF AnchorNext

\* IInv is an invariant of the composed system.
THEOREM Invariance == AnchorSpec => []IInv
  BY InitIInv, NextKeepsIInv, PTL DEF AnchorSpec
-----------------------------------------------------------------------------
(* What the invariant says of the verdicts *)

\* A valid chain whose last hash is one of the platform's, or whose signatures
\* were verified, is the history from the first anchor on: the last link fixes
\* the one before it, and the first link is to GENESIS.
LEMMA ValidChain ==
  ASSUME count \in Nat, NEW s, IsList(s), \A k \in 1..Len(s) : IsAnchor(s[k]),
         NEW b \in BOOLEAN, ChainValid(s, b),
         b \/ \E n \in 1..count : s[Len(s)].anchor_hash = Hash(n)
  PROVE  \A k \in 1..Len(s) : /\ k \in 1..count /\ s[k].anchor_hash = Hash(k)
                              /\ Published(s[k]) /\ s[k].chain_head_index = k /\ s[k].day = k
<1>. DEFINE L == Len(s)
            Known(k) == \E n \in Nat : s[k].anchor_hash = Hash(n)
<1>1. /\ L \in Nat /\ \A k \in 1..L : AnchorValid(s[k], b) /\ IsAnchor(s[k])
      /\ \A k \in 1..L : s[k].previous_anchor_hash = IF k = 1 THEN Hash(0) ELSE s[k - 1].anchor_hash
  BY ListFacts DEF ChainValid, Linked
<1>. HIDE DEF L
<1>2. ASSUME NEW k \in 1..L, NEW n \in Nat, s[k].anchor_hash = Hash(n)
      PROVE  /\ n \in 1..count /\ Published(s[k])
             /\ s[k].chain_head_index = n /\ s[k].day = n /\ s[k].previous_anchor_hash = Hash(n - 1)
  BY <1>1, <1>2, ValidIsPublished
<1>3. \A k \in 1..L : Known(k)
  <2>1. CASE b
    <3>1. \A k \in 1..L : SignatureValid(s[k]) /\ IsAnchor(s[k])
      BY <1>1, <2>1 DEF AnchorValid
    <3>2. \A k \in 1..L : \E n \in 1..count : s[k].anchor_hash = Hash(n)
      BY <3>1 DEF SignatureValid, IsAnchor
    <3>. QED
      BY <3>2
  <2>2. ASSUME NEW n \in 1..count, s[L].anchor_hash = Hash(n), NEW q \in 1..L, ~Known(q)
        PROVE  FALSE
    <3>. DEFINE S == {j \in 0..(L - 1) : ~Known(L - j)}
    <3>1. S \in SUBSET Nat
      OBVIOUS
    <3>2. L - q \in S
      <4>1. L - q \in 0..(L - 1) /\ L - (L - q) = q
        BY <1>1
      <4>. QED
        BY <4>1, <2>2
    <3>3. PICK j \in S : \A y \in S : j <= y
      <4>. HIDE DEF S
      <4>. QED
        BY <3>1, <3>2, LeastOf
    <3>4. j \in 0..(L - 1) /\ ~Known(L - j)
      BY <3>3
    <3>5. j # 0
      BY <3>4, <2>2, <1>1
    <3>6. j - 1 \in 0..(L - 1) /\ ~(j <= j - 1)
      BY <3>4, <3>5, <1>1
    <3>7. Known(L - (j - 1))
      BY <3>3, <3>6
    <3>8. L - (j - 1) \in 2..L /\ L - (j - 1) - 1 = L - j
      BY <3>4, <3>5, <1>1
    <3>. DEFINE k == L - (j - 1)
    <3>9. k \in 1..L /\ k # 1 /\ k - 1 = L - j /\ Known(k)
      BY <3>7, <3>8
    <3>. HIDE DEF k, S
    <3>10. PICK m \in Nat : s[k].anchor_hash = Hash(m)
      BY <3>9
    <3>11. m \in 1..count /\ s[k].previous_anchor_hash = Hash(m - 1)
      BY <1>2, <3>9, <3>10
    <3>12. s[k].previous_anchor_hash = s[L - j].anchor_hash /\ m - 1 \in Nat
      BY <1>1, <3>9, <3>11
    <3>. QED
      BY <3>4, <3>11, <3>12
  <2>. QED
    BY <2>1, <2>2 DEF L
<1>4. ASSUME NEW q \in 1..L, s[q].anchor_hash # Hash(q) PROVE FALSE
  <2>. DEFINE S == {k \in 1..L : s[k].anchor_hash # Hash(k)}
  <2>1. S \in SUBSET Nat /\ q \in S
    BY <1>4
  <2>2. PICK k \in S : \A y \in S : k <= y
    <3>. HIDE DEF S
    <3>. QED
      BY <2>1, LeastOf
  <2>3. k \in 1..L /\ s[k].anchor_hash # Hash(k)
    BY <2>2
  <2>4. PICK n \in Nat : s[k].anchor_hash = Hash(n)
    BY <1>3, <2>3
  <2>5. n \in 1..count /\ s[k].previous_anchor_hash = Hash(n - 1)
    BY <1>2, <2>3, <2>4
  <2>6. n - 1 = k - 1
    <3>1. CASE k = 1
      <4>1. Hash(n - 1) = Hash(0) /\ n - 1 \in Nat /\ 0 \in Nat
        BY <1>1, <2>3, <2>5, <3>1
      <4>2. n - 1 = 0
        BY <4>1, HashedAnchor
      <4>. QED
        BY <4>2, <3>1
    <3>2. CASE k # 1
      <4>1. k - 1 \in 1..L /\ ~(k <= k - 1)
        BY <1>1, <2>3, <3>2
      <4>2. s[k - 1].anchor_hash = Hash(k - 1)
        BY <2>2, <4>1
      <4>3. Hash(n - 1) = Hash(k - 1) /\ n - 1 \in Nat /\ k - 1 \in Nat
        BY <1>1, <2>3, <2>5, <3>2, <4>1, <4>2
      <4>. QED
        BY <4>3, HashedAnchor
    <3>. QED
      BY <3>1, <3>2
  <2>. QED
    BY <2>3, <2>4, <2>5, <2>6
<1>5. \A k \in 1..L : s[k].anchor_hash = Hash(k) /\ k \in Nat
  BY <1>1, <1>4
<1>. QED
  BY <1>2, <1>5 DEF L

\* PassedIsPublished for one state.
LEMMA PassedSound == IInv => PassedIsPublished
<1>. SUFFICES ASSUME IInv, exit = "PASS",
                     checked \/ \E n \in 1..count : read[Len(read)].anchor_hash = Hash(n)
              PROVE  /\ \A k \in 1..Len(read) : Published(read[k])
                     /\ command = "chain" => \A k \in 1..Len(read) : read[k].chain_head_index = k
  BY DEF PassedIsPublished
<1>1. /\ command \in {"file", "chain"} /\ checked \in BOOLEAN /\ IsList(read)
      /\ \A k \in 1..Len(read) : IsAnchor(read[k])
      /\ command = "file" => Len(read) = 1 /\ AnchorValid(read[1], checked)
      /\ command = "chain" => ChainValid(read, checked)
  BY DEF IInv, Judged
<1>2. count \in Nat
  BY FilesFacts DEF IInv
<1>3. CASE command = "file"
  <2>1. Len(read) = 1 /\ AnchorValid(read[1], checked) /\ IsAnchor(read[1])
    BY <1>1, <1>3
  <2>2. PICK n \in 1..count : read[1].anchor_hash = Hash(n)
    BY <2>1 DEF AnchorValid, SignatureValid, IsAnchor
  <2>3. Published(read[1])
    BY <1>1, <1>2, <2>1, <2>2, ValidIsPublished
  <2>. QED
    BY <1>3, <2>1, <2>3
<1>4. CASE command = "chain"
  BY <1>1, <1>2, <1>4, ValidChain
<1>. QED
  BY <1>1, <1>3, <1>4

\* TypeOK for one state.
LEMMA Typed == IInv => TypeOK
<1>. SUFFICES ASSUME IInv PROVE TypeOK
  OBVIOUS
<1>. USE DEF IInv
<1>1. count \in 1..MaxAnchors /\ MaxAnchors \in Nat
  BY FilesFacts DEF FilesGenuine
<1>2. ASSUME NEW d \in Directories
      PROVE  /\ loaded[d] \in SUBSET (1..Len(files[d]))
             /\ \A k \in 1..Len(files[d]) : /\ files[d][k].chain_head_index \in 0..MaxAnchors
                                            /\ files[d][k].day \in 0..MaxAnchors
  <2>1. loaded[d] \in SUBSET (1..Len(files[d]))
    BY DEF Loads, Current, Loadable
  <2>2. \A k \in 1..Len(files[d]) : /\ files[d][k].chain_head_index \in 0..count
                                    /\ files[d][k].day \in 0..count
    BY DEF FilesGenuine, IsAnchor
  <2>. QED
    BY <1>1, <2>1, <2>2
<1>3. todo \cap DOMAIN agreed = {}
  <2>1. \A i \in todo \cap DOMAIN agreed : i < i /\ i \in 1..count
    <3>1. pc \in {"check", "done"} => todo \cup DOMAIN agreed \in SUBSET (1..count)
      BY IndexFacts DEF Looping
    <3>. QED
      BY <3>1 DEF Looping, Loads
  <2>. QED
    BY <1>1, <2>1
<1>4. broken \in SUBSET DOMAIN agreed
  BY DEF Looping
<1>. QED
  BY <1>1, <1>2, <1>3, <1>4 DEF TypeOK, FilesGenuine, Loads, Looping, Ended

\* The increasing lists of 1..n that leave out none are counted off: each entry
\* is its place.
LEMMA CountedOff ==
  ASSUME NEW n \in Nat, NEW v \in [1..n -> 1..n],
         \A m \in 1..n : \E k \in 1..n : v[k] = m,
         \A r \in 2..n : v[r - 1] <= v[r]
  PROVE  \A k \in 1..n : v[k] = k
<1>1. v \in Injection(1..n, 1..n)
  <2>1. IsFiniteSet(1..n)
    BY FS_Interval
  <2>2. v \in Surjection(1..n, 1..n)
    BY DEF Surjection
  <2>. QED
    BY <2>1, <2>2, FS_SurjSameCardinalityImpliesInj
<1>2. \A r \in 2..n : v[r - 1] < v[r]
  <2>. SUFFICES ASSUME NEW r \in 2..n PROVE v[r - 1] < v[r]
    OBVIOUS
  <2>1. r - 1 \in 1..n /\ r \in 1..n /\ r - 1 # r
    OBVIOUS
  <2>2. v[r - 1] # v[r] /\ v[r - 1] \in 1..n /\ v[r] \in 1..n
    BY <1>1, <2>1 DEF Injection, IsInjective
  <2>. QED
    BY <2>2
<1>3. ASSUME NEW q \in 1..n, v[q] # q PROVE FALSE
  <2>1. ASSUME NEW k \in 1..n, v[k] < k PROVE FALSE
    <3>. DEFINE S == {j \in 1..n : v[j] < j}
    <3>1. S \in SUBSET Nat /\ k \in S
      BY <2>1
    <3>2. PICK j \in S : \A y \in S : j <= y
      <4>. HIDE DEF S
      <4>. QED
        BY <3>1, LeastOf
    <3>3. j \in 2..n /\ v[j] < j
      BY <3>2
    <3>4. j - 1 \in 1..n /\ ~(v[j - 1] < j - 1)
      BY <3>2, <3>3
    <3>. QED
      BY <1>2, <3>3, <3>4
  <2>2. v[q] > q
    BY <1>3, <2>1
  <2>3. PICK k \in 1..n : v[k] = q
    OBVIOUS
  <2>4. ~(v[k] < k)
    BY <2>1
  <2>. DEFINE S == {j \in 0..(n - q) : ~(v[q + j] > q + j)}
  <2>5. v[n] \in 1..n /\ n \in 1..n /\ n - q \in 0..(n - q) /\ q + (n - q) = n
    OBVIOUS
  <2>6. n - q \in S /\ S \in SUBSET Nat
    <3>1. v[q + (n - q)] = v[n] /\ ~(v[n] > n)
      BY <2>5
    <3>2. ~(v[q + (n - q)] > q + (n - q))
      BY <2>5, <3>1
    <3>. QED
      BY <2>5, <3>2
  <2>7. PICK j \in S : \A y \in S : j <= y
    <3>. HIDE DEF S
    <3>. QED
      BY <2>6, LeastOf
  <2>8. j \in 1..(n - q) /\ ~(v[q + j] > q + j)
    BY <2>2, <2>7
  <2>9. j - 1 \in 0..(n - q) /\ ~(j <= j - 1)
    BY <2>8
  <2>10. v[q + (j - 1)] > q + (j - 1)
    BY <2>7, <2>9
  <2>11. q + j \in 2..n /\ (q + j) - 1 = q + (j - 1)
    BY <2>8
  <2>12. v[(q + j) - 1] < v[q + j]
    BY <1>2, <2>11
  <2>13. v[q + j] \in 1..n /\ v[q + (j - 1)] \in 1..n
    BY <2>11
  <2>. QED
    BY <2>8, <2>10, <2>11, <2>12, <2>13
<1>. QED
  BY <1>3

\* FaithfulDirectoryPasses for one state.
LEMMA FaithfulSound == IInv => FaithfulDirectoryPasses
<1>. SUFFICES ASSUME IInv, exit = "FAIL", key # "unusable"
              PROVE  CASE command = "file"  -> \A n \in 1..count : read[1] # Anchor(n)
                       [] command = "chain" -> read = <<>> \/ Range(read) # {Anchor(n) : n \in 1..Len(read)}
  BY DEF FaithfulDirectoryPasses
<1>1. /\ command \in {"file", "chain"} /\ checked \in BOOLEAN /\ IsList(read) /\ Len(read) <= count
      /\ command = "file" => ~AnchorValid(read[1], checked)
      /\ command = "chain" => InOrder(read) /\ ~ChainValid(read, checked)
  BY DEF IInv, Judged
<1>2. count \in Nat
  BY FilesFacts DEF IInv
<1>3. CASE command = "file"
  <2>1. \A n \in 1..count : read[1] # Anchor(n)
    BY <1>1, <1>2, <1>3, AnchorsValid
  <2>. QED
    BY <1>3, <2>1
<1>4. ASSUME command = "chain", read # <<>>, Range(read) = {Anchor(n) : n \in 1..Len(read)}
      PROVE  FALSE
  <2>. DEFINE L == Len(read)
              v == [k \in 1..L |-> read[k].chain_head_index]
  <2>1. L \in Nat /\ DOMAIN read = 1..L /\ L <= count
    BY <1>1, ListFacts
  <2>2. \A k \in 1..L : \E n \in 1..L : read[k] = Anchor(n)
    BY <1>4, <2>1 DEF Range
  <2>3. \A n \in 1..L : \E k \in 1..L : read[k] = Anchor(n)
    BY <1>4, <2>1 DEF Range
  <2>4. \A n : /\ Anchor(n).chain_head_index = n /\ Anchor(n).anchor_hash = Hash(n)
               /\ Anchor(n).previous_anchor_hash = Hash(n - 1)
    BY DEF Anchor
  <2>5. v \in [1..L -> 1..L] /\ \A m \in 1..L : \E k \in 1..L : v[k] = m
    <3>1. \A k \in 1..L : read[k].chain_head_index \in 1..L
      BY <2>2, <2>4
    <3>2. ASSUME NEW m \in 1..L PROVE \E k \in 1..L : read[k].chain_head_index = m
      <4>1. PICK k \in 1..L : read[k] = Anchor(m)
        BY <2>3
      <4>. QED
        BY <2>4, <4>1
    <3>. QED
      BY <3>1, <3>2
  <2>6. \A r \in 2..L : v[r - 1] <= v[r]
    BY <1>1, <1>4, <2>1 DEF InOrder
  <2>7. \A k \in 1..L : v[k] = k
    <3>. HIDE DEF v, L
    <3>. QED
      BY <2>1, <2>5, <2>6, CountedOff
  <2>8. ASSUME NEW k \in 1..L PROVE read[k] = Anchor(k)
    <3>1. PICK n \in 1..L : read[k] = Anchor(n)
      BY <2>2
    <3>2. n = k
      BY <2>4, <2>7, <3>1
    <3>. QED
      BY <3>1, <3>2
  <2>9. Linked(read)
    <3>1. ASSUME NEW k \in 1..L
          PROVE  read[k].previous_anchor_hash = IF k = 1 THEN Hash(0) ELSE read[k - 1].anchor_hash
      <4>1. read[k].previous_anchor_hash = Hash(k - 1)
        BY <2>4, <2>8
      <4>2. k # 1 => k - 1 \in 1..L
        BY <2>1
      <4>3. k # 1 => read[k - 1].anchor_hash = Hash(k - 1)
        BY <2>4, <2>8, <4>2
      <4>. QED
        BY <4>1, <4>3
    <3>. QED
      BY <3>1 DEF Linked
  <2>10. \A k \in 1..L : AnchorValid(read[k], checked)
    <3>1. \A k \in 1..L : k \in 1..count
      BY <1>2, <2>1
    <3>. QED
      BY <1>2, <2>8, <3>1, AnchorsValid
  <2>. QED
    BY <1>1, <1>4, <2>9, <2>10 DEF ChainValid
<1>. QED
  BY <1>1, <1>3, <1>4

\* LossesAreGaps for one state: no two directories disagree, so that the loop
\* holds against an index only that the one before it is missing.
LEMMA LossesSound == IInv => LossesAreGaps
<1>. SUFFICES ASSUME IInv, status \in {"PASS", "FAIL"},
                     \A d \in DOMAIN files : \A k \in 1..Len(files[d]) :
                       files[d][k] \in {Anchor(n) : n \in 1..count}
              PROVE  status = "PASS" <=>
                       UNION {Kept(d) : d \in DOMAIN files} =
                         Min(UNION {Kept(d) : d \in DOMAIN files})..Max(UNION {Kept(d) : d \in DOMAIN files})
  BY DEF LossesAreGaps
<1>. PICK kept : kept = UNION {Kept(d) : d \in DOMAIN files}
  OBVIOUS
<1>. USE DEF IInv
<1>1. /\ pc = "done" /\ DOMAIN files = Directories /\ todo = {} /\ DOMAIN agreed # {}
      /\ status = "PASS" <=> broken = {}
  BY DEF Ended, FilesGenuine
<1>2. \A n : /\ Anchor(n).chain_head_index = n /\ Anchor(n).anchor_hash = Hash(n)
             /\ Anchor(n).previous_anchor_hash = Hash(n - 1) /\ Hash(n - 1) # NoHash
  BY DEF Anchor, Hash, NoHash
<1>3. ASSUME NEW d \in Directories, NEW k \in loaded[d]
      PROVE  \E n \in 1..count : files[d][k] = Anchor(n)
  <2>1. k \in 1..Len(files[d])
    BY DEF Loads, Current, Loadable
  <2>. QED
    BY <1>1, <2>1
<1>4. kept = Indices /\ kept = DOMAIN agreed /\ kept \in SUBSET (1..count) /\ count \in Nat
  <2>1. NoIndex \notin kept
    BY <1>1, <1>2, <1>3 DEF Kept, NoIndex
  <2>. QED
    BY <1>1, <2>1, IndexFacts, FilesFacts DEF Indices, Looping
<1>5. \A i \in kept : \A d \in Sources(i) : Result(d, i) = Anchor(i)
  <2>. SUFFICES ASSUME NEW i \in kept, NEW d \in Sources(i) PROVE Result(d, i) = Anchor(i)
    OBVIOUS
  <2>1. d \in Directories /\ \E k \in loaded[d] :
          Result(d, i) = files[d][k] /\ files[d][k].chain_head_index = i
    BY <1>1, <1>4, IndexFacts
  <2>. QED
    BY <2>1, <1>2, <1>3
<1>6. \A i \in kept : ~Mismatch(i) /\ Agreed(i) = Anchor(i)
  <2>. SUFFICES ASSUME NEW i \in kept PROVE ~Mismatch(i) /\ Agreed(i) = Anchor(i)
    OBVIOUS
  <2>1. ~Mismatch(i)
    BY <1>5 DEF Mismatch
  <2>2. Result(FirstSource(i), i) = Anchor(i)
    BY <1>1, <1>4, <1>5, IndexFacts
  <2>. QED
    BY <2>1, <2>2, <1>2 DEF Agreed
<1>7. \A i \in kept : i \in 1..count /\ i \in Nat /\ i - 1 \in Nat
  <2>1. \A i \in kept : i \in 1..count
    BY <1>4
  <2>2. \A i \in 1..count : i \in Nat /\ i - 1 \in Nat
    BY <1>4
  <2>. QED
    BY <2>1, <2>2
<1>8. \A i \in kept : i \in broken <=> \E j \in kept : Precedes(j, i) /\ i - 1 # j
  <2>. SUFFICES ASSUME NEW i \in kept
                PROVE  i \in broken <=> \E j \in kept : Precedes(j, i) /\ i - 1 # j
    OBVIOUS
  <2>1. i \in broken <=> \E j \in kept : Precedes(j, i) /\ Hash(i - 1) # Hash(j)
    <3>1. \A j \in kept : agreed[j] = Anchor(j)
      BY <1>4, <1>6 DEF Looping
    <3>2. i \in broken <=> Faulty(i)
      BY <1>4 DEF Looping
    <3>. QED
      BY <3>1, <3>2, <1>2, <1>4, <1>6 DEF Faulty
  <2>2. \A j \in kept : Hash(i - 1) = Hash(j) <=> i - 1 = j
    BY <1>7, HashedAnchor
  <2>. QED
    BY <2>1, <2>2
<1>. DEFINE lo == Min(kept)
            hi == Max(kept)
<1>9. /\ lo \in kept /\ hi \in kept /\ lo \in Nat /\ hi \in Nat
      /\ \A y \in kept : lo <= y /\ y <= hi
  <2>1. kept \in SUBSET (0..count) /\ kept # {}
    <3>1. kept # {}
      BY <1>1, <1>4
    <3>2. \A i \in kept : i \in 0..count
      BY <1>4, <1>7
    <3>. QED
      BY <3>1, <3>2
  <2>2. lo \in kept /\ hi \in kept /\ \A y \in kept : lo <= y /\ hi >= y
    BY <1>4, <2>1, MinMax
  <2>. QED
    BY <1>7, <2>2
<1>. HIDE DEF lo, hi
<1>10. ASSUME broken = {}, NEW x \in lo..hi, x \notin kept PROVE FALSE
  <2>. DEFINE S == {y \in lo..hi : y \notin kept}
  <2>1. S \in SUBSET Nat /\ x \in S
    BY <1>9, <1>10
  <2>2. PICK y \in S : \A z \in S : y <= z
    <3>. HIDE DEF S
    <3>. QED
      BY <2>1, LeastOf
  <2>3. y \in lo..hi /\ y \notin kept /\ y # lo /\ y # hi
    BY <1>9, <2>2
  <2>4. y - 1 \in lo..hi /\ ~(y <= y - 1)
    BY <1>9, <2>3
  <2>5. y - 1 \in kept
    BY <2>2, <2>4
  <2>. DEFINE T == {z \in kept : z > y}
  <2>6. T \in SUBSET Nat /\ hi \in T
    <3>1. hi > y
      BY <1>9, <2>3
    <3>2. \A z \in T : z \in Nat
      BY <1>7
    <3>. QED
      BY <1>9, <3>1, <3>2
  <2>7. PICK i \in T : \A z \in T : i <= z
    <3>. HIDE DEF T
    <3>. QED
      BY <2>6, LeastOf
  <2>8. i \in kept /\ i > y /\ i \in Nat /\ y \in Nat
    BY <1>7, <1>9, <2>3, <2>7
  <2>9. \A h \in kept : h <= y - 1 \/ h >= i
    <3>1. ASSUME NEW h \in kept, h > y PROVE h >= i
      BY <2>7, <2>8, <1>7, <3>1
    <3>2. ASSUME NEW h \in kept, ~(h > y) PROVE h <= y - 1
      BY <1>7, <2>3, <2>8, <3>2
    <3>. QED
      BY <3>1, <3>2
  <2>10. Precedes(y - 1, i)
    <3>1. y - 1 < i
      BY <2>8
    <3>2. DOMAIN agreed = kept
      BY <1>4
    <3>. QED
      BY <2>9, <3>1, <3>2 DEF Precedes
  <2>11. i - 1 # y - 1
    BY <2>8
  <2>. QED
    BY <1>8, <1>10, <2>5, <2>8, <2>10, <2>11
<1>11. ASSUME kept = lo..hi, NEW i \in broken PROVE FALSE
  <2>1. i \in kept
    BY <1>4 DEF Looping
  <2>2. PICK j \in kept : Precedes(j, i) /\ i - 1 # j
    BY <1>8, <2>1
  <2>3. j < i /\ i \in Nat /\ j \in Nat /\ \A h \in kept : h <= j \/ h >= i
    BY <1>4, <1>7, <2>1, <2>2 DEF Precedes
  <2>4. i - 1 \in lo..hi
    BY <1>9, <2>1, <2>3
  <2>. QED
    BY <1>11, <2>2, <2>3, <2>4
<1>12. broken = {} <=> kept = lo..hi
  <2>1. broken = {} => kept = lo..hi
    <3>1. \A y \in kept : y \in lo..hi
      BY <1>7, <1>9
    <3>. QED
      BY <1>10, <3>1
  <2>. QED
    BY <2>1, <1>11
<1>. QED
  BY <1>1, <1>12 DEF lo, hi

\* SignedDirectoryDecides for one state.
LEMMA SignedSound == IInv => SignedDirectoryDecides
<1>. SUFFICES ASSUME IInv, status = "PASS", NEW d \in DOMAIN files, Given(d),
                     NEW s \in Sorted(files[d]), ChainValid(s, TRUE),
                     NEW n \in since..Len(files[d])
              PROVE  n \in DOMAIN agreed /\ agreed[n].anchor_hash[1] = <<n>>
  BY DEF SignedDirectoryDecides
<1>. USE DEF IInv
<1>1. /\ d \in Directories /\ count \in Nat /\ Len(files[d]) \in Nat /\ since \in 1..(count + 1)
      /\ pc = "done" /\ todo = {} /\ broken = {} /\ Indices = DOMAIN agreed
  BY FilesFacts DEF FilesGenuine, Loads, Ended, Looping
<1>2. /\ IsList(s) /\ Len(s) = Len(files[d]) /\ \A k \in 1..Len(s) : IsAnchor(s[k])
      /\ \E p \in Bijection(1..Len(s), 1..Len(s)) : \A r \in 1..Len(s) : s[r] = files[d][p[r]]
  BY <1>1, SortedFacts
<1>3. \A k \in 1..Len(s) : s[k].chain_head_index = k /\ s[k].day = k /\ s[k].anchor_hash = Hash(k)
  BY <1>1, <1>2, ValidChain
<1>4. n \in 1..Len(s) /\ n \in Nat /\ n >= since /\ n # 0
  BY <1>1, <1>2
<1>5. PICK p \in Bijection(1..Len(s), 1..Len(s)) : \A r \in 1..Len(s) : s[r] = files[d][p[r]]
  BY <1>2
<1>6. \A r \in 1..Len(s) : p[r] \in 1..Len(files[d])
  BY <1>2, <1>5 DEF Bijection, Injection
<1>7. \A k \in 1..Len(files[d]) : \E r \in 1..Len(s) : files[d][k] = s[r]
  <2>1. \A k \in 1..Len(files[d]) : \E r \in 1..Len(s) : p[r] = k
    BY <1>2, <1>5 DEF Bijection, Surjection
  <2>. QED
    BY <1>5, <2>1
<1>8. p[n] \in loaded[d]
  <2>1. loaded[d] = Current(d)
    BY <1>1 DEF Given, Loads
  <2>2. /\ files[d][p[n]].day = n /\ files[d][p[n]].anchor_hash = Hash(n)
        /\ p[n] \in 1..Len(files[d]) /\ Hash(n) # NoHash
    BY <1>3, <1>4, <1>5, <1>6 DEF Hash, NoHash
  <2>. QED
    BY <2>1, <2>2, <1>4 DEF Current, Loadable, Taken
<1>9. files[d][p[n]].chain_head_index = n
  BY <1>3, <1>4, <1>5
<1>10. n \in DOMAIN agreed /\ n \in Indices
  BY <1>1, <1>4, <1>8, <1>9 DEF Indices, Kept, NoIndex
<1>11. d \in Sources(n)
  BY <1>1, <1>8, <1>9 DEF Sources, Positions, Loads
<1>12. Result(d, n).anchor_hash = Hash(n)
  <2>1. PICK k \in loaded[d] : Result(d, n) = files[d][k] /\ files[d][k].chain_head_index = n
    BY <1>1, <1>10, <1>11, IndexFacts
  <2>2. k \in 1..Len(files[d])
    BY <1>1 DEF Loads, Current, Loadable
  <2>3. PICK r \in 1..Len(s) : files[d][k] = s[r]
    BY <1>7, <2>2
  <2>. QED
    BY <1>3, <2>1, <2>3
<1>13. /\ FirstSource(n) \in Sources(n) /\ agreed[n].anchor_hash = Result(FirstSource(n), n).anchor_hash
  BY <1>1, <1>10, IndexFacts DEF Looping
<1>14. ~Mismatch(n)
  BY <1>1, <1>10 DEF Looping, Faulty
<1>15. Result(FirstSource(n), n).anchor_hash[1] = Result(d, n).anchor_hash[1]
  BY <1>11, <1>13, <1>14 DEF Mismatch
<1>16. Hash(n)[1] = <<n>>
  BY DEF Hash
<1>. QED
  BY <1>10, <1>12, <1>13, <1>15, <1>16
-----------------------------------------------------------------------------
(* The theorems *)

\* TypeOK of MirrorHistory is an invariant.
THEOREM TypeCorrect == AnchorSpec => []TypeOK
  BY Invariance, Typed, PTL

\* Files that were lost show in the verdict of verify_anchor_chain exactly if an
\* index is missing in both directories and was not the first or the last.
THEOREM LossesShow == AnchorSpec => []LossesAreGaps
  BY Invariance, LossesSound, PTL

\* A PASS of verify_external_anchor_chain, or of one file, is about what the
\* platform published, if signatures were verified or the last hash is known.
THEOREM PassedAnchorsPublished == AnchorSpec => []PassedIsPublished
  BY Invariance, PassedSound, PTL

\* The platform's anchors, from the first on, pass in any order of file names.
THEOREM FaithfulPasses == AnchorSpec => []FaithfulDirectoryPasses
  BY Invariance, FaithfulSound, PTL

\* A directory that passes with the platform's key decides what a PASS of
\* mirror verify-anchors covers, however the other was altered.
THEOREM SignedDirectoryCovered == AnchorSpec => []SignedDirectoryDecides
  BY Invariance, SignedSound, PTL
-----------------------------------------------------------------------------
(* The abstract specification *)

\* What the platform published, oldest first.
History == [n \in 1..count |-> Anchor(n)]

\* What passed as a chain with the platform's key is, signatures included, the
\* first anchors that the platform published.
AcceptedIsPrefix ==
  Authentic => Len(read) <= Len(History) /\ read = SubSeq(History, 1, Len(read))

\* Two lists with the same elements are equal.
LEMMA ListEqual ==
  ASSUME NEW s, NEW t, IsList(s), IsList(t), Len(s) = Len(t),
         \A i \in 1..Len(s) : s[i] = t[i]
  PROVE  s = t
<1>. DEFINE S == {s[i] : i \in 1..Len(s)} \cup {t[i] : i \in 1..Len(t)}
<1>1. s \in Seq(S) /\ t \in Seq(S)
  BY SeqMonotonic DEF IsList
<1>. HIDE DEF S
<1>. QED
  BY <1>1, SeqEqual

\* What SubSeq returns of a list.
LEMMA PrefixFacts ==
  ASSUME NEW s, IsList(s), NEW n \in 0..Len(s)
  PROVE  /\ IsList(SubSeq(s, 1, n)) /\ Len(SubSeq(s, 1, n)) = n
         /\ \A i \in 1..n : SubSeq(s, 1, n)[i] = s[i]
<1>. DEFINE S == {s[i] : i \in 1..Len(s)}
<1>1. s \in Seq(S) /\ Len(s) \in Nat
  BY LenProperties DEF IsList
<1>2. DOMAIN s = 1..Len(s) /\ \A i \in 1..Len(s) : s[i] \in S
  BY <1>1, LenProperties
<1>. HIDE DEF S
<1>3. /\ SubSeq(s, 1, n) \in Seq(S) /\ Len(SubSeq(s, 1, n)) = n
      /\ \A i \in 1..n : SubSeq(s, 1, n)[i] = s[i]
  BY <1>1, <1>2
<1>. QED
  BY <1>3, ListOf

\* AcceptedIsPrefix for one state.
LEMMA AuthenticSound == IInv => AcceptedIsPrefix
<1>. SUFFICES ASSUME IInv, Authentic
              PROVE  Len(read) <= Len(History) /\ read = SubSeq(History, 1, Len(read))
  BY DEF AcceptedIsPrefix
<1>. DEFINE m == Len(read)
            s == SubSeq(History, 1, m)
<1>1. count \in Nat
  BY FilesFacts DEF IInv
<1>2. /\ IsList(read) /\ m <= count /\ \A k \in 1..m : IsAnchor(read[k])
      /\ checked = TRUE /\ ChainValid(read, checked)
  BY DEF Authentic, IInv, Judged
<1>3. m \in 0..count /\ m \in Nat
  BY <1>1, <1>2, ListFacts
<1>4. \A k \in 1..m : /\ read[k].anchor_hash = Hash(k) /\ SignatureValid(read[k])
                      /\ read[k].chain_head_index = k /\ read[k].day = k
  <2>1. \A k \in 1..m : read[k].anchor_hash = Hash(k) /\ read[k].chain_head_index = k /\ read[k].day = k
    BY <1>1, <1>2, ValidChain
  <2>2. \A k \in 1..m : SignatureValid(read[k])
    BY <1>2 DEF ChainValid, AnchorValid
  <2>. QED
    BY <2>1, <2>2
<1>5. \A k \in 1..m : read[k].previous_anchor_hash = Hash(k - 1)
  <2>1. \A k \in 1..m : read[k].previous_anchor_hash = IF k = 1 THEN Hash(0) ELSE read[k - 1].anchor_hash
    BY <1>2 DEF ChainValid, Linked
  <2>2. \A k \in 1..m : k # 1 => k - 1 \in 1..m
    BY <1>3
  <2>. QED
    BY <1>4, <2>1, <2>2
<1>6. \A k \in 1..m : read[k] = Anchor(k)
  BY <1>2, <1>4, <1>5 DEF IsAnchor, Anchor, SignatureValid
<1>7. IsList(History) /\ Len(History) = count
  BY <1>1, TupleList DEF History
<1>8. IsList(s) /\ Len(s) = m /\ \A k \in 1..m : s[k] = History[k]
  <2>. HIDE DEF m
  <2>. QED
    BY <1>3, <1>7, PrefixFacts
<1>. HIDE DEF s, m
<1>9. \A k \in 1..m : s[k] = Anchor(k)
  <2>1. \A k \in 1..m : k \in 1..count
    BY <1>1, <1>3
  <2>. QED
    BY <1>8, <2>1 DEF History
<1>10. read = s
  BY <1>2, <1>6, <1>8, <1>9, ListEqual DEF m
<1>. QED
  BY <1>2, <1>7, <1>10 DEF s, m

\* No directory has a verdict at first.
LEMMA InitRefines == AnchorInit => AH!Init
BY DEF AnchorInit, AH!Init, Authentic

\* The platform has published all it will.
LEMMA HistoryConstant ==
  ASSUME AnchorNext
  PROVE  History' = History
<1>1. count' = count
  <2>1. CASE Next
    BY <2>1 DEF Next, copies, Lose, Alter, Fault, NoSource, Load, BuildIndexMap, CheckIndex, Finish
  <2>2. CASE UNCHANGED vars
    BY <2>2 DEF vars
  <2>. QED
    BY <2>1, <2>2 DEF AnchorNext
<1>. QED
  BY <1>1 DEF History, Anchor, Hash

\* Either command gives the one verdict: it accepts a prefix, or abstains.
LEMMA CommandRefines ==
  ASSUME AcceptedIsPrefix', History' = History, command = "none", command' # "none"
  PROVE  AH!Next
<1>1. ~Authentic
  BY DEF Authentic
<1>2. CASE Authentic'
  <2>1. Len(read') <= Len(History) /\ read' = SubSeq(History, 1, Len(read'))
    BY <1>2 DEF AcceptedIsPrefix
  <2>2. AH!Accept
    BY <1>1, <1>2, <2>1 DEF AH!Accept, History
  <2>. QED
    BY <2>2 DEF AH!Next
<1>3. CASE ~Authentic'
  <2>1. AH!Abstain
    BY <1>1, <1>3 DEF AH!Abstain, History
  <2>. QED
    BY <2>1 DEF AH!Next
<1>. QED
  BY <1>2, <1>3

\* However files are lost or altered, every behaviour of the composed system is
\* one of AuthenticHistory: with the platform's key, a directory is accepted
\* only if it holds the first anchors that the platform published.
THEOREM Refinement == AnchorSpec => AuthenticHistorySpec
<1>. DEFINE verdict == IF command = "none" THEN "none" ELSE IF Authentic THEN "authentic" ELSE "other"
            accepted == IF Authentic THEN read ELSE <<>>
            history == [n \in 1..count |-> Anchor(n)]
<1>1. AnchorInit => AH!Init
  BY InitRefines
<1>2. AcceptedIsPrefix' /\ [AnchorNext]_<<vars, anchorVars>> => [AH!Next]_<<history, verdict, accepted>>
  <2>. SUFFICES ASSUME AcceptedIsPrefix', [AnchorNext]_<<vars, anchorVars>>
                PROVE  [AH!Next]_<<history, verdict, accepted>>
    OBVIOUS
  <2>1. CASE AnchorNext /\ command' # "none"
    <3>1. command = "none"
      BY <2>1 DEF AnchorNext
    <3>. QED
      BY <2>1, <3>1, HistoryConstant, CommandRefines
  <2>2. CASE AnchorNext /\ command' = "none"
    <3>1. command = "none" /\ history' = history
      BY <2>2, HistoryConstant DEF AnchorNext, History
    <3>. QED
      BY <2>2, <3>1 DEF Authentic
  <2>3. CASE UNCHANGED <<vars, anchorVars>>
    BY <2>3 DEF vars, anchorVars, Authentic, Anchor, Hash
  <2>. QED
    BY <2>1, <2>2, <2>3
<1>3. AnchorSpec => []AcceptedIsPrefix
  BY Invariance, AuthenticSound, PTL
<1>. QED
  BY <1>1, <1>2, <1>3, PTL DEF AnchorSpec, AuthenticHistorySpec, AH!Spec
=============================================================================
