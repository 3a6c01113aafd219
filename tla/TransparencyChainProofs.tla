----------------------- MODULE TransparencyChainProofs -----------------------
(***************************************************************************)
(* For any bodies, length of the chain and number of faults: TypeOK,       *)
(* PassedIsPublished, LastHashPinsChain, FaithfulCopyPasses and            *)
(* VerifiedCountIsTrue are invariants of TransparencyChain, which          *)
(* implements AuthenticHistory.                                            *)
(***************************************************************************)
EXTENDS TransparencyChain, FiniteSetTheorems, SequenceTheorems, TLAPS

\* A sequence of whatever its elements are.
IsList(s) == s \in Seq({s[i] : i \in 1..Len(s)})

\* Every sequence is a list.
LEMMA ListOf ==
  ASSUME NEW S, NEW s \in Seq(S)
  PROVE  IsList(s)
<1>. DEFINE T == {s[i] : i \in 1..Len(s)}
<1>1. Len(s) \in Nat /\ s \in [1..Len(s) -> S]
  BY LenProperties
<1>2. s \in [1..Len(s) -> T]
  BY <1>1
<1>3. s \in Seq(T)
  BY <1>1, <1>2
<1>. QED
  BY <1>3 DEF IsList

\* What Append and SubSeq return of a list.
LEMMA ListFacts ==
  ASSUME NEW s, IsList(s)
  PROVE  /\ Len(s) \in Nat /\ DOMAIN s = 1..Len(s)
         /\ \A e : /\ IsList(Append(s, e)) /\ Len(Append(s, e)) = Len(s) + 1
                   /\ \A i \in 1..Len(s) : Append(s, e)[i] = s[i]
                   /\ Append(s, e)[Len(s) + 1] = e
         /\ \A n \in 0..Len(s) : /\ IsList(SubSeq(s, 1, n)) /\ Len(SubSeq(s, 1, n)) = n
                                 /\ \A i \in 1..n : SubSeq(s, 1, n)[i] = s[i]
<1>. DEFINE S == {s[i] : i \in 1..Len(s)}
<1>1. s \in Seq(S) /\ Len(s) \in Nat
  BY LenProperties DEF IsList
<1>2. DOMAIN s = 1..Len(s) /\ \A i \in 1..Len(s) : s[i] \in S
  BY <1>1, LenProperties
<1>. HIDE DEF S
<1>3. ASSUME NEW e
      PROVE  /\ IsList(Append(s, e)) /\ Len(Append(s, e)) = Len(s) + 1
             /\ \A i \in 1..Len(s) : Append(s, e)[i] = s[i]
             /\ Append(s, e)[Len(s) + 1] = e
  <2>1. s \in Seq(S \cup {e}) /\ e \in S \cup {e}
    BY <1>1, SeqMonotonic
  <2>2. Append(s, e) \in Seq(S \cup {e})
    BY <2>1
  <2>3. IsList(Append(s, e))
    BY <2>2, ListOf
  <2>. QED
    BY <2>1, <2>3, <1>2
<1>4. ASSUME NEW n \in 0..Len(s)
      PROVE  /\ IsList(SubSeq(s, 1, n)) /\ Len(SubSeq(s, 1, n)) = n
             /\ \A i \in 1..n : SubSeq(s, 1, n)[i] = s[i]
  <2>1. SubSeq(s, 1, n) \in Seq(S) /\ Len(SubSeq(s, 1, n)) = n
           /\ \A i \in 1..n : SubSeq(s, 1, n)[i] = s[i]
    BY <1>1, <1>2
  <2>. QED
    BY <2>1, ListOf
<1>. QED
  BY <1>1, <1>2, <1>3, <1>4

\* A function on 1..n is a list of length n.
LEMMA TupleList ==
  ASSUME NEW n \in Nat, NEW s, s = [i \in 1..n |-> s[i]]
  PROVE  IsList(s) /\ Len(s) = n
<1>. DEFINE S == {s[i] : i \in 1..n}
<1>1. s \in [1..n -> S]
  OBVIOUS
<1>2. s \in Seq(S) /\ Len(s) = n
  BY <1>1
<1>. QED
  BY <1>2, ListOf

-----------------------------------------------------------------------------
(* Sorting *)

Before(f, k) == {j \in 1..Len(f) : \/ f[j].index < f[k].index
                                   \/ f[j].index = f[k].index /\ j < k}

\* The entries sorted before the k-th are finitely many, and fewer than all.
LEMMA BeforeFacts ==
  ASSUME NEW f, IsList(f), NEW k \in 1..Len(f)
  PROVE  /\ IsFiniteSet(Before(f, k))
         /\ Rank(f, k) = Cardinality(Before(f, k)) + 1
         /\ Cardinality(Before(f, k)) \in Nat
         /\ (\A j \in 1..Len(f) : f[j].index \in Nat) => Cardinality(Before(f, k)) < Len(f)
<1>1. Len(f) \in Nat
  BY ListFacts
<1>2. IsFiniteSet(1..Len(f)) /\ Cardinality(1..Len(f)) = Len(f)
  <2>. DEFINE n == Len(f)
  <2>1. n \in Int /\ 1 \in Int
    BY <1>1
  <2>. HIDE DEF n
  <2>2. IsFiniteSet(1..n) /\ Cardinality(1..n) = IF 1 > n THEN 0 ELSE n - 1 + 1
    BY <2>1, FS_Interval, Zenon
  <2>3. n \in Nat
    BY <1>1 DEF n
  <2>. QED
    BY <2>2, <2>3 DEF n
<1>3. Before(f, k) \in SUBSET (1..Len(f))
  BY DEF Before
<1>4. /\ IsFiniteSet(Before(f, k)) /\ Cardinality(Before(f, k)) <= Len(f)
      /\ Cardinality(Before(f, k)) = Len(f) => Before(f, k) = 1..Len(f)
  BY <1>2, <1>3, FS_Subset
<1>5. Cardinality(Before(f, k)) \in Nat
  BY <1>4, FS_CardinalityType
<1>6. (\A j \in 1..Len(f) : f[j].index \in Nat) => k \notin Before(f, k)
  BY <1>1 DEF Before
<1>7. Rank(f, k) = Cardinality(Before(f, k)) + 1
  BY DEF Rank, Before
<1>. QED
  BY <1>1, <1>4, <1>5, <1>6, <1>7

\* No two entries have the same rank, so that every rank is taken: sorting
\* loses nothing and invents nothing.
LEMMA RanksTaken ==
  ASSUME NEW f, IsList(f), \A j \in 1..Len(f) : f[j].index \in Nat, NEW r \in 1..Len(f)
  PROVE  \E k \in 1..Len(f) : Rank(f, k) = r
<1>. DEFINE D == 1..Len(f)
            rank == [k \in D |-> Rank(f, k)]
<1>1. Len(f) \in Nat
  BY ListFacts
<1>2. rank \in [D -> D]
  BY <1>1, BeforeFacts
<1>3. ASSUME NEW i \in D, NEW k \in D, i \in Before(f, k)
      PROVE  Rank(f, i) # Rank(f, k)
  <2>1. Before(f, i) \in SUBSET Before(f, k)
    BY <1>1, <1>3 DEF Before
  <2>2. i \notin Before(f, i)
    BY <1>1 DEF Before
  <2>3. Before(f, i) # Before(f, k)
    BY <1>3, <2>2
  <2>4. Cardinality(Before(f, i)) # Cardinality(Before(f, k))
    BY <2>1, <2>3, BeforeFacts, FS_Subset
  <2>. QED
    BY <2>4, BeforeFacts
<1>4. \A i, k \in D : i # k => i \in Before(f, k) \/ k \in Before(f, i)
  BY <1>1 DEF Before
<1>5. \A i, k \in D : rank[i] = rank[k] => i = k
  BY <1>3, <1>4
<1>6. rank \in Injection(D, D)
  BY <1>2, <1>5 DEF Injection, IsInjective
<1>7. IsFiniteSet(D)
  BY <1>1, FS_Interval
<1>8. rank \in Surjection(D, D)
  BY <1>6, <1>7, FS_Injection
<1>. QED
  BY <1>8 DEF Surjection

\* The sorted file is as long as the file, and each entry of it is in the file.
LEMMA SortFacts ==
  ASSUME NEW f, IsList(f), \A j \in 1..Len(f) : f[j].index \in Nat
  PROVE  /\ IsList(SortedByIndex(f)) /\ Len(SortedByIndex(f)) = Len(f)
         /\ \A r \in 1..Len(f) : \E k \in 1..Len(f) : SortedByIndex(f)[r] = f[k]
<1>. DEFINE g == SortedByIndex(f)
<1>1. Len(f) \in Nat
  BY ListFacts
<1>2. g = [r \in 1..Len(f) |-> f[CHOOSE k \in 1..Len(f) : Rank(f, k) = r]]
  BY DEF SortedByIndex
<1>3. g = [r \in 1..Len(f) |-> g[r]]
  BY <1>2
<1>4. ASSUME NEW r \in 1..Len(f) PROVE \E k \in 1..Len(f) : g[r] = f[k]
  <2>1. (CHOOSE k \in 1..Len(f) : Rank(f, k) = r) \in 1..Len(f)
    BY RanksTaken
  <2>. QED
    BY <1>2, <2>1
<1>. HIDE DEF g
<1>5. IsList(g) /\ Len(g) = Len(f)
  BY <1>1, <1>3, TupleList
<1>. QED
  BY <1>4, <1>5 DEF g

\* Lists that agree in length and everywhere are equal.
LEMMA ListEqual ==
  ASSUME NEW s, NEW t, IsList(s), IsList(t), Len(s) = Len(t),
         \A i \in 1..Len(s) : s[i] = t[i]
  PROVE  s = t
<1>. DEFINE S == {s[i] : i \in 1..Len(s)} \cup {t[i] : i \in 1..Len(t)}
<1>1. s \in Seq(S) /\ t \in Seq(S)
  BY SeqMonotonic DEF IsList
<1>. HIDE DEF S
<1>. QED
  BY <1>1, SeqEqual
-----------------------------------------------------------------------------
(* The invariant *)

IsEntry(e) ==
  /\ e = [index |-> e.index, body |-> e.body,
          previous_entry_hash |-> e.previous_entry_hash, entry_hash |-> e.entry_hash,
          signature |-> e.signature, well_formed |-> e.well_formed]
  /\ e.index \in Nat /\ e.well_formed \in BOOLEAN

\* What the platform published is numbered, hashed and signed as it should.
ChainSound ==
  /\ IsList(chain)
  /\ \A i \in 1..Len(chain) : /\ IsEntry(chain[i])
                              /\ chain[i].index = i - 1
                              /\ chain[i].well_formed = TRUE
                              /\ chain[i].entry_hash = EntryHash(chain[i])
                              /\ chain[i].signature = chain[i].entry_hash
  /\ \A i \in 1..Len(chain) :
       chain[i].previous_entry_hash = IF i = 1 THEN GENESIS_PREVIOUS_HASH ELSE chain[i - 1].entry_hash

\* Nothing that happens to the copy makes a new signature.
Genuine(e) == IsEntry(e) /\ \E j \in 1..Len(chain) : e.signature = chain[j].signature

CopiesGenuine ==
  /\ IsList(file) /\ \A k \in 1..Len(file) : Genuine(file[k])
  /\ IsList(entries) /\ \A k \in 1..Len(entries) : Genuine(entries[k])

\* What the loop has passed, and how it comes to a PASS.
Checked ==
  /\ pc \in {"publish", "transit"} => next = 0
  /\ valid /\ SignaturesChecked /\ args.crypto =>
       next <= Len(chain) /\ \A k \in 1..next : entries[k] = chain[k]
  /\ exit = EXIT_PASS => valid /\ next = Len(entries)

\* Of what the loop has passed, signatures checked or not, the last hash fixes
\* all the hashes before it.
Pinned ==
  valid /\ next # 0 =>
    \A n \in 1..Len(chain) : prev_hash = chain[n].entry_hash =>
      next = n /\ \A k \in 1..n : EntryHash(entries[k]) = EntryHash(chain[k])

IInv == TypeOK /\ ChainSound /\ CopiesGenuine /\ Checked /\ Pinned

\* The empty sequence is a list.
LEMMA EmptyList == IsList(<<>>) /\ Len(<<>>) = 0
<1>1. <<>> \in Seq({1}) /\ Len(<<>>) = 0
  OBVIOUS
<1>. QED
  BY <1>1, ListOf

\* The invariant holds before anything is published.
LEMMA InitIInv == Init => IInv
<1>. SUFFICES ASSUME Init PROVE IInv
  OBVIOUS
<1>. USE DEF Init
<1>1. TypeOK
  BY BoundsOK, EmptyList DEF TypeOK, Args, NoArgs, NoExit, EXIT_PASS, EXIT_FAIL, EXIT_ERROR
<1>2. ChainSound /\ CopiesGenuine
  BY EmptyList DEF ChainSound, CopiesGenuine
<1>3. Checked /\ Pinned
  BY EmptyList DEF Checked, Pinned, NoExit, EXIT_PASS
<1>. QED
  BY <1>1, <1>2, <1>3 DEF IInv

\* A fault keeps the invariant if what it puts into the copy is genuine.
LEMMA FaultKeepsIInv ==
  ASSUME IInv, NEW f, Fault(f), IsList(f), \A k \in 1..Len(f) : Genuine(f[k])
  PROVE  IInv'
<1>. USE DEF Fault, run
<1>1. TypeOK'
  BY BoundsOK DEF IInv, TypeOK
<1>2. ChainSound'
  BY DEF IInv, ChainSound
<1>3. CopiesGenuine'
  BY DEF IInv, CopiesGenuine, Genuine
<1>4. Checked'
  BY DEF IInv, Checked, SignaturesChecked
<1>5. Pinned'
  BY DEF IInv, Pinned
<1>. QED
  BY <1>1, <1>2, <1>3, <1>4, <1>5 DEF IInv

\* A published entry is numbered, linked and signed as ChainSound says.
LEMMA PublishKeepsIInv ==
  ASSUME IInv, NEW b \in Bodies, Publish(b)
  PROVE  IInv'
<1>. DEFINE previous == IF chain = <<>> THEN GENESIS_PREVIOUS_HASH
                        ELSE chain[Len(chain)].entry_hash
            e == NewEntry(Len(chain), b, previous)
<1>1. /\ chain' = Append(chain, e) /\ Len(chain) < MaxLen /\ Len(chain) \in Nat
      /\ UNCHANGED <<file, faults, args, pc, run>>
  BY ListFacts DEF Publish, IInv, ChainSound
<1>2. /\ IsEntry(e) /\ e.index = Len(chain) /\ e.well_formed = TRUE
      /\ e.entry_hash = EntryHash(e) /\ e.signature = e.entry_hash
  BY <1>1 DEF NewEntry, IsEntry, EntryHash
<1>. HIDE DEF e
<1>3. /\ IsList(chain') /\ Len(chain') = Len(chain) + 1
      /\ \A i \in 1..Len(chain) : chain'[i] = chain[i]
      /\ chain'[Len(chain) + 1] = e
  BY <1>1, ListFacts DEF IInv, ChainSound
<1>4. TypeOK'
  BY <1>1, <1>3, BoundsOK DEF IInv, TypeOK, run
<1>5. ChainSound'
  <2>1. ASSUME NEW i \in 1..Len(chain')
        PROVE  /\ IsEntry(chain'[i])
               /\ chain'[i].index = i - 1
               /\ chain'[i].well_formed = TRUE
               /\ chain'[i].entry_hash = EntryHash(chain'[i])
               /\ chain'[i].signature = chain'[i].entry_hash
    <3>1. CASE i \in 1..Len(chain)
      BY <3>1, <1>3 DEF IInv, ChainSound
    <3>2. CASE i = Len(chain) + 1
      BY <3>2, <1>1, <1>2, <1>3
    <3>3. i \in 1..Len(chain) \/ i = Len(chain) + 1
      <4>. HIDE DEF e, previous
      <4>. QED
        BY <1>1, <1>3
    <3>. QED
      BY <3>1, <3>2, <3>3
  <2>2. ASSUME NEW i \in 1..Len(chain')
        PROVE  chain'[i].previous_entry_hash =
                 IF i = 1 THEN GENESIS_PREVIOUS_HASH ELSE chain'[i - 1].entry_hash
    <3>1. i # 1 => i - 1 \in 1..Len(chain) /\ chain'[i - 1] = chain[i - 1]
      BY <1>1, <1>3
    <3>2. CASE i \in 1..Len(chain)
      BY <3>1, <3>2, <1>1, <1>3 DEF IInv, ChainSound
    <3>3. CASE i = Len(chain) + 1
      <4>1. chain = <<>> <=> i = 1
        <5>1. Len(chain) = 0 => chain = <<>>
          BY EmptyList, ListEqual DEF IInv, ChainSound
        <5>. QED
          BY <3>3, <5>1, <1>1, EmptyList
      <4>2. chain'[i].previous_entry_hash = previous
        BY <3>3, <1>3 DEF e, NewEntry
      <4>. QED
        BY <3>1, <3>3, <4>1, <4>2, <1>1
    <3>. QED
      BY <3>2, <3>3, <1>1, <1>3
  <2>. QED
    BY <2>1, <2>2, <1>3 DEF ChainSound
<1>6. CopiesGenuine'
  BY <1>1, <1>3 DEF IInv, CopiesGenuine, Genuine, run
<1>7. Checked'
  BY <1>1, <1>3 DEF IInv, TypeOK, Checked, SignaturesChecked, run
<1>8. Pinned'
  BY <1>1 DEF IInv, Checked, Pinned, Publish, run
<1>. QED
  BY <1>4, <1>5, <1>6, <1>7, <1>8 DEF IInv

\* The fault that loses an entry.
LEMMA DropKeepsIInv ==
  ASSUME IInv, NEW k \in 1..Len(file), Drop(k)
  PROVE  IInv'
<1>. DEFINE f == Without(file, k)
<1>1. Len(file) \in Nat /\ Len(file) - 1 \in Nat
  BY ListFacts DEF IInv, CopiesGenuine
<1>2. f = [j \in 1..(Len(file) - 1) |-> IF j < k THEN file[j] ELSE file[j + 1]]
  BY DEF Without
<1>3. f = [j \in 1..(Len(file) - 1) |-> f[j]]
  BY <1>2
<1>4. \A j \in 1..(Len(file) - 1) : \E i \in 1..Len(file) : f[j] = file[i]
  BY <1>1, <1>2
<1>. HIDE DEF f
<1>5. IsList(f) /\ Len(f) = Len(file) - 1
  BY <1>1, <1>3, TupleList
<1>6. \A j \in 1..Len(f) : Genuine(f[j])
  BY <1>4, <1>5 DEF IInv, CopiesGenuine
<1>7. Fault(f)
  BY DEF Drop, f
<1>. QED
  BY <1>5, <1>6, <1>7, FaultKeepsIInv

\* The fault that copies an entry to the end.
LEMMA RepeatKeepsIInv ==
  ASSUME IInv, NEW k \in 1..Len(file), Repeat(k)
  PROVE  IInv'
<1>. DEFINE f == Append(file, file[k])
<1>1. /\ IsList(f) /\ Len(f) = Len(file) + 1 /\ Len(file) \in Nat
      /\ \A j \in 1..Len(file) : f[j] = file[j]
      /\ f[Len(file) + 1] = file[k]
  BY ListFacts DEF IInv, CopiesGenuine
<1>. HIDE DEF f
<1>2. ASSUME NEW j \in 1..Len(f) PROVE Genuine(f[j])
  <2>1. j \in 1..Len(file) \/ j = Len(file) + 1
    BY <1>1
  <2>. QED
    BY <2>1, <1>1 DEF IInv, CopiesGenuine
<1>3. Fault(f)
  BY DEF Repeat, f
<1>. QED
  BY <1>1, <1>2, <1>3, FaultKeepsIInv

\* What EXCEPT returns of a list.
LEMMA ExceptList ==
  ASSUME NEW s, IsList(s), NEW i \in 1..Len(s), NEW e
  PROVE  /\ IsList([s EXCEPT ![i] = e]) /\ Len([s EXCEPT ![i] = e]) = Len(s)
         /\ \A j \in 1..Len(s) : [s EXCEPT ![i] = e][j] = IF j = i THEN e ELSE s[j]
<1>. DEFINE S == {s[k] : k \in 1..Len(s)} \cup {e}
<1>1. s \in Seq(S) /\ e \in S
  BY SeqMonotonic DEF IsList
<1>. HIDE DEF S
<1>2. /\ [s EXCEPT ![i] = e] \in Seq(S) /\ Len([s EXCEPT ![i] = e]) = Len(s)
      /\ \A j \in 1..Len(s) : [s EXCEPT ![i] = e][j] = IF j = i THEN e ELSE s[j]
  BY <1>1, ExceptSeq
<1>. QED
  BY <1>2, ListOf

\* The fault that swaps two entries.
LEMMA SwapKeepsIInv ==
  ASSUME IInv, NEW j \in 1..Len(file), NEW k \in 1..Len(file), Swap(j, k)
  PROVE  IInv'
<1>. DEFINE g == [file EXCEPT ![j] = file[k]]
            f == [g EXCEPT ![k] = file[j]]
<1>1. /\ IsList(g) /\ Len(g) = Len(file)
      /\ \A i \in 1..Len(file) : g[i] = IF i = j THEN file[k] ELSE file[i]
  BY ExceptList DEF IInv, CopiesGenuine
<1>2. Fault(f)
  BY DEF Swap
<1>3. k \in 1..Len(g)
  BY <1>1
<1>. HIDE DEF g
<1>4. /\ IsList(f) /\ Len(f) = Len(g)
      /\ \A i \in 1..Len(g) : f[i] = IF i = k THEN file[j] ELSE g[i]
  BY <1>1, <1>3, ExceptList
<1>. HIDE DEF f
<1>5. \A i \in 1..Len(f) : Genuine(f[i])
  BY <1>1, <1>4 DEF IInv, CopiesGenuine
<1>. QED
  BY <1>2, <1>4, <1>5, FaultKeepsIInv

\* The fault that changes a field: no value of it is a new signature.
LEMMA AlterKeepsIInv ==
  ASSUME IInv, NEW k \in 1..Len(file), Alter(k)
  PROVE  IInv'
<1>1. PICK e \in Alterations(file[k]) : Fault([file EXCEPT ![k] = e])
  BY DEF Alter
<1>. DEFINE f == [file EXCEPT ![k] = e]
<1>2. Genuine(file[k]) /\ \A j \in 1..Len(file) : Genuine(file[j])
  BY DEF IInv, CopiesGenuine
<1>3. Genuine(e)
  <2>. DEFINE o == file[k]
  <2>1. IsEntry(o)
    BY <1>2 DEF Genuine
  <2>2. CASE \E b \in Bodies : e = [o EXCEPT !.body = b]
    BY <2>1, <2>2, <1>2 DEF IsEntry, Genuine
  <2>3. CASE \E n \in 0..MaxLen : e = [o EXCEPT !.index = n]
    BY <2>1, <2>3, <1>2, BoundsOK DEF IsEntry, Genuine
  <2>4. CASE e = [o EXCEPT !.entry_hash = EntryHash(o)]
    BY <2>1, <2>4, <1>2 DEF IsEntry, Genuine
  <2>5. CASE \E j \in 1..Len(file) : e = [o EXCEPT !.previous_entry_hash = file[j].entry_hash]
    BY <2>1, <2>5, <1>2 DEF IsEntry, Genuine
  <2>6. CASE \E j \in 1..Len(file) : e = [o EXCEPT !.signature = file[j].signature]
    <3>1. PICK j \in 1..Len(file) : e = [o EXCEPT !.signature = file[j].signature]
      BY <2>6
    <3>. DEFINE s == file[j].signature
    <3>2. \E i \in 1..Len(chain) : s = chain[i].signature
      BY <1>2 DEF Genuine
    <3>3. e = [o EXCEPT !.signature = s]
      BY <3>1
    <3>. HIDE DEF s, o
    <3>4. IsEntry(e) /\ e.signature = s
      BY <2>1, <3>3 DEF IsEntry
    <3>. QED
      BY <3>2, <3>4 DEF Genuine
  <2>7. CASE e = [o EXCEPT !.well_formed = FALSE]
    BY <2>1, <2>7, <1>2 DEF IsEntry, Genuine
  <2>. QED
    BY <1>1, <2>2, <2>3, <2>4, <2>5, <2>6, <2>7 DEF Alterations
<1>4. /\ IsList(f) /\ Len(f) = Len(file)
      /\ \A j \in 1..Len(file) : f[j] = IF j = k THEN e ELSE file[j]
  BY ExceptList DEF IInv, CopiesGenuine
<1>. HIDE DEF f
<1>5. \A j \in 1..Len(f) : Genuine(f[j])
  BY <1>2, <1>3, <1>4
<1>6. Fault(f)
  BY <1>1 DEF f
<1>. QED
  BY <1>4, <1>5, <1>6, FaultKeepsIInv

\* The copy starts out as the chain.
LEMMA ExportKeepsIInv ==
  ASSUME IInv, Export
  PROVE  IInv'
<1>. USE DEF Export, run
<1>1. TypeOK'
  BY DEF IInv, TypeOK
<1>2. ChainSound'
  BY DEF IInv, ChainSound
<1>3. CopiesGenuine'
  BY DEF IInv, CopiesGenuine, ChainSound, Genuine
<1>4. Checked'
  BY DEF IInv, Checked, SignaturesChecked
<1>5. Pinned'
  BY DEF IInv, Pinned
<1>. QED
  BY <1>1, <1>2, <1>3, <1>4, <1>5 DEF IInv

\* Sorting takes its entries from the file.
LEMMA StartKeepsIInv ==
  ASSUME IInv, Start
  PROVE  IInv'
<1>1. /\ args' \in Args /\ entries' = SortedByIndex(file) /\ next = 0 /\ verified = 0
      /\ UNCHANGED <<chain, file, faults, next, prev_hash, verified>>
      /\ prev_hash = GENESIS_PREVIOUS_HASH /\ exit = NoExit
  BY DEF Start, IInv, Checked, TypeOK
<1>2. IsList(file) /\ \A k \in 1..Len(file) : Genuine(file[k])
  BY DEF IInv, CopiesGenuine
<1>3. /\ IsList(entries') /\ Len(entries') = Len(file) /\ Len(file) \in Nat
      /\ \A r \in 1..Len(file) : \E k \in 1..Len(file) : entries'[r] = file[k]
  <2>1. \A k \in 1..Len(file) : file[k].index \in Nat
    BY <1>2 DEF Genuine, IsEntry
  <2>2. Len(file) \in Nat
    BY <1>2, ListFacts
  <2>. QED
    BY <1>1, <1>2, <2>1, <2>2, SortFacts
<1>4. \/ pc' = "check" /\ UNCHANGED <<valid, exit>>
      \/ /\ pc' = "done" /\ valid' \in BOOLEAN /\ exit' \in {EXIT_PASS, EXIT_FAIL}
         /\ exit' = EXIT_PASS => valid' /\ file = <<>>
  <2>1. Loads(args') \in BOOLEAN
    BY <1>1 DEF Loads, Args
  <2>2. CASE Loads(args') /\ file # <<>>
    BY <2>2 DEF Start
  <2>3. CASE ~(Loads(args') /\ file # <<>>)
    BY <2>1, <2>3 DEF Start, EXIT_PASS, EXIT_FAIL
  <2>. QED
    BY <2>2, <2>3
<1>5. TypeOK'
  BY <1>1, <1>3, <1>4 DEF IInv, TypeOK, NoExit, EXIT_PASS, EXIT_FAIL
<1>6. ChainSound'
  BY <1>1 DEF IInv, ChainSound
<1>7. CopiesGenuine'
  <2>1. \A r \in 1..Len(file) : Genuine(entries'[r])
    BY <1>2, <1>3
  <2>. QED
    BY <1>1, <1>2, <1>3, <2>1 DEF CopiesGenuine, Genuine
<1>8. Checked'
  <2>1. next' = 0 /\ Len(chain') \in Nat
    BY <1>1, ListFacts DEF IInv, ChainSound
  <2>2. exit' = EXIT_PASS => valid' /\ next' = Len(entries')
    BY <2>1, <1>1, <1>3, <1>4, EmptyList DEF NoExit, EXIT_PASS
  <2>. QED
    BY <2>1, <2>2 DEF Checked
<1>9. Pinned'
  BY <1>1 DEF Pinned
<1>. QED
  BY <1>5, <1>6, <1>7, <1>8, <1>9 DEF IInv

\* A run without input decides nothing.
LEMMA NoInputKeepsIInv ==
  ASSUME IInv, NoInput
  PROVE  IInv'
<1>. USE DEF NoInput, inputs
<1>1. TypeOK'
  BY DEF IInv, TypeOK, NoExit, EXIT_PASS, EXIT_FAIL, EXIT_ERROR
<1>2. ChainSound'
  BY DEF IInv, ChainSound
<1>3. CopiesGenuine'
  BY DEF IInv, CopiesGenuine, Genuine
<1>4. Checked'
  BY DEF IInv, Checked, SignaturesChecked, EXIT_PASS, EXIT_ERROR
<1>5. Pinned'
  BY DEF IInv, Pinned
<1>. QED
  BY <1>1, <1>2, <1>3, <1>4, <1>5 DEF IInv

\* The signature of an entry that verifies is one the platform made, for the
\* hash of a published entry, and the hash fixes the rest.
LEMMA ValidEntryIsPublished ==
  ASSUME IInv, NEW e, Genuine(e), EntryValid(e), SignaturesChecked, args.crypto
  PROVE  \E j \in 1..Len(chain) : e = chain[j]
<1>1. /\ IsEntry(e) /\ e.well_formed = TRUE
      /\ e.entry_hash = EntryHash(e) /\ e.signature = e.entry_hash
  BY DEF Genuine, EntryValid, HashValid, SignatureValid, IsEntry
<1>2. PICK j \in 1..Len(chain) : e.signature = chain[j].signature
  BY DEF Genuine
<1>. DEFINE c == chain[j]
<1>3. /\ IsEntry(c) /\ c.well_formed = TRUE
      /\ c.entry_hash = EntryHash(c) /\ c.signature = c.entry_hash
  BY DEF IInv, ChainSound
<1>4. e.signature = c.signature
  BY <1>2
<1>5. e = c
  <2>. HIDE DEF c
  <2>1. /\ e.index = c.index /\ e.body = c.body
        /\ e.previous_entry_hash = c.previous_entry_hash
    BY <1>1, <1>3, <1>4 DEF EntryHash
  <2>2. e.entry_hash = c.entry_hash /\ e.well_formed = c.well_formed
    BY <1>1, <1>3, <1>4
  <2>. QED
    BY <2>1, <2>2, <1>1, <1>3, <1>4 DEF IsEntry
<1>. QED
  BY <1>2, <1>5

\* Its hash fixes its place, which is the one the loop is at.
LEMMA ValidEntryInPlace ==
  ASSUME IInv, NEW e, Genuine(e), EntryValid(e), next \in Nat, e.index = next,
         SignaturesChecked, args.crypto
  PROVE  next + 1 \in 1..Len(chain) /\ e = chain[next + 1]
<1>1. PICK j \in 1..Len(chain) : e = chain[j]
  BY ValidEntryIsPublished
<1>2. e.index = j - 1 /\ j \in Nat
  BY <1>1, ListFacts DEF IInv, ChainSound
<1>3. j = next + 1
  BY <1>2
<1>. QED
  BY <1>1, <1>3

\* One turn of the loop: an entry it passes continues what it passed before.
LEMMA CheckEntryKeepsIInv ==
  ASSUME IInv, CheckEntry
  PROVE  IInv'
<1>. DEFINE e == entries[next + 1]
<1>1. /\ next < Len(entries) /\ next' = next + 1 /\ pc = "check"
      /\ valid' = (valid /\ EntryValid(e) /\ e.index = next)
      /\ verified' = IF EntryValid(e) THEN verified + 1 ELSE verified
      /\ prev_hash' = e.entry_hash
      /\ UNCHANGED <<chain, file, faults, args, pc, entries, exit>>
  BY DEF CheckEntry, inputs
<1>2. Len(entries) \in Nat /\ next \in 0..Len(entries) /\ next \in Nat
  BY ListFacts DEF IInv, TypeOK, CopiesGenuine
<1>3. Genuine(e)
  BY <1>1, <1>2 DEF IInv, CopiesGenuine
<1>4. TypeOK'
  <2>1. next' \in 0..Len(entries') /\ verified' \in 0..next'
    BY <1>1, <1>2 DEF IInv, TypeOK
  <2>2. prev_hash' = entries'[next'].entry_hash /\ next' # 0 /\ valid' \in BOOLEAN
    BY <1>1, <1>2 DEF IInv, TypeOK
  <2>. QED
    BY <2>1, <2>2, <1>1 DEF IInv, TypeOK
<1>5. ChainSound' /\ CopiesGenuine'
  BY <1>1 DEF IInv, ChainSound, CopiesGenuine, Genuine
<1>6. Checked'
  <2>1. exit' # EXIT_PASS
    BY <1>1 DEF IInv, TypeOK, EXIT_PASS, NoExit
  <2>2. pc' \notin {"publish", "transit"}
    BY <1>1
  <2>3. ASSUME valid', SignaturesChecked', args'.crypto
        PROVE  next' <= Len(chain') /\ \A k \in 1..next' : entries'[k] = chain'[k]
    <3>1. /\ valid /\ EntryValid(e) /\ e.index = next /\ SignaturesChecked /\ args.crypto
      BY <2>3, <1>1 DEF SignaturesChecked
    <3>2. next + 1 \in 1..Len(chain) /\ e = chain[next + 1]
      <4>. HIDE DEF e
      <4>. QED
        BY <3>1, <1>2, <1>3, ValidEntryInPlace
    <3>3. \A k \in 1..next : entries[k] = chain[k]
      BY <3>1 DEF IInv, Checked
    <3>4. Len(chain) \in Nat
      BY ListFacts DEF IInv, ChainSound
    <3>5. \A k \in 1..(next + 1) : k \in 1..next \/ k = next + 1
      BY <1>2
    <3>. QED
      BY <3>2, <3>3, <3>4, <3>5, <1>1
  <2>. QED
    BY <2>1, <2>2, <2>3 DEF Checked
<1>7. Pinned'
  <2>1. SUFFICES ASSUME valid', NEW n \in 1..Len(chain), prev_hash' = chain[n].entry_hash
                 PROVE  /\ next + 1 = n
                        /\ \A k \in 1..n : EntryHash(entries[k]) = EntryHash(chain[k])
    BY <1>1 DEF Pinned
  <2>2. /\ valid /\ e.entry_hash = EntryHash(e) /\ e.index = next /\ LinkValid(e)
    BY <2>1, <1>1, <1>3 DEF EntryValid, HashValid
  <2>3. /\ chain[n].entry_hash = EntryHash(chain[n]) /\ chain[n].index = n - 1
        /\ Len(chain) \in Nat
    BY <2>1, ListFacts DEF IInv, ChainSound
  <2>4. EntryHash(e) = EntryHash(chain[n])
    BY <2>1, <2>2, <2>3, <1>1
  <2>5. e.index = chain[n].index /\ e.previous_entry_hash = chain[n].previous_entry_hash
    <3>. HIDE DEF e
    <3>. QED
      BY <2>4 DEF EntryHash
  <2>6. next + 1 = n
    BY <2>2, <2>3, <2>5, <1>2
  <2>7. \A k \in 1..next : EntryHash(entries[k]) = EntryHash(chain[k])
    <3>1. CASE next = 0
      BY <3>1
    <3>2. CASE next # 0
      <4>1. n \in 2..Len(chain) /\ next = n - 1 /\ next \in 1..Len(chain)
        BY <3>2, <2>3, <2>6, <1>2
      <4>2. chain[n].previous_entry_hash = chain[next].entry_hash
        BY <4>1 DEF IInv, ChainSound
      <4>3. prev_hash = chain[next].entry_hash
        BY <3>2, <4>2, <2>2, <2>5 DEF LinkValid
      <4>. QED
        BY <3>2, <4>1, <4>3, <2>2 DEF IInv, Pinned
    <3>. QED
      BY <3>1, <3>2
  <2>8. \A k \in 1..n : k \in 1..next \/ k = n
    BY <2>6, <1>2
  <2>. QED
    BY <2>4, <2>6, <2>7, <2>8
<1>. QED
  BY <1>4, <1>5, <1>6, <1>7 DEF IInv

\* The verdict is that of the loop.
LEMMA FinishKeepsIInv ==
  ASSUME IInv, Finish
  PROVE  IInv'
<1>. USE DEF Finish, inputs
<1>1. TypeOK'
  BY DEF IInv, TypeOK, NoExit, EXIT_PASS, EXIT_FAIL
<1>2. ChainSound'
  BY DEF IInv, ChainSound
<1>3. CopiesGenuine'
  BY DEF IInv, CopiesGenuine, Genuine
<1>4. Checked'
  BY DEF IInv, TypeOK, Checked, SignaturesChecked, EXIT_PASS, EXIT_FAIL
<1>5. Pinned'
  BY DEF IInv, Pinned
<1>. QED
  BY <1>1, <1>2, <1>3, <1>4, <1>5 DEF IInv

\* A step that changes nothing.
LEMMA StutterKeepsIInv ==
  ASSUME IInv, UNCHANGED vars
  PROVE  IInv'
<1>. USE DEF vars
<1>1. TypeOK'
  BY DEF IInv, TypeOK
<1>2. ChainSound' /\ CopiesGenuine' /\ Checked' /\ Pinned'
  BY DEF IInv, ChainSound, CopiesGenuine, Genuine, Checked, SignaturesChecked, Pinned
<1>. QED
  BY <1>1, <1>2 DEF IInv
-----------------------------------------------------------------------------
(* The theorems *)

\* What every step keeps: the platform's chain is sound, every signature in
\* the copy is one the platform made, and what the loop has passed with
\* signatures checked is what was published at that place.
THEOREM Invariance == Spec => []IInv
<1>1. Init => IInv
  BY InitIInv
<1>2. IInv /\ [Next]_vars => IInv'
  <2>. SUFFICES ASSUME IInv, [Next]_vars PROVE IInv'
    OBVIOUS
  <2>1. CASE \E b \in Bodies : Publish(b)
    BY <2>1, PublishKeepsIInv
  <2>2. CASE Export
    BY <2>2, ExportKeepsIInv
  <2>3. CASE \E k \in 1..Len(file) : Drop(k) \/ Repeat(k) \/ Alter(k)
    BY <2>3, DropKeepsIInv, RepeatKeepsIInv, AlterKeepsIInv
  <2>4. CASE \E j, k \in 1..Len(file) : Swap(j, k)
    BY <2>4, SwapKeepsIInv
  <2>5. CASE Start
    BY <2>5, StartKeepsIInv
  <2>6. CASE NoInput
    BY <2>6, NoInputKeepsIInv
  <2>7. CASE CheckEntry
    BY <2>7, CheckEntryKeepsIInv
  <2>8. CASE Finish
    BY <2>8, FinishKeepsIInv
  <2>9. CASE UNCHANGED vars
    BY <2>9, StutterKeepsIInv
  <2>. QED
    BY <2>1, <2>2, <2>3, <2>4, <2>5, <2>6, <2>7, <2>8, <2>9 DEF Next
<1>. QED
  BY <1>1, <1>2, PTL DEF Spec

\* Every variable of verify_chain keeps its range: between two turns of its
\* loop previous_entry_hash is the hash the last entry states, and no more
\* entries are counted as verified than were looked at.
THEOREM TypeCorrect == Spec => []TypeOK
<1>1. IInv => TypeOK
  BY DEF IInv
<1>. QED
  BY <1>1, Invariance, PTL

\* However long the log and however the copy was cut, reordered or altered on
\* its way, verify_chain with signatures checked passes nothing but a prefix
\* of what the platform published.
THEOREM PassedPublished == Spec => []PassedIsPublished
<1>1. IInv => PassedIsPublished
  <2>. SUFFICES ASSUME IInv, Passed, SignaturesChecked, args.crypto
                PROVE  Len(entries) <= Len(chain) /\ entries = SubSeq(chain, 1, Len(entries))
    BY DEF PassedIsPublished
  <2>. DEFINE n == Len(entries)
              s == SubSeq(chain, 1, n)
  <2>1. IsList(entries) /\ IsList(chain) /\ n \in Nat
    BY ListFacts DEF IInv, CopiesGenuine, ChainSound
  <2>2. n <= Len(chain) /\ \A k \in 1..n : entries[k] = chain[k]
    BY DEF Passed, IInv, Checked
  <2>3. n \in 0..Len(chain)
    BY <2>1, <2>2, ListFacts
  <2>4. IsList(s) /\ Len(s) = n /\ \A k \in 1..n : s[k] = chain[k]
    BY <2>1, <2>3, ListFacts
  <2>. HIDE DEF s
  <2>5. entries = s
    BY <2>1, <2>2, <2>4, ListEqual
  <2>. QED
    BY <2>2, <2>5 DEF s
<1>. QED
  BY <1>1, Invariance, PTL

\* With no signature checked at all, the last hash pins what is before it: a
\* copy that verify_chain passes and that ends in a published hash has, entry
\* by entry, the hashes of the published chain up to there.
THEOREM PassedPinned == Spec => []LastHashPinsChain
<1>1. IInv => LastHashPinsChain
  <2>. SUFFICES ASSUME IInv, Passed, entries # <<>>, NEW n \in 1..Len(chain),
                       prev_hash = chain[n].entry_hash
                PROVE  /\ Len(entries) = n
                       /\ \A k \in 1..n : EntryHash(entries[k]) = EntryHash(chain[k])
    BY DEF LastHashPinsChain
  <2>1. valid /\ next = Len(entries)
    BY DEF Passed, IInv, Checked
  <2>2. Len(entries) # 0
    <3>1. IsList(entries) /\ IsList(<<>>)
      BY EmptyList DEF IInv, CopiesGenuine
    <3>. QED
      BY <3>1, EmptyList, ListEqual
  <2>. QED
    BY <2>1, <2>2 DEF IInv, Pinned
<1>. QED
  BY <1>1, Invariance, PTL
-----------------------------------------------------------------------------
(* What is never refused *)

\* What the loop asks of entry k, which is what it will have asked when it has
\* passed it.
Correct(k) ==
  LET e == entries[k]
  IN  /\ e.well_formed /\ HashValid(e) /\ e.index = k - 1
      /\ e.previous_entry_hash = IF k = 1 THEN GENESIS_PREVIOUS_HASH ELSE entries[k - 1].entry_hash
      /\ SignaturesChecked => SignatureValid(e)

\* A chain that loads is invalid only for an entry that is not correct, and
\* refused only if it is invalid.
Justified ==
  /\ pc \in {"publish", "transit"} => valid
  /\ pc = "check" \/ (pc = "done" /\ exit # EXIT_ERROR) => entries = SortedByIndex(file)
  /\ Loads(args) /\ exit = EXIT_FAIL => ~valid
  /\ Loads(args) /\ ~valid => \E k \in 1..next : ~Correct(k)

\* One turn of the loop finds an entry wrong exactly if it is not correct.
LEMMA CheckEntryJustified ==
  ASSUME IInv, Justified, CheckEntry
  PROVE  Justified'
<1>. DEFINE e == entries[next + 1]
<1>1. /\ next < Len(entries) /\ next' = next + 1 /\ pc = "check" /\ pc' = "check"
      /\ valid' = (valid /\ EntryValid(e) /\ e.index = next)
      /\ UNCHANGED <<chain, file, faults, args, entries, exit>>
  BY DEF CheckEntry, inputs
<1>2. next \in Nat /\ exit = NoExit
  BY <1>1, ListFacts DEF IInv, TypeOK, CopiesGenuine
<1>3. \A k : Correct(k)' <=> Correct(k)
  BY <1>1 DEF Correct, HashValid, SignaturesChecked, SignatureValid
<1>4. Correct(next + 1) => EntryValid(e) /\ e.index = next
  <2>1. next # 0 => prev_hash = entries[next].entry_hash
    BY DEF IInv, TypeOK
  <2>2. (next + 1) - 1 = next /\ (next + 1 = 1 <=> next = 0)
    BY <1>2
  <2>. QED
    BY <2>1, <2>2 DEF Correct, EntryValid, LinkValid
<1>5. Loads(args)' <=> Loads(args)
  BY <1>1 DEF Loads
<1>6. ASSUME Loads(args), ~valid' PROVE \E k \in 1..next' : ~Correct(k)
  <2>1. CASE valid
    <3>1. ~(EntryValid(e) /\ e.index = next)
      <4>. HIDE DEF e
      <4>. QED
        BY <1>1, <1>6, <2>1
    <3>2. ~Correct(next + 1)
      BY <1>4, <3>1
    <3>3. next + 1 \in 1..next'
      BY <1>1, <1>2
    <3>. QED
      BY <3>2, <3>3
  <2>2. CASE ~valid
    <3>1. PICK k \in 1..next : ~Correct(k)
      BY <1>6, <2>2 DEF Justified
    <3>2. k \in 1..next'
      BY <1>1, <1>2
    <3>. QED
      BY <3>1, <3>2
  <2>. QED
    BY <2>1, <2>2
<1>7. SortedByIndex(file)' = SortedByIndex(file)
  BY <1>1 DEF SortedByIndex, Rank
<1>8. exit' # EXIT_FAIL
  BY <1>1, <1>2 DEF NoExit, EXIT_FAIL
<1>. QED
  BY <1>1, <1>3, <1>5, <1>6, <1>7, <1>8 DEF Justified

\* Every step keeps the verdict justified.
LEMMA NextJustified == IInv /\ Justified /\ [Next]_vars => Justified'
<1>. SUFFICES ASSUME IInv, Justified, [Next]_vars PROVE Justified'
  OBVIOUS
<1>1. CASE \/ \E b \in Bodies : Publish(b)
           \/ Export
           \/ \E k \in 1..Len(file) : Drop(k) \/ Repeat(k) \/ Alter(k)
           \/ \E j, k \in 1..Len(file) : Swap(j, k)
  <2>1. pc \in {"publish", "transit"} /\ pc' \in {"publish", "transit"} /\ UNCHANGED <<args, run>>
    BY <1>1 DEF Publish, Export, Drop, Repeat, Alter, Swap, Fault
  <2>2. valid' /\ exit' = NoExit
    BY <2>1 DEF Justified, run, IInv, TypeOK
  <2>. QED
    BY <2>1, <2>2 DEF Justified, NoExit, EXIT_FAIL
<1>2. CASE Start
  <2>1. /\ pc = "transit" /\ pc' \in {"check", "done"} /\ valid /\ exit = NoExit
        /\ entries' = SortedByIndex(file) /\ file' = file
        /\ pc' = "check" => valid' = valid /\ exit' = exit
    BY <1>2 DEF Start, Justified, IInv, TypeOK
  <2>2. args' \in Args /\ (pc' = "done" => valid' = Loads(args') /\ exit' = IF Loads(args') THEN EXIT_PASS ELSE EXIT_FAIL)
    BY <1>2 DEF Start
  <2>3. Loads(args)' <=> Loads(args')
    BY <2>1 DEF Loads
  <2>4. SortedByIndex(file)' = SortedByIndex(file)
    BY <2>1 DEF SortedByIndex, Rank
  <2>5. ASSUME Loads(args)' PROVE valid' /\ exit' # EXIT_FAIL
    <3>1. CASE pc' = "check"
      BY <2>1, <3>1 DEF NoExit, EXIT_FAIL
    <3>2. CASE pc' = "done"
      <4>1. Loads(args')
        BY <2>3, <2>5
      <4>. QED
        BY <2>2, <3>2, <4>1 DEF EXIT_PASS, EXIT_FAIL
    <3>. QED
      BY <2>1, <3>1, <3>2
  <2>. QED
    BY <2>1, <2>4, <2>5 DEF Justified
<1>3. CASE NoInput
  BY <1>3 DEF NoInput, inputs, Justified, EXIT_ERROR, EXIT_FAIL
<1>4. CASE CheckEntry
  BY <1>4, CheckEntryJustified
<1>5. CASE Finish \/ UNCHANGED vars
  <2>1. UNCHANGED <<file, args, entries, next, valid>>
    BY <1>5 DEF Finish, inputs, vars
  <2>2. \A k : Correct(k)' <=> Correct(k)
    BY <2>1 DEF Correct, HashValid, SignaturesChecked, SignatureValid
  <2>3. SortedByIndex(file)' = SortedByIndex(file) /\ (Loads(args)' <=> Loads(args))
    BY <2>1 DEF SortedByIndex, Rank, Loads
  <2>4. CASE Finish
    <3>1. pc = "check" /\ pc' = "done" /\ exit' = IF valid THEN EXIT_PASS ELSE EXIT_FAIL
      BY <2>4 DEF Finish
    <3>. QED
      BY <2>1, <2>2, <2>3, <3>1 DEF Justified, EXIT_PASS, EXIT_FAIL
  <2>5. CASE UNCHANGED vars
    BY <2>1, <2>2, <2>3, <2>5 DEF Justified, vars
  <2>. QED
    BY <1>5, <2>4, <2>5
<1>. QED
  BY <1>1, <1>2, <1>3, <1>4, <1>5 DEF Next

\* The verdict of verify_chain is justified by the entries: what it refuses
\* has one that is not correct.
THEOREM VerdictJustified == Spec => []Justified
<1>1. Init => Justified
  BY DEF Init, Justified, NoExit, EXIT_FAIL
<1>. QED
  BY <1>1, NextJustified, Invariance, PTL DEF Spec

-----------------------------------------------------------------------------
(* The count *)

Published(n) == {k \in 1..n : \E i \in 1..Len(chain) : entries[k] = chain[i]}

\* One more place.
LEMMA PublishedGrows ==
  ASSUME NEW n \in Nat
  PROVE  /\ Cardinality(Published(n)) \in Nat
         /\ Cardinality(Published(n + 1)) =
              IF \E i \in 1..Len(chain) : entries[n + 1] = chain[i]
              THEN Cardinality(Published(n)) + 1 ELSE Cardinality(Published(n))
<1>1. IsFiniteSet(Published(n)) /\ n + 1 \notin Published(n)
  <2>1. IsFiniteSet(1..n)
    BY FS_Interval
  <2>2. Published(n) \subseteq 1..n
    BY DEF Published
  <2>. QED
    BY <2>1, <2>2, FS_Subset
<1>2. Published(n + 1) = Published(n) \cup
        IF \E i \in 1..Len(chain) : entries[n + 1] = chain[i] THEN {n + 1} ELSE {}
  <2>1. \A k : k \in 1..(n + 1) <=> k \in 1..n \/ k = n + 1
    OBVIOUS
  <2>. QED
    BY <2>1 DEF Published
<1>. QED
  BY <1>1, <1>2, FS_AddElement, FS_CardinalityType

\* An entry that is in its place, after others that are, is valid.
LEMMA EntryInPlaceIsValid ==
  ASSUME IInv, SignaturesChecked, args.key = "issuer", next \in Nat, next + 1 <= Len(chain),
         \A k \in 1..(next + 1) : entries[k] = chain[k]
  PROVE  EntryValid(entries[next + 1])
<1>. DEFINE e == chain[next + 1]
<1>1. next + 1 \in 1..Len(chain) /\ entries[next + 1] = e
  BY ListFacts DEF IInv, ChainSound
<1>2. /\ e.well_formed = TRUE /\ e.entry_hash = EntryHash(e) /\ e.signature = e.entry_hash
      /\ e.previous_entry_hash = IF next + 1 = 1 THEN GENESIS_PREVIOUS_HASH
                                 ELSE chain[(next + 1) - 1].entry_hash
  BY <1>1 DEF IInv, ChainSound
<1>3. e.previous_entry_hash = IF next = 0 THEN GENESIS_PREVIOUS_HASH ELSE prev_hash
  <2>1. CASE next = 0
    BY <1>2, <2>1
  <2>2. CASE next # 0
    <3>1. prev_hash = entries[next].entry_hash
      BY <2>2 DEF IInv, TypeOK
    <3>2. next \in 1..(next + 1) /\ (next + 1) - 1 = next /\ next + 1 # 1
      BY <2>2
    <3>. QED
      BY <1>2, <2>2, <3>1, <3>2
  <2>. QED
    BY <2>1, <2>2
<1>. HIDE DEF e
<1>. QED
  BY <1>1, <1>2, <1>3 DEF EntryValid, HashValid, LinkValid, SignatureValid

LEMMA CheckEntryCounts ==
  ASSUME IInv, VerifiedCountIsTrue, CheckEntry
  PROVE  VerifiedCountIsTrue'
<1>. DEFINE e == entries[next + 1]
            InPlace(n) == n <= Len(chain) /\ \A k \in 1..n : entries[k] = chain[k]
<1>1. /\ next' = next + 1 /\ next < Len(entries)
      /\ verified' = IF EntryValid(e) THEN verified + 1 ELSE verified
      /\ UNCHANGED <<chain, args, entries>>
  BY DEF CheckEntry, inputs
<1>2. next \in Nat /\ verified \in Nat /\ Genuine(e)
  <2>1. IsList(entries)
    BY DEF IInv, CopiesGenuine
  <2>2. Len(entries) \in Nat
    BY <2>1, ListFacts
  <2>3. next \in 0..Len(entries) /\ verified \in 0..next
    BY DEF IInv, TypeOK
  <2>4. next + 1 \in 1..Len(entries)
    BY <1>1, <2>2, <2>3
  <2>5. Genuine(e)
    BY <2>4 DEF IInv, CopiesGenuine
  <2>. QED
    BY <2>2, <2>3, <2>5
<1>. SUFFICES ASSUME SignaturesChecked, args.crypto
              PROVE  /\ verified' <= Cardinality(Published(next + 1))
                     /\ args.key = "issuer" =>
                          \A n \in 1..(next + 1) : InPlace(n) => verified' >= n
  BY <1>1 DEF VerifiedCountIsTrue, SignaturesChecked, Published
<1>. HIDE DEF e
<1>3. verified' \in Nat /\ verified' >= verified
  BY <1>1, <1>2
<1>4. verified' <= Cardinality(Published(next + 1))
  <2>1. verified <= Cardinality(Published(next))
    BY DEF VerifiedCountIsTrue, Published
  <2>2. EntryValid(e) => \E i \in 1..Len(chain) : e = chain[i]
    BY <1>2, ValidEntryIsPublished
  <2>3. /\ Cardinality(Published(next)) \in Nat
        /\ Cardinality(Published(next + 1)) =
             IF \E i \in 1..Len(chain) : e = chain[i]
             THEN Cardinality(Published(next)) + 1 ELSE Cardinality(Published(next))
    BY <1>2, PublishedGrows DEF e
  <2>4. CASE EntryValid(e)
    <3>1. Cardinality(Published(next + 1)) = Cardinality(Published(next)) + 1
      BY <2>2, <2>3, <2>4
    <3>. QED
      BY <1>1, <1>2, <2>1, <2>3, <2>4, <3>1
  <2>5. CASE ~EntryValid(e)
    <3>1. Cardinality(Published(next + 1)) >= Cardinality(Published(next))
      BY <2>3
    <3>2. Cardinality(Published(next + 1)) \in Nat
      BY <2>3
    <3>. QED
      BY <1>1, <1>2, <2>1, <2>3, <2>5, <3>1, <3>2
  <2>. QED
    BY <2>4, <2>5
<1>5. ASSUME args.key = "issuer", NEW n \in 1..(next + 1), InPlace(n) PROVE verified' >= n
  <2>1. \A m \in 1..next : InPlace(m) => verified >= m
    BY <1>5 DEF VerifiedCountIsTrue
  <2>2. CASE n \in 1..next
    BY <1>2, <1>3, <1>5, <2>1, <2>2
  <2>3. CASE n = next + 1
    <3>1. EntryValid(e)
      BY <1>2, <1>5, <2>3, EntryInPlaceIsValid DEF e
    <3>2. verified >= next
      <4>1. CASE next = 0
        BY <1>2, <4>1
      <4>2. CASE next # 0
        <5>1. next \in 1..next /\ next <= Len(chain) /\ 1..next \subseteq 1..n
          BY <1>2, <1>5, <2>3, <4>2, ListFacts DEF IInv, ChainSound
        <5>. QED
          BY <1>5, <2>1, <5>1
      <4>. QED
        BY <4>1, <4>2
    <3>. QED
      BY <1>1, <1>2, <2>3, <3>1, <3>2
  <2>. QED
    BY <1>2, <2>2, <2>3
<1>. QED
  BY <1>4, <1>5

\* Of any copy of any chain: what verify-log counts as verified with signatures
\* checked was published, and all that comes before the first entry that is not
\* in its place is counted.
THEOREM CountIsTrue == Spec => []VerifiedCountIsTrue
<1>1. ASSUME next = 0, verified = 0 PROVE VerifiedCountIsTrue
  <2>1. {k \in 1..next : \E i \in 1..Len(chain) : entries[k] = chain[i]} = {}
    BY <1>1
  <2>2. \A n \in 1..next : FALSE
    BY <1>1
  <2>. QED
    BY <1>1, <2>1, <2>2, FS_EmptySet DEF VerifiedCountIsTrue
<1>2. Init => VerifiedCountIsTrue
  BY <1>1 DEF Init
<1>3. ASSUME IInv, VerifiedCountIsTrue, [Next]_vars PROVE VerifiedCountIsTrue'
  <2>1. CASE pc \in {"publish", "transit"} /\ UNCHANGED <<next, verified>>
    <3>1. next' = 0 /\ verified' = 0
      BY <1>3, <2>1 DEF IInv, Checked, TypeOK
    <3>2. {k \in 1..next' : \E i \in 1..Len(chain') : entries'[k] = chain'[i]} = {}
      BY <3>1
    <3>3. \A n \in 1..next' : FALSE
      BY <3>1
    <3>. QED
      BY <3>1, <3>2, <3>3, FS_EmptySet DEF VerifiedCountIsTrue
  <2>2. CASE CheckEntry
    BY <1>3, <2>2, CheckEntryCounts
  <2>3. CASE UNCHANGED <<chain, args, entries, next, verified>>
    BY <1>3, <2>3 DEF VerifiedCountIsTrue, SignaturesChecked
  <2>4. \/ pc \in {"publish", "transit"} /\ UNCHANGED <<next, verified>>
        \/ CheckEntry \/ UNCHANGED <<chain, args, entries, next, verified>>
    BY <1>3 DEF Next, Publish, Export, Drop, Repeat, Swap, Alter, Fault, Start, NoInput, Finish,
                run, inputs, vars
  <2>. QED
    BY <2>1, <2>2, <2>3, <2>4
<1>. QED
  BY <1>2, <1>3, Invariance, PTL DEF Spec
-----------------------------------------------------------------------------
(* Faithful copies *)

\* A copy that holds the first n entries of the chain, in whatever order, is
\* sorted into the chain.
LEMMA FaithfulSorts ==
  ASSUME IInv, NEW n \in 0..Len(chain), Len(file) = n,
         {file[k] : k \in 1..n} = {chain[k] : k \in 1..n}
  PROVE  /\ Len(SortedByIndex(file)) = n
         /\ \A r \in 1..n : SortedByIndex(file)[r] = chain[r]
<1>. DEFINE D == 1..n
            E == 0..(n - 1)
            place == [k \in D |-> file[k].index]
<1>1. /\ Len(chain) \in Nat /\ n \in Nat /\ IsList(file)
      /\ \A k \in D : file[k].index \in Nat
      /\ \A i \in D : chain[i].index = i - 1
  <2>1. Len(chain) \in Nat
    BY ListFacts DEF IInv, ChainSound
  <2>2. IsList(file) /\ \A k \in D : file[k].index \in Nat
    BY DEF IInv, CopiesGenuine, Genuine, IsEntry
  <2>3. \A i \in D : i \in 1..Len(chain)
    BY <2>1
  <2>4. \A i \in D : chain[i].index = i - 1
    BY <2>3 DEF IInv, ChainSound
  <2>. QED
    BY <2>1, <2>2, <2>4
<1>2. \A k \in D : \E i \in D : file[k] = chain[i]
  OBVIOUS
<1>3. \A i \in D : \E k \in D : file[k] = chain[i]
  OBVIOUS
<1>4. place \in [D -> E]
  <2>1. ASSUME NEW k \in D PROVE file[k].index \in E
    <3>1. PICK i \in D : file[k] = chain[i]
      BY <1>2
    <3>2. file[k].index = i - 1
      BY <1>1, <3>1
    <3>3. i - 1 \in E
      BY <1>1
    <3>. QED
      BY <3>2, <3>3
  <2>. QED
    BY <2>1
<1>5. \A m \in E : \E k \in D : place[k] = m
  <2>. SUFFICES ASSUME NEW m \in E PROVE \E k \in D : file[k].index = m
    OBVIOUS
  <2>1. m + 1 \in D
    BY <1>1
  <2>2. PICK k \in D : file[k] = chain[m + 1]
    BY <1>3, <2>1
  <2>3. chain[m + 1].index = (m + 1) - 1 /\ m \in Nat
    BY <1>1, <2>1
  <2>. QED
    BY <2>2, <2>3
<1>. HIDE DEF place
<1>6. IsFiniteSet(D) /\ Cardinality(D) = n /\ Cardinality(E) = n
  <2>1. IsFiniteSet(D) /\ Cardinality(D) = IF 1 > n THEN 0 ELSE n - 1 + 1
    BY <1>1, FS_Interval
  <2>2. Cardinality(E) = IF 0 > n - 1 THEN 0 ELSE (n - 1) - 0 + 1
    BY <1>1, FS_Interval
  <2>. QED
    BY <1>1, <2>1, <2>2
<1>7. \A i, k \in D : place[i] = place[k] => i = k
  <2>1. place \in Surjection(D, E)
    BY <1>4, <1>5 DEF Surjection
  <2>2. place \in Injection(D, E)
    BY <2>1, <1>6, FS_SurjSameCardinalityImpliesInj
  <2>. QED
    BY <2>2 DEF Injection, IsInjective
<1>8. ASSUME NEW k \in D PROVE Rank(file, k) = file[k].index + 1
  <2>. DEFINE B == Before(file, k)
              m == place[k]
              h == [j \in B |-> place[j]]
  <2>1. m = file[k].index /\ m \in E /\ m \in Nat
    BY <1>1, <1>4 DEF place
  <2>2. B = {j \in D : place[j] < m}
    <3>1. \A j \in D : place[j] = file[j].index
      BY DEF place
    <3>2. \A j \in D : file[j].index = file[k].index => j = k
      BY <1>7, <3>1
    <3>3. \A j \in D : ~(j < k) \/ j # k
      BY <1>1
    <3>. QED
      BY <2>1, <3>1, <3>2, <3>3 DEF Before
  <2>. HIDE DEF B, m
  <2>3. h \in [B -> 0..(m - 1)]
    <3>1. \A j \in B : place[j] \in E /\ place[j] < m
      BY <1>4, <2>2
    <3>2. \A j \in B : place[j] \in 0..(m - 1)
      BY <1>1, <2>1, <3>1
    <3>. QED
      BY <3>2
  <2>4. \A i \in 0..(m - 1) : \E j \in B : h[j] = i
    <3>. SUFFICES ASSUME NEW i \in 0..(m - 1) PROVE \E j \in B : place[j] = i
      OBVIOUS
    <3>1. i \in E /\ i < m
      BY <1>1, <2>1
    <3>2. PICK j \in D : place[j] = i
      BY <1>5, <3>1
    <3>. QED
      BY <2>2, <3>1, <3>2
  <2>5. \A i, j \in B : h[i] = h[j] => i = j
    BY <1>7, <2>2
  <2>6. h \in Bijection(B, 0..(m - 1))
    BY <2>3, <2>4, <2>5 DEF Bijection, Injection, Surjection, IsInjective
  <2>7. IsFiniteSet(B) /\ Rank(file, k) = Cardinality(B) + 1
    BY <1>1, BeforeFacts DEF B
  <2>. HIDE DEF h, D, E
  <2>8. Cardinality(0..(m - 1)) = Cardinality(B)
    <3>1. ExistsBijection(B, 0..(m - 1))
      BY <2>6 DEF ExistsBijection
    <3>. QED
      BY <2>7, <3>1, FS_Bijection, Zenon
  <2>9. Cardinality(0..(m - 1)) = IF 0 > m - 1 THEN 0 ELSE (m - 1) - 0 + 1
    <3>1. 0 \in Int /\ m - 1 \in Int
      BY <2>1
    <3>. QED
      BY <3>1, FS_Interval, Zenon
  <2>10. Cardinality(B) = m
    BY <2>1, <2>8, <2>9
  <2>. QED
    BY <2>1, <2>7, <2>10
<1>9. ASSUME NEW r \in D PROVE SortedByIndex(file)[r] = chain[r]
  <2>. DEFINE k == CHOOSE k \in 1..Len(file) : Rank(file, k) = r
  <2>1. k \in D /\ Rank(file, k) = r
    BY <1>1, RanksTaken
  <2>2. SortedByIndex(file)[r] = file[k]
    BY DEF SortedByIndex
  <2>. HIDE DEF k
  <2>3. file[k].index + 1 = r
    BY <1>8, <2>1
  <2>4. PICK i \in D : file[k] = chain[i]
    BY <1>2, <2>1
  <2>5. i = r
    BY <1>1, <2>3, <2>4
  <2>. QED
    BY <2>2, <2>4, <2>5
<1>. QED
  BY <1>1, <1>9, SortFacts

\* However long the log, what the platform published passes: the first entries
\* of it in any order, with the issuer's key or without signatures.
THEOREM FaithfulPasses == Spec => []FaithfulCopyPasses
<1>1. IInv /\ Justified => FaithfulCopyPasses
  <2>. SUFFICES ASSUME IInv, Justified, pc = "done", Loads(args), exit # EXIT_ERROR,
                       NEW n \in 0..Len(chain), Len(file) = n,
                       {file[k] : k \in 1..n} = {chain[k] : k \in 1..n},
                       SignaturesChecked => args.key = "issuer" \/ ~args.crypto
                PROVE  Passed
    BY DEF FaithfulCopyPasses
  <2>1. entries = SortedByIndex(file)
    BY DEF Justified
  <2>2. Len(entries) = n /\ \A r \in 1..n : entries[r] = chain[r]
    BY <2>1, FaithfulSorts
  <2>3. Len(chain) \in Nat /\ n \in Nat /\ next \in 0..n
    BY <2>2, ListFacts DEF IInv, ChainSound, TypeOK
  <2>4. \A k \in 1..n : Correct(k)
    <3>. SUFFICES ASSUME NEW k \in 1..n PROVE Correct(k)
      OBVIOUS
    <3>1. k \in 1..Len(chain) /\ entries[k] = chain[k]
            /\ (k # 1 => k - 1 \in 1..n /\ entries[k - 1] = chain[k - 1])
      BY <2>2, <2>3
    <3>2. /\ chain[k].index = k - 1 /\ chain[k].well_formed = TRUE
          /\ chain[k].entry_hash = EntryHash(chain[k]) /\ chain[k].signature = chain[k].entry_hash
          /\ chain[k].previous_entry_hash =
               IF k = 1 THEN GENESIS_PREVIOUS_HASH ELSE chain[k - 1].entry_hash
      BY <3>1 DEF IInv, ChainSound
    <3>. QED
      BY <3>1, <3>2 DEF Correct, HashValid, SignatureValid
  <2>5. valid
    <3>1. \A k \in 1..next : k \in 1..n
      BY <2>3
    <3>. QED
      BY <2>4, <3>1 DEF Justified
  <2>. QED
    BY <2>5 DEF Justified, Passed, IInv, TypeOK
<1>. QED
  BY <1>1, VerdictJustified, Invariance, PTL
-----------------------------------------------------------------------------
(* The abstract specification *)

\* Nothing is authentic before there is a verdict.
LEMMA InitRefines == Init => AH!Init
BY DEF Init, AH!Init, Authentic, Passed, NoExit, EXIT_PASS

\* While there is no verdict, a step that leaves the published chain alone
\* is none of AuthenticHistory.
LEMMA NoVerdictYet ==
  ASSUME exit = NoExit, exit' = NoExit, chain' = chain
  PROVE  UNCHANGED <<chain,
                     IF exit = NoExit THEN "none" ELSE IF Authentic THEN "authentic" ELSE "other",
                     IF Authentic THEN entries ELSE <<>>>>
BY DEF Authentic, Passed, NoExit, EXIT_PASS

\* A step that brings the verdict is Accept or Abstain: what passed with its
\* signatures checked is a prefix of what is published.
LEMMA VerdictRefines ==
  ASSUME exit = NoExit, exit' # NoExit, chain' = chain, PassedIsPublished'
  PROVE  AH!Next
<1>1. ~Authentic
  BY DEF Authentic, Passed, NoExit, EXIT_PASS
<1>2. CASE Authentic'
  <2>1. Len(entries') <= Len(chain) /\ entries' = SubSeq(chain, 1, Len(entries'))
    BY <1>2 DEF PassedIsPublished, Authentic
  <2>2. AH!Accept
    BY <1>1, <1>2, <2>1 DEF AH!Accept
  <2>. QED
    BY <2>2 DEF AH!Next
<1>3. CASE ~Authentic'
  <2>1. AH!Abstain
    BY <1>1, <1>3 DEF AH!Abstain
  <2>. QED
    BY <2>1 DEF AH!Next
<1>. QED
  BY <1>2, <1>3

\* What the platform publishes stays as it is, and is followed by one entry.
LEMMA PublishRefines ==
  ASSUME IInv, NEW b \in Bodies, Publish(b)
  PROVE  AH!Next
<1>1. exit = NoExit /\ exit' = exit /\ UNCHANGED <<args, entries>>
  BY DEF IInv, TypeOK, Publish, run
<1>2. /\ Len(chain') = Len(chain) + 1
      /\ \A i \in 1..Len(chain) : chain'[i] = chain[i]
  BY ListFacts DEF Publish, IInv, ChainSound
<1>3. ~Authentic /\ ~Authentic'
  BY <1>1 DEF Authentic, Passed, NoExit, EXIT_PASS
<1>4. AH!Publish
  BY <1>1, <1>2, <1>3 DEF AH!Publish
<1>. QED
  BY <1>4 DEF AH!Next

\* Every other step leaves the chain alone and is taken before the verdict.
LEMMA OtherStep ==
  ASSUME IInv, Next, \A b \in Bodies : ~Publish(b)
  PROVE  exit = NoExit /\ chain' = chain
<1>1. CASE Export
  BY <1>1 DEF Export, IInv, TypeOK
<1>2. CASE \E k \in 1..Len(file) : Drop(k) \/ Repeat(k) \/ Alter(k)
  BY <1>2 DEF Drop, Repeat, Alter, Fault, IInv, TypeOK
<1>3. CASE \E j, k \in 1..Len(file) : Swap(j, k)
  BY <1>3 DEF Swap, Fault, IInv, TypeOK
<1>4. CASE Start
  BY <1>4 DEF Start, IInv, TypeOK
<1>5. CASE NoInput
  BY <1>5 DEF NoInput, inputs, IInv, TypeOK
<1>6. CASE CheckEntry
  BY <1>6 DEF CheckEntry, inputs, IInv, TypeOK
<1>7. CASE Finish
  BY <1>7 DEF Finish, inputs, IInv, TypeOK
<1>. QED
  BY <1>1, <1>2, <1>3, <1>4, <1>5, <1>6, <1>7 DEF Next

\* However the copy is cut, reordered or altered on its way, every behaviour
\* of verify-log is one of AuthenticHistory: the published chain only grows,
\* there is one verdict, and with signatures checked it accepts nothing but
\* the beginning of the chain.
THEOREM Refinement == Spec => AuthenticHistorySpec
<1>. DEFINE verdict == IF exit = NoExit THEN "none" ELSE IF Authentic THEN "authentic" ELSE "other"
            accepted == IF Authentic THEN entries ELSE <<>>
<1>1. Init => AH!Init
  BY InitRefines
<1>2. IInv /\ PassedIsPublished' /\ [Next]_vars => [AH!Next]_<<chain, verdict, accepted>>
  <2>. SUFFICES ASSUME IInv, PassedIsPublished', [Next]_vars
                PROVE  [AH!Next]_<<chain, verdict, accepted>>
    OBVIOUS
  <2>1. CASE \E b \in Bodies : Publish(b)
    BY <2>1, PublishRefines
  <2>2. CASE Next /\ \A b \in Bodies : ~Publish(b)
    BY <2>2, OtherStep, NoVerdictYet, VerdictRefines
  <2>3. CASE UNCHANGED vars
    BY <2>3 DEF vars, Authentic, Passed, SignaturesChecked
  <2>. QED
    BY <2>1, <2>2, <2>3
<1>. QED
  BY <1>1, <1>2, Invariance, PassedPublished, PTL DEF Spec, AuthenticHistorySpec, AH!Spec
=============================================================================
