------------------------- MODULE RegistryChainProofs -------------------------
(***************************************************************************)
(* For any organisations and keys, any number of snapshots and of faults:  *)
(* TypeOK, PassedIsPublished, RevocationLasts and FaithfulHistoryPasses    *)
(* are invariants of RegistryChain, which implements AuthenticHistory.     *)
(***************************************************************************)
EXTENDS RegistryChain, FiniteSetTheorems, SequenceTheorems, TLAPS

\* A sequence of whatever its elements are.
IsList(s) == s \in Seq({s[i] : i \in 1..Len(s)})

\* Every sequence is a list.
LEMMA ListOf ==
  ASSUME NEW S, NEW s \in Seq(S)
  PROVE  IsList(s)
<1>. DEFINE T == {s[i] : i \in 1..Len(s)}
<1>1. Len(s) \in Nat /\ s \in [1..Len(s) -> S]
  BY LenProperties
<1>2. s \in [1..Len(s) -> T]
  BY <1>1
<1>3. s \in Seq(T)
  BY <1>1, <1>2
<1>. QED
  BY <1>3 DEF IsList

\* What Append and SubSeq return of a list.
LEMMA ListFacts ==
  ASSUME NEW s, IsList(s)
  PROVE  /\ Len(s) \in Nat /\ DOMAIN s = 1..Len(s)
         /\ \A e : /\ IsList(Append(s, e)) /\ Len(Append(s, e)) = Len(s) + 1
                   /\ \A i \in 1..Len(s) : Append(s, e)[i] = s[i]
                   /\ Append(s, e)[Len(s) + 1] = e
         /\ \A n \in 0..Len(s) : /\ IsList(SubSeq(s, 1, n)) /\ Len(SubSeq(s, 1, n)) = n
                                 /\ \A i \in 1..n : SubSeq(s, 1, n)[i] = s[i]
<1>. DEFINE S == {s[i] : i \in 1..Len(s)}
<1>1. s \in Seq(S) /\ Len(s) \in Nat
  BY LenProperties DEF IsList
<1>2. DOMAIN s = 1..Len(s) /\ \A i \in 1..Len(s) : s[i] \in S
  BY <1>1, LenProperties
<1>. HIDE DEF S
<1>3. ASSUME NEW e
      PROVE  /\ IsList(Append(s, e)) /\ Len(Append(s, e)) = Len(s) + 1
             /\ \A i \in 1..Len(s) : Append(s, e)[i] = s[i]
             /\ Append(s, e)[Len(s) + 1] = e
  <2>1. s \in Seq(S \cup {e}) /\ e \in S \cup {e}
    BY <1>1, SeqMonotonic
  <2>2. Append(s, e) \in Seq(S \cup {e})
    BY <2>1
  <2>3. IsList(Append(s, e))
    BY <2>2, ListOf
  <2>. QED
    BY <2>1, <2>3, <1>2
<1>4. ASSUME NEW n \in 0..Len(s)
      PROVE  /\ IsList(SubSeq(s, 1, n)) /\ Len(SubSeq(s, 1, n)) = n
             /\ \A i \in 1..n : SubSeq(s, 1, n)[i] = s[i]
  <2>1. SubSeq(s, 1, n) \in Seq(S) /\ Len(SubSeq(s, 1, n)) = n
           /\ \A i \in 1..n : SubSeq(s, 1, n)[i] = s[i]
    BY <1>1, <1>2
  <2>. QED
    BY <2>1, ListOf
<1>. QED
  BY <1>1, <1>2, <1>3, <1>4

\* A function on 1..n is a list of length n.
LEMMA TupleList ==
  ASSUME NEW n \in Nat, NEW s, s = [i \in 1..n |-> s[i]]
  PROVE  IsList(s) /\ Len(s) = n
<1>. DEFINE S == {s[i] : i \in 1..n}
<1>1. s \in [1..n -> S]
  OBVIOUS
<1>2. s \in Seq(S) /\ Len(s) = n
  BY <1>1
<1>. QED
  BY <1>2, ListOf

\* Lists that agree in length and everywhere are equal.
LEMMA ListEqual ==
  ASSUME NEW s, NEW t, IsList(s), IsList(t), Len(s) = Len(t),
         \A i \in 1..Len(s) : s[i] = t[i]
  PROVE  s = t
<1>. DEFINE S == {s[i] : i \in 1..Len(s)} \cup {t[i] : i \in 1..Len(t)}
<1>1. s \in Seq(S) /\ t \in Seq(S)
  BY SeqMonotonic DEF IsList
<1>. HIDE DEF S
<1>. QED
  BY <1>1, SeqEqual

\* The empty sequence is a list.
LEMMA EmptyList == IsList(<<>>) /\ Len(<<>>) = 0
<1>1. <<>> \in Seq({1}) /\ Len(<<>>) = 0
  OBVIOUS
<1>. QED
  BY <1>1, ListOf

\* What EXCEPT returns of a list.
LEMMA ExceptList ==
  ASSUME NEW s, IsList(s), NEW i \in 1..Len(s), NEW e
  PROVE  /\ IsList([s EXCEPT ![i] = e]) /\ Len([s EXCEPT ![i] = e]) = Len(s)
         /\ \A j \in 1..Len(s) : [s EXCEPT ![i] = e][j] = IF j = i THEN e ELSE s[j]
<1>. DEFINE S == {s[k] : k \in 1..Len(s)} \cup {e}
<1>1. s \in Seq(S) /\ e \in S
  BY SeqMonotonic DEF IsList
<1>. HIDE DEF S
<1>2. /\ [s EXCEPT ![i] = e] \in Seq(S) /\ Len([s EXCEPT ![i] = e]) = Len(s)
      /\ \A j \in 1..Len(s) : [s EXCEPT ![i] = e][j] = IF j = i THEN e ELSE s[j]
  BY <1>1, ExceptSeq
<1>. QED
  BY <1>2, ListOf
-----------------------------------------------------------------------------
(* Sorting *)

\* What parses is finitely many of the files.
LEMMA ReadableFacts ==
  ASSUME IsList(files)
  PROVE  /\ Readable \in SUBSET (1..Len(files)) /\ Len(files) \in Nat
         /\ Cardinality(Readable) \in 0..Len(files)
         /\ Cardinality(Readable) = Len(files) => Readable = 1..Len(files)
         /\ Cardinality(Readable) = 0 <=> Readable = {}
<1>1. Len(files) \in Nat
  BY ListFacts
<1>2. IsFiniteSet(1..Len(files)) /\ Cardinality(1..Len(files)) = Len(files)
  <2>. DEFINE n == Len(files)
  <2>. HIDE DEF n
  <2>1. n \in Nat
    BY <1>1 DEF n
  <2>2. IsFiniteSet(1..n) /\ Cardinality(1..n) = IF 1 > n THEN 0 ELSE n - 1 + 1
    BY <2>1, FS_Interval
  <2>3. Cardinality(1..n) = n
    BY <2>1, <2>2
  <2>. QED
    BY <2>2, <2>3 DEF n
<1>3. Readable \in SUBSET (1..Len(files))
  BY DEF Readable
<1>4. /\ IsFiniteSet(Readable) /\ Cardinality(Readable) <= Len(files)
      /\ Cardinality(Readable) = Len(files) => Readable = 1..Len(files)
  BY <1>2, <1>3, FS_Subset
<1>5. Cardinality(Readable) \in Nat
  BY <1>4, FS_CardinalityType
<1>6. Cardinality(Readable) = 0 <=> Readable = {}
  BY <1>4, FS_EmptySet
<1>. QED
  BY <1>1, <1>3, <1>4, <1>5, <1>6

\* A set of naturals has a least element.
LEMMA LeastOf ==
  ASSUME NEW S \in SUBSET Nat, S # {}
  PROVE  \E x \in S : \A y \in S : x <= y
<1>1. PICK x \in S : \A y \in S : ~(<<y, x>> \in OpToRel(<, Nat))
  BY NatLessThanWellFounded, WFMin
<1>2. \A y \in S : ~(y < x)
  BY <1>1 DEF OpToRel
<1>. QED
  BY <1>2

\* Only the identity maps 1..n to itself with every value above the one before.
LEMMA IncreasingIsIdentity ==
  ASSUME NEW n \in Nat, NEW v \in [1..n -> 1..n],
         \A r \in 2..n : v[r - 1] < v[r]
  PROVE  \A r \in 1..n : v[r] = r
<1>1. ASSUME NEW q \in 1..n, v[q] < q PROVE FALSE
  <2>. DEFINE S == {r \in 1..n : v[r] < r}
  <2>1. S \in SUBSET Nat /\ q \in S
    BY <1>1
  <2>2. PICK r \in S : \A y \in S : r <= y
    BY <2>1, LeastOf
  <2>3. r \in 2..n /\ v[r] < r
    BY <2>2
  <2>4. r - 1 \in 1..n /\ r - 1 \notin S
    BY <2>2, <2>3
  <2>5. ~(v[r - 1] < r - 1)
    BY <2>4
  <2>. QED
    BY <2>3, <2>4, <2>5
<1>2. ASSUME NEW q \in 1..n, v[q] > q PROVE FALSE
  <2>. DEFINE S == {d \in 0..(n - 1) : v[n - d] > n - d}
  <2>1. S \in SUBSET Nat /\ n - q \in S
    BY <1>2
  <2>2. PICK d \in S : \A y \in S : d <= y
    BY <2>1, LeastOf
  <2>3. d \in 1..(n - 1) /\ v[n - d] > n - d
    BY <2>2
  <2>4. d - 1 \in 0..(n - 1) /\ ~(d <= d - 1)
    BY <2>3
  <2>5. ~(v[n - (d - 1)] > n - (d - 1))
    BY <2>2, <2>4
  <2>6. n - (d - 1) \in 2..n /\ n - (d - 1) - 1 = n - d /\ n - d \in 1..n
    BY <2>3
  <2>7. v[n - d] < v[n - (d - 1)]
    BY <2>6
  <2>. QED
    BY <2>3, <2>5, <2>6, <2>7
<1>. QED
  BY <1>1, <1>2
-----------------------------------------------------------------------------
(* The invariant *)

IsSnapshot(s) ==
  /\ s = [version |-> s.version, previous_registry_hash |-> s.previous_registry_hash,
          witnesses |-> s.witnesses, nulls |-> s.nulls, registry_hash |-> s.registry_hash,
          registry_signature |-> s.registry_signature, parses |-> s.parses]
  /\ s.version \in Nat /\ s.parses \in BOOLEAN /\ s.nulls = explicit

\* What the authority published is numbered, linked, hashed and signed as it
\* should.
ChainSound ==
  /\ IsList(chain)
  /\ \A i \in 1..Len(chain) : /\ IsSnapshot(chain[i])
                              /\ chain[i].version = i
                              /\ chain[i].parses = TRUE
                              /\ chain[i].registry_hash = Hash(chain[i])
                              /\ chain[i].registry_signature = chain[i].registry_hash
  /\ \A i \in 2..Len(chain) : chain[i].previous_registry_hash = chain[i - 1].registry_hash
  /\ chain # <<>> => chain[1].previous_registry_hash = GENESIS_HASH

\* Nothing that happens to the directory makes a new signature.
Genuine(s) ==
  IsSnapshot(s) /\ \E j \in 1..Len(chain) : s.registry_signature = chain[j].registry_signature

FilesGenuine ==
  /\ IsList(files) /\ \A k \in 1..Len(files) : Genuine(files[k])
  /\ IsList(snapshots) /\ \A k \in 1..Len(snapshots) : Genuine(snapshots[k])

\* verify-chain goes through the files that parse, sorted.
Sorted ==
  pc = "check" \/ next # 0 =>
    /\ Len(snapshots) = Cardinality(Readable) /\ snapshots # <<>>
    /\ \E p \in SortedListings : \A r \in 1..Len(snapshots) : snapshots[r] = files[p[r]]

\* How far a command is, and what it decides on.
Stages ==
  /\ pc \in {"publish", "transit"} => next = 0 /\ snapshots = <<>>
  /\ pc # "done" => exit = NoExit
  /\ pc = "done" /\ next # 0 =>
       next = Len(snapshots) /\ exit = IF chain_valid THEN EXIT_PASS ELSE EXIT_FAIL
  /\ pc = "done" /\ next = 0 /\ exit # EXIT_ERROR =>
       /\ \E k \in 1..Len(files) : files[k].parses /\ snapshots = <<files[k]>>
       /\ exit = IF SnapshotValid(snapshots[1], sigs) THEN EXIT_PASS ELSE EXIT_FAIL

Linked(k) ==
  /\ k = 1 => snapshots[k].previous_registry_hash = GENESIS_HASH
  /\ k # 1 => /\ snapshots[k].previous_registry_hash = snapshots[k - 1].registry_hash
              /\ snapshots[k].version > snapshots[k - 1].version
              /\ ~RevocationsUndone(snapshots[k - 1], snapshots[k])

\* chain_valid says whether all that the loop has passed is valid and linked.
Checked ==
  chain_valid <=> \A k \in 1..next : SnapshotValid(snapshots[k], sigs) /\ Linked(k)

\* Against the authority's key, what the loop has passed is what the authority
\* published first.
Prefix ==
  chain_valid /\ sigs = "authority" =>
    next <= Len(chain) /\ \A k \in 1..next : snapshots[k] = chain[k]

\* Of what the loop has passed, signatures checked or not, the last hash fixes
\* all the hashes before it.
Pinned ==
  chain_valid /\ next # 0 =>
    \A n \in 1..Len(chain) : snapshots[next].registry_hash = chain[n].registry_hash =>
      next = n /\ \A k \in 1..n : Hash(snapshots[k]) = Hash(chain[k])

\* Of what the loop has passed, who is revoked stays revoked.
Lasting ==
  chain_valid =>
    \A i, j \in 1..next : i < j =>
      \A o \in Orgs :
        /\ (\A n \in i..j : o \in DOMAIN snapshots[n].witnesses) =>
             (snapshots[i].witnesses[o].status = "revoked" =>
                snapshots[j].witnesses[o].status = "revoked")
        /\ \A k \in Keys :
             (\A n \in i..j : KeyListed(snapshots[n], o, k)) =>
               (snapshots[i].witnesses[o].keys[k] = "revoked" =>
                  snapshots[j].witnesses[o].keys[k] = "revoked")

IInv ==
  /\ TypeOK /\ ChainSound /\ FilesGenuine /\ Sorted /\ Stages
  /\ Checked /\ Prefix /\ Pinned /\ Lasting

\* While nothing has been checked there is nothing to say of it.
LEMMA NothingChecked ==
  ASSUME next' = 0, chain_valid', chain_valid' \in BOOLEAN, ChainSound'
  PROVE  Checked' /\ Prefix' /\ Pinned' /\ Lasting'
<1>1. Len(chain') \in Nat
  BY ListFacts DEF ChainSound
<1>. QED
  BY <1>1 DEF Checked, Prefix, Pinned, Lasting

\* The invariant holds before anything is published.
LEMMA InitIInv == Init => IInv
<1>. SUFFICES ASSUME Init PROVE IInv
  OBVIOUS
<1>1. TypeOK
  BY RegistryBoundsOK, EmptyList
  DEF Init, TypeOK, SignatureModes, NoExit, EXIT_PASS, EXIT_FAIL, EXIT_ERROR
<1>2. ChainSound /\ FilesGenuine
  BY EmptyList DEF Init, ChainSound, FilesGenuine
<1>3. Sorted /\ Stages
  BY DEF Init, Sorted, Stages
<1>4. Checked /\ Prefix /\ Pinned /\ Lasting
  BY EmptyList DEF Init, Checked, Prefix, Pinned, Lasting
<1>. QED
  BY <1>1, <1>2, <1>3, <1>4 DEF IInv

\* Before a command starts nothing has been checked.
LEMMA NotStarted ==
  ASSUME IInv, pc \in {"publish", "transit"}
  PROVE  next = 0 /\ snapshots = <<>> /\ chain_valid /\ exit = NoExit
<1>1. next = 0 /\ snapshots = <<>> /\ exit = NoExit
  BY DEF IInv, Stages
<1>2. chain_valid
  BY <1>1 DEF IInv, Checked
<1>. QED
  BY <1>1, <1>2

\* A published snapshot is numbered, linked and signed as ChainSound says.
LEMMA PublishedKeepsIInv ==
  ASSUME IInv, NEW w \in Registries, Published(w)
  PROVE  IInv'
<1>. DEFINE previous == IF chain = <<>> THEN GENESIS_HASH ELSE chain[Len(chain)].registry_hash
            s == NewSnapshot(Len(chain) + 1, previous, w)
<1>1. /\ chain' = Append(chain, s) /\ Len(chain) < MaxVersion /\ Len(chain) \in Nat
      /\ UNCHANGED <<explicit, files, faults, pc, run>> /\ pc = "publish"
  BY ListFacts DEF Published, IInv, ChainSound
<1>2. /\ IsSnapshot(s) /\ s.version = Len(chain) + 1 /\ s.parses = TRUE
      /\ s.registry_hash = Hash(s) /\ s.registry_signature = s.registry_hash
      /\ s.previous_registry_hash = previous /\ s.witnesses = w
  <2>. HIDE DEF previous
  <2>. QED
    BY <1>1 DEF NewSnapshot, IsSnapshot, Hash
<1>. HIDE DEF s
<1>3. /\ IsList(chain') /\ Len(chain') = Len(chain) + 1
      /\ \A i \in 1..Len(chain) : chain'[i] = chain[i]
      /\ chain'[Len(chain) + 1] = s
  BY <1>1, ListFacts DEF IInv, ChainSound
<1>4. \A i \in 1..Len(chain') : i \in 1..Len(chain) \/ i = Len(chain) + 1
  <2>. HIDE DEF previous
  <2>. QED
    BY <1>1, <1>3
<1>5. TypeOK'
  <2>1. \A i \in 1..Len(chain') : chain'[i].witnesses \in Registries
    BY <1>2, <1>3, <1>4 DEF IInv, TypeOK
  <2>. QED
    BY <1>1, <2>1 DEF IInv, TypeOK, run
<1>6. \A x : IsSnapshot(x) => IsSnapshot(x)'
  BY <1>1 DEF IsSnapshot
<1>7. ChainSound'
  <2>1. ASSUME NEW i \in 1..Len(chain')
        PROVE  /\ IsSnapshot(chain[i])'
               /\ chain'[i].version = i
               /\ chain'[i].parses = TRUE
               /\ chain'[i].registry_hash = Hash(chain'[i])
               /\ chain'[i].registry_signature = chain'[i].registry_hash
    <3>1. CASE i \in 1..Len(chain)
      BY <3>1, <1>1, <1>3 DEF IInv, ChainSound, IsSnapshot
    <3>2. CASE i = Len(chain) + 1
      BY <3>2, <1>1, <1>2, <1>3 DEF IsSnapshot
    <3>. QED
      BY <3>1, <3>2, <1>4
  <2>2. ASSUME NEW i \in 2..Len(chain')
        PROVE  chain'[i].previous_registry_hash = chain'[i - 1].registry_hash
    <3>1. i - 1 \in 1..Len(chain) /\ chain'[i - 1] = chain[i - 1]
      BY <1>1, <1>3
    <3>2. CASE i \in 2..Len(chain)
      BY <3>1, <3>2, <1>1, <1>3 DEF IInv, ChainSound
    <3>3. CASE i = Len(chain) + 1
      <4>1. chain # <<>>
        BY <3>1, <1>1, EmptyList
      <4>. QED
        BY <3>1, <3>3, <4>1, <1>1, <1>2, <1>3
    <3>. QED
      BY <3>2, <3>3, <1>1, <1>3
  <2>3. chain'[1].previous_registry_hash = GENESIS_HASH
    <3>1. CASE chain = <<>>
      BY <3>1, <1>2, <1>3, EmptyList
    <3>2. CASE chain # <<>>
      <4>1. Len(chain) # 0
        BY <3>2, EmptyList, ListEqual DEF IInv, ChainSound
      <4>2. 1 \in 1..Len(chain)
        BY <4>1, <1>1
      <4>. QED
        BY <3>2, <4>2, <1>3 DEF IInv, ChainSound
    <3>. QED
      BY <3>1, <3>2
  <2>. QED
    BY <2>1, <2>2, <2>3, <1>3 DEF ChainSound
<1>8. FilesGenuine'
  BY <1>1, <1>3, <1>6 DEF IInv, FilesGenuine, Genuine, run
<1>9. Sorted' /\ Stages'
  BY <1>1, NotStarted DEF IInv, Sorted, Stages, run
<1>10. Checked' /\ Prefix' /\ Pinned' /\ Lasting'
  BY <1>1, <1>7, NotStarted, NothingChecked DEF IInv, TypeOK, run
<1>. QED
  BY <1>5, <1>7, <1>8, <1>9, <1>10 DEF IInv

\* What a partial function is.
LEMMA PartialFunctionFacts ==
  ASSUME NEW D, NEW R, NEW f
  PROVE  f \in PartialFunctions(D, R) <=> DOMAIN f \in SUBSET D /\ f \in [DOMAIN f -> R]
BY DEF PartialFunctions

\* An update makes a registry out of a registry.
LEMMA UpdateKeepsIInv ==
  ASSUME IInv, NEW o \in Orgs, Update(o)
  PROVE  IInv'
<1>. DEFINE W == [status : Statuses, keys : PartialFunctions(Keys, Statuses)]
            w == chain[Len(chain)].witnesses
            With(v) == [p \in DOMAIN w \cup {o} |-> IF p = o THEN v ELSE w[p]]
<1>1. w \in Registries
  <2>1. Len(chain) \in Nat /\ IsList(chain) /\ chain # <<>>
    BY ListFacts DEF IInv, ChainSound, Update
  <2>2. Len(chain) # 0
    BY <2>1, EmptyList, ListEqual
  <2>. QED
    BY <2>1, <2>2 DEF IInv, TypeOK
<1>2. Registries = PartialFunctions(Orgs, W)
  BY DEF Registries
<1>3. PICK f : /\ Published(f)
               /\ \/ \E v \in W : f = With(v)
                  \/ f = [p \in DOMAIN w \ {o} |-> w[p]]
                  \/ o \in DOMAIN w /\ \E s \in Statuses : f = With([w[o] EXCEPT !.status = s])
                  \/ o \in DOMAIN w /\ \E ks \in PartialFunctions(Keys, Statuses) :
                                         f = With([w[o] EXCEPT !.keys = ks])
  BY DEF Update
<1>. HIDE DEF w, W
<1>4. DOMAIN w \in SUBSET Orgs /\ w \in [DOMAIN w -> W]
  BY <1>1, <1>2, PartialFunctionFacts
<1>5. \A v \in W : With(v) \in Registries
  <2>. SUFFICES ASSUME NEW v \in W PROVE With(v) \in Registries
    OBVIOUS
  <2>1. DOMAIN With(v) \in SUBSET Orgs /\ With(v) \in [DOMAIN With(v) -> W]
    BY <1>4
  <2>. HIDE DEF With
  <2>. QED
    BY <2>1, <1>2, PartialFunctionFacts
<1>6. [p \in DOMAIN w \ {o} |-> w[p]] \in Registries
  <2>. DEFINE g == [p \in DOMAIN w \ {o} |-> w[p]]
  <2>1. DOMAIN g \in SUBSET Orgs /\ g \in [DOMAIN g -> W]
    BY <1>4
  <2>. HIDE DEF g
  <2>2. g \in Registries
    BY <2>1, <1>2, PartialFunctionFacts
  <2>. QED
    BY <2>2 DEF g
<1>7. o \in DOMAIN w => /\ \A s \in Statuses : [w[o] EXCEPT !.status = s] \in W
                        /\ \A ks \in PartialFunctions(Keys, Statuses) :
                             [w[o] EXCEPT !.keys = ks] \in W
  <2>. SUFFICES ASSUME o \in DOMAIN w
                PROVE  /\ \A s \in Statuses : [w[o] EXCEPT !.status = s] \in W
                       /\ \A ks \in PartialFunctions(Keys, Statuses) :
                            [w[o] EXCEPT !.keys = ks] \in W
    OBVIOUS
  <2>. DEFINE v == w[o]
  <2>1. v \in W
    BY <1>4
  <2>. HIDE DEF v
  <2>2. /\ \A s \in Statuses : [v EXCEPT !.status = s] \in W
        /\ \A ks \in PartialFunctions(Keys, Statuses) : [v EXCEPT !.keys = ks] \in W
    BY <2>1 DEF W
  <2>. QED
    BY <2>2 DEF v
<1>. HIDE DEF With
<1>8. f \in Registries
  BY <1>3, <1>5, <1>6, <1>7
<1>. QED
  BY <1>3, <1>8, PublishedKeepsIInv

\* The first snapshot is an update of nothing.
LEMMA GenesisKeepsIInv ==
  ASSUME IInv, Genesis
  PROVE  IInv'
BY PublishedKeepsIInv DEF Genesis

\* What the directory holds may change before a command starts, if it is
\* genuine.
LEMMA FilesKeepIInv ==
  ASSUME IInv, pc \in {"publish", "transit"}, pc' = "transit",
         UNCHANGED <<explicit, chain, run>>, faults' \in 0..MaxFaults,
         IsList(files'), \A k \in 1..Len(files') : Genuine(files'[k])
  PROVE  IInv'
<1>. USE DEF run
<1>1. TypeOK'
  <2>1. Len(files') \in Nat /\ Len(snapshots') = 0 /\ next' = 0
    BY NotStarted, ListFacts, EmptyList
  <2>. QED
    BY <2>1 DEF IInv, TypeOK
<1>2. ChainSound'
  BY DEF IInv, ChainSound, IsSnapshot
<1>3. FilesGenuine'
  BY DEF IInv, FilesGenuine, Genuine, IsSnapshot
<1>4. Sorted' /\ Stages'
  BY NotStarted DEF Sorted, Stages
<1>5. Checked' /\ Prefix' /\ Pinned' /\ Lasting'
  BY <1>2, NotStarted, NothingChecked DEF IInv, TypeOK
<1>. QED
  BY <1>1, <1>2, <1>3, <1>4, <1>5 DEF IInv

\* The directory starts out as the chain, in any order.
LEMMA ExportKeepsIInv ==
  ASSUME IInv, Export
  PROVE  IInv'
<1>1. PICK p \in Bijection(1..Len(chain), 1..Len(chain)) :
             files' = [k \in 1..Len(chain) |-> chain[p[k]]]
  BY DEF Export
<1>2. p \in [1..Len(chain) -> 1..Len(chain)] /\ Len(chain) \in Nat
  BY ListFacts DEF Bijection, Injection, IInv, ChainSound
<1>3. files' = [k \in 1..Len(chain) |-> files'[k]]
  BY <1>1
<1>4. IsList(files') /\ Len(files') = Len(chain)
  BY <1>2, <1>3, TupleList
<1>5. \A k \in 1..Len(files') : Genuine(files'[k])
  BY <1>1, <1>2, <1>4 DEF IInv, ChainSound, Genuine
<1>6. faults' \in 0..MaxFaults
  BY DEF Export, IInv, TypeOK
<1>. QED
  BY <1>4, <1>5, <1>6, FilesKeepIInv DEF Export

\* A fault keeps the invariant if what it puts into the directory is genuine.
LEMMA FaultKeepsIInv ==
  ASSUME IInv, NEW f, Fault(f), IsList(f), \A k \in 1..Len(f) : Genuine(f[k])
  PROVE  IInv'
<1>1. faults' \in 0..MaxFaults
  BY RegistryBoundsOK DEF Fault, IInv, TypeOK
<1>. QED
  BY <1>1, FilesKeepIInv DEF Fault

\* The fault that loses a file.
LEMMA LoseKeepsIInv ==
  ASSUME IInv, NEW k \in 1..Len(files), Lose(k)
  PROVE  IInv'
<1>. DEFINE f == [j \in 1..(Len(files) - 1) |-> IF j < k THEN files[j] ELSE files[j + 1]]
<1>1. Len(files) \in Nat /\ Len(files) - 1 \in Nat
  BY ListFacts DEF IInv, FilesGenuine
<1>2. f = [j \in 1..(Len(files) - 1) |-> f[j]]
  OBVIOUS
<1>3. \A j \in 1..(Len(files) - 1) : \E i \in 1..Len(files) : f[j] = files[i]
  BY <1>1
<1>4. Fault(f)
  BY DEF Lose
<1>. HIDE DEF f
<1>5. IsList(f) /\ Len(f) = Len(files) - 1
  BY <1>1, <1>2, TupleList
<1>6. \A j \in 1..Len(f) : Genuine(f[j])
  BY <1>3, <1>5 DEF IInv, FilesGenuine
<1>. QED
  BY <1>4, <1>5, <1>6, FaultKeepsIInv

\* The fault that copies a file.
LEMMA CopyKeepsIInv ==
  ASSUME IInv, NEW k \in 1..Len(files), Copy(k)
  PROVE  IInv'
<1>. DEFINE f == Append(files, files[k])
<1>1. /\ IsList(f) /\ Len(f) = Len(files) + 1 /\ Len(files) \in Nat
      /\ \A j \in 1..Len(files) : f[j] = files[j]
      /\ f[Len(files) + 1] = files[k]
  BY ListFacts DEF IInv, FilesGenuine
<1>2. Fault(f)
  BY DEF Copy
<1>. HIDE DEF f
<1>3. ASSUME NEW j \in 1..Len(f) PROVE Genuine(f[j])
  <2>1. j \in 1..Len(files) \/ j = Len(files) + 1
    BY <1>1
  <2>. QED
    BY <2>1, <1>1 DEF IInv, FilesGenuine
<1>. QED
  BY <1>1, <1>2, <1>3, FaultKeepsIInv

\* The fault that changes a field: no value of it is a new signature.
LEMMA AlterKeepsIInv ==
  ASSUME IInv, NEW k \in 1..Len(files), Alter(k)
  PROVE  IInv'
<1>1. PICK e \in Alterations(files[k]) : Fault([files EXCEPT ![k] = e])
  BY DEF Alter
<1>. DEFINE f == [files EXCEPT ![k] = e]
            o == files[k]
<1>2. \A j \in 1..Len(files) : Genuine(files[j])
  BY DEF IInv, FilesGenuine
<1>3. Genuine(o)
  BY <1>2
<1>4. Genuine(e)
  <2>1. CASE \E n \in 1..MaxVersion : e = [o EXCEPT !.version = n]
    BY <2>1, <1>3, RegistryBoundsOK DEF IsSnapshot, Genuine
  <2>2. CASE \E j \in 1..Len(files) : e = [o EXCEPT !.witnesses = files[j].witnesses]
    BY <2>2, <1>3 DEF IsSnapshot, Genuine
  <2>3. CASE \E j \in 1..Len(files) :
                e = [o EXCEPT !.previous_registry_hash = files[j].registry_hash]
    BY <2>3, <1>3 DEF IsSnapshot, Genuine
  <2>4. CASE \E j \in 1..Len(files) : e = [o EXCEPT !.registry_hash = files[j].registry_hash]
    BY <2>4, <1>3 DEF IsSnapshot, Genuine
  <2>5. CASE e = [o EXCEPT !.registry_hash = Hash(o)]
    BY <2>5, <1>3 DEF IsSnapshot, Genuine
  <2>6. CASE \E j \in 1..Len(files) :
                e = [o EXCEPT !.registry_signature = files[j].registry_signature]
    <3>1. PICK j \in 1..Len(files) :
                 e = [o EXCEPT !.registry_signature = files[j].registry_signature]
      BY <2>6
    <3>. DEFINE s == files[j].registry_signature
    <3>2. \E i \in 1..Len(chain) : s = chain[i].registry_signature
      BY <1>2 DEF Genuine
    <3>3. e = [o EXCEPT !.registry_signature = s] /\ IsSnapshot(o)
      BY <3>1, <1>3 DEF Genuine
    <3>. HIDE DEF s, o
    <3>4. IsSnapshot(e) /\ e.registry_signature = s
      BY <3>3 DEF IsSnapshot
    <3>. QED
      BY <3>2, <3>4 DEF Genuine
  <2>7. CASE e = [o EXCEPT !.parses = FALSE]
    BY <2>7, <1>3 DEF IsSnapshot, Genuine
  <2>. HIDE DEF o
  <2>8. e \in Alterations(o)
    BY <1>1 DEF o
  <2>. QED
    BY <2>1, <2>2, <2>3, <2>4, <2>5, <2>6, <2>7, <2>8 DEF Alterations
<1>. HIDE DEF o
<1>5. /\ IsList(f) /\ Len(f) = Len(files)
      /\ \A j \in 1..Len(files) : f[j] = IF j = k THEN e ELSE files[j]
  <2>1. IsList(files)
    BY DEF IInv, FilesGenuine
  <2>2. IsList(f) /\ Len(f) = Len(files)
    BY <2>1, ExceptList
  <2>3. ASSUME NEW j \in 1..Len(files) PROVE f[j] = IF j = k THEN e ELSE files[j]
    BY <2>1, ExceptList
  <2>. QED
    BY <2>1, <2>2, <2>3
<1>. HIDE DEF f
<1>6. \A j \in 1..Len(f) : Genuine(f[j])
  BY <1>2, <1>4, <1>5
<1>7. Fault(f)
  BY <1>1 DEF f
<1>. QED
  BY <1>5, <1>6, <1>7, FaultKeepsIInv

\* Nothing that parses is lost in sorting, and nothing comes from elsewhere.
LEMMA VerifyChainKeepsIInv ==
  ASSUME IInv, VerifyChain
  PROVE  IInv'
<1>. DEFINE n == Cardinality(Readable)
<1>1. /\ pc = "transit" /\ sigs' \in SignatureModes
      /\ UNCHANGED <<explicit, chain, files, faults, next, chain_valid>>
      /\ IF Readable = {} THEN pc' = "done" /\ exit' = EXIT_ERROR
         ELSE pc' = "check" /\ exit' = exit
  BY DEF VerifyChain, inputs
<1>2. PICK p \in SortedListings : snapshots' = [r \in 1..n |-> files[p[r]]]
  BY DEF VerifyChain
<1>3. p \in [1..n -> Readable]
  BY DEF SortedListings, Listings, Bijection, Injection
<1>4. /\ n \in 0..Len(files) /\ n \in Nat /\ Len(files) \in Nat
      /\ Readable \in SUBSET (1..Len(files))
      /\ n = 0 <=> Readable = {}
  BY ReadableFacts DEF IInv, FilesGenuine
<1>. HIDE DEF n
<1>5. snapshots' = [r \in 1..n |-> snapshots'[r]]
  BY <1>2
<1>6. IsList(snapshots') /\ Len(snapshots') = n
  BY <1>4, <1>5, TupleList
<1>7. TypeOK'
  <2>1. next' \in 0..Len(snapshots') /\ Len(snapshots') <= Len(files') /\ next' = 0
    BY <1>1, <1>4, <1>6, NotStarted
  <2>. QED
    BY <1>1, <2>1 DEF IInv, TypeOK, NoExit, EXIT_ERROR
<1>8. ChainSound'
  BY <1>1 DEF IInv, ChainSound, IsSnapshot
<1>9. FilesGenuine'
  <2>1. \A r \in 1..n : p[r] \in 1..Len(files) /\ snapshots'[r] = files[p[r]]
    BY <1>2, <1>3, <1>4
  <2>2. \A r \in 1..n : Genuine(snapshots'[r])
    BY <2>1 DEF IInv, FilesGenuine
  <2>. QED
    BY <1>1, <1>6, <2>2 DEF IInv, FilesGenuine, Genuine, IsSnapshot
<1>10. Sorted'
  <2>1. CASE Readable = {}
    BY <1>1, <2>1, NotStarted DEF Sorted
  <2>2. CASE Readable # {}
    <3>1. snapshots' # <<>>
      BY <2>2, <1>4, <1>6, EmptyList
    <3>2. Readable' = Readable /\ SortedListings' = SortedListings
      BY <1>1 DEF Readable, SortedListings, Listings, SortedBefore
    <3>3. \A r \in 1..Len(snapshots') : snapshots'[r] = files'[p[r]]
      BY <1>1, <1>2, <1>6
    <3>. QED
      BY <1>2, <1>6, <3>1, <3>2, <3>3 DEF Sorted, n
  <2>. QED
    BY <2>1, <2>2
<1>11. Stages'
  BY <1>1, NotStarted DEF Stages, EXIT_ERROR
<1>12. Checked' /\ Prefix' /\ Pinned' /\ Lasting'
  BY <1>1, <1>8, NotStarted, NothingChecked DEF IInv, TypeOK
<1>. QED
  BY <1>7, <1>8, <1>9, <1>10, <1>11, <1>12 DEF IInv

\* A key file that cannot be read decides nothing.
LEMMA KeyUnreadableKeepsIInv ==
  ASSUME IInv, KeyUnreadable
  PROVE  IInv'
<1>. USE DEF KeyUnreadable, inputs
<1>1. TypeOK'
  BY DEF IInv, TypeOK, NoExit, EXIT_ERROR
<1>2. ChainSound'
  BY DEF IInv, ChainSound, IsSnapshot
<1>3. FilesGenuine'
  BY DEF IInv, FilesGenuine, Genuine, IsSnapshot
<1>4. Sorted' /\ Stages'
  BY NotStarted DEF Sorted, Stages, EXIT_ERROR
<1>5. Checked' /\ Prefix' /\ Pinned' /\ Lasting'
  BY <1>2, NotStarted, NothingChecked DEF IInv, TypeOK
<1>. QED
  BY <1>1, <1>2, <1>3, <1>4, <1>5 DEF IInv

\* A single snapshot is one of the files.
LEMMA VerifySnapshotKeepsIInv ==
  ASSUME IInv, NEW k \in 1..Len(files), VerifySnapshot(k)
  PROVE  IInv'
<1>1. /\ pc = "transit" /\ pc' = "done" /\ sigs' \in SignatureModes
      /\ snapshots' = <<files[k]>>
      /\ exit' = IF ~files[k].parses THEN EXIT_ERROR
                 ELSE IF SnapshotValid(files[k], sigs') THEN EXIT_PASS ELSE EXIT_FAIL
      /\ UNCHANGED <<explicit, chain, files, faults, next, chain_valid>>
  BY DEF VerifySnapshot, inputs
<1>2. IsList(snapshots') /\ Len(snapshots') = 1 /\ snapshots'[1] = files[k]
  <2>. DEFINE s == files[k]
  <2>. HIDE DEF s
  <2>1. <<s>> \in Seq({s}) /\ Len(<<s>>) = 1 /\ <<s>>[1] = s
    OBVIOUS
  <2>2. IsList(<<s>>)
    BY <2>1, ListOf
  <2>. QED
    BY <1>1, <2>1, <2>2 DEF s
<1>3. Len(files) \in Nat
  BY ListFacts DEF IInv, FilesGenuine
<1>4. TypeOK'
  <2>1. next' \in 0..Len(snapshots') /\ Len(snapshots') <= Len(files') /\ next' = 0
    BY <1>1, <1>2, <1>3, NotStarted
  <2>2. exit' \in {NoExit, EXIT_PASS, EXIT_FAIL, EXIT_ERROR}
    BY <1>1
  <2>. QED
    BY <1>1, <2>1, <2>2 DEF IInv, TypeOK
<1>5. ChainSound'
  BY <1>1 DEF IInv, ChainSound, IsSnapshot
<1>6. FilesGenuine'
  BY <1>1, <1>2, <1>3 DEF IInv, FilesGenuine, Genuine, IsSnapshot
<1>7. Sorted'
  BY <1>1, NotStarted DEF Sorted
<1>8. Stages'
  <2>1. ASSUME exit' # EXIT_ERROR
        PROVE  /\ \E j \in 1..Len(files') : files'[j].parses /\ snapshots' = <<files'[j]>>
               /\ exit' = IF SnapshotValid(snapshots'[1], sigs') THEN EXIT_PASS ELSE EXIT_FAIL
    <3>1. files[k].parses
      BY <2>1, <1>1
    <3>. QED
      BY <3>1, <1>1, <1>2
  <2>. QED
    BY <1>1, <2>1, NotStarted DEF Stages
<1>9. Checked' /\ Prefix' /\ Pinned' /\ Lasting'
  BY <1>1, <1>5, NotStarted, NothingChecked DEF IInv, TypeOK
<1>. QED
  BY <1>4, <1>5, <1>6, <1>7, <1>8, <1>9 DEF IInv

\* Hashes of snapshots differ from GENESIS_HASH, and equal ones are of
\* snapshots with equal fields.
LEMMA HashFacts ==
  ASSUME NEW s, NEW t
  PROVE  /\ Hash(s) # GENESIS_HASH
         /\ Hash(s) = Hash(t) => /\ s.version = t.version /\ s.witnesses = t.witnesses
                                 /\ s.previous_registry_hash = t.previous_registry_hash
                                 /\ s.nulls = t.nulls
<1>1. Len(Hash(s)) = 4 /\ Len(GENESIS_HASH) = 0
  <2>. DEFINE a == s.version
              b == s.previous_registry_hash
              c == s.witnesses
              d == s.nulls
  <2>. HIDE DEF a, b, c, d
  <2>1. Len(<<a, b, c, d>>) = 4
    OBVIOUS
  <2>2. Hash(s) = <<a, b, c, d>>
    BY DEF Hash, a, b, c, d
  <2>. QED
    BY <2>1, <2>2 DEF GENESIS_HASH
<1>. QED
  BY <1>1 DEF Hash

\* What ToDict returns of a snapshot.
LEMMA ToDictFacts ==
  ASSUME NEW s, IsSnapshot(s)
  PROVE  Hash(ToDict(s)) = <<s.version, s.previous_registry_hash, s.witnesses, TRUE>>
BY DEF Hash, ToDict, IsSnapshot

\* A snapshot whose hash is that of a published one was hashed as that one was.
LEMMA SameHash ==
  ASSUME ChainSound, NEW s, IsSnapshot(s), NEW n \in 1..Len(chain),
         Hash(ToDict(s)) = s.registry_hash, s.registry_hash = chain[n].registry_hash
  PROVE  /\ s.version = n /\ s.witnesses = chain[n].witnesses
         /\ s.previous_registry_hash = chain[n].previous_registry_hash
         /\ Hash(s) = Hash(chain[n]) /\ s.nulls = chain[n].nulls
<1>. DEFINE c == chain[n]
<1>1. IsSnapshot(c) /\ c.version = n /\ c.registry_hash = Hash(c)
  BY DEF ChainSound
<1>. HIDE DEF c
<1>2. Hash(c) = <<s.version, s.previous_registry_hash, s.witnesses, TRUE>>
  BY <1>1, ToDictFacts DEF c
<1>3. /\ c.version = s.version /\ c.previous_registry_hash = s.previous_registry_hash
      /\ c.witnesses = s.witnesses /\ c.nulls = TRUE
  BY <1>2 DEF Hash
<1>4. s.nulls = c.nulls
  BY <1>1 DEF IsSnapshot
<1>. QED
  BY <1>1, <1>3, <1>4 DEF c, Hash

\* The signature of a snapshot that verifies is one the authority made, for
\* the hash of a snapshot it published.
LEMMA ValidIsPublished ==
  ASSUME ChainSound, NEW s, Genuine(s), s.parses, SnapshotValid(s, "authority")
  PROVE  \E j \in 1..Len(chain) : s = chain[j]
<1>1. PICK j \in 1..Len(chain) : s.registry_signature = chain[j].registry_signature
  BY DEF Genuine
<1>. DEFINE c == chain[j]
<1>2. IsSnapshot(c) /\ c.parses = TRUE /\ c.registry_signature = c.registry_hash
  BY DEF ChainSound
<1>3. /\ IsSnapshot(s) /\ s.parses = TRUE
      /\ Hash(ToDict(s)) = s.registry_hash /\ s.registry_signature = s.registry_hash
  BY DEF Genuine, SnapshotValid, IsSnapshot
<1>4. s.registry_hash = chain[j].registry_hash
  BY <1>1, <1>2, <1>3
<1>5. /\ s.version = c.version /\ s.witnesses = c.witnesses
      /\ s.previous_registry_hash = c.previous_registry_hash /\ s.nulls = c.nulls
  BY <1>3, <1>4, SameHash DEF ChainSound
<1>. HIDE DEF c
<1>6. s.registry_hash = c.registry_hash /\ s.registry_signature = c.registry_signature
  BY <1>1, <1>4 DEF c
<1>7. s = c
  BY <1>2, <1>3, <1>5, <1>6 DEF IsSnapshot
<1>. QED
  BY <1>7 DEF c

\* What verify-chain goes through parses.
LEMMA SortedParse ==
  ASSUME IInv, pc = "check" \/ next # 0, NEW r \in 1..Len(snapshots)
  PROVE  snapshots[r].parses
<1>1. PICK p \in SortedListings : \A i \in 1..Len(snapshots) : snapshots[i] = files[p[i]]
  BY DEF IInv, Sorted
<1>2. p \in [1..Cardinality(Readable) -> Readable] /\ Len(snapshots) = Cardinality(Readable)
  BY DEF SortedListings, Listings, Bijection, Injection, IInv, Sorted
<1>3. p[r] \in Readable
  BY <1>2
<1>. QED
  BY <1>1, <1>3 DEF Readable

\* A turn of the loop passes a snapshot if it is valid and linked; then all
\* that Checked, Prefix, Pinned and Lasting say of the ones before goes on.
LEMMA CheckSnapshotKeepsIInv ==
  ASSUME IInv, CheckSnapshot
  PROVE  IInv'
<1>. DEFINE s == snapshots[next + 1]
<1>1. /\ pc = "check" /\ next < Len(snapshots) /\ next' = next + 1
      /\ chain_valid' = (chain_valid /\ SnapshotValid(s, sigs) /\ LinkValid(s))
      /\ UNCHANGED <<explicit, chain, files, faults, sigs, pc, snapshots, exit>>
  BY DEF CheckSnapshot, inputs
<1>2. /\ Len(snapshots) \in Nat /\ next \in Nat /\ next + 1 \in 1..Len(snapshots)
      /\ Len(chain) \in Nat /\ next + 1 - 1 = next /\ next + 1 # 0
      /\ next + 1 = 1 <=> next = 0
  <2>1. Len(snapshots) \in Nat /\ Len(chain) \in Nat
    BY ListFacts DEF IInv, FilesGenuine, ChainSound
  <2>2. next \in 0..Len(snapshots)
    BY DEF IInv, TypeOK
  <2>. QED
    BY <1>1, <2>1, <2>2
<1>3. \A k \in 1..(next + 1) : k \in 1..next \/ k = next + 1
  BY <1>2
<1>4. LinkValid(s) <=> Linked(next + 1)
  BY <1>2 DEF LinkValid, Linked
<1>5. Genuine(s) /\ s.parses /\ IsSnapshot(s)
  BY <1>1, <1>2, SortedParse DEF IInv, FilesGenuine, Genuine
<1>. HIDE DEF s
<1>6. chain_valid' => chain_valid /\ SnapshotValid(s, sigs) /\ Linked(next + 1)
  BY <1>1, <1>4
<1>7. TypeOK'
  <2>1. chain_valid' \in BOOLEAN
    BY <1>1 DEF IInv, TypeOK
  <2>2. next' \in 0..Len(snapshots)
    BY <1>1, <1>2
  <2>3. chain_valid' => \A k \in 1..next' : SnapshotValid(snapshots[k], sigs)
    BY <1>1, <1>3, <1>6 DEF IInv, TypeOK, s
  <2>. QED
    BY <1>1, <2>1, <2>2, <2>3 DEF IInv, TypeOK
<1>8. ChainSound'
  BY <1>1 DEF IInv, ChainSound, IsSnapshot
<1>9. FilesGenuine'
  BY <1>1 DEF IInv, FilesGenuine, Genuine, IsSnapshot
<1>10. Sorted' /\ Stages'
  <2>1. Readable' = Readable /\ SortedListings' = SortedListings
    BY <1>1 DEF Readable, SortedListings, Listings, SortedBefore
  <2>. QED
    BY <1>1, <2>1 DEF IInv, Sorted, Stages
<1>11. Checked'
  <2>1. \A k : Linked(k)' <=> Linked(k)
    BY <1>1 DEF Linked
  <2>2. chain_valid' <=> chain_valid /\ SnapshotValid(s, sigs) /\ Linked(next + 1)
    BY <1>1, <1>4
  <2>3. chain_valid <=> \A k \in 1..next : SnapshotValid(snapshots[k], sigs) /\ Linked(k)
    BY DEF IInv, Checked
  <2>4. (\A k \in 1..(next + 1) : SnapshotValid(snapshots[k], sigs) /\ Linked(k))
          <=> /\ \A k \in 1..next : SnapshotValid(snapshots[k], sigs) /\ Linked(k)
              /\ SnapshotValid(snapshots[next + 1], sigs) /\ Linked(next + 1)
    BY <1>2, <1>3
  <2>. QED
    BY <1>1, <2>1, <2>2, <2>3, <2>4 DEF Checked, s
<1>12. Prefix'
  <2>1. SUFFICES ASSUME chain_valid', sigs = "authority"
                 PROVE  /\ next + 1 <= Len(chain)
                        /\ \A k \in 1..(next + 1) : snapshots[k] = chain[k]
    BY <1>1 DEF Prefix
  <2>2. next <= Len(chain) /\ \A k \in 1..next : snapshots[k] = chain[k]
    BY <2>1, <1>6 DEF IInv, Prefix
  <2>3. PICK j \in 1..Len(chain) : s = chain[j]
    BY <2>1, <1>5, <1>6, ValidIsPublished DEF IInv
  <2>4. \A i \in 1..Len(chain) : chain[i].registry_hash = Hash(chain[i]) /\ chain[i].version = i
    BY DEF IInv, ChainSound
  <2>5. j = next + 1
    <3>1. CASE next = 0
      <4>1. s.previous_registry_hash = GENESIS_HASH
        BY <3>1, <2>1, <1>2, <1>6 DEF Linked, s
      <4>2. j \in 2..Len(chain) => /\ chain[j].previous_registry_hash = chain[j - 1].registry_hash
                                   /\ j - 1 \in 1..Len(chain)
        BY <1>2 DEF IInv, ChainSound
      <4>3. j \notin 2..Len(chain)
        BY <4>1, <4>2, <2>3, <2>4, HashFacts
      <4>. QED
        BY <4>3, <3>1, <1>2
    <3>2. CASE next # 0
      <4>1. next \in 1..next /\ next \in 1..Len(chain)
        BY <3>2, <1>2, <2>2
      <4>2. s.previous_registry_hash = chain[next].registry_hash
        BY <3>2, <4>1, <2>1, <2>2, <1>2, <1>6 DEF Linked, s
      <4>3. j # 1
        <5>1. chain # <<>> => chain[1].previous_registry_hash = GENESIS_HASH
          BY DEF IInv, ChainSound
        <5>2. chain # <<>>
          BY <1>2, EmptyList
        <5>. QED
          BY <4>1, <4>2, <5>1, <5>2, <2>3, <2>4, HashFacts
      <4>4. j \in 2..Len(chain) /\ j - 1 \in 1..Len(chain)
        BY <4>3, <1>2
      <4>5. chain[j].previous_registry_hash = chain[j - 1].registry_hash
        BY <4>4 DEF IInv, ChainSound
      <4>6. chain[j - 1].version = chain[next].version
        BY <4>1, <4>2, <4>4, <4>5, <2>3, <2>4, HashFacts
      <4>7. j - 1 = next
        BY <4>1, <4>4, <4>6, <2>4
      <4>. QED
        BY <4>7, <4>4, <1>2
    <3>. QED
      BY <3>1, <3>2
  <2>. QED
    BY <2>2, <2>3, <2>5, <1>2, <1>3 DEF s
<1>13. Pinned'
  <2>1. SUFFICES ASSUME chain_valid', NEW n \in 1..Len(chain),
                        s.registry_hash = chain[n].registry_hash
                 PROVE  next + 1 = n /\ \A k \in 1..n : Hash(snapshots[k]) = Hash(chain[k])
    BY <1>1 DEF Pinned, s
  <2>2. Hash(ToDict(s)) = s.registry_hash
    BY <2>1, <1>6 DEF SnapshotValid
  <2>3. /\ s.previous_registry_hash = chain[n].previous_registry_hash
        /\ Hash(s) = Hash(chain[n])
    BY <2>1, <2>2, <1>5, SameHash DEF IInv
  <2>4. next + 1 = n /\ \A k \in 1..next : Hash(snapshots[k]) = Hash(chain[k])
    <3>1. CASE next = 0
      <4>1. s.previous_registry_hash = GENESIS_HASH
        BY <3>1, <2>1, <1>2, <1>6 DEF Linked, s
      <4>2. n \in 2..Len(chain) => /\ chain[n].previous_registry_hash = chain[n - 1].registry_hash
                                   /\ n - 1 \in 1..Len(chain)
        BY <1>2 DEF IInv, ChainSound
      <4>3. \A i \in 1..Len(chain) : chain[i].registry_hash = Hash(chain[i])
        BY DEF IInv, ChainSound
      <4>4. n \notin 2..Len(chain)
        BY <4>1, <4>2, <4>3, <2>3, HashFacts
      <4>. QED
        BY <4>4, <3>1, <1>2
    <3>2. CASE next # 0
      <4>1. next \in 1..next /\ next \in 1..Len(snapshots)
        BY <3>2, <1>2
      <4>2. s.previous_registry_hash = snapshots[next].registry_hash
        BY <3>2, <2>1, <1>2, <1>6 DEF Linked, s
      <4>3. snapshots[next].registry_hash = Hash(ToDict(snapshots[next]))
        BY <4>1, <2>1, <1>6 DEF IInv, TypeOK, SnapshotValid
      <4>4. n # 1
        <5>1. chain # <<>> => chain[1].previous_registry_hash = GENESIS_HASH
          BY DEF IInv, ChainSound
        <5>2. chain # <<>>
          BY <1>2, EmptyList
        <5>. QED
          BY <4>2, <4>3, <5>1, <5>2, <2>3, HashFacts
      <4>5. n \in 2..Len(chain) /\ n - 1 \in 1..Len(chain)
        BY <4>4, <1>2
      <4>6. chain[n].previous_registry_hash = chain[n - 1].registry_hash
        BY <4>5 DEF IInv, ChainSound
      <4>7. next = n - 1 /\ \A k \in 1..(n - 1) : Hash(snapshots[k]) = Hash(chain[k])
        BY <3>2, <4>2, <4>5, <4>6, <2>1, <2>3, <1>6 DEF IInv, Pinned
      <4>. QED
        BY <4>5, <4>7, <1>2
    <3>. QED
      BY <3>1, <3>2
  <2>. QED
    BY <2>3, <2>4, <1>3 DEF s
<1>14. Lasting'
  <2>1. SUFFICES
          ASSUME chain_valid', NEW i \in 1..(next + 1), NEW j \in 1..(next + 1), i < j,
                 NEW o \in Orgs
          PROVE  /\ (\A n \in i..j : o \in DOMAIN snapshots[n].witnesses) =>
                      (snapshots[i].witnesses[o].status = "revoked" =>
                         snapshots[j].witnesses[o].status = "revoked")
                 /\ \A k \in Keys :
                      (\A n \in i..j : KeyListed(snapshots[n], o, k)) =>
                        (snapshots[i].witnesses[o].keys[k] = "revoked" =>
                           snapshots[j].witnesses[o].keys[k] = "revoked")
    BY <1>1 DEF Lasting, KeyListed
  <2>2. Lasting /\ chain_valid
    BY <2>1, <1>6 DEF IInv
  <2>3. i \in 1..next
    BY <2>1, <1>2
  <2>4. CASE j \in 1..next
    BY <2>1, <2>2, <2>3, <2>4 DEF Lasting
  <2>5. CASE j = next + 1
    <3>1. next # 0 /\ next \in 1..next /\ next \in i..j /\ j \in i..j
      BY <2>1, <2>3, <2>5, <1>2
    <3>2. \A n \in i..next : n \in i..j
      BY <2>1, <2>5, <1>2
    <3>3. i < next \/ i = next
      BY <2>3, <1>2
    <3>4. ~RevocationsUndone(snapshots[next], snapshots[j])
      BY <3>1, <2>1, <2>5, <1>2, <1>6 DEF Linked
    <3>5. ASSUME \A n \in i..j : o \in DOMAIN snapshots[n].witnesses,
                 snapshots[i].witnesses[o].status = "revoked"
          PROVE  snapshots[j].witnesses[o].status = "revoked"
      <4>1. snapshots[next].witnesses[o].status = "revoked"
        <5>1. \A n \in i..next : o \in DOMAIN snapshots[n].witnesses
          BY <3>2, <3>5
        <5>2. CASE i < next
          BY <5>1, <5>2, <3>1, <3>5, <2>2, <2>3 DEF Lasting
        <5>. QED
          BY <5>2, <3>3, <3>5
      <4>2. o \in DOMAIN snapshots[next].witnesses \cap DOMAIN snapshots[j].witnesses
        BY <3>1, <3>5
      <4>. QED
        BY <4>1, <4>2, <3>4 DEF RevocationsUndone
    <3>6. ASSUME NEW k \in Keys, \A n \in i..j : KeyListed(snapshots[n], o, k),
                 snapshots[i].witnesses[o].keys[k] = "revoked"
          PROVE  snapshots[j].witnesses[o].keys[k] = "revoked"
      <4>1. snapshots[next].witnesses[o].keys[k] = "revoked"
        <5>1. \A n \in i..next : KeyListed(snapshots[n], o, k)
          BY <3>2, <3>6
        <5>2. CASE i < next
          BY <5>1, <5>2, <3>1, <3>6, <2>2, <2>3 DEF Lasting
        <5>. QED
          BY <5>2, <3>3, <3>6
      <4>2. KeyListed(snapshots[next], o, k) /\ KeyListed(snapshots[j], o, k)
        BY <3>1, <3>6
      <4>. QED
        BY <4>1, <4>2, <3>4 DEF RevocationsUndone, KeyListed
    <3>. QED
      BY <3>5, <3>6
  <2>. QED
    BY <2>4, <2>5, <1>3
<1>. QED
  BY <1>7, <1>8, <1>9, <1>10, <1>11, <1>12, <1>13, <1>14 DEF IInv

\* The verdict is that of the loop.
LEMMA FinishChainKeepsIInv ==
  ASSUME IInv, FinishChain
  PROVE  IInv'
<1>. USE DEF FinishChain, inputs
<1>1. TypeOK'
  BY DEF IInv, TypeOK
<1>2. ChainSound'
  BY DEF IInv, ChainSound, IsSnapshot
<1>3. FilesGenuine'
  BY DEF IInv, FilesGenuine, Genuine, IsSnapshot
<1>4. Sorted'
  <2>1. Readable' = Readable /\ SortedListings' = SortedListings
    BY DEF Readable, SortedListings, Listings, SortedBefore
  <2>. QED
    BY <2>1 DEF IInv, Sorted
<1>5. Stages'
  <2>1. Len(snapshots) # 0
    BY EmptyList, ListEqual DEF IInv, Sorted, FilesGenuine
  <2>. QED
    BY <2>1 DEF Stages
<1>6. Checked' /\ Prefix' /\ Pinned' /\ Lasting'
  BY DEF IInv, Checked, Linked, Prefix, Pinned, Lasting, KeyListed
<1>. QED
  BY <1>1, <1>2, <1>3, <1>4, <1>5, <1>6 DEF IInv

\* A step that changes nothing.
LEMMA StutterKeepsIInv ==
  ASSUME IInv, UNCHANGED vars
  PROVE  IInv'
<1>. USE DEF vars
<1>1. TypeOK' /\ ChainSound' /\ Stages'
  BY DEF IInv, TypeOK, ChainSound, IsSnapshot, Stages
<1>2. FilesGenuine'
  BY DEF IInv, FilesGenuine, Genuine, IsSnapshot
<1>3. Sorted'
  <2>1. Readable' = Readable /\ SortedListings' = SortedListings
    BY DEF Readable, SortedListings, Listings, SortedBefore
  <2>. QED
    BY <2>1 DEF IInv, Sorted
<1>4. Checked' /\ Prefix' /\ Pinned' /\ Lasting'
  BY DEF IInv, Checked, Linked, Prefix, Pinned, Lasting, KeyListed
<1>. QED
  BY <1>1, <1>2, <1>3, <1>4 DEF IInv
-----------------------------------------------------------------------------
(* The theorems *)

\* What every step keeps: the authority's chain is sound, no signature in the
\* directory is new, and of the snapshots the loop has passed chain_valid says
\* that each is valid and linked to the one before.
THEOREM Invariance == Spec => []IInv
<1>1. Init => IInv
  BY InitIInv
<1>2. IInv /\ [Next]_vars => IInv'
  <2>. SUFFICES ASSUME IInv, [Next]_vars PROVE IInv'
    OBVIOUS
  <2>1. CASE Genesis
    BY <2>1, GenesisKeepsIInv
  <2>2. CASE \E o \in Orgs : Update(o)
    BY <2>2, UpdateKeepsIInv
  <2>3. CASE Export
    BY <2>3, ExportKeepsIInv
  <2>4. CASE \E k \in 1..Len(files) : Lose(k) \/ Copy(k) \/ Alter(k) \/ VerifySnapshot(k)
    BY <2>4, LoseKeepsIInv, CopyKeepsIInv, AlterKeepsIInv, VerifySnapshotKeepsIInv
  <2>5. CASE VerifyChain
    BY <2>5, VerifyChainKeepsIInv
  <2>6. CASE KeyUnreadable
    BY <2>6, KeyUnreadableKeepsIInv
  <2>7. CASE CheckSnapshot
    BY <2>7, CheckSnapshotKeepsIInv
  <2>8. CASE FinishChain
    BY <2>8, FinishChainKeepsIInv
  <2>9. CASE UNCHANGED vars
    BY <2>9, StutterKeepsIInv
  <2>. QED
    BY <2>1, <2>2, <2>3, <2>4, <2>5, <2>6, <2>7, <2>8, <2>9 DEF Next
<1>. QED
  BY <1>1, <1>2, PTL DEF Spec

\* Every variable of the two commands keeps its range, and chain_valid is
\* never true of a snapshot that failed validate_registry_snapshot.
THEOREM TypeCorrect == Spec => []TypeOK
<1>1. IInv => TypeOK
  BY DEF IInv
<1>. QED
  BY <1>1, Invariance, PTL

\* A chain that passed was gone through to its end.
LEMMA PassedChain ==
  ASSUME IInv, Passed
  PROVE  chain_valid /\ next = Len(snapshots) /\ next # 0 /\ next \in Nat
<1>1. exit = EXIT_PASS /\ next # 0 /\ next \in Nat
  <2>1. next \in 0..Len(snapshots)
    BY DEF IInv, TypeOK
  <2>2. Len(snapshots) \in Nat
    BY ListFacts DEF IInv, FilesGenuine
  <2>. QED
    BY <2>1, <2>2 DEF Passed
<1>2. pc = "done"
  BY <1>1 DEF IInv, Stages, EXIT_PASS, NoExit
<1>3. next = Len(snapshots) /\ exit = IF chain_valid THEN EXIT_PASS ELSE EXIT_FAIL
  BY <1>1, <1>2 DEF IInv, Stages
<1>4. chain_valid
  BY <1>1, <1>3 DEF EXIT_PASS, EXIT_FAIL
<1>. QED
  BY <1>1, <1>3, <1>4

\* However many snapshots the authority publishes and whatever happens to the
\* directory: checked against the authority's key, verify-chain passes nothing
\* but the first snapshots it published, each once and in order, and verify
\* nothing but one of them; and with no key at all the last hash still decides
\* what all the snapshots before it are.
THEOREM PassedPublished == Spec => []PassedIsPublished
<1>1. IInv => PassedIsPublished
  <2>. SUFFICES ASSUME IInv PROVE PassedIsPublished
    OBVIOUS
  <2>1. ASSUME Passed, sigs = "authority"
        PROVE  /\ Len(snapshots) <= Len(chain)
               /\ snapshots = SubSeq(chain, 1, Len(snapshots))
    <3>. DEFINE n == Len(snapshots)
                s == SubSeq(chain, 1, n)
    <3>1. IsList(snapshots) /\ IsList(chain) /\ n \in Nat /\ Len(chain) \in Nat
      BY ListFacts DEF IInv, FilesGenuine, ChainSound
    <3>2. n <= Len(chain) /\ \A k \in 1..n : snapshots[k] = chain[k]
      BY <2>1, PassedChain DEF IInv, Prefix
    <3>3. n \in 0..Len(chain)
      BY <3>1, <3>2
    <3>4. IsList(s) /\ Len(s) = n /\ \A k \in 1..n : s[k] = chain[k]
      BY <3>1, <3>3, ListFacts
    <3>. HIDE DEF s
    <3>5. snapshots = s
      BY <3>1, <3>2, <3>4, ListEqual
    <3>. QED
      BY <3>2, <3>5 DEF s
  <2>2. ASSUME SnapshotPassed, sigs = "authority"
        PROVE  snapshots[1] \in Range(chain)
    <3>1. pc = "done" /\ next = 0 /\ exit # EXIT_ERROR
      BY <2>2 DEF SnapshotPassed, IInv, Stages, EXIT_PASS, EXIT_ERROR, NoExit
    <3>2. /\ \E k \in 1..Len(files) : files[k].parses /\ snapshots = <<files[k]>>
          /\ exit = IF SnapshotValid(snapshots[1], sigs) THEN EXIT_PASS ELSE EXIT_FAIL
      BY <3>1 DEF IInv, Stages
    <3>3. PICK k \in 1..Len(files) : files[k].parses /\ snapshots = <<files[k]>>
      BY <3>2
    <3>4. SnapshotValid(snapshots[1], "authority")
      BY <2>2, <3>2 DEF SnapshotPassed, EXIT_PASS, EXIT_FAIL
    <3>5. Genuine(snapshots[1]) /\ snapshots[1].parses
      BY <3>3 DEF IInv, FilesGenuine
    <3>6. \E j \in 1..Len(chain) : snapshots[1] = chain[j]
      BY <3>4, <3>5, ValidIsPublished DEF IInv
    <3>7. DOMAIN chain = 1..Len(chain)
      BY ListFacts DEF IInv, ChainSound
    <3>. QED
      BY <3>6, <3>7 DEF Range
  <2>3. LatestHashPinsHistory
    BY PassedChain DEF LatestHashPinsHistory, IInv, Pinned
  <2>. QED
    BY <2>1, <2>2, <2>3 DEF PassedIsPublished
<1>. QED
  BY <1>1, Invariance, PTL

\* However long the history: enforce_revocation_monotonicity compares
\* neighbours only, and in a history verify-chain passes nobody who was
\* revoked is anything else at any later version up to which every version
\* lists them.
THEOREM RevokedForGood == Spec => []RevocationLasts
<1>1. IInv => RevocationLasts
  BY PassedChain DEF RevocationLasts, IInv, Lasting
<1>. QED
  BY <1>1, Invariance, PTL

\* Sorting puts a permutation of the first snapshots back into their order.
LEMMA SortedIsChain ==
  ASSUME IInv, pc = "done", next # 0, NEW n \in 0..Len(chain),
         Len(files) = n, {files[k] : k \in 1..n} = {chain[k] : k \in 1..n}
  PROVE  Len(snapshots) = n /\ \A r \in 1..n : snapshots[r] = chain[r]
<1>1. n \in Nat /\ \A i \in 1..n : chain[i].version = i /\ chain[i].parses
  <2>1. Len(chain) \in Nat
    BY ListFacts DEF IInv, ChainSound
  <2>. QED
    BY <2>1 DEF IInv, ChainSound
<1>2. \A k \in 1..n : \E i \in 1..n : files[k] = chain[i]
  OBVIOUS
<1>3. Readable = 1..n
  BY <1>1, <1>2 DEF Readable
<1>4. IsFiniteSet(1..n) /\ Cardinality(1..n) = n
  BY <1>1, FS_Interval
<1>5. PICK p \in SortedListings : \A r \in 1..Len(snapshots) : snapshots[r] = files[p[r]]
  BY DEF IInv, Sorted
<1>6. Len(snapshots) = n
  BY <1>3, <1>4 DEF IInv, Sorted
<1>7. p \in [1..n -> 1..n] /\ \A a, b \in 1..n : p[a] = p[b] => a = b
  BY <1>3, <1>4 DEF SortedListings, Listings, Bijection, Injection, IsInjective
<1>. DEFINE g == [k \in 1..n |-> files[k].version]
<1>8. g \in Surjection(1..n, 1..n)
  <2>1. \A k \in 1..n : files[k].version \in 1..n
    <3>. SUFFICES ASSUME NEW k \in 1..n PROVE files[k].version \in 1..n
      OBVIOUS
    <3>1. PICK i \in 1..n : files[k] = chain[i]
      BY <1>2
    <3>. QED
      BY <1>1, <3>1
  <2>2. g \in [1..n -> 1..n]
    BY <2>1
  <2>3. ASSUME NEW i \in 1..n PROVE \E k \in 1..n : g[k] = i
    <3>1. PICK k \in 1..n : files[k] = chain[i]
      OBVIOUS
    <3>2. chain[i].version = i
      BY <1>1
    <3>. QED
      BY <3>1, <3>2
  <2>. HIDE DEF g
  <2>. QED
    BY <2>2, <2>3 DEF Surjection
<1>. HIDE DEF g
<1>9. g \in Injection(1..n, 1..n)
  BY <1>4, <1>8, FS_SurjSameCardinalityImpliesInj
<1>10. \A a, b \in 1..n : files[a].version = files[b].version => a = b
  BY <1>9 DEF Injection, IsInjective, g
<1>. DEFINE v == [r \in 1..n |-> files[p[r]].version]
<1>11. v \in [1..n -> 1..n]
  <2>1. \A r \in 1..n : files[p[r]].version = g[p[r]] /\ p[r] \in 1..n
    BY <1>7 DEF g
  <2>2. g \in [1..n -> 1..n]
    BY <1>8 DEF Surjection
  <2>. QED
    BY <2>1, <2>2
<1>12. \A r \in 2..n : v[r - 1] < v[r]
  <2>. SUFFICES ASSUME NEW r \in 2..n PROVE v[r - 1] < v[r]
    OBVIOUS
  <2>1. r - 1 \in 1..n /\ r \in 1..n /\ r - 1 # r
    BY <1>1
  <2>2. SortedBefore(p[r - 1], p[r])
    BY <1>3, <1>4 DEF SortedListings
  <2>3. p[r - 1] # p[r] /\ p[r - 1] \in 1..n /\ p[r] \in 1..n
    BY <1>7, <2>1
  <2>4. files[p[r - 1]].version # files[p[r]].version
    BY <1>10, <2>3
  <2>. QED
    BY <2>1, <2>2, <2>4 DEF SortedBefore
<1>. HIDE DEF v
<1>13. \A r \in 1..n : v[r] = r
  BY <1>1, <1>11, <1>12, IncreasingIsIdentity
<1>14. ASSUME NEW r \in 1..n PROVE snapshots[r] = chain[r]
  <2>1. p[r] \in 1..n /\ snapshots[r] = files[p[r]] /\ files[p[r]].version = r
    BY <1>5, <1>6, <1>7, <1>13 DEF v
  <2>2. PICK i \in 1..n : files[p[r]] = chain[i]
    BY <1>2, <2>1
  <2>. QED
    BY <1>1, <2>1, <2>2
<1>. QED
  BY <1>6, <1>14

\* However many snapshots there are and in whatever order the directory lists
\* them: what an authority published, if it undid no revocation and wrote out
\* its optional fields, passes, the chain and each snapshot by itself.
THEOREM FaithfulPasses == Spec => []FaithfulHistoryPasses
<1>1. IInv => FaithfulHistoryPasses
  <2>. SUFFICES ASSUME IInv, pc = "done", exit # EXIT_ERROR, sigs # "other", explicit,
                       NEW n \in 0..Len(chain), Len(files) = n,
                       {files[k] : k \in 1..n} = {chain[k] : k \in 1..n},
                       \A k \in 2..Len(chain) : ~RevocationsUndone(chain[k - 1], chain[k])
                PROVE  exit = EXIT_PASS
    BY DEF FaithfulHistoryPasses
  <2>1. Len(chain) \in Nat /\ n \in Nat
    BY ListFacts DEF IInv, ChainSound
  <2>2. \A i \in 1..Len(chain) : SnapshotValid(chain[i], sigs)
    <3>. SUFFICES ASSUME NEW i \in 1..Len(chain) PROVE SnapshotValid(chain[i], sigs)
      OBVIOUS
    <3>. DEFINE c == chain[i]
    <3>1. /\ IsSnapshot(c) /\ c.registry_hash = Hash(c)
          /\ c.registry_signature = c.registry_hash
      BY DEF IInv, ChainSound
    <3>2. sigs \in {"skipped", "authority"}
      BY DEF IInv, TypeOK, SignatureModes
    <3>. HIDE DEF c
    <3>3. explicit = TRUE
      BY DEF IInv, TypeOK
    <3>4. Hash(ToDict(c)) = c.registry_hash
      BY <3>1, <3>3, ToDictFacts DEF Hash, IsSnapshot
    <3>5. SnapshotValid(c, sigs)
      BY <3>1, <3>2, <3>4 DEF SnapshotValid
    <3>. QED
      BY <3>5 DEF c
  <2>3. CASE next = 0
    <3>1. /\ \E k \in 1..Len(files) : files[k].parses /\ snapshots = <<files[k]>>
          /\ exit = IF SnapshotValid(snapshots[1], sigs) THEN EXIT_PASS ELSE EXIT_FAIL
      BY <2>3 DEF IInv, Stages
    <3>2. PICK k \in 1..n : snapshots = <<files[k]>>
      BY <3>1
    <3>3. PICK i \in 1..n : files[k] = chain[i]
      OBVIOUS
    <3>4. snapshots[1] = chain[i] /\ i \in 1..Len(chain)
      BY <2>1, <3>2, <3>3
    <3>. QED
      BY <2>2, <3>1, <3>4
  <2>4. CASE next # 0
    <3>1. Len(snapshots) = n /\ \A r \in 1..n : snapshots[r] = chain[r]
      BY <2>4, SortedIsChain
    <3>2. next = n /\ exit = IF chain_valid THEN EXIT_PASS ELSE EXIT_FAIL
      BY <2>4, <3>1 DEF IInv, Stages
    <3>3. ASSUME NEW k \in 1..n PROVE SnapshotValid(snapshots[k], sigs) /\ Linked(k)
      <4>1. snapshots[k] = chain[k] /\ k \in 1..Len(chain)
        BY <2>1, <3>1
      <4>2. CASE k = 1
        <5>1. chain # <<>> => chain[1].previous_registry_hash = GENESIS_HASH
          BY DEF IInv, ChainSound
        <5>2. chain # <<>>
          BY <4>1, EmptyList
        <5>. QED
          BY <4>1, <4>2, <5>1, <5>2, <2>2 DEF Linked
      <4>3. CASE k # 1
        <5>1. k \in 2..Len(chain) /\ k - 1 \in 1..n /\ k - 1 \in 1..Len(chain)
          BY <2>1, <4>1, <4>3
        <5>2. snapshots[k - 1] = chain[k - 1]
          BY <3>1, <5>1
        <5>3. /\ chain[k].previous_registry_hash = chain[k - 1].registry_hash
              /\ chain[k].version = k /\ chain[k - 1].version = k - 1
          BY <4>1, <5>1 DEF IInv, ChainSound
        <5>. QED
          BY <4>1, <4>3, <5>1, <5>2, <5>3, <2>2 DEF Linked
      <4>. QED
        BY <4>2, <4>3
    <3>4. chain_valid
      BY <3>2, <3>3 DEF IInv, Checked
    <3>. QED
      BY <3>2, <3>4
  <2>. QED
    BY <2>3, <2>4
<1>. QED
  BY <1>1, Invariance, PTL
-----------------------------------------------------------------------------
(* The abstract specification *)

\* Nothing is authentic before there is a verdict.
LEMMA InitRefines == Init => AH!Init
BY DEF Init, AH!Init, Authentic, Passed, NoExit, EXIT_PASS

\* While there is no verdict, a step that leaves the authority's history alone
\* is none of AuthenticHistory.
LEMMA NoVerdictYet ==
  ASSUME exit = NoExit, exit' = NoExit, chain' = chain
  PROVE  UNCHANGED <<chain,
                     IF exit = NoExit THEN "none" ELSE IF Authentic THEN "authentic" ELSE "other",
                     IF Authentic THEN snapshots ELSE <<>>>>
BY DEF Authentic, Passed, NoExit, EXIT_PASS

\* A step that brings the verdict is Accept or Abstain.
LEMMA VerdictRefines ==
  ASSUME exit = NoExit, exit' # NoExit, chain' = chain, PassedIsPublished'
  PROVE  AH!Next
<1>1. ~Authentic
  BY DEF Authentic, Passed, NoExit, EXIT_PASS
<1>2. CASE Authentic'
  <2>1. Len(snapshots') <= Len(chain) /\ snapshots' = SubSeq(chain, 1, Len(snapshots'))
    BY <1>2 DEF PassedIsPublished, Authentic
  <2>2. AH!Accept
    BY <1>1, <1>2, <2>1 DEF AH!Accept
  <2>. QED
    BY <2>2 DEF AH!Next
<1>3. CASE ~Authentic'
  <2>1. AH!Abstain
    BY <1>1, <1>3 DEF AH!Abstain
  <2>. QED
    BY <2>1 DEF AH!Next
<1>. QED
  BY <1>2, <1>3

\* The authority's history stays as it is, and is followed by one snapshot.
LEMMA PublishedRefines ==
  ASSUME IInv, NEW w, Published(w)
  PROVE  AH!Next
<1>1. exit = NoExit /\ exit' = exit
  BY DEF IInv, Stages, Published, run
<1>2. /\ Len(chain') = Len(chain) + 1
      /\ \A i \in 1..Len(chain) : chain'[i] = chain[i]
  BY ListFacts DEF Published, IInv, ChainSound
<1>3. ~Authentic /\ ~Authentic'
  BY <1>1 DEF Authentic, Passed, NoExit, EXIT_PASS
<1>4. AH!Publish
  BY <1>1, <1>2, <1>3 DEF AH!Publish
<1>. QED
  BY <1>4 DEF AH!Next

\* Genesis and Update publish one snapshot.
LEMMA UpdatePublishes ==
  ASSUME Genesis \/ \E o \in Orgs : Update(o)
  PROVE  \E w : Published(w)
<1>1. CASE Genesis
  BY <1>1 DEF Genesis
<1>2. ASSUME NEW o \in Orgs, Update(o) PROVE \E w : Published(w)
  <2>. DEFINE w == chain[Len(chain)].witnesses
              With(v) == [p \in DOMAIN w \cup {o} |-> IF p = o THEN v ELSE w[p]]
  <2>1. \/ \E v \in [status : Statuses, keys : PartialFunctions(Keys, Statuses)] : Published(With(v))
        \/ Published([p \in DOMAIN w \ {o} |-> w[p]])
        \/ \E s \in Statuses : Published(With([w[o] EXCEPT !.status = s]))
        \/ \E ks \in PartialFunctions(Keys, Statuses) : Published(With([w[o] EXCEPT !.keys = ks]))
    BY <1>2 DEF Update
  <2>. HIDE DEF w, With
  <2>. QED
    BY <2>1
<1>. QED
  BY <1>1, <1>2

\* Every other step leaves the history alone and is taken before the verdict.
LEMMA OtherStep ==
  ASSUME IInv, Next, ~Genesis, \A o \in Orgs : ~Update(o)
  PROVE  exit = NoExit /\ chain' = chain
<1>1. CASE Export
  BY <1>1 DEF Export, IInv, Stages
<1>2. CASE \E k \in 1..Len(files) : Lose(k) \/ Copy(k) \/ Alter(k)
  BY <1>2 DEF Lose, Copy, Alter, Fault, IInv, Stages
<1>3. CASE \E k \in 1..Len(files) : VerifySnapshot(k)
  BY <1>3 DEF VerifySnapshot, inputs, IInv, Stages
<1>4. CASE VerifyChain
  BY <1>4 DEF VerifyChain, inputs, IInv, Stages
<1>5. CASE KeyUnreadable
  BY <1>5 DEF KeyUnreadable, inputs, IInv, Stages
<1>6. CASE CheckSnapshot
  BY <1>6 DEF CheckSnapshot, inputs, IInv, Stages
<1>7. CASE FinishChain
  BY <1>7 DEF FinishChain, inputs, IInv, Stages
<1>. QED
  BY <1>1, <1>2, <1>3, <1>4, <1>5, <1>6, <1>7 DEF Next

\* However the directory is changed on its way, every behaviour of the two
\* commands is one of AuthenticHistory: the authority's history only grows,
\* there is one verdict, and with the authority's key registry verify-chain
\* accepts nothing but the beginning of the history.
THEOREM Refinement == Spec => AuthenticHistorySpec
<1>. DEFINE verdict == IF exit = NoExit THEN "none" ELSE IF Authentic THEN "authentic" ELSE "other"
            accepted == IF Authentic THEN snapshots ELSE <<>>
<1>1. Init => AH!Init
  BY InitRefines
<1>2. IInv /\ PassedIsPublished' /\ [Next]_vars => [AH!Next]_<<chain, verdict, accepted>>
  <2>. SUFFICES ASSUME IInv, PassedIsPublished', [Next]_vars
                PROVE  [AH!Next]_<<chain, verdict, accepted>>
    OBVIOUS
  <2>1. CASE Genesis \/ \E o \in Orgs : Update(o)
    BY <2>1, UpdatePublishes, PublishedRefines
  <2>2. CASE Next /\ ~Genesis /\ \A o \in Orgs : ~Update(o)
    BY <2>2, OtherStep, NoVerdictYet, VerdictRefines
  <2>3. CASE UNCHANGED vars
    BY <2>3 DEF vars, inputs, run, Authentic, Passed
  <2>. QED
    BY <2>1, <2>2, <2>3
<1>. QED
  BY <1>1, <1>2, Invariance, PassedPublished, PTL DEF Spec, AuthenticHistorySpec, AH!Spec
=============================================================================
