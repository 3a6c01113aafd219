------------------------ MODULE WitnessQuorumProofs ------------------------
(***************************************************************************)
(* For any organisations, keys and hashes, any number of witnesses and     *)
(* statements, any --min-witnesses and any number of changes and faults:   *)
(* TypeOK, QuorumAttested, ContradictionFails and AgreementPasses are      *)
(* invariants of WitnessQuorum.                                            *)
(***************************************************************************)
EXTENDS WitnessQuorum, FiniteSetTheorems, TLAPS

IsRegistry(r) == r \in [1..Enrolled -> Entries] /\ ParsesAsRegistry(r)

\* A statement that nobody touched is signed with the key it names.
Genuine == {s \in Statements : s.file = "intact" => s.signer = s.key}

\* What is on the disk and what was loaded from it.
FilesGenuine ==
  /\ IsRegistry(registry) /\ directory \in Seq(Genuine)
  /\ known # <<>> => IsRegistry(known)
  /\ statements \in Seq(Genuine)
  /\ args.quorum_required \in 0..MaxQuorum \cup {1}
  /\ args.expected \in Hashes \cup {Absent}

\* How far a command is, and what it has by then.
Stages ==
  /\ pc = "idle" => statements = <<>> /\ known = <<>>
  /\ pc = "registry" => statements = <<>>
  /\ pc \in {"registry", "statements", "check"} => known # <<>>
  /\ pc \in {"one", "anchor", "judge"} => Len(statements) = 1
  /\ pc \in {"idle", "registry", "statements", "one", "anchor", "judge"} =>
       next = 0 /\ results = <<>>
  /\ pc = "judge" => args.quorum_required = 1
  /\ pc = "one" => known = <<>>
  /\ status = "ERROR" => statements = <<>> \/ known = <<>>

\* The last of the first n statements of org id o.
IsLatest(k, o, n) ==
  statements[k].org = o /\ \A j \in (k + 1)..n : statements[j].org # o

\* What the loop has noted: for each org id the judgement of its last
\* statement so far.
ResultOf(k) ==
  [valid |-> StatementValid(statements[k]), anchor_hash |-> statements[k].anchor_hash]

ResultsAreLatest ==
  /\ DOMAIN results = {statements[k].org : k \in 1..next}
  /\ \A o \in DOMAIN results : \E k \in 1..next : IsLatest(k, o, next) /\ results[o] = ResultOf(k)

\* Where a verdict comes from.
Verdict ==
  status \in {"PASS", "WARN", "FAIL"} =>
    \/ /\ Len(statements) = 1 /\ args.quorum_required = 1
       /\ status = IF StatementValid(statements[1]) THEN "PASS" ELSE "FAIL"
    \/ /\ next = Len(statements) /\ known # <<>>
       /\ status = IF HashMismatch \/ QuorumAchieved < args.quorum_required THEN "FAIL"
                   ELSE IF ValidOrgs # DOMAIN results THEN "WARN"
                   ELSE "PASS"

IInv == TypeOK /\ FilesGenuine /\ Stages /\ ResultsAreLatest /\ Verdict

-----------------------------------------------------------------------------
(* Facts about the helpers *)

LEMMA Bounds ==
  /\ Enrolled \in Nat /\ Enrolled > 0
  /\ MaxStatements \in Nat /\ MaxChanges \in Nat /\ MaxFaults \in Nat /\ MaxQuorum \in Nat
  /\ Absent \notin Hashes
BY QuorumBoundsOK

LEMMA RegistryFacts ==
  ASSUME NEW r, IsRegistry(r)
  PROVE  r \in Seq(Entries) /\ Len(r) = Enrolled /\ r # <<>>
<1>1. r \in [1..Enrolled -> Entries]
  BY DEF IsRegistry
<1>2. r \in Seq(Entries) /\ Len(r) = Enrolled
  BY <1>1, Bounds
<1>. QED
  BY <1>2, Bounds

\* A set of naturals has a least element, and a bounded one has a greatest.
LEMMA MinOf ==
  ASSUME NEW S \in SUBSET Nat, S # {}
  PROVE  Min(S) \in S /\ \A y \in S : Min(S) <= y
<1>1. PICK x \in S : \A y \in S : ~(<<y, x>> \in OpToRel(<, Nat))
  BY NatLessThanWellFounded, WFMin
<1>2. \A y \in S : ~(y < x)
  BY <1>1 DEF OpToRel
<1>3. \A y \in S : x <= y
  BY <1>2
<1>. QED
  BY <1>3 DEF Min

LEMMA MaxOf ==
  ASSUME NEW n \in Nat, NEW S \in SUBSET (0..n), S # {}
  PROVE  Max(S) \in S /\ \A y \in S : y <= Max(S)
<1>. DEFINE U == {m \in Nat : \A y \in S : y <= m}
            m == Min(U)
<1>1. n \in U
  OBVIOUS
<1>2. m \in U /\ \A k \in U : m <= k
  BY <1>1, MinOf
<1>. HIDE DEF m
<1>3. m \in S
  <2>. SUFFICES ASSUME m \notin S PROVE FALSE
    OBVIOUS
  <2>1. \A y \in S : y <= m - 1
    BY <1>2
  <2>2. PICK y \in S : y <= m - 1
    BY <2>1
  <2>3. m - 1 \in Nat
    BY <1>2, <2>2
  <2>4. m - 1 \in U
    BY <2>1, <2>3
  <2>. QED
    BY <1>2, <2>4
<1>4. \A y \in S : y <= m
  BY <1>2
<1>. QED
  BY <1>3, <1>4 DEF Max

-----------------------------------------------------------------------------
(* The invariant *)

\* A judgement depends on the registry that was loaded and on the arguments.
LEMMA SameJudgement ==
  ASSUME UNCHANGED <<known, args, statements>>
  PROVE  \A k : ResultOf(k)' = ResultOf(k)
<1>. TAKE k
<1>. DEFINE s == statements[k]
<1>1. /\ statements[k]' = s /\ known' = known /\ args' = args
      /\ Matching(statements[k])' = Matching(s) /\ Lookup(statements[k])' = Lookup(s)
  BY DEF Matching, Lookup
<1>2. StatementValid(statements[k])' <=> StatementValid(statements[k])
  BY <1>1 DEF StatementValid
<1>3. StatementValid(statements[k])' = StatementValid(statements[k])
  BY <1>2, Zenon DEF StatementValid
<1>. QED
  BY <1>1, <1>3, Zenon DEF ResultOf

\* A step of the world, which leaves the verifier as it is.
LEMMA VerifierStands ==
  ASSUME Stages, ResultsAreLatest, Verdict, UNCHANGED verifier
  PROVE  Stages' /\ ResultsAreLatest' /\ Verdict'
<1>1. UNCHANGED <<pc, known, statements, args, next, results, status>>
  BY DEF verifier
<1>2. Stages'
  BY <1>1 DEF Stages
<1>3. ResultsAreLatest'
  <2>1. \A k : ResultOf(k)' = ResultOf(k)
    BY <1>1, SameJudgement
  <2>2. \A o \in DOMAIN results :
          \E k \in 1..next : /\ statements[k].org = o
                             /\ \A j \in (k + 1)..next : statements[j].org # o
                             /\ results[o] = ResultOf(k)'
    BY <2>1 DEF ResultsAreLatest, IsLatest
  <2>. QED
    BY <1>1, <2>2 DEF ResultsAreLatest, IsLatest
<1>4. Verdict'
  BY <1>1 DEF Verdict, StatementValid, Lookup, Matching, HashMismatch, QuorumAchieved,
              AgreedHashes, HashGroup, ValidOrgs
<1>. QED
  BY <1>2, <1>3, <1>4

LEMMA InitIInv == Init => IInv
<1>. SUFFICES ASSUME Init PROVE IInv
  OBVIOUS
<1>. USE DEF Init
<1>1. IsRegistry(registry)
  BY DEF IsRegistry
<1>2. TypeOK
  BY <1>1, Bounds DEF TypeOK, IsRegistry
<1>3. FilesGenuine
  BY <1>1, Bounds DEF FilesGenuine, NoArgs
<1>4. Stages /\ Verdict
  BY DEF Stages, Verdict
<1>5. ResultsAreLatest
  BY DEF ResultsAreLatest
<1>. QED
  BY <1>2, <1>3, <1>4, <1>5 DEF IInv

LEMMA IssueStep ==
  ASSUME IInv, NEW i \in 1..Len(registry), NEW h \in Hashes, Issue(i, h)
  PROVE  IInv'
<1>. DEFINE s == [org |-> registry[i].org, key |-> registry[i].key,
                  signer |-> registry[i].key, anchor_hash |-> h, file |-> "intact"]
<1>1. UNCHANGED <<registry, changes, faults, pc, known, statements, args, next, results, status>>
  BY DEF Issue, verifier
<1>2. s \in Genuine
  <2>1. registry[i] \in Entries
    BY RegistryFacts DEF IInv, FilesGenuine
  <2>. QED
    BY <2>1 DEF Entries, Genuine, Statements
<1>3. PICK p \in 1..(Len(directory) + 1) : directory' = InsertAt(directory, p, s)
  BY DEF Issue
<1>. HIDE DEF s
<1>4. directory' \in Seq(Genuine) /\ Len(directory') = Len(directory) + 1
  <2>1. directory \in Seq(Genuine) /\ Len(directory) \in Nat
    BY DEF IInv, FilesGenuine
  <2>2. directory' \in [1..(Len(directory) + 1) -> Genuine]
    BY <1>2, <1>3, <2>1 DEF InsertAt
  <2>. QED
    BY <2>1, <2>2
<1>5. TypeOK'
  BY <1>1, <1>4 DEF IInv, TypeOK, Genuine, FilesGenuine
<1>6. FilesGenuine'
  BY <1>1, <1>4 DEF IInv, FilesGenuine
<1>. QED
  BY <1>1, <1>5, <1>6, VerifierStands DEF IInv, verifier

LEMMA ChangeStep ==
  ASSUME IInv, NEW i \in 1..Len(registry), NEW e \in Entries, Change(i, e)
  PROVE  IInv'
<1>1. UNCHANGED <<directory, faults, pc, known, statements, args, next, results, status>>
  BY DEF Change, verifier
<1>2. IsRegistry(registry')
  BY DEF IInv, FilesGenuine, IsRegistry, Change
<1>3. changes' \in 0..MaxChanges
  BY Bounds DEF IInv, TypeOK, Change
<1>4. TypeOK'
  BY <1>1, <1>2, <1>3 DEF IInv, TypeOK, IsRegistry
<1>5. FilesGenuine'
  BY <1>1, <1>2 DEF IInv, FilesGenuine
<1>. QED
  BY <1>1, <1>4, <1>5, VerifierStands DEF IInv, verifier

\* What becomes of an entry.
LEMMA EntryChangeStep ==
  ASSUME IInv, NEW i \in 1..Len(registry), SetStatus(i) \/ Rename(i) \/ Rekey(i)
  PROVE  IInv'
<1>1. registry[i] \in Entries
  BY RegistryFacts DEF IInv, FilesGenuine
<1>2. \A s \in WitnessStatus : [registry[i] EXCEPT !.status = s] \in Entries
  BY <1>1 DEF Entries
<1>3. \A o \in Orgs : [registry[i] EXCEPT !.org = o] \in Entries
  BY <1>1 DEF Entries
<1>4. \A k \in Keys : [registry[i] EXCEPT !.key = k] \in Entries
  BY <1>1 DEF Entries
<1>5. PICK e \in Entries : Change(i, e)
  BY <1>2, <1>3, <1>4 DEF SetStatus, Rename, Rekey
<1>. QED
  BY <1>5, ChangeStep

LEMMA SpoilStep ==
  ASSUME IInv, NEW k \in 1..Len(directory), Spoil(k)
  PROVE  IInv'
<1>1. UNCHANGED <<registry, changes, pc, known, statements, args, next, results, status>>
  BY DEF Spoil, verifier
<1>2. directory \in Seq(Genuine) /\ Len(directory) \in Nat /\ directory[k] \in Genuine
  BY DEF IInv, FilesGenuine
<1>3. PICK s \in Genuine : directory' = [directory EXCEPT ![k] = s]
  <2>1. CASE \E h \in Hashes \ {directory[k].anchor_hash} :
               directory' = [directory EXCEPT ![k].anchor_hash = h, ![k].file = "altered"]
    <3>1. PICK h \in Hashes :
               directory' = [directory EXCEPT ![k].anchor_hash = h, ![k].file = "altered"]
      BY <2>1
    <3>. DEFINE s == [directory[k] EXCEPT !.anchor_hash = h, !.file = "altered"]
    <3>2. s \in Genuine
      BY <1>2 DEF Genuine, Statements
    <3>3. directory' = [directory EXCEPT ![k] = s]
      BY <1>2, <3>1
    <3>. QED
      BY <3>2, <3>3
  <2>2. CASE \E f \in {"malformed", "unreadable"} : directory' = [directory EXCEPT ![k].file = f]
    <3>1. PICK f \in {"malformed", "unreadable"} : directory' = [directory EXCEPT ![k].file = f]
      BY <2>2
    <3>. DEFINE s == [directory[k] EXCEPT !.file = f]
    <3>2. s \in Genuine
      BY <1>2 DEF Genuine, Statements
    <3>3. directory' = [directory EXCEPT ![k] = s]
      BY <1>2, <3>1
    <3>. QED
      BY <3>2, <3>3
  <2>. QED
    BY <2>1, <2>2 DEF Spoil
<1>4. directory' \in Seq(Genuine) /\ Len(directory') = Len(directory)
  BY <1>2, <1>3
<1>5. faults' \in 0..MaxFaults
  BY Bounds DEF IInv, TypeOK, Spoil
<1>6. TypeOK'
  BY <1>1, <1>4, <1>5 DEF IInv, TypeOK, Genuine
<1>7. FilesGenuine'
  BY <1>1, <1>4 DEF IInv, FilesGenuine
<1>. QED
  BY <1>1, <1>6, <1>7, VerifierStands DEF IInv, verifier

-----------------------------------------------------------------------------
(* The verifier's steps *)

\* Before anything is judged there are no results.
LEMMA NoResults ==
  ASSUME next' = 0, results' = <<>>
  PROVE  ResultsAreLatest'
BY DEF ResultsAreLatest

LEMMA LoadRegistryStep ==
  ASSUME IInv, LoadRegistry
  PROVE  IInv'
<1>. USE DEF LoadRegistry, world
<1>1. TypeOK'
  BY DEF IInv, TypeOK
<1>2. FilesGenuine'
  BY DEF IInv, FilesGenuine
<1>3. Stages'
  BY RegistryFacts DEF IInv, Stages, FilesGenuine, TypeOK
<1>4. ResultsAreLatest'
  BY NoResults DEF IInv, Stages
<1>5. Verdict'
  BY DEF IInv, TypeOK, Verdict
<1>. QED
  BY <1>1, <1>2, <1>3, <1>4, <1>5 DEF IInv

LEMMA RefuseStep ==
  ASSUME IInv, Refuse
  PROVE  IInv'
<1>. USE DEF Refuse, world
<1>1. TypeOK'
  BY DEF IInv, TypeOK
<1>2. FilesGenuine'
  BY DEF IInv, FilesGenuine
<1>3. Stages'
  BY DEF IInv, Stages
<1>4. ResultsAreLatest'
  BY NoResults DEF IInv, Stages
<1>5. Verdict'
  BY DEF IInv, Verdict
<1>. QED
  BY <1>1, <1>2, <1>3, <1>4, <1>5 DEF IInv

\* The list of statements is made of readable files, and no longer than the
\* directory.
LEMMA ListingFacts ==
  ASSUME directory \in Seq(Genuine), NEW f \in Listing
  PROVE  LET s == [i \in DOMAIN f |-> directory[f[i]]]
         IN  s \in Seq(Genuine) /\ Len(s) \in Nat /\ Len(s) <= Len(directory)
<1>. DEFINE s == [i \in DOMAIN f |-> directory[f[i]]]
            c == Cardinality(ReadableFiles)
<1>1. Len(directory) \in Nat
  OBVIOUS
<1>2. IsFiniteSet(1..Len(directory)) /\ Cardinality(1..Len(directory)) = Len(directory)
  BY <1>1, FS_Interval
<1>3. ReadableFiles \in SUBSET (1..Len(directory))
  BY DEF ReadableFiles
<1>4. c \in Nat /\ c <= Len(directory)
  BY <1>2, <1>3, FS_Subset, FS_CardinalityType
<1>5. f \in [1..c -> ReadableFiles]
  BY DEF Listing
<1>6. s \in [1..c -> Genuine]
  <2>1. directory \in [1..Len(directory) -> Genuine]
    OBVIOUS
  <2>2. \A i \in 1..c : f[i] \in 1..Len(directory)
    BY <1>3, <1>5
  <2>3. DOMAIN f = 1..c
    BY <1>5
  <2>. QED
    BY <2>1, <2>2, <2>3
<1>. HIDE DEF s, c
<1>7. s \in Seq(Genuine) /\ Len(s) = c
  BY <1>4, <1>6
<1>. QED
  BY <1>4, <1>7 DEF s

LEMMA LoadStatementsStep ==
  ASSUME IInv, LoadStatements
  PROVE  IInv'
<1>. USE DEF world
<1>1. PICK f \in Listing : statements' = [i \in DOMAIN f |-> directory[f[i]]]
  BY DEF LoadStatements
<1>2. statements' \in Seq(Genuine) /\ Len(statements') \in Nat /\ Len(statements') <= Len(directory)
  BY <1>1, ListingFacts DEF IInv, FilesGenuine
<1>3. /\ pc = "registry" /\ next = 0 /\ results = <<>> /\ known # <<>> /\ status = "NONE"
      /\ \/ pc' = "done" /\ status' = "ERROR" /\ statements' = <<>>
         \/ pc' = "statements" /\ status' = status
      /\ UNCHANGED <<registry, directory, changes, faults, known, args, next, results>>
  BY DEF IInv, TypeOK, Stages, LoadStatements
<1>4. TypeOK'
  BY <1>2, <1>3 DEF IInv, TypeOK
<1>5. FilesGenuine'
  BY <1>2, <1>3 DEF IInv, FilesGenuine
<1>6. Stages'
  BY <1>3 DEF Stages
<1>7. ResultsAreLatest'
  BY <1>3, NoResults
<1>8. Verdict'
  BY <1>3 DEF Verdict
<1>. QED
  BY <1>4, <1>5, <1>6, <1>7, <1>8 DEF IInv

LEMMA LoadStatementStep ==
  ASSUME IInv, NEW k \in 1..Len(directory), LoadStatement(k)
  PROVE  IInv'
<1>1. directory \in Seq(Genuine) /\ Len(directory) \in Nat /\ directory[k] \in Genuine
  BY DEF IInv, FilesGenuine
<1>2. /\ pc = "idle" /\ next = 0 /\ results = <<>> /\ status = "NONE" /\ known = <<>>
      /\ \/ pc' = "done" /\ status' = "ERROR" /\ statements' = statements
         \/ pc' = "one" /\ status' = status /\ statements' = <<directory[k]>>
      /\ UNCHANGED <<registry, directory, changes, faults, known, args, next, results>>
  BY DEF IInv, TypeOK, Stages, LoadStatement, world
<1>3. /\ statements' \in Seq(Genuine) /\ Len(statements') \in Nat
      /\ Len(statements') <= Len(directory)
      /\ pc' = "one" => Len(statements') = 1
  <2>1. CASE statements' = statements /\ pc' = "done"
    BY <2>1, <1>2 DEF IInv, FilesGenuine, TypeOK
  <2>2. CASE statements' = <<directory[k]>>
    BY <2>2, <1>1
  <2>. QED
    BY <1>2, <2>1, <2>2
<1>4. TypeOK'
  BY <1>2, <1>3 DEF IInv, TypeOK
<1>5. FilesGenuine'
  BY <1>2, <1>3 DEF IInv, FilesGenuine
<1>6. Stages'
  BY <1>2, <1>3 DEF Stages
<1>7. ResultsAreLatest'
  BY <1>2, NoResults
<1>8. Verdict'
  BY <1>2 DEF Verdict
<1>. QED
  BY <1>4, <1>5, <1>6, <1>7, <1>8 DEF IInv

LEMMA LoadRegistryForOneStep ==
  ASSUME IInv, LoadRegistryForOne
  PROVE  IInv'
<1>1. /\ pc = "one" /\ next = 0 /\ results = <<>> /\ status = "NONE" /\ Len(statements) = 1
      /\ known = <<>>
      /\ \/ pc' = "done" /\ status' = "ERROR" /\ known' = known
         \/ pc' = "anchor" /\ status' = status /\ known' \in {registry, <<>>}
      /\ UNCHANGED <<registry, directory, changes, faults, statements, args, next, results>>
  BY DEF IInv, TypeOK, Stages, LoadRegistryForOne, world
<1>2. TypeOK'
  BY <1>1 DEF IInv, TypeOK
<1>3. FilesGenuine'
  BY <1>1 DEF IInv, FilesGenuine
<1>4. Stages'
  BY <1>1 DEF Stages
<1>5. ResultsAreLatest'
  BY <1>1, NoResults
<1>6. Verdict'
  BY <1>1 DEF Verdict
<1>. QED
  BY <1>2, <1>3, <1>4, <1>5, <1>6 DEF IInv

LEMMA LoadAnchorStep ==
  ASSUME IInv, LoadAnchor
  PROVE  IInv'
<1>1. /\ pc \in {"statements", "anchor"} /\ next = 0 /\ results = <<>> /\ status = "NONE"
      /\ pc = "anchor" => Len(statements) = 1 /\ args'.quorum_required = 1 /\ pc' = "judge"
      /\ pc = "statements" => known # <<>> /\ pc' = "check"
      /\ args'.quorum_required \in 0..MaxQuorum \cup {1}
      /\ args'.expected \in Hashes \cup {Absent}
      /\ UNCHANGED <<registry, directory, changes, faults, known, statements, next, results, status>>
  BY DEF IInv, TypeOK, Stages, LoadAnchor, world
<1>2. TypeOK'
  BY <1>1 DEF IInv, TypeOK
<1>3. FilesGenuine'
  BY <1>1 DEF IInv, FilesGenuine
<1>4. Stages'
  BY <1>1 DEF Stages
<1>5. ResultsAreLatest'
  BY <1>1, NoResults
<1>6. Verdict'
  BY <1>1 DEF Verdict
<1>. QED
  BY <1>2, <1>3, <1>4, <1>5, <1>6 DEF IInv

LEMMA JudgeStatementStep ==
  ASSUME IInv, JudgeStatement
  PROVE  IInv'
<1>1. /\ pc = "judge" /\ next = 0 /\ results = <<>> /\ Len(statements) = 1
      /\ args.quorum_required = 1 /\ pc' = "done"
      /\ status' = IF StatementValid(statements[1]) THEN "PASS" ELSE "FAIL"
      /\ UNCHANGED <<registry, directory, changes, faults, known, statements, args, next, results>>
  BY DEF IInv, Stages, JudgeStatement, world
<1>2. TypeOK'
  BY <1>1 DEF IInv, TypeOK
<1>3. FilesGenuine'
  BY <1>1 DEF IInv, FilesGenuine
<1>4. Stages'
  BY <1>1 DEF Stages
<1>5. ResultsAreLatest'
  BY <1>1, NoResults
<1>6. Verdict'
  BY <1>1 DEF Verdict, StatementValid, Lookup, Matching
<1>. QED
  BY <1>2, <1>3, <1>4, <1>5, <1>6 DEF IInv

\* The statement judged in this turn becomes the latest of its org id; the
\* other org ids keep theirs.
LEMMA CheckStatementStep ==
  ASSUME IInv, CheckStatement
  PROVE  IInv'
<1>. DEFINE n == next + 1
            s == statements[n]
            r == [valid |-> StatementValid(s), anchor_hash |-> s.anchor_hash]
<1>1. /\ pc = "check" /\ status = "NONE" /\ known # <<>>
      /\ next \in Nat /\ Len(statements) \in Nat /\ n \in 1..Len(statements)
      /\ results' = [o \in DOMAIN results \cup {s.org} |-> IF o = s.org THEN r ELSE results[o]]
      /\ next' = n
      /\ UNCHANGED <<registry, directory, changes, faults, pc, known, statements, args, status>>
  BY DEF IInv, TypeOK, Stages, FilesGenuine, CheckStatement, world
<1>2. r = ResultOf(n)
  BY DEF ResultOf
<1>. HIDE DEF r
<1>3. DOMAIN results' = {statements[k].org : k \in 1..n}
  <2>1. DOMAIN results = {statements[k].org : k \in 1..next}
    BY DEF IInv, ResultsAreLatest
  <2>2. 1..n = 1..next \cup {n}
    BY <1>1
  <2>3. DOMAIN results' = DOMAIN results \cup {s.org}
    BY <1>1
  <2>. QED
    BY <2>1, <2>2, <2>3
<1>4. ASSUME NEW o \in DOMAIN results'
      PROVE  \E k \in 1..n : /\ statements[k].org = o
                             /\ \A j \in (k + 1)..n : statements[j].org # o
                             /\ results'[o] = ResultOf(k)
  <2>1. CASE o = s.org
    BY <1>1, <1>2, <2>1
  <2>2. CASE o # s.org
    <3>1. o \in DOMAIN results /\ results'[o] = results[o]
      BY <1>1, <2>2
    <3>2. PICK k \in 1..next : IsLatest(k, o, next) /\ results[o] = ResultOf(k)
      BY <3>1 DEF IInv, ResultsAreLatest
    <3>3. \A j \in (k + 1)..n : statements[j].org # o
      BY <1>1, <2>2, <3>2 DEF IsLatest
    <3>. QED
      BY <1>1, <3>1, <3>2, <3>3 DEF IsLatest
  <2>. QED
    BY <2>1, <2>2
<1>5. ResultsAreLatest'
  <2>1. \A k : ResultOf(k)' = ResultOf(k)
    BY <1>1, SameJudgement
  <2>2. \A o \in DOMAIN results' :
          \E k \in 1..n : /\ statements[k].org = o
                          /\ \A j \in (k + 1)..n : statements[j].org # o
                          /\ results'[o] = ResultOf(k)'
    BY <1>4, <2>1
  <2>. HIDE DEF n
  <2>3. DOMAIN results' = {statements'[k].org : k \in 1..next'}
    BY <1>1, <1>3
  <2>4. \A o \in DOMAIN results' :
          \E k \in 1..next' : /\ statements'[k].org = o
                              /\ \A j \in (k + 1)..next' : statements'[j].org # o
                              /\ results'[o] = ResultOf(k)'
    <3>1. next' = n /\ statements' = statements
      BY <1>1
    <3>. QED
      BY <2>2, <3>1, Zenon
  <2>. QED
    BY <2>3, <2>4 DEF ResultsAreLatest, IsLatest
<1>6. TypeOK'
  BY <1>1, <1>3 DEF IInv, TypeOK
<1>7. FilesGenuine'
  BY <1>1 DEF IInv, FilesGenuine
<1>8. Stages'
  BY <1>1 DEF IInv, Stages
<1>9. Verdict'
  BY <1>1 DEF Verdict
<1>. QED
  BY <1>5, <1>6, <1>7, <1>8, <1>9 DEF IInv

LEMMA DecideStep ==
  ASSUME IInv, Decide
  PROVE  IInv'
<1>1. /\ pc = "check" /\ known # <<>> /\ next = Len(statements) /\ pc' = "done"
      /\ status' = IF HashMismatch \/ QuorumAchieved < args.quorum_required THEN "FAIL"
                   ELSE IF ValidOrgs # DOMAIN results THEN "WARN"
                   ELSE "PASS"
      /\ UNCHANGED <<registry, directory, changes, faults, known, statements, args, next, results>>
  BY DEF IInv, Stages, Decide, world
<1>2. TypeOK'
  BY <1>1 DEF IInv, TypeOK
<1>3. FilesGenuine'
  BY <1>1 DEF IInv, FilesGenuine
<1>4. Stages'
  BY <1>1 DEF Stages
<1>5. ResultsAreLatest'
  <2>1. \A k : ResultOf(k)' = ResultOf(k)
    BY <1>1, SameJudgement
  <2>2. \A o \in DOMAIN results :
          \E k \in 1..next : /\ statements[k].org = o
                             /\ \A j \in (k + 1)..next : statements[j].org # o
                             /\ results[o] = ResultOf(k)'
    BY <2>1 DEF IInv, ResultsAreLatest, IsLatest
  <2>. QED
    BY <1>1, <2>2 DEF IInv, ResultsAreLatest, IsLatest
<1>6. Verdict'
  BY <1>1 DEF Verdict, HashMismatch, QuorumAchieved, AgreedHashes, HashGroup, ValidOrgs
<1>. QED
  BY <1>2, <1>3, <1>4, <1>5, <1>6 DEF IInv

-----------------------------------------------------------------------------
\* IInv is inductive.
THEOREM Invariance == Spec => []IInv
<1>1. ASSUME IInv, [Next]_vars
      PROVE  IInv'
  <2>1. CASE \E i \in 1..Len(registry) : \E h \in Hashes : Issue(i, h)
    BY <1>1, <2>1, IssueStep
  <2>2. CASE \E i \in 1..Len(registry) : SetStatus(i) \/ Rename(i) \/ Rekey(i)
    BY <1>1, <2>2, EntryChangeStep
  <2>3. CASE \E k \in 1..Len(directory) : Spoil(k) \/ LoadStatement(k)
    BY <1>1, <2>3, SpoilStep, LoadStatementStep
  <2>4. CASE LoadRegistry \/ Refuse \/ LoadStatements
    BY <1>1, <2>4, LoadRegistryStep, RefuseStep, LoadStatementsStep
  <2>5. CASE LoadAnchor \/ LoadRegistryForOne \/ JudgeStatement
    BY <1>1, <2>5, LoadAnchorStep, LoadRegistryForOneStep, JudgeStatementStep
  <2>6. CASE CheckStatement \/ Decide
    BY <1>1, <2>6, CheckStatementStep, DecideStep
  <2>7. CASE UNCHANGED vars
    <3>1. UNCHANGED <<registry, directory, changes, faults>> /\ UNCHANGED verifier
      BY <2>7 DEF vars, verifier
    <3>2. TypeOK' /\ FilesGenuine'
      BY <1>1, <3>1 DEF IInv, TypeOK, FilesGenuine, verifier
    <3>. QED
      BY <1>1, <3>1, <3>2, VerifierStands DEF IInv
  <2>. QED
    BY <1>1, <2>1, <2>2, <2>3, <2>4, <2>5, <2>6, <2>7 DEF Next
<1>. QED
  BY <1>1, InitIInv, PTL DEF Spec

-----------------------------------------------------------------------------
(* Counting *)

LEMMA IndicesFinite ==
  ASSUME NEW n \in Nat
  PROVE  IsFiniteSet(1..n) /\ Cardinality(1..n) = n
BY FS_Interval

\* Every org id that has a result has made a statement: they are no more than
\* the statements.
LEMMA ResultsFinite ==
  ASSUME IInv
  PROVE  IsFiniteSet(DOMAIN results) /\ Cardinality(DOMAIN results) \in 0..next /\ next \in Nat
<1>. DEFINE f == [k \in 1..next |-> statements[k].org]
<1>1. next \in Nat
  BY DEF IInv, TypeOK, FilesGenuine
<1>2. f \in Surjection(1..next, DOMAIN results)
  BY DEF IInv, ResultsAreLatest, Surjection
<1>3. IsFiniteSet(DOMAIN results) /\ Cardinality(DOMAIN results) <= next
  BY <1>1, <1>2, IndicesFinite, FS_Surjection
<1>. QED
  BY <1>1, <1>3, FS_CardinalityType

LEMMA GroupFinite ==
  ASSUME IInv, NEW h
  PROVE  IsFiniteSet(HashGroup(h)) /\ Cardinality(HashGroup(h)) \in 0..next
<1>1. HashGroup(h) \in SUBSET (DOMAIN results)
  BY DEF HashGroup, ValidOrgs
<1>2. IsFiniteSet(HashGroup(h)) /\ Cardinality(HashGroup(h)) <= Cardinality(DOMAIN results)
  BY <1>1, ResultsFinite, FS_Subset
<1>. QED
  BY <1>2, ResultsFinite, FS_CardinalityType

LEMMA AgreedFinite ==
  ASSUME IInv
  PROVE  IsFiniteSet(AgreedHashes)
<1>. DEFINE H == {results[o].anchor_hash : o \in DOMAIN results}
            f == [o \in DOMAIN results |-> results[o].anchor_hash]
<1>1. f \in Surjection(DOMAIN results, H)
  BY DEF Surjection
<1>2. IsFiniteSet(H)
  BY <1>1, ResultsFinite, FS_Surjection
<1>3. AgreedHashes \in SUBSET H
  BY DEF AgreedHashes, HashGroup, ValidOrgs
<1>. QED
  BY <1>2, <1>3, FS_Subset

\* quorum_achieved is the size of the largest group.
LEMMA QuorumIsLargest ==
  ASSUME IInv
  PROVE  /\ QuorumAchieved \in Nat
         /\ QuorumAchieved > 0 =>
              \E h \in AgreedHashes : QuorumAchieved = Cardinality(HashGroup(h))
         /\ \A h \in AgreedHashes : Cardinality(HashGroup(h)) <= QuorumAchieved
<1>. DEFINE S == {0} \cup {Cardinality(HashGroup(h)) : h \in AgreedHashes}
<1>1. S \in SUBSET (0..next) /\ S # {} /\ next \in Nat
  BY GroupFinite, ResultsFinite
<1>2. Max(S) \in S /\ \A y \in S : y <= Max(S)
  BY <1>1, MaxOf
<1>3. QuorumAchieved = Max(S)
  BY DEF QuorumAchieved
<1>4. QuorumAchieved \in S /\ QuorumAchieved \in Nat
  BY <1>1, <1>2, <1>3
<1>5. \A h \in AgreedHashes : Cardinality(HashGroup(h)) <= QuorumAchieved
  BY <1>2, <1>3
<1>6. QuorumAchieved = 0 \/ \E h \in AgreedHashes : QuorumAchieved = Cardinality(HashGroup(h))
  BY <1>4
<1>. QED
  BY <1>4, <1>5, <1>6

-----------------------------------------------------------------------------
(* Quorums *)

LEMMA MatchingFacts ==
  ASSUME IInv, NEW s
  PROVE  /\ Len(known) \in Nat
         /\ Matching(s) \in SUBSET (1..Len(known)) /\ IsFiniteSet(Matching(s))
         /\ Matching(s) # {} => Min(Matching(s)) \in Matching(s)
<1>1. Len(known) \in Nat
  <2>1. CASE known = <<>>
    BY <2>1
  <2>2. CASE known # <<>>
    BY <2>2, RegistryFacts DEF IInv, FilesGenuine
  <2>. QED
    BY <2>1, <2>2
<1>2. Matching(s) \in SUBSET (1..Len(known))
  BY DEF Matching
<1>3. Matching(s) \in SUBSET Nat
  BY <1>1, <1>2
<1>. QED
  BY <1>1, <1>2, <1>3, IndicesFinite, FS_Subset, MinOf

\* A statement that is valid under a registry, signatures checked, is signed by
\* the witness that lookup finds for it.
LEMMA ValidAttests ==
  ASSUME IInv, known # <<>>, args.checked, NEW k \in Indices, StatementValid(statements[k])
  PROVE  LET i == Min(Matching(statements[k]))
         IN  /\ i \in Attesting(statements[k].anchor_hash)
             /\ statements[k].signer = known[i].key
             /\ args.expected \in {statements[k].anchor_hash, Absent}
<1>. DEFINE s == statements[k]
            i == Min(Matching(s))
<1>1. /\ Matching(s) # {} /\ Lookup(s).status # "revoked"
      /\ s.file = "intact" /\ s.signer = Lookup(s).key
      /\ args.expected # Absent => s.anchor_hash = args.expected
  BY DEF StatementValid
<1>2. i \in 1..Len(known)
  BY <1>1, MatchingFacts
<1>. QED
  BY <1>1, <1>2 DEF Attesting, Lookup

LEMMA AttestingFinite ==
  ASSUME IInv, NEW h
  PROVE  IsFiniteSet(Attesting(h)) /\ Cardinality(Attesting(h)) \in Nat
<1>1. Attesting(h) \in SUBSET (1..Len(known))
  BY DEF Attesting
<1>. QED
  BY <1>1, MatchingFacts, IndicesFinite, FS_Subset, FS_CardinalityType

\* Each org id of a group has its own attesting witness, because a witness
\* that two of them share would have signed under two names.
LEMMA GroupAttests ==
  ASSUME IInv, known # <<>>, args.checked, OneNameEach, next = Len(statements), NEW h
  PROVE  Cardinality(HashGroup(h)) <= Cardinality(Attesting(h))
<1>. DEFINE Last(o) == CHOOSE k \in Indices : IsLatest(k, o, next) /\ results[o] = ResultOf(k)
            witness == [o \in HashGroup(h) |-> Min(Matching(statements[Last(o)]))]
<1>1. ASSUME NEW o \in HashGroup(h)
      PROVE  /\ Last(o) \in Indices /\ statements[Last(o)].org = o
             /\ witness[o] \in Attesting(h)
             /\ statements[Last(o)].signer = known[witness[o]].key
  <2>1. o \in DOMAIN results /\ results[o].valid /\ results[o].anchor_hash = h
    BY DEF HashGroup, ValidOrgs
  <2>2. \E k \in Indices : IsLatest(k, o, next) /\ results[o] = ResultOf(k)
    BY <2>1 DEF IInv, ResultsAreLatest, Indices
  <2>3. Last(o) \in Indices /\ IsLatest(Last(o), o, next) /\ results[o] = ResultOf(Last(o))
    BY <2>2
  <2>. HIDE DEF Last
  <2>4. StatementValid(statements[Last(o)]) /\ statements[Last(o)].anchor_hash = h
    BY <2>1, <2>3 DEF ResultOf
  <2>. QED
    BY <2>3, <2>4, ValidAttests DEF IsLatest
<1>. HIDE DEF Last
<1>2. ASSUME NEW o \in HashGroup(h), NEW p \in HashGroup(h), witness[o] = witness[p]
      PROVE  o = p
  <2>1. statements[Last(o)].signer = statements[Last(p)].signer
    BY <1>1, <1>2
  <2>. QED
    BY <1>1, <2>1 DEF OneNameEach
<1>3. witness \in [HashGroup(h) -> Attesting(h)]
  BY <1>1
<1>4. witness \in Injection(HashGroup(h), Attesting(h))
  BY <1>2, <1>3 DEF Injection, IsInjective
<1>. QED
  BY <1>4, AttestingFinite, FS_Injection

LEMMA InvQuorumAttested == IInv => QuorumAttested
<1>. SUFFICES ASSUME IInv, Valid, args.checked, OneNameEach, args.quorum_required > 0,
                     known # <<>>
              PROVE  \E h \in Hashes : /\ Cardinality(Attesting(h)) >= args.quorum_required
                                       /\ args.expected \in {h, Absent}
  BY DEF QuorumAttested
<1>0. statements \in Seq(Genuine) /\ args.quorum_required \in Nat
  BY Bounds DEF IInv, FilesGenuine
<1>1. CASE /\ Len(statements) = 1 /\ args.quorum_required = 1
           /\ status = IF StatementValid(statements[1]) THEN "PASS" ELSE "FAIL"
  <2>. DEFINE h == statements[1].anchor_hash
  <2>1. StatementValid(statements[1]) /\ 1 \in Indices
    BY <1>1 DEF Valid, Indices
  <2>2. Attesting(h) # {} /\ args.expected \in {h, Absent}
    BY <2>1, ValidAttests
  <2>3. Cardinality(Attesting(h)) # 0
    BY <2>2, AttestingFinite, FS_EmptySet
  <2>4. Cardinality(Attesting(h)) >= args.quorum_required
    BY <1>1, <2>3, AttestingFinite
  <2>5. statements[1] \in Genuine
    BY <1>0, <2>1 DEF Indices
  <2>6. h \in Hashes
    BY <2>5 DEF Genuine, Statements
  <2>. QED
    BY <2>2, <2>4, <2>6
<1>2. CASE /\ next = Len(statements)
           /\ status = IF HashMismatch \/ QuorumAchieved < args.quorum_required THEN "FAIL"
                       ELSE IF ValidOrgs # DOMAIN results THEN "WARN"
                       ELSE "PASS"
  <2>1. ~(QuorumAchieved < args.quorum_required)
    BY <1>2 DEF Valid
  <2>2. QuorumAchieved \in Nat /\ QuorumAchieved >= args.quorum_required /\ QuorumAchieved > 0
    BY <1>0, <2>1, QuorumIsLargest
  <2>3. PICK h \in AgreedHashes : QuorumAchieved = Cardinality(HashGroup(h))
    BY <2>2, QuorumIsLargest
  <2>4. h \in Hashes /\ HashGroup(h) # {}
    BY DEF AgreedHashes
  <2>5. Cardinality(HashGroup(h)) <= Cardinality(Attesting(h))
    BY <1>2, GroupAttests
  <2>6. Cardinality(Attesting(h)) >= args.quorum_required
    BY <1>0, <2>2, <2>3, <2>5, AttestingFinite
  <2>7. args.expected \in {h, Absent}
    <3>1. PICK o \in DOMAIN results : results[o].valid /\ results[o].anchor_hash = h
      BY <2>4 DEF HashGroup, ValidOrgs
    <3>2. PICK k \in 1..next : results[o] = ResultOf(k)
      BY DEF IInv, ResultsAreLatest
    <3>. QED
      BY <3>1, <3>2 DEF ResultOf, StatementValid
  <2>. QED
    BY <2>4, <2>6, <2>7
<1>. QED
  BY <1>1, <1>2 DEF IInv, Verdict, Valid

\* Two witnesses that made one statement each have a result each.
LEMMA OnlyStatementIsLatest ==
  ASSUME IInv, next = Len(statements), NEW j \in Indices,
         \A m \in Indices \ {j} : statements[m].org # statements[j].org
  PROVE  statements[j].org \in DOMAIN results /\ results[statements[j].org] = ResultOf(j)
<1>. DEFINE o == statements[j].org
<1>1. o \in DOMAIN results
  BY DEF IInv, ResultsAreLatest, Indices
<1>2. PICK k \in 1..next : IsLatest(k, o, next) /\ results[o] = ResultOf(k)
  BY <1>1 DEF IInv, ResultsAreLatest
<1>3. k = j
  BY <1>2 DEF IsLatest, Indices
<1>. QED
  BY <1>1, <1>2, <1>3

LEMMA InvContradictionFails == IInv => ContradictionFails
<1>. SUFFICES ASSUME IInv, Valid, NEW j \in Indices, NEW k \in Indices,
                     statements[j].org # statements[k].org,
                     statements[j].anchor_hash # statements[k].anchor_hash,
                     StatementValid(statements[j]), StatementValid(statements[k]),
                     \A i \in Indices \ {j, k} :
                       statements[i].org \notin {statements[j].org, statements[k].org}
              PROVE  FALSE
  BY DEF ContradictionFails
<1>1. ~(Len(statements) = 1)
  BY DEF Indices
<1>2. next = Len(statements) /\ ~HashMismatch
  BY <1>1 DEF IInv, Verdict, Valid
<1>3. /\ statements[j].org \in DOMAIN results /\ results[statements[j].org] = ResultOf(j)
      /\ statements[k].org \in DOMAIN results /\ results[statements[k].org] = ResultOf(k)
  BY <1>2, OnlyStatementIsLatest
<1>4. statements[j] \in Genuine /\ statements[k] \in Genuine
  BY DEF IInv, FilesGenuine, Indices
<1>. DEFINE g == statements[j].anchor_hash
            h == statements[k].anchor_hash
<1>5. g \in AgreedHashes /\ h \in AgreedHashes
  BY <1>3, <1>4 DEF AgreedHashes, HashGroup, ValidOrgs, ResultOf, Genuine, Statements
<1>6. Cardinality(AgreedHashes) # 0 /\ Cardinality(AgreedHashes) # 1
  BY <1>5, AgreedFinite, FS_EmptySet, FS_Singleton
<1>7. Cardinality(AgreedHashes) > 1
  BY <1>6, AgreedFinite, FS_CardinalityType
<1>. QED
  BY <1>2, <1>7 DEF HashMismatch

-----------------------------------------------------------------------------
(* Agreement *)

\* Statement k is about h, untouched, and names the witness i, not revoked,
\* and no other.
Agrees(k, h, i) ==
  /\ statements[k].anchor_hash = h /\ statements[k].file = "intact"
  /\ i \in 1..Len(known) /\ Matching(statements[k]) = {i}
  /\ known[i].status # "revoked"
  /\ known[i].org = statements[k].org /\ known[i].key = statements[k].key

LEMMA AgreeingIsValid ==
  ASSUME IInv, NEW k \in Indices, NEW h, args.expected \in {h, Absent}, NEW i, Agrees(k, h, i)
  PROVE  StatementValid(statements[k]) /\ statements[k].signer = known[i].key
<1>. DEFINE s == statements[k]
<1>1. s \in Genuine
  BY DEF IInv, FilesGenuine, Indices
<1>2. s.signer = s.key
  BY <1>1 DEF Genuine, Agrees
<1>3. Matching(s) # {} /\ Min(Matching(s)) = i
  BY MatchingFacts DEF Agrees
<1>. QED
  BY <1>2, <1>3 DEF StatementValid, Lookup, Agrees

LEMMA InvAgreementPasses == IInv => AgreementPasses
<1>. SUFFICES ASSUME IInv, pc = "done", statements # <<>>, NEW h \in Hashes,
                     args.expected \in {h, Absent},
                     Cardinality(Attesting(h)) >= args.quorum_required,
                     \A k \in Indices :
                       /\ statements[k].anchor_hash = h /\ statements[k].file = "intact"
                       /\ \E i \in 1..Len(known) : /\ known[i].status # "revoked"
                                                   /\ known[i].org = statements[k].org
                                                   /\ known[i].key = statements[k].key
                       /\ Cardinality(Matching(statements[k])) = 1
              PROVE  status = "PASS"
  BY DEF AgreementPasses
<1>0. Len(statements) \in Nat /\ Len(statements) # 0 /\ args.quorum_required \in Nat
  BY Bounds DEF IInv, FilesGenuine
<1>1. ASSUME NEW k \in Indices PROVE \E i : Agrees(k, h, i)
  <2>1. PICK i \in 1..Len(known) : /\ known[i].status # "revoked"
                                   /\ known[i].org = statements[k].org
                                   /\ known[i].key = statements[k].key
    OBVIOUS
  <2>2. i \in Matching(statements[k])
    BY <2>1 DEF Matching
  <2>3. \E x : Matching(statements[k]) = {x}
    BY MatchingFacts, FS_Singleton
  <2>4. Matching(statements[k]) = {i}
    BY <2>2, <2>3
  <2>. QED
    BY <2>1, <2>4 DEF Agrees
<1>2. \A k \in Indices : StatementValid(statements[k])
  BY <1>1, AgreeingIsValid
<1>3. 1 \in Indices
  BY <1>0 DEF Indices
<1>4. known # <<>> /\ IsRegistry(known)
  <2>1. \E i : i \in 1..Len(known)
    BY <1>1, <1>3 DEF Agrees
  <2>2. known # <<>>
    BY <2>1
  <2>. QED
    BY <2>2 DEF IInv, FilesGenuine
<1>5. status \in {"PASS", "WARN", "FAIL"}
  BY <1>4 DEF IInv, TypeOK, Stages
<1>6. CASE status = IF StatementValid(statements[1]) THEN "PASS" ELSE "FAIL"
  BY <1>2, <1>3, <1>6
<1>7. CASE /\ next = Len(statements)
           /\ status = IF HashMismatch \/ QuorumAchieved < args.quorum_required THEN "FAIL"
                       ELSE IF ValidOrgs # DOMAIN results THEN "WARN"
                       ELSE "PASS"
  <2>1. ASSUME NEW o \in DOMAIN results
        PROVE  results[o].valid /\ results[o].anchor_hash = h
    <3>1. PICK k \in Indices : results[o] = ResultOf(k)
      BY <1>7 DEF IInv, ResultsAreLatest, Indices
    <3>. QED
      BY <1>2, <3>1 DEF ResultOf
  <2>2. ValidOrgs = DOMAIN results /\ HashGroup(h) = DOMAIN results
    BY <2>1 DEF ValidOrgs, HashGroup
  <2>3. AgreedHashes \in SUBSET {h}
    BY <2>1 DEF AgreedHashes, HashGroup, ValidOrgs
  <2>4. ~HashMismatch
    <3>1. IsFiniteSet({h}) /\ Cardinality({h}) = 1
      BY FS_Singleton
    <3>2. Cardinality(AgreedHashes) <= 1
      BY <2>3, <3>1, FS_Subset
    <3>. QED
      BY <3>2, AgreedFinite, FS_CardinalityType DEF HashMismatch
  <2>5. \A k \in Indices : statements[k].org \in DOMAIN results
    BY <1>7 DEF IInv, ResultsAreLatest, Indices
  <2>6. h \in AgreedHashes
    BY <1>3, <2>2, <2>5 DEF AgreedHashes
  <2>7. Cardinality(DOMAIN results) <= QuorumAchieved /\ QuorumAchieved \in Nat
    BY <2>2, <2>6, QuorumIsLargest
  <2>8. Cardinality(Attesting(h)) <= Cardinality(DOMAIN results)
    <3>. DEFINE org == [i \in Attesting(h) |-> known[i].org]
    <3>1. ASSUME NEW i \in Attesting(h) PROVE org[i] \in DOMAIN results /\ i \in 1..Len(known)
      <4>1. PICK k \in Indices : statements[k].signer = known[i].key
        BY DEF Attesting
      <4>2. PICK j : Agrees(k, h, j)
        BY <1>1
      <4>3. statements[k].key = known[i].key
        <5>1. statements[k].signer = known[j].key
          BY <4>2, AgreeingIsValid
        <5>. QED
          BY <4>1, <4>2, <5>1 DEF Agrees
      <4>4. i \in Matching(statements[k])
        BY <4>3 DEF Matching, Attesting
      <4>5. known[i].org = statements[k].org
        BY <4>2, <4>4 DEF Agrees
      <4>. QED
        BY <2>5, <4>5 DEF Attesting
    <3>2. \A i, j \in Attesting(h) : org[i] = org[j] => i = j
      BY <1>4, <3>1 DEF IsRegistry, ParsesAsRegistry
    <3>3. org \in [Attesting(h) -> DOMAIN results]
      BY <3>1
    <3>4. org \in Injection(Attesting(h), DOMAIN results)
      BY <3>2, <3>3 DEF Injection, IsInjective
    <3>. QED
      BY <3>4, ResultsFinite, FS_Injection
  <2>9. ~(QuorumAchieved < args.quorum_required)
    BY <1>0, <2>7, <2>8, AttestingFinite, ResultsFinite
  <2>. QED
    BY <1>7, <2>2, <2>4, <2>9
<1>. QED
  BY <1>5, <1>6, <1>7 DEF IInv, Verdict

-----------------------------------------------------------------------------
\* The types, and that there is a verdict exactly when the command has ended.
THEOREM TypeCorrect == Spec => []TypeOK
<1>1. IInv => TypeOK
  BY DEF IInv
<1>. QED
  BY <1>1, Invariance, PTL

\* A positive verdict rests on as many witnesses as were asked for, whatever
\* statements are repeated, replaced, altered or lost.
THEOREM QuorumSound == Spec => []QuorumAttested
BY InvQuorumAttested, Invariance, PTL

\* Two witnesses that contradict each other are not outvoted.
THEOREM ContradictionNeverPasses == Spec => []ContradictionFails
BY InvContradictionFails, Invariance, PTL

\* Witnesses that agree, and are enough, pass.
THEOREM AgreementAlwaysPasses == Spec => []AgreementPasses
BY InvAgreementPasses, Invariance, PTL
=============================================================================
