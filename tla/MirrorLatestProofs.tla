-------------------------- MODULE MirrorLatestProofs --------------------------
(***************************************************************************)
(* For any number of anchors and of alterations and any --quorum: TypeOK,  *)
(* HonestSurfaceDecides and FailIsDivergence are invariants of             *)
(* MirrorLatest.                                                           *)
(***************************************************************************)
EXTENDS MirrorLatest, FiniteSetTheorems, SequenceTheorems, TLAPS

\* What the bounds are.
LEMMA Bounds == MaxAnchors \in Nat /\ MaxFaults \in Nat /\ MaxQuorum \in Nat
BY MirrorBoundsOK

\* What an anchor is.
LEMMA AnchorFacts ==
  /\ \A n : Anchor(n).prefix = n
  /\ \A n \in 0..MaxAnchors : Anchor(n) \in Anchors
  /\ NoAnchor = Anchor(0) /\ NoAnchor \in Anchors
<1>1. \A n : Anchor(n).prefix = n
  BY DEF Anchor
<1>2. \A n \in 0..MaxAnchors : Anchor(n) \in Anchors
  BY DEF Anchor, Anchors, Hashes
<1>3. NoAnchor \in Anchors
  BY <1>2, Bounds DEF NoAnchor
<1>. QED
  BY <1>1, <1>2, <1>3 DEF NoAnchor
-----------------------------------------------------------------------------
(* The invariant *)

\* What the surfaces that nobody altered show: the newest anchor, or the one
\* before where the newest has still to come.
Surfaced ==
  /\ pending # {} => head > 0
  /\ Len(releases) <= head /\ head - 1 <= Len(releases)
  /\ "github_release" \notin pending => Len(releases) = head
  /\ "github_release" \notin altered =>
       \A r \in 1..Len(releases) :
         releases[r] = IF r = head /\ "github_release" \in pending THEN NoAnchor ELSE Anchor(r)
  /\ \A s \in DOMAIN shown \ altered :
       shown[s] = Anchor(IF s \in pending THEN head - 1 ELSE head)

\* The anchors a surface that nobody altered may have given since the command
\* began.
Fresh(a) == a = NoAnchor \/ \E n \in settled..head : a = Anchor(n)

Fetched ==
  /\ results \in [DOMAIN results -> Anchors]
  /\ \A s \in DOMAIN results \ altered : Fresh(results[s])
  /\ release # 0 /\ "github_release" \notin altered =>
       release \in settled..head /\ releases[release] = Anchor(release)

\* How the history variables speak of the run.
History ==
  /\ settled \in 0..(IF pending = {} THEN head ELSE head - 1)
  /\ pc = "idle" => results = <<>> /\ release = 0
  /\ pc # "idle" /\ ~moved => pending = {} /\ settled = head

\* What the verdict was based on.
Agree == \A s, t \in Reachable : results[s].prefix = results[t].prefix

Verdict ==
  /\ Valid => Reachable # {} /\ Agree
  /\ status = "FAIL" => ~Agree

IInv == TypeOK /\ Surfaced /\ Fetched /\ History /\ Verdict

\* What is known of a state before a step.
LEMMA StateFacts ==
  ASSUME IInv
  PROVE  /\ head \in Nat /\ head \in 0..MaxAnchors /\ MaxAnchors \in Nat
         /\ Len(releases) \in Nat /\ releases \in Seq(Anchors)
         /\ \A r \in 1..Len(releases) : releases[r] \in Anchors
         /\ settled \in 0..head
         /\ pending # {} => head > 0 /\ settled \in 0..(head - 1)
<1>1. head \in Nat /\ head \in 0..MaxAnchors /\ MaxAnchors \in Nat /\ releases \in Seq(Anchors)
  BY Bounds DEF IInv, TypeOK
<1>2. Len(releases) \in Nat /\ \A r \in 1..Len(releases) : releases[r] \in Anchors
  BY <1>1
<1>3. pending # {} => head > 0 /\ settled \in 0..(head - 1)
  BY DEF IInv, Surfaced, History
<1>4. pending = {} => settled \in 0..head
  BY DEF IInv, History
<1>. QED
  BY <1>1, <1>2, <1>3, <1>4

\* The verdict depends on the results only.
LEMMA SameVerdict ==
  ASSUME Verdict, UNCHANGED <<status, results>>
  PROVE  Verdict'
BY DEF Verdict, Valid, Reachable, Agree

\* The invariant holds before anything is published.
LEMMA InitIInv == Init => IInv
<1>. SUFFICES ASSUME Init PROVE IInv
  OBVIOUS
<1>. USE DEF Init
<1>1. DOMAIN results = {} /\ Len(releases) = 0 /\ releases \in Seq(Anchors)
  OBVIOUS
<1>2. TypeOK
  BY <1>1, Bounds, AnchorFacts DEF TypeOK
<1>3. Surfaced
  BY <1>1 DEF Surfaced, NoAnchor, Surfaces
<1>4. Fetched
  BY <1>1 DEF Fetched
<1>5. History /\ Verdict
  BY DEF History, Verdict, Valid
<1>. QED
  BY <1>2, <1>3, <1>4, <1>5 DEF IInv

\* A surface is not altered by what the platform does: a step of the platform
\* that leaves the results alone keeps them fresh.
LEMMA NewAnchorKeepsIInv ==
  ASSUME IInv, NewAnchor
  PROVE  IInv'
<1>. USE DEF NewAnchor, verifier
<1>1. head' = head + 1 /\ head' \in 0..MaxAnchors /\ Len(releases) = head
  BY StateFacts DEF IInv, Surfaced
<1>2. TypeOK'
  BY <1>1, StateFacts DEF IInv, TypeOK
<1>3. Surfaced'
  <2>1. \A s \in DOMAIN shown \ altered : shown[s] = Anchor(head)
    BY DEF IInv, Surfaced
  <2>2. DOMAIN shown \subseteq Surfaces
    BY DEF IInv, TypeOK, Surfaces
  <2>3. \A s \in DOMAIN shown' \ altered' :
          shown'[s] = Anchor(IF s \in pending' THEN head' - 1 ELSE head')
    BY <1>1, <2>1, <2>2, StateFacts
  <2>4. \A r \in 1..Len(releases) : r # head'
    BY <1>1, StateFacts
  <2>5. "github_release" \in Surfaces
    BY DEF Surfaces
  <2>6. "github_release" \notin altered => \A r \in 1..Len(releases) : releases[r] = Anchor(r)
    BY DEF IInv, Surfaced
  <2>. QED
    BY <1>1, <2>3, <2>4, <2>5, <2>6, StateFacts DEF Surfaced
<1>4. Fetched'
  BY <1>1, StateFacts DEF IInv, Fetched, Fresh
<1>5. History'
  <2>1. pending' # {} /\ head' - 1 = head /\ settled \in 0..head
    BY <1>1, StateFacts DEF Surfaces
  <2>2. pc # "idle" => pc = "fetch"
    BY DEF IInv, TypeOK
  <2>. QED
    BY <1>1, <2>1, <2>2 DEF IInv, History
<1>6. Verdict'
  BY SameVerdict DEF IInv
<1>. QED
  BY <1>2, <1>3, <1>4, <1>5, <1>6 DEF IInv

\* A surface that is mirrored to shows the newest anchor.
LEMMA MirrorKeepsIInv ==
  ASSUME IInv, NEW s \in Surfaces, Mirror(s)
  PROVE  IInv'
<1>. USE DEF Mirror, verifier
<1>1. s # "github_release" /\ s \in DOMAIN shown /\ s \in pending
  BY DEF IInv, TypeOK
<1>2. Anchor(head) \in Anchors
  BY StateFacts, AnchorFacts
<1>3. TypeOK'
  BY <1>1, <1>2 DEF IInv, TypeOK
<1>4. Surfaced'
  <2>1. \A x \in DOMAIN shown' \ altered' :
          shown'[x] = Anchor(IF x \in pending' THEN head' - 1 ELSE head')
    BY <1>1 DEF IInv, TypeOK, Surfaced
  <2>2. "github_release" \in pending' <=> "github_release" \in pending
    BY <1>1
  <2>. QED
    BY <2>1, <2>2 DEF IInv, Surfaced
<1>5. Fetched'
  BY DEF IInv, Fetched, Fresh
<1>6. History'
  BY StateFacts DEF IInv, TypeOK, History
<1>7. Verdict'
  BY SameVerdict DEF IInv
<1>. QED
  BY <1>3, <1>4, <1>5, <1>6, <1>7 DEF IInv

\* A new release has no anchor yet.
LEMMA CreateReleaseKeepsIInv ==
  ASSUME IInv, CreateRelease
  PROVE  IInv'
<1>. USE DEF CreateRelease, verifier
<1>1. /\ releases' \in Seq(Anchors) /\ Len(releases') = Len(releases) + 1
      /\ \A r \in 1..Len(releases) : releases'[r] = releases[r]
      /\ releases'[Len(releases) + 1] = NoAnchor
  <2>1. releases \in Seq(Anchors) /\ NoAnchor \in Anchors
    BY StateFacts, AnchorFacts
  <2>. QED
    BY <2>1
<1>2. Len(releases') = head /\ head - 1 = Len(releases)
  BY <1>1, StateFacts DEF IInv, Surfaced
<1>3. TypeOK'
  <2>1. release \in 0..Len(releases')
    BY <1>1, StateFacts DEF IInv, TypeOK
  <2>. QED
    BY <1>1, <1>2, <2>1, StateFacts DEF IInv, TypeOK
<1>4. Surfaced'
  <2>1. ASSUME "github_release" \notin altered, NEW r \in 1..Len(releases')
        PROVE  releases'[r] = IF r = head THEN NoAnchor ELSE Anchor(r)
    <3>1. r \in 1..Len(releases) \/ r = Len(releases) + 1
      BY <1>1, StateFacts
    <3>2. r \in 1..Len(releases) => r # head
      BY <1>2, StateFacts
    <3>. QED
      BY <3>1, <3>2, <2>1, <1>1, <1>2, StateFacts DEF IInv, Surfaced
  <2>. QED
    BY <1>2, <2>1, StateFacts DEF IInv, Surfaced
<1>5. Fetched'
  <2>1. release # 0 => release \in 1..Len(releases)
    BY StateFacts DEF IInv, TypeOK
  <2>. QED
    BY <1>1, <2>1 DEF IInv, Fetched, Fresh
<1>6. History' /\ Verdict'
  BY SameVerdict DEF IInv, History
<1>. QED
  BY <1>3, <1>4, <1>5, <1>6 DEF IInv

\* What EXCEPT returns of the releases.
LEMMA ReplaceRelease ==
  ASSUME NEW f \in Seq(Anchors), NEW i \in 1..Len(f), NEW a \in Anchors
  PROVE  /\ [f EXCEPT ![i] = a] \in Seq(Anchors) /\ Len([f EXCEPT ![i] = a]) = Len(f)
         /\ \A r \in 1..Len(f) : [f EXCEPT ![i] = a][r] = IF r = i THEN a ELSE f[r]
BY ExceptSeq

\* The asset of the newest release is the newest anchor.
LEMMA UploadAssetKeepsIInv ==
  ASSUME IInv, UploadAsset
  PROVE  IInv'
<1>. USE DEF UploadAsset, verifier
<1>1. head \in 1..Len(releases) /\ Anchor(head) \in Anchors /\ releases \in Seq(Anchors)
  BY StateFacts, AnchorFacts
<1>2. /\ releases' \in Seq(Anchors) /\ Len(releases') = Len(releases)
      /\ \A r \in 1..Len(releases) : releases'[r] = IF r = head THEN Anchor(head) ELSE releases[r]
  BY <1>1, ReplaceRelease
<1>3. TypeOK'
  BY <1>2 DEF IInv, TypeOK
<1>4. Surfaced'
  <2>1. "github_release" \notin DOMAIN shown
    BY DEF IInv, TypeOK
  <2>2. \A s \in DOMAIN shown : s \in pending' <=> s \in pending
    BY <2>1
  <2>. QED
    BY <1>2, <2>2 DEF IInv, Surfaced
<1>5. Fetched'
  <2>1. release # 0 => release \in 1..Len(releases)
    BY StateFacts DEF IInv, TypeOK
  <2>. QED
    BY <1>2, <2>1 DEF IInv, Fetched, Fresh
<1>6. History'
  BY StateFacts DEF IInv, TypeOK, History
<1>7. Verdict'
  BY SameVerdict DEF IInv
<1>. QED
  BY <1>3, <1>4, <1>5, <1>6, <1>7 DEF IInv

\* What a surface holds after it was altered is an anchor, of some kind.
LEMMA AlterationsAreAnchors ==
  ASSUME IInv, NEW a \in Anchors
  PROVE  Alterations(a) \subseteq Anchors
<1>1. \A n \in 1..head : Anchor(n) \in Anchors
  BY StateFacts, AnchorFacts
<1>2. [a EXCEPT !.prefix = Forged] \in Anchors /\ [a EXCEPT !.rest = Forged] \in Anchors
  BY DEF Anchors, Hashes
<1>. QED
  BY <1>1, <1>2 DEF Alterations

\* An alteration says nothing of the surfaces that were not altered.
LEMMA AlterKeepsIInv ==
  ASSUME IInv, NEW s \in Surfaces, Alter(s)
  PROVE  IInv'
<1>1. /\ pc # "done" /\ faults < MaxFaults
      /\ altered' = altered \cup {s} /\ faults' = faults + 1
      /\ UNCHANGED <<head, pending, pc, requested, quorum, release, results, status, settled, moved>>
  BY DEF Alter, verifier
<1>2. /\ shown' \in [{"s3_versioned", "dns_txt"} -> Anchors]
      /\ \A x \in DOMAIN shown \ {s} : shown'[x] = shown[x]
      /\ releases' \in Seq(Anchors) /\ Len(releases') = Len(releases)
      /\ s # "github_release" => releases' = releases
  <2>1. CASE /\ s \in DOMAIN shown /\ shown[s] # NoAnchor
             /\ \E a \in Alterations(shown[s]) : shown' = [shown EXCEPT ![s] = a]
             /\ UNCHANGED releases
    <3>1. PICK a \in Alterations(shown[s]) : shown' = [shown EXCEPT ![s] = a]
      BY <2>1
    <3>2. shown \in [{"s3_versioned", "dns_txt"} -> Anchors] /\ s \in {"s3_versioned", "dns_txt"}
      BY <2>1 DEF IInv, TypeOK
    <3>3. a \in Anchors
      BY <3>1, <3>2, AlterationsAreAnchors
    <3>. QED
      BY <2>1, <3>1, <3>2, <3>3, StateFacts
  <2>2. CASE /\ s = "github_release"
             /\ \E r \in 1..Len(releases) :
                  /\ releases[r] # NoAnchor
                  /\ \E a \in Alterations(releases[r]) : releases' = [releases EXCEPT ![r] = a]
             /\ UNCHANGED shown
    <3>1. PICK r \in 1..Len(releases) :
                 \E a \in Alterations(releases[r]) : releases' = [releases EXCEPT ![r] = a]
      BY <2>2
    <3>2. PICK a \in Alterations(releases[r]) : releases' = [releases EXCEPT ![r] = a]
      BY <3>1
    <3>3. a \in Anchors /\ releases \in Seq(Anchors)
      BY <3>2, StateFacts, AlterationsAreAnchors
    <3>4. releases' \in Seq(Anchors) /\ Len(releases') = Len(releases)
      BY <3>2, <3>3, ReplaceRelease
    <3>. QED
      BY <2>2, <3>4 DEF IInv, TypeOK
  <2>. QED
    BY <2>1, <2>2 DEF Alter
<1>3. TypeOK'
  BY <1>1, <1>2, Bounds DEF IInv, TypeOK
<1>4. Surfaced'
  <2>1. DOMAIN shown' = DOMAIN shown
    BY <1>2 DEF IInv, TypeOK
  <2>2. \A x \in DOMAIN shown' \ altered' :
          shown'[x] = Anchor(IF x \in pending' THEN head' - 1 ELSE head')
    BY <1>1, <1>2, <2>1 DEF IInv, Surfaced
  <2>3. "github_release" \notin altered' => "github_release" \notin altered /\ releases' = releases
    BY <1>1, <1>2
  <2>. QED
    BY <1>1, <1>2, <2>2, <2>3 DEF IInv, Surfaced
<1>5. Fetched'
  <2>1. "github_release" \notin altered' => "github_release" \notin altered /\ releases' = releases
    BY <1>1, <1>2
  <2>. QED
    BY <1>1, <2>1 DEF IInv, Fetched, Fresh
<1>6. History' /\ Verdict'
  BY <1>1, SameVerdict DEF IInv, History
<1>. QED
  BY <1>3, <1>4, <1>5, <1>6 DEF IInv

\* A command begins: settled and moved speak of this moment.
LEMMA StartKeepsIInv ==
  ASSUME IInv, Start
  PROVE  IInv'
<1>1. /\ pc = "idle" /\ requested' \in SUBSET Surfaces /\ quorum' \in 0..MaxQuorum
      /\ settled' = IF pending = {} THEN head ELSE head - 1
      /\ moved' = (pending # {})
      /\ UNCHANGED <<head, pending, releases, shown, altered, faults, release, results>>
      /\ \/ requested' = {} /\ pc' = "done" /\ status' = "ERROR"
         \/ requested' # {} /\ pc' = "fetch" /\ status' = status
  BY DEF Start, published
<1>2. results = <<>> /\ release = 0 /\ status = "NONE" /\ DOMAIN results = {}
  BY <1>1 DEF IInv, TypeOK, History
<1>3. TypeOK'
  BY <1>1, <1>2 DEF IInv, TypeOK
<1>4. Surfaced'
  BY <1>1 DEF IInv, Surfaced
<1>5. Fetched'
  BY <1>1, <1>2 DEF IInv, Fetched
<1>6. History'
  <2>1. pc' # "idle" /\ (~moved' => pending' = {} /\ settled' = head')
    BY <1>1
  <2>2. settled' \in 0..(IF pending' = {} THEN head' ELSE head' - 1)
    <3>1. CASE pending = {}
      BY <3>1, <1>1, StateFacts
    <3>2. CASE pending # {}
      BY <3>2, <1>1, StateFacts
    <3>. QED
      BY <3>1, <3>2
  <2>. QED
    BY <2>1, <2>2 DEF History
<1>7. Verdict'
  BY <1>1, <1>2 DEF Verdict, Valid
<1>. QED
  BY <1>3, <1>4, <1>5, <1>6, <1>7 DEF IInv

\* The result of a surface that nobody altered is fresh.
LEMMA GotKeepsIInv ==
  ASSUME IInv, NEW s \in Surfaces, Fetching, Current(s), NEW a \in Anchors, Got(s, a),
         s \in altered \/ Fresh(a)
  PROVE  IInv'
<1>1. /\ results' = [t \in DOMAIN results \cup {s} |-> IF t = s THEN a ELSE results[t]]
      /\ release' = 0 /\ pc = "fetch" /\ s \in requested
      /\ UNCHANGED <<head, pending, releases, shown, altered, faults,
                     pc, requested, quorum, status, settled, moved>>
  BY DEF Got, published, Fetching, Current
<1>2. TypeOK'
  BY <1>1, StateFacts DEF IInv, TypeOK
<1>3. Surfaced'
  BY <1>1 DEF IInv, Surfaced
<1>4. Fetched'
  BY <1>1 DEF IInv, Fetched, Fresh
<1>5. History'
  BY <1>1 DEF IInv, History
<1>6. Verdict'
  BY <1>1 DEF IInv, TypeOK, Verdict, Valid
<1>. QED
  BY <1>2, <1>3, <1>4, <1>5, <1>6 DEF IInv

\* The newest release with an asset is no older than what the command found.
LEMMA ListReleasesKeepsIInv ==
  ASSUME IInv, ListReleases
  PROVE  IInv'
<1>1. Fetching /\ Current("github_release") /\ release = 0 /\ "github_release" \in Surfaces
  BY DEF ListReleases, Surfaces
<1>2. CASE releases = <<>> \/ releases[Len(releases)] = NoAnchor
  <2>1. Got("github_release", NoAnchor)
    BY <1>2 DEF ListReleases
  <2>. QED
    BY <1>1, <2>1, AnchorFacts, GotKeepsIInv DEF Fresh
<1>3. CASE ~(releases = <<>> \/ releases[Len(releases)] = NoAnchor)
  <2>1. /\ release' = Len(releases)
        /\ UNCHANGED <<head, pending, releases, shown, altered, faults, pc, requested, quorum,
                       results, status, settled, moved>>
    BY <1>3 DEF ListReleases, published
  <2>2. Len(releases) \in 1..Len(releases) /\ releases[Len(releases)] # NoAnchor
    <3>1. Len(releases) # 0
      BY <1>3, StateFacts, EmptySeq
    <3>. QED
      BY <1>3, <3>1, StateFacts
  <2>3. TypeOK'
    <3>1. pc = "fetch" /\ "github_release" \in requested \ DOMAIN results
      BY <1>1 DEF Fetching, Current
    <3>. QED
      BY <2>1, <2>2, <3>1 DEF IInv, TypeOK
  <2>4. Surfaced' /\ History'
    <3>1. Surfaced'
      BY <2>1 DEF IInv, Surfaced
    <3>2. pc # "idle"
      BY <1>1 DEF Fetching
    <3>. QED
      BY <2>1, <3>1, <3>2 DEF IInv, History
  <2>5. Fetched'
    <3>1. ASSUME "github_release" \notin altered
          PROVE  /\ Len(releases) \in settled..head
                 /\ releases[Len(releases)] = Anchor(Len(releases))
      <4>. DEFINE n == Len(releases)
      <4>1. /\ releases[n] = Anchor(n) /\ ~(n = head /\ "github_release" \in pending)
            /\ n <= head /\ head - 1 <= n /\ "github_release" \notin pending => n = head
        <5>1. releases[n] = IF n = head /\ "github_release" \in pending THEN NoAnchor ELSE Anchor(n)
          BY <3>1, <2>2 DEF IInv, Surfaced
        <5>. QED
          BY <5>1, <2>2 DEF IInv, Surfaced
      <4>2. n = head \/ (pending # {} /\ n = head - 1)
        BY <4>1, StateFacts DEF IInv, Surfaced
      <4>. QED
        BY <4>1, <4>2, StateFacts
    <3>. QED
      BY <2>1, <3>1 DEF IInv, Fetched, Fresh
  <2>6. Verdict'
    BY <2>1, SameVerdict DEF IInv
  <2>. QED
    BY <2>3, <2>4, <2>5, <2>6 DEF IInv
<1>. QED
  BY <1>2, <1>3

\* The asset is that of the release that was listed, whatever was released
\* meanwhile.
LEMMA DownloadAssetKeepsIInv ==
  ASSUME IInv, DownloadAsset
  PROVE  IInv'
<1>1. /\ Fetching /\ Current("github_release") /\ "github_release" \in Surfaces
      /\ release # 0 /\ Got("github_release", releases[release])
  BY DEF DownloadAsset, Surfaces
<1>2. release \in 1..Len(releases)
  BY <1>1, StateFacts DEF IInv, TypeOK
<1>3. releases[release] \in Anchors
  BY <1>2, StateFacts
<1>4. "github_release" \in altered \/ Fresh(releases[release])
  BY <1>1 DEF IInv, Fetched, Fresh
<1>. QED
  BY <1>1, <1>3, <1>4, GotKeepsIInv

\* S3 and DNS give what they show.
LEMMA FetchKeepsIInv ==
  ASSUME IInv, NEW s \in Surfaces, Fetch(s)
  PROVE  IInv'
<1>1. Fetching /\ Current(s) /\ s \in DOMAIN shown /\ Got(s, shown[s])
  BY DEF Fetch
<1>2. shown[s] \in Anchors
  BY <1>1 DEF IInv, TypeOK
<1>3. s \in altered \/ Fresh(shown[s])
  <2>. SUFFICES ASSUME s \notin altered PROVE Fresh(shown[s])
    OBVIOUS
  <2>1. shown[s] = Anchor(IF s \in pending THEN head - 1 ELSE head)
    BY <1>1 DEF IInv, Surfaced
  <2>2. (IF s \in pending THEN head - 1 ELSE head) \in settled..head
    BY StateFacts
  <2>. QED
    BY <2>1, <2>2 DEF Fresh
<1>. QED
  BY <1>1, <1>2, <1>3, GotKeepsIInv

\* A surface that cannot be reached gives nothing.
LEMMA UnreachableKeepsIInv ==
  ASSUME IInv, NEW s \in Surfaces, Unreachable(s)
  PROVE  IInv'
BY AnchorFacts, GotKeepsIInv DEF Unreachable, Fresh
-----------------------------------------------------------------------------
(* The consensus *)

\* A set of naturals has a least element.
LEMMA LeastOf ==
  ASSUME NEW S \in SUBSET Nat, S # {}
  PROVE  \E x \in S : \A y \in S : x <= y
<1>1. PICK x \in S : \A y \in S : ~(<<y, x>> \in OpToRel(<, Nat))
  BY NatLessThanWellFounded, WFMin
<1>2. \A y \in S : ~(y < x)
  BY <1>1 DEF OpToRel
<1>. QED
  BY <1>2

\* Where the results agree nothing is mismatched.
LEMMA AgreeMatches ==
  ASSUME Agree
  PROVE  MismatchedSources = {}
<1>1. CASE Reachable = {}
  BY <1>1 DEF MismatchedSources
<1>2. CASE Reachable # {}
  <2>1. \A s \in Reachable : HashGroup(results[s].prefix) = Reachable
    BY DEF Agree, HashGroup
  <2>2. {HashGroup(results[s].prefix) : s \in Reachable} = {Reachable}
    BY <1>2, <2>1
  <2>3. \A G \in {Reachable} : {Reachable} \ {G} = {}
    OBVIOUS
  <2>4. ConsensusSources \in {Reachable}
    BY <2>2, <2>3 DEF ConsensusSources
  <2>. QED
    BY <2>4 DEF MismatchedSources
<1>. QED
  BY <1>1, <1>2

\* Where something answered there is a largest group, and of the largest one
\* that holds the earliest result: the consensus is one of the groups.
LEMMA ConsensusIsAGroup ==
  ASSUME Reachable # {}, Reachable \subseteq Surfaces
  PROVE  \E s \in Reachable : ConsensusSources = HashGroup(results[s].prefix)
<1>. DEFINE First(G) == CHOOSE i \in 1..3 : /\ FetchOrder[i] \in G
                                            /\ \A j \in 1..(i - 1) : FetchOrder[j] \notin G
            Groups == {HashGroup(results[s].prefix) : s \in Reachable}
            Larger(G, H) == \/ Cardinality(G) > Cardinality(H)
                            \/ Cardinality(G) = Cardinality(H) /\ First(G) < First(H)
<1>1. IsFiniteSet(Surfaces) /\ Surfaces = {FetchOrder[i] : i \in 1..3}
  <2>1. IsFiniteSet(({"github_release"} \cup {"s3_versioned"}) \cup {"dns_txt"})
    <3>1. IsFiniteSet({"github_release"})
      BY FS_Singleton
    <3>2. IsFiniteSet({"github_release"} \cup {"s3_versioned"})
      BY <3>1, FS_AddElement
    <3>. QED
      BY <3>2, FS_AddElement
  <2>2. /\ FetchOrder[1] = "github_release" /\ FetchOrder[2] = "s3_versioned"
        /\ FetchOrder[3] = "dns_txt"
    BY DEF FetchOrder
  <2>3. 1..3 = {1, 2, 3}
    OBVIOUS
  <2>. QED
    BY <2>1, <2>2, <2>3 DEF Surfaces
<1>2. \A G \in Groups : /\ G # {} /\ G \subseteq Surfaces
                        /\ IsFiniteSet(G) /\ Cardinality(G) \in Nat
                        /\ Cardinality(G) <= Cardinality(Surfaces)
  <2>. SUFFICES ASSUME NEW s \in Reachable, NEW G, G = HashGroup(results[s].prefix)
                PROVE  /\ G # {} /\ G \subseteq Surfaces
                       /\ IsFiniteSet(G) /\ Cardinality(G) \in Nat
                       /\ Cardinality(G) <= Cardinality(Surfaces)
    OBVIOUS
  <2>1. s \in G /\ G \in SUBSET Surfaces
    BY DEF HashGroup
  <2>2. IsFiniteSet(G) /\ Cardinality(G) <= Cardinality(Surfaces)
    BY <1>1, <2>1, FS_Subset
  <2>. QED
    BY <2>1, <2>2, FS_CardinalityType
<1>3. \A G \in Groups : /\ First(G) \in 1..3 /\ FetchOrder[First(G)] \in G
  <2>. SUFFICES ASSUME NEW G \in Groups
                PROVE  First(G) \in 1..3 /\ FetchOrder[First(G)] \in G
    OBVIOUS
  <2>. DEFINE I == {i \in 1..3 : FetchOrder[i] \in G}
  <2>1. I \in SUBSET Nat /\ I # {}
    BY <1>1, <1>2
  <2>2. PICK i \in I : \A j \in I : i <= j
    BY <2>1, LeastOf
  <2>3. i \in 1..3 /\ FetchOrder[i] \in G /\ \A j \in 1..(i - 1) : FetchOrder[j] \notin G
    BY <2>2
  <2>. QED
    BY <2>3
<1>4. \A G, H \in Groups : G # H => G \cap H = {}
  BY DEF HashGroup
<1>5. \A G, H \in Groups : G # H => First(G) # First(H)
  BY <1>3, <1>4
<1>. HIDE DEF First
<1>6. Groups # {}
  OBVIOUS
<1>. HIDE DEF Groups
<1>7. PICK L \in Groups : \A H \in Groups : Cardinality(L) >= Cardinality(H)
  <2>. DEFINE m == Cardinality(Surfaces)
              S == {m - Cardinality(G) : G \in Groups}
  <2>1. m \in Nat
    BY <1>1, FS_CardinalityType
  <2>2. S \in SUBSET Nat /\ S # {}
    BY <2>1, <1>2, <1>6
  <2>3. PICK x \in S : \A y \in S : x <= y
    BY <2>2, LeastOf
  <2>4. PICK G \in Groups : x = m - Cardinality(G)
    BY <2>3
  <2>5. \A H \in Groups : m - Cardinality(G) <= m - Cardinality(H)
    BY <2>3, <2>4
  <2>. HIDE DEF m
  <2>6. \A H \in Groups : Cardinality(G) >= Cardinality(H)
    BY <2>1, <2>5, <1>2
  <2>. QED
    BY <2>6
<1>8. PICK G \in Groups :
             /\ Cardinality(G) = Cardinality(L)
             /\ \A H \in Groups : Cardinality(H) = Cardinality(L) => First(G) <= First(H)
  <2>. DEFINE S == {First(G) : G \in {H \in Groups : Cardinality(H) = Cardinality(L)}}
  <2>1. S \in SUBSET Nat /\ S # {}
    BY <1>3, <1>7
  <2>2. PICK x \in S : \A y \in S : x <= y
    BY <2>1, LeastOf
  <2>3. PICK G \in Groups : Cardinality(G) = Cardinality(L) /\ x = First(G)
    BY <2>2
  <2>. QED
    BY <2>2, <2>3
<1>9. \A H \in Groups \ {G} : Larger(G, H)
  <2>. SUFFICES ASSUME NEW H \in Groups, H # G PROVE Larger(G, H)
    OBVIOUS
  <2>1. Cardinality(G) > Cardinality(H) \/ Cardinality(G) = Cardinality(H)
    BY <1>2, <1>7, <1>8
  <2>2. Cardinality(G) = Cardinality(H) => First(G) <= First(H) /\ First(G) # First(H)
    BY <1>5, <1>8
  <2>. QED
    BY <2>1, <2>2, <1>3
<1>10. ConsensusSources = CHOOSE X \in Groups : \A H \in Groups \ {X} : Larger(X, H)
  BY DEF ConsensusSources, Groups, First
<1>. HIDE DEF Larger
<1>11. ConsensusSources \in Groups
  BY <1>9, <1>10
<1>. QED
  BY <1>11 DEF Groups

\* Where nothing is mismatched the results agree.
LEMMA MatchedAgree ==
  ASSUME Reachable # {}, Reachable \subseteq Surfaces, MismatchedSources = {}
  PROVE  Agree
<1>1. PICK s \in Reachable : ConsensusSources = HashGroup(results[s].prefix)
  BY ConsensusIsAGroup
<1>2. Reachable \subseteq HashGroup(results[s].prefix)
  BY <1>1 DEF MismatchedSources
<1>. QED
  BY <1>2 DEF Agree, HashGroup

\* The verdict is valid only if what answered agrees, and FAIL only if not.
LEMMA DecideKeepsIInv ==
  ASSUME IInv, Decide
  PROVE  IInv'
<1>1. /\ pc = "fetch" /\ requested = DOMAIN results /\ pc' = "done"
      /\ UNCHANGED <<head, pending, releases, shown, altered, faults, requested, quorum,
                     release, results, settled, moved>>
      /\ status' = IF Reachable = {} \/ Cardinality(Reachable) < quorum THEN "ERROR"
                   ELSE IF MismatchedSources # {} THEN "FAIL"
                   ELSE IF Reachable # DOMAIN results THEN "WARN"
                   ELSE "PASS"
  BY DEF Decide, published
<1>2. Reachable \subseteq Surfaces
  BY DEF Reachable, IInv, TypeOK
<1>3. TypeOK'
  <2>1. status' # "NONE"
    BY <1>1
  <2>2. release = 0
    BY <1>1 DEF IInv, TypeOK
  <2>. QED
    BY <1>1, <2>1, <2>2 DEF IInv, TypeOK
<1>4. Surfaced'
  BY <1>1 DEF IInv, Surfaced
<1>5. Fetched'
  BY <1>1 DEF IInv, Fetched, Fresh
<1>6. History'
  BY <1>1 DEF IInv, History
<1>7. Verdict'
  <2>1. Reachable' = Reachable /\ (Agree' <=> Agree)
    BY <1>1 DEF Reachable, Agree
  <2>2. status' \in {"PASS", "WARN"} => Reachable # {} /\ MismatchedSources = {}
    BY <1>1
  <2>3. status' = "FAIL" => MismatchedSources # {}
    BY <1>1
  <2>4. status' \in {"PASS", "WARN"} => Reachable # {} /\ Agree
    BY <1>2, <2>2, MatchedAgree
  <2>5. status' = "FAIL" => ~Agree
    BY <2>3, AgreeMatches
  <2>. QED
    BY <2>1, <2>4, <2>5 DEF Verdict, Valid
<1>. QED
  BY <1>3, <1>4, <1>5, <1>6, <1>7 DEF IInv

\* A step that changes nothing.
LEMMA StutterKeepsIInv ==
  ASSUME IInv, UNCHANGED vars
  PROVE  IInv'
<1>. USE DEF vars, published, verifier
<1>1. TypeOK' /\ Surfaced'
  BY DEF IInv, TypeOK, Surfaced
<1>2. Fetched' /\ History'
  BY DEF IInv, Fetched, Fresh, History
<1>3. Verdict'
  BY SameVerdict DEF IInv
<1>. QED
  BY <1>1, <1>2, <1>3 DEF IInv
-----------------------------------------------------------------------------
(* The theorems *)

\* What every step keeps: a surface nobody altered shows the newest anchor or,
\* while that is being mirrored, the one before, and what it gave the verifier
\* is no older than what all surfaces had when the command began.
THEOREM Invariance == Spec => []IInv
<1>1. Init => IInv
  BY InitIInv
<1>2. IInv /\ [Next]_vars => IInv'
  <2>. SUFFICES ASSUME IInv, [Next]_vars PROVE IInv'
    OBVIOUS
  <2>1. CASE NewAnchor \/ CreateRelease \/ UploadAsset
    BY <2>1, NewAnchorKeepsIInv, CreateReleaseKeepsIInv, UploadAssetKeepsIInv
  <2>2. CASE \E s \in Surfaces : Mirror(s) \/ Alter(s) \/ Fetch(s) \/ Unreachable(s)
    BY <2>2, MirrorKeepsIInv, AlterKeepsIInv, FetchKeepsIInv, UnreachableKeepsIInv
  <2>3. CASE Start
    BY <2>3, StartKeepsIInv
  <2>4. CASE ListReleases \/ DownloadAsset
    BY <2>4, ListReleasesKeepsIInv, DownloadAssetKeepsIInv
  <2>5. CASE Decide
    BY <2>5, DecideKeepsIInv
  <2>6. CASE UNCHANGED vars
    BY <2>6, StutterKeepsIInv
  <2>. QED
    BY <2>1, <2>2, <2>3, <2>4, <2>5, <2>6 DEF Next
<1>. QED
  BY <1>1, <1>2, PTL DEF Spec

\* Every variable of the platform and of the command keeps its range; a
\* release is chosen only while GitHub is being fetched, and a verdict is
\* there exactly when every requested surface has a result.
THEOREM TypeCorrect == Spec => []TypeOK
<1>1. IInv => TypeOK
  BY DEF IInv
<1>. QED
  BY <1>1, Invariance, PTL

\* However many anchors are mirrored between the fetches, and whatever the
\* other surfaces were altered to: if a surface that answered was not altered,
\* a PASS or a WARN is about a published anchor, none older than what all the
\* surfaces had when the command began.
THEOREM OneHonestSurfaceDecides == Spec => []HonestSurfaceDecides
<1>1. IInv => HonestSurfaceDecides
  <2>. SUFFICES ASSUME IInv, Valid, Reachable \ altered # {}, NEW s \in Reachable
                PROVE  results[s].prefix \in settled..head
    BY DEF HonestSurfaceDecides
  <2>1. PICK h \in Reachable : h \notin altered
    OBVIOUS
  <2>2. h \in DOMAIN results /\ results[h] # NoAnchor
    BY DEF Reachable
  <2>3. PICK n \in settled..head : results[h] = Anchor(n)
    BY <2>1, <2>2 DEF IInv, Fetched, Fresh
  <2>4. results[s].prefix = results[h].prefix
    BY DEF IInv, Verdict, Agree
  <2>. QED
    BY <2>3, <2>4, AnchorFacts
<1>. QED
  BY <1>1, Invariance, PTL

\* No outage, missing asset or high quorum makes a FAIL: one needs an altered
\* surface or an anchor on its way while the command ran.
THEOREM FailNeedsDivergence == Spec => []FailIsDivergence
<1>1. IInv => FailIsDivergence
  <2>. SUFFICES ASSUME IInv, status = "FAIL", altered = {}, ~moved PROVE FALSE
    BY DEF FailIsDivergence
  <2>1. pc = "done"
    BY DEF IInv, TypeOK
  <2>2. settled = head /\ head \in Nat
    BY <2>1, StateFacts DEF IInv, History
  <2>3. \A s \in Reachable : results[s] = Anchor(head)
    BY <2>2 DEF Reachable, IInv, Fetched, Fresh
  <2>4. Agree
    BY <2>3 DEF Agree
  <2>. QED
    BY <2>4 DEF IInv, Verdict
<1>. QED
  BY <1>1, Invariance, PTL
=============================================================================
