----------------------------- MODULE MirrorLatest -----------------------------
(***************************************************************************)
(* "specora-verify mirror verify-latest": cmd_mirror_verify_latest in      *)
(* cli.py, verify_mirror_consistency in validators/mirror.py and the       *)
(* fetchers of GitHub releases, S3 and DNS.  The platform mirrors each new *)
(* anchor to the surfaces one after the other, while the verifier fetches  *)
(* them one after the other; surfaces are down, half published or altered. *)
(*                                                                         *)
(* An anchor hash is its first 32 characters and the rest.  DNS carries    *)
(* only the first part, and only the first parts are compared.  Hashes of  *)
(* different anchors differ in the first part.  --offline reads copies of  *)
(* the surfaces, taken one after the other too.                            *)
(***************************************************************************)
EXTENDS Integers, Sequences, FiniteSets

CONSTANTS
  MaxAnchors,   \* bound on the anchors the platform publishes
  MaxFaults,    \* bound on the alterations of surfaces
  MaxQuorum     \* largest --quorum

ASSUME MirrorBoundsOK == {MaxAnchors, MaxFaults, MaxQuorum} \subseteq Nat

VARIABLES
  head,       \* the newest anchor the platform has begun to mirror
  pending,    \* the surfaces it has still to mirror it to
  releases,   \* the GitHub releases, oldest first: the anchor.json of each
  shown,      \* what the S3 object and the TXT record hold
  altered,    \* history: the surfaces that were altered
  faults,
  pc,         \* "idle", "fetch" or "done"
  requested,  \* the surfaces named on the command line
  quorum,     \* --quorum
  release,    \* the release whose anchor.json is to be downloaded, 0: none yet
  results,    \* source_results: what each surface fetched so far gave
  status,     \* MirrorStatus, "NONE" while running
  settled,    \* history: the newest anchor on all surfaces when it started
  moved       \* history: an anchor was being mirrored while it ran

published == <<head, pending, releases, shown, altered, faults>>
verifier == <<pc, requested, quorum, release, results, status, settled>>
vars == <<published, verifier, moved>>
-----------------------------------------------------------------------------
(* The surfaces *)

Surfaces == {"github_release", "s3_versioned", "dns_txt"}

\* The order of the fetches and of the results in source_results.
FetchOrder == <<"github_release", "s3_versioned", "dns_txt">>

Forged == -1
Hashes == {Forged} \cup 0..MaxAnchors
Anchors == [chain_head_index : 0..MaxAnchors, prefix : Hashes, rest : Hashes]

Anchor(n) == [chain_head_index |-> n, prefix |-> n, rest |-> n]

\* Nothing published, or a release without its asset.
NoAnchor == Anchor(0)

Init ==
  /\ head = 0 /\ pending = {} /\ releases = <<>>
  /\ shown = [s \in {"s3_versioned", "dns_txt"} |-> NoAnchor]
  /\ altered = {} /\ faults = 0
  /\ pc = "idle" /\ requested = {} /\ quorum = 0 /\ release = 0
  /\ results = <<>> /\ status = "NONE" /\ settled = 0 /\ moved = FALSE

NewAnchor ==
  /\ pc # "done" /\ pending = {} /\ head < MaxAnchors
  /\ head' = head + 1 /\ pending' = Surfaces
  /\ moved' = (moved \/ pc = "fetch")
  /\ UNCHANGED <<releases, shown, altered, faults, verifier>>

Mirror(s) ==
  /\ pc # "done" /\ s \in pending \cap DOMAIN shown
  /\ shown' = [shown EXCEPT ![s] = Anchor(head)]
  /\ pending' = pending \ {s}
  /\ UNCHANGED <<head, releases, altered, faults, verifier, moved>>

\* A release exists before its asset is uploaded.
CreateRelease ==
  /\ pc # "done" /\ "github_release" \in pending /\ Len(releases) < head
  /\ releases' = Append(releases, NoAnchor)
  /\ UNCHANGED <<head, pending, shown, altered, faults, verifier, moved>>

UploadAsset ==
  /\ pc # "done" /\ "github_release" \in pending /\ Len(releases) = head
  /\ releases' = [releases EXCEPT ![head] = Anchor(head)]
  /\ pending' = pending \ {"github_release"}
  /\ UNCHANGED <<head, shown, altered, faults, verifier, moved>>

\* What a surface may hold after it was altered: an older anchor, a forged
\* hash, or one that differs only in the part that DNS does not carry.
Alterations(a) ==
  ({Anchor(n) : n \in 1..head} \cup {[a EXCEPT !.prefix = Forged], [a EXCEPT !.rest = Forged]})
    \ {a}

Alter(s) ==
  /\ pc # "done" /\ faults < MaxFaults
  /\ \/ /\ s \in DOMAIN shown /\ shown[s] # NoAnchor
        /\ \E a \in Alterations(shown[s]) : shown' = [shown EXCEPT ![s] = a]
        /\ UNCHANGED releases
     \/ /\ s = "github_release"
        /\ \E r \in 1..Len(releases) :
             /\ releases[r] # NoAnchor
             /\ \E a \in Alterations(releases[r]) : releases' = [releases EXCEPT ![r] = a]
        /\ UNCHANGED shown
  /\ altered' = altered \cup {s} /\ faults' = faults + 1
  /\ UNCHANGED <<head, pending, verifier, moved>>

-----------------------------------------------------------------------------
(* The verifier *)

Start ==
  /\ pc = "idle"
  /\ requested' \in SUBSET Surfaces /\ quorum' \in 0..MaxQuorum
  /\ IF requested' = {} THEN pc' = "done" /\ status' = "ERROR"
                        ELSE pc' = "fetch" /\ UNCHANGED status
  /\ settled' = IF pending = {} THEN head ELSE head - 1
  /\ moved' = (pending # {})
  /\ UNCHANGED <<published, release, results>>

\* Is s the surface being fetched?
Current(s) ==
  LET toFetch == requested \ DOMAIN results
  IN  \E i \in DOMAIN FetchOrder : /\ FetchOrder[i] = s /\ s \in toFetch
                                   /\ \A j \in 1..(i - 1) : FetchOrder[j] \notin toFetch

Fetching == pc = "fetch" /\ requested # DOMAIN results

\* Mutant: the chosen release stays chosen.
GotKeepingRelease(s, a) ==
  /\ results' = [t \in DOMAIN results \cup {s} |-> IF t = s THEN a ELSE results[t]]
  /\ UNCHANGED <<published, pc, requested, quorum, release, status, settled, moved>>

\* The result of one surface.
Got(s, a) ==
  /\ results' = [t \in DOMAIN results \cup {s} |-> IF t = s THEN a ELSE results[t]]
  /\ release' = 0
  /\ UNCHANGED <<published, pc, requested, quorum, status, settled, moved>>

\* Mutant: takes the first release ever.
ListOldestRelease ==
  /\ Fetching /\ Current("github_release") /\ release = 0
  /\ IF releases = <<>> \/ releases[1] = NoAnchor
     THEN Got("github_release", NoAnchor)
     ELSE /\ release' = 1
          /\ UNCHANGED <<published, pc, requested, quorum, results, status, settled, moved>>

\* The first request to GitHub: the newest release, if it has an anchor.json
\* already; without one the surface is reachable and has no hash.
ListReleases ==
  /\ Fetching /\ Current("github_release") /\ release = 0
  /\ IF releases = <<>> \/ releases[Len(releases)] = NoAnchor
     THEN Got("github_release", NoAnchor)
     ELSE /\ release' = Len(releases)
          /\ UNCHANGED <<published, pc, requested, quorum, results, status, settled, moved>>

\* The second request, for the anchor.json of that release.
DownloadAsset ==
  /\ Fetching /\ Current("github_release") /\ release # 0
  /\ Got("github_release", releases[release])

Fetch(s) == Fetching /\ Current(s) /\ s \in DOMAIN shown /\ Got(s, shown[s])

\* A timeout, an HTTP or DNS error, a missing package, text that does not
\* parse: a result without hash, whatever the surface holds.
Unreachable(s) == Fetching /\ Current(s) /\ Got(s, NoAnchor)

\* Mutant: a surface without a hash is compared too.
ReachableAll == DOMAIN results

\* reachable_sources: those with a hash
Reachable == {s \in DOMAIN results : results[s] # NoAnchor}

HashGroup(p) == {s \in Reachable : results[s].prefix = p}

\* The consensus is the largest group, of two as large the one that holds
\* the earlier result.
ConsensusSources ==
  LET First(G) == CHOOSE i \in 1..3 : FetchOrder[i] \in G /\ \A j \in 1..(i - 1) : FetchOrder[j] \notin G
      Groups == {HashGroup(results[s].prefix) : s \in Reachable}
  IN  CHOOSE G \in Groups :
        \A H \in Groups \ {G} : \/ Cardinality(G) > Cardinality(H)
                                \/ Cardinality(G) = Cardinality(H) /\ First(G) < First(H)

MismatchedSources == Reachable \ ConsensusSources

\* Mutant: a mismatch matters only if there is no quorum.
DecideByMajority ==
  /\ pc = "fetch" /\ requested = DOMAIN results
  /\ pc' = "done"
  /\ status' = IF Reachable = {} \/ Cardinality(ConsensusSources) < quorum THEN "ERROR"
               ELSE IF Reachable # DOMAIN results THEN "WARN"
               ELSE "PASS"
  /\ UNCHANGED <<published, requested, quorum, release, results, settled, moved>>

\* verify_mirror_consistency.  Without a mismatch the consensus has all
\* reachable surfaces, so the quorum is met once there are enough of them.
Decide ==
  /\ pc = "fetch" /\ requested = DOMAIN results
  /\ pc' = "done"
  /\ status' = IF Reachable = {} \/ Cardinality(Reachable) < quorum THEN "ERROR"
               ELSE IF MismatchedSources # {} THEN "FAIL"
               ELSE IF Reachable # DOMAIN results THEN "WARN"
               ELSE "PASS"
  /\ UNCHANGED <<published, requested, quorum, release, results, settled, moved>>

Next ==
  \/ NewAnchor \/ CreateRelease \/ UploadAsset
  \/ \E s \in Surfaces : Mirror(s) \/ Alter(s) \/ Fetch(s) \/ Unreachable(s)
  \/ Start \/ ListReleases \/ DownloadAsset \/ Decide

Spec == Init /\ [][Next]_vars
-----------------------------------------------------------------------------
(* Properties *)

\* Every variable has its type; a verdict is there once the fetches are done,
\* and no fetch is left half way.
TypeOK ==
  /\ head \in 0..MaxAnchors /\ pending \subseteq Surfaces
  /\ releases \in Seq(Anchors) /\ Len(releases) <= head
  /\ shown \in [{"s3_versioned", "dns_txt"} -> Anchors]
  /\ altered \subseteq Surfaces /\ faults \in 0..MaxFaults
  /\ pc \in {"idle", "fetch", "done"}
  /\ DOMAIN results \subseteq requested /\ requested \subseteq Surfaces
  /\ release \in 0..Len(releases)
  /\ release # 0 => pc = "fetch" /\ "github_release" \in requested \ DOMAIN results
  /\ (status # "NONE") <=> (pc = "done")
  /\ pc = "done" => DOMAIN results = requested

Valid == status \in {"PASS", "WARN"}

\* INV-ANCHOR-012: one honest surface among those that answered decides.  A
\* positive verdict is then about an anchor the platform published, and none
\* older than what all surfaces showed when the command began, whatever the
\* others were altered to and whatever was mirrored between the fetches.
HonestSurfaceDecides ==
  Valid /\ Reachable \ altered # {} =>
    \A s \in Reachable : results[s].prefix \in settled..head

\* A FAIL is a divergence between surfaces: never the effect of an outage, of
\* a missing asset or of a high quorum, when nothing was altered and no
\* anchor was being mirrored.
FailIsDivergence == status = "FAIL" => altered # {} \/ moved
=============================================================================
