---------------------------- MODULE MirrorHistory -----------------------------
(***************************************************************************)
(* "specora-verify mirror verify-anchors": cmd_mirror_verify_anchors in    *)
(* cli.py, load_local_anchor in fetchers/local.py and verify_anchor_chain  *)
(* in validators/mirror.py.  The platform's anchors are linked by hash and *)
(* kept on two surfaces; a copy of each reaches the verifier as a          *)
(* directory of files, some lost or altered; the verifier takes those not  *)
(* older than --since, compares the directories index by index and follows *)
(* the links of the anchors they agree on.                                 *)
(*                                                                         *)
(* A hash is its first 32 characters and the rest; directories are         *)
(* compared by the first part, links by the whole.  The command computes   *)
(* no hash; whoever alters an anchor may.                                  *)
(***************************************************************************)
EXTENDS Integers, Sequences, FiniteSets, FiniteSetsExt

CONSTANTS
  MaxAnchors,   \* bound on the anchors of the platform
  MaxFaults     \* bound on the files lost or altered

ASSUME HistoryBoundsOK == {MaxAnchors, MaxFaults} \subseteq Nat

VARIABLES
  count,       \* the anchors the platform has published
  files,       \* files[d]: directory d, by the order of its file names
  faults,
  pc,          \* "copy", "load", "check" or "done"
  since,       \* --since, as the number of the first anchor of that day
  loaded,      \* anchors_by_source: loaded[d], the places in files[d] it took
  todo,        \* sorted_indices not yet looked at
  expected,    \* expected_previous_hash, NoHash for None
  agreed,      \* anchor_details: by index, the anchor that was agreed on
  broken,      \* mismatched_indices and broken_linkages together
  status       \* MirrorStatus, "NONE" while running

vars == <<count, files, faults, pc, since, loaded, todo, expected, agreed, broken, status>>
copies == <<count, files, faults>>
-----------------------------------------------------------------------------
(* Anchors and their copies *)

\* anchors_by_source is filled in this order.
Directories == {"github_release", "s3_versioned"}

Forged == <<-1>>
NoHash == <<>>
NoIndex == 0

\* Both parts of a hash are written as what was hashed, and as <<n>> for what
\* the platform hashed into anchor n; 0 is GENESIS.
Hash(n) == <<<<n>>, <<n>>>>

\* day: its timestamp, by the number of the anchor; 0 if it has none.  It
\* stands for all that is hashed beside the index and the link.
Anchor(n) == [chain_head_index |-> n, anchor_hash |-> Hash(n),
              previous_anchor_hash |-> Hash(n - 1), day |-> n, anchor_signature |-> Hash(n)]

\* File names need not sort as the anchors were published ("10" < "9").
Init ==
  /\ count \in 1..MaxAnchors
  /\ \E listing \in {[n \in 1..count |-> Anchor(n)], [n \in 1..count |-> Anchor(count + 1 - n)]} :
       files = [d \in Directories |-> listing]
  /\ faults = 0
  /\ pc = "copy" /\ since = 1
  /\ loaded = [d \in Directories |-> {}]
  /\ todo = {} /\ expected = NoHash /\ agreed = <<>> /\ broken = {} /\ status = "NONE"

Faulting == pc = "copy" /\ faults < MaxFaults

Fault(d, f) ==
  /\ files' = [files EXCEPT ![d] = f]
  /\ faults' = faults + 1
  /\ UNCHANGED <<count, pc, since, loaded, todo, expected, agreed, broken, status>>

Lose(d, k) ==
  /\ Faulting
  /\ Fault(d, [j \in 1..(Len(files[d]) - 1) |-> IF j < k THEN files[d][j] ELSE files[d][j + 1]])

Hashed(a) == <<a.chain_head_index, a.day, a.previous_anchor_hash>>

HashOf(a) ==
  IF \E n \in 1..count : Hashed(a) = Hashed(Anchor(n))
  THEN Hash(CHOOSE n \in 1..count : Hashed(a) = Hashed(Anchor(n)))
  ELSE <<Hashed(a), Hashed(a)>>

\* What is altered of the fields that are hashed; a link may be made to any
\* file of the directory.
Edits(d, a) ==
       {[a EXCEPT !.chain_head_index = n] : n \in 0..count}
  \cup {[a EXCEPT !.day = n] : n \in 0..count}
  \cup {[a EXCEPT !.previous_anchor_hash = h] :
          h \in {NoHash, Hash(0)} \cup {files[d][k].anchor_hash : k \in 1..Len(files[d])}
                 \cup {<<l[1], Forged>> : l \in {a.previous_anchor_hash} \ {NoHash}}}

\* A hash that is lost stands for every file that does not load.
Alterations(d, a) ==
  Edits(d, a) \cup {[b EXCEPT !.anchor_hash = HashOf(b)] : b \in Edits(d, a)}
  \cup {[a EXCEPT !.anchor_hash = h] : h \in {NoHash} \cup {Hash(n) : n \in 1..count}}
  \cup {[a EXCEPT !.anchor_signature = Hash(n)] : n \in 1..count}
  \cup {[a EXCEPT !.anchor_hash = h] :
          h \in UNION {{<<Forged, l[2]>>, <<l[1], Forged>>} : l \in {a.anchor_hash} \ {NoHash}}}

Alter(d, k) ==
  Faulting /\ \E a \in Alterations(d, files[d][k]) \ {files[d][k]} : Fault(d, [files[d] EXCEPT ![k] = a])

-----------------------------------------------------------------------------
(* The verifier *)

NoSource ==
  /\ pc = "copy"
  /\ pc' = "done" /\ status' = "ERROR"
  /\ UNCHANGED <<copies, since, loaded, todo, expected, agreed, broken>>

\* Anchors without a timestamp are taken whatever --since says.
Taken(a) == a.day = 0 \/ a.day >= since

\* One directory or both are given; one that is not there is skipped, and so
\* is a file that does not load or has no anchor_hash.
\* Anchors without an index never enter index_map.
Load ==
  /\ pc = "copy"
  /\ \E given \in SUBSET DOMAIN files, day \in 1..(count + 1) :
       /\ given # {} /\ since' = day
       /\ pc' = "load"
       /\ loaded' = [d \in DOMAIN files |->
                       {k \in 1..Len(files[d]) : d \in given /\ files[d][k].anchor_hash # NoHash}]
  /\ UNCHANGED <<copies, todo, expected, agreed, broken, status>>

\* What the filter leaves, and the indices there are.
BuildIndexMap ==
  /\ pc = "load"
  /\ loaded' = [d \in DOMAIN loaded |-> {k \in loaded[d] : Taken(files[d][k])}]
  /\ todo' = (UNION {{files[d][k].chain_head_index : k \in loaded'[d]} : d \in DOMAIN loaded})
               \ {NoIndex}
  /\ IF todo' = {} THEN pc' = "done" /\ status' = "ERROR"
                   ELSE pc' = "check" /\ UNCHANGED status
  /\ UNCHANGED <<copies, since, expected, agreed, broken>>

\* index_map[idx]: of files with the same index the last one counts.
Positions(d, idx) == {k \in loaded[d] : files[d][k].chain_head_index = idx}
Sources(idx) == {d \in DOMAIN loaded : Positions(d, idx) # {}}
Result(d, idx) == files[d][Max(Positions(d, idx))]

\* Mutant: does not compare the directories.
NoMismatch(idx) == FALSE

\* Mutant: an anchor that one directory lacks is a mismatch.
MismatchOrMissing(idx) ==
  \/ Sources(idx) # DOMAIN loaded
  \/ \E d, e \in Sources(idx) : Result(d, idx).anchor_hash[1] # Result(e, idx).anchor_hash[1]

Mismatch(idx) ==
  \E d, e \in Sources(idx) : Result(d, idx).anchor_hash[1] # Result(e, idx).anchor_hash[1]

FirstSource(idx) ==
  IF "github_release" \in Sources(idx) THEN "github_release" ELSE "s3_versioned"
LastSource(idx) ==
  IF "s3_versioned" \in Sources(idx) THEN "s3_versioned" ELSE "github_release"

\* Of groups of one size the first has it: what the first directory says, of
\* the hash and, unless that is null, of the previous hash.
Agreed(idx) ==
  LET first == Result(FirstSource(idx), idx)
      last  == Result(LastSource(idx), idx)
  IN  IF first.previous_anchor_hash = NoHash /\ ~Mismatch(idx)
      THEN [first EXCEPT !.previous_anchor_hash = last.previous_anchor_hash]
      ELSE first

\* Mutant: keeps the previous hash of the anchor for the next turn.
CheckIndexKeepingPrevious ==
  /\ pc = "check" /\ todo # {}
  /\ LET idx == Min(todo)
         a == Agreed(idx)
     IN  /\ agreed' = [i \in DOMAIN agreed \cup {idx} |-> IF i = idx THEN a ELSE agreed[i]]
         /\ broken' = IF Mismatch(idx) \/ (expected # NoHash /\ a.previous_anchor_hash # expected)
                      THEN broken \cup {idx} ELSE broken
         /\ expected' = IF expected = NoHash THEN a.anchor_hash ELSE expected
         /\ todo' = todo \ {idx}
  /\ UNCHANGED <<copies, pc, since, loaded, status>>

\* One turn of the loop of verify_anchor_chain; the first anchor's link is
\* not looked at.
CheckIndex ==
  /\ pc = "check" /\ todo # {}
  /\ LET idx == Min(todo)
         a == Agreed(idx)
     IN  /\ agreed' = [i \in DOMAIN agreed \cup {idx} |-> IF i = idx THEN a ELSE agreed[i]]
         /\ broken' = IF Mismatch(idx) \/ (expected # NoHash /\ a.previous_anchor_hash # expected)
                      THEN broken \cup {idx} ELSE broken
         /\ expected' = a.anchor_hash
         /\ todo' = todo \ {idx}
  /\ UNCHANGED <<copies, pc, since, loaded, status>>

\* Every anchor loaded has a hash, so WARN cannot come; --quorum plays no
\* part.
Finish ==
  /\ pc = "check" /\ todo = {}
  /\ pc' = "done" /\ status' = IF broken = {} THEN "PASS" ELSE "FAIL"
  /\ UNCHANGED <<copies, since, loaded, todo, expected, agreed, broken>>

Next ==
  \/ \E d \in DOMAIN files : \E k \in 1..Len(files[d]) : Lose(d, k) \/ Alter(d, k)
  \/ NoSource \/ Load \/ BuildIndexMap \/ CheckIndex \/ Finish

Spec == Init /\ [][Next]_vars
-----------------------------------------------------------------------------
(* Properties *)

\* Every variable has its type, and expected is the hash agreed on at the
\* index looked at last.
TypeOK ==
  /\ \A d \in DOMAIN files :
       /\ loaded[d] \subseteq 1..Len(files[d])
       /\ \A k \in 1..Len(files[d]) :
            /\ files[d][k].chain_head_index \in 0..MaxAnchors
            /\ files[d][k].day \in 0..MaxAnchors
  /\ faults \in 0..MaxFaults
  /\ pc \in {"copy", "load", "check", "done"}
  /\ since \in 1..(count + 1)
  /\ todo \cap DOMAIN agreed = {} /\ broken \subseteq DOMAIN agreed
  /\ expected = IF DOMAIN agreed = {} THEN NoHash
                ELSE agreed[Max(DOMAIN agreed)].anchor_hash
  /\ status \in {"NONE", "PASS", "FAIL", "ERROR"}
  /\ (status # "NONE") <=> (pc = "done")

Given(d) == loaded[d] # {}

Kept(d) == {files[d][k].chain_head_index : k \in loaded[d]}

\* Files that were lost do no harm while each anchor survives in one of the
\* directories, and never go unnoticed when one is lost in both: with no
\* file altered the verdict is PASS exactly if the indices have no gap.
LossesAreGaps ==
  /\ status \in {"PASS", "FAIL"}
  /\ \A d \in DOMAIN files : \A k \in 1..Len(files[d]) :
       files[d][k] \in {Anchor(n) : n \in 1..count}
  => LET kept == UNION {Kept(d) : d \in DOMAIN files}
     IN  status = "PASS" <=> kept = Min(kept)..Max(kept)
=============================================================================
