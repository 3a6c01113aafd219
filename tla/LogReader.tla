------------------------------ MODULE LogReader ------------------------------
(***************************************************************************)
(* A relying party of one epoch of the transparency log, as                *)
(* docs/transparency-log.md section 3 has it: it fetches entries.ndjson    *)
(* and root.json, in either order and while appends go on, makes the       *)
(* inclusion proof of an entry from what it fetched, replays it, and       *)
(* accepts the entry if the proof verifies and its root is that of the     *)
(* fetched root.json.                                                      *)
(*                                                                         *)
(* The files are ordinary files: somebody can edit a line, its recorded    *)
(* fields or its leaf_hash field.  MaxEdits bounds how often that happens; *)
(* with 0 it never does.                                                   *)
(***************************************************************************)
EXTENDS TransparencyLog

CONSTANT MaxEdits

ASSUME MaxEditsOK == MaxEdits \in Nat

VARIABLES
  got_entries,  \* the entries the relying party fetched, <<>> before
  got_root,     \* the root.json it fetched, NoRoot before
  accepted,     \* what it accepted, and the root it held then
  edits,        \* history: how many edits were made
  sealed,       \* history: the leaf hashes the writers put on the lines
  clean_roots   \* history: the root.json files published before any edit

rvars == <<got_entries, got_root, accepted>>
hvars == <<edits, sealed, clean_roots>>

InitReader ==
  /\ Init
  /\ got_entries = <<>> /\ got_root = NoRoot /\ accepted = {}
  /\ edits = 0 /\ sealed = <<>> /\ clean_roots = {}

FetchEntries ==
  /\ accepted = {} /\ got_entries = <<>> /\ Readable
  /\ got_entries' = lines
  /\ UNCHANGED <<vars, got_root, accepted, hvars>>

\* TransparencyLog.epoch_root; it raises while there is no root.json
FetchRoot ==
  /\ accepted = {} /\ got_root = NoRoot
  /\ got_root' = root
  /\ UNCHANGED <<vars, got_entries, accepted, hvars>>

\* Mutant: the root is not compared with root.json.
AcceptsAnyRoot(seq) ==
  VerifyInclusionProof(InclusionProof(seq, LeafHashes(got_entries)))

\* Mutant: the counts are compared and not the hashes.
AcceptsSameCount(seq) ==
  /\ VerifyInclusionProof(InclusionProof(seq, LeafHashes(got_entries)))
  /\ Len(got_entries) = got_root.entry_count

\* inclusion_proof over the fetched entries, verify_inclusion_proof, and the
\* comparison with the fetched root.json; after a mismatch it starts afresh.
Accepts(seq) ==
  LET proof == InclusionProof(seq, LeafHashes(got_entries))
  IN  /\ VerifyInclusionProof(proof)
      /\ proof.merkle_root_hash = got_root.merkle_root_hash

CheckEntry(seq) ==
  /\ accepted = {} /\ got_root # NoRoot /\ seq < Len(got_entries)
  /\ accepted' = IF Accepts(seq)
                 THEN {[entry |-> got_entries[seq + 1], seq |-> seq, root |-> got_root]}
                 ELSE {}
  /\ got_entries' = <<>> /\ got_root' = NoRoot
  /\ UNCHANGED <<vars, hvars>>

\* An edit of the fields an entry records, which leaves leaf_hash as it was,
\* or of the leaf_hash field alone.
Edit(i, event) ==
  /\ edits < MaxEdits
  /\ event # lines[i].event
  /\ \/ lines' = [lines EXCEPT ![i].event = event]
     \/ lines' = [lines EXCEPT ![i].leaf_hash = LeafHash(<<lines[i].seq, event>>)]
  /\ edits' = edits + 1
  /\ UNCHANGED <<tail, tmp, root, lock, calls, acked, rvars, sealed, clean_roots>>

\* A step of the writers, and its trace in the histories.
Write ==
  /\ Next
  /\ sealed' = IF Len(lines') > Len(lines)
               THEN Append(sealed, lines'[Len(lines')].leaf_hash)
               ELSE SubSeq(sealed, 1, Len(lines'))
  /\ clean_roots' = IF edits = 0 /\ root' # root
                    THEN clean_roots \cup {root'} ELSE clean_roots
  /\ UNCHANGED <<rvars, edits>>

NextReader ==
  \/ Write
  \/ FetchEntries
  \/ FetchRoot
  \/ \E seq \in 0..(MaxLines - 1) : CheckEntry(seq)
  \/ \E i \in 1..Len(lines), e \in Events : Edit(i, e)

SpecReader == InitReader /\ [][NextReader]_<<vars, rvars, hvars>>
-----------------------------------------------------------------------------
(* Properties *)

\* What a relying party accepts of an unedited log is a published entry and
\* stays one: no race of its two fetches with the appends, no cut write and
\* no death of a writer makes it accept an entry that later goes away.
AcceptedIsPublished ==
  edits = 0 =>
    \A a \in accepted : /\ a.entry.seq = a.seq
                        /\ a.seq < root.entry_count
                        /\ lines[a.seq + 1] = a.entry

\* A root fetched before an edit exposes every edit of a leaf hash: what is
\* accepted against it has the leaf hash its writer put there.
OldRootBindsLeaves ==
  \A a \in accepted :
    a.root \in clean_roots => a.entry.leaf_hash = sealed[a.seq + 1]
=============================================================================
