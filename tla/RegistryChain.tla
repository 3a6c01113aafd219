---------------------------- MODULE RegistryChain ----------------------------
(***************************************************************************)
(* "specora-verify registry verify" and "registry verify-chain":           *)
(* validators/registry.py, fetchers/registry.py and their command handlers *)
(* in cli.py.  A registry authority publishes versioned, hash-linked and   *)
(* signed snapshots of who may witness and with which keys; a directory of *)
(* them reaches the verifier, which loads what parses, sorts by version,   *)
(* and checks hashes, signatures, links and that revocation is for good.   *)
(*                                                                         *)
(* A registry maps organisations to a status and their keys to a status.   *)
(* The code compares statuses with "revoked" only: "active" stands for     *)
(* suspended witnesses and retired keys too.                               *)
(***************************************************************************)
EXTENDS Integers, Sequences, FiniteSets, Functions, ExitCodes

CONSTANTS
  Orgs,        \* witness_org_id
  Keys,        \* public_key_id, which is derived from the key (INV-REG-004)
  MaxVersion,  \* bound on the snapshots the authority publishes
  MaxFaults    \* bound on what happens to the directory on its way

ASSUME RegistryBoundsOK == MaxVersion \in Nat /\ MaxFaults \in Nat

VARIABLES
  explicit,    \* does the authority write optional fields that are null?
  chain,       \* the published snapshots
  files,       \* the verifier's directory
  faults,      \* how often the directory was changed
  sigs,        \* once it starts: how signatures are checked
  pc,          \* "publish", "transit", "check" or "done"
  snapshots,   \* parsed_snapshots, sorted
  next,        \* snapshots looked at so far
  chain_valid, \* chain_valid (and no errors) so far
  exit         \* exit code, NoExit while running

vars == <<explicit, chain, files, faults, sigs, pc, snapshots, next, chain_valid, exit>>
inputs == <<explicit, chain, files, faults>>
run == <<sigs, snapshots, next, chain_valid, exit>>
-----------------------------------------------------------------------------
(* Registries and snapshots *)

GENESIS_HASH == <<>>

Statuses == {"active", "revoked"}
PartialFunctions(D, R) == UNION {[S -> R] : S \in SUBSET D}
Registries ==
  PartialFunctions(Orgs, [status : Statuses, keys : PartialFunctions(Keys, Statuses)])

\* compute_registry_hash: all fields but the hash and the signature.  "nulls"
\* says whether optional fields that are null are written out.
Hash(s) == <<s.version, s.previous_registry_hash, s.witnesses, s.nulls>>

\* parse_registry_snapshot followed by to_dict: optional fields come out.
ToDict(s) == [s EXCEPT !.nulls = TRUE]

NewSnapshot(version, previous, witnesses) ==
  LET hash == <<version, previous, witnesses, explicit>>
  IN  [version |-> version, previous_registry_hash |-> previous,
       witnesses |-> witnesses, nulls |-> explicit,
       registry_hash |-> hash, registry_signature |-> hash, parses |-> TRUE]

-----------------------------------------------------------------------------
(* The authority, and the directory on its way to the verifier *)

Init ==
  /\ explicit \in BOOLEAN
  /\ chain = <<>> /\ files = <<>> /\ faults = 0
  /\ sigs = "skipped" /\ pc = "publish"
  /\ snapshots = <<>> /\ next = 0 /\ chain_valid = TRUE /\ exit = NoExit

Published(w) ==
  /\ pc = "publish" /\ Len(chain) < MaxVersion
  /\ chain' = Append(chain, NewSnapshot(Len(chain) + 1,
                                        IF chain = <<>> THEN GENESIS_HASH
                                        ELSE chain[Len(chain)].registry_hash, w))
  /\ UNCHANGED <<explicit, files, faults, pc, run>>

Genesis == chain = <<>> /\ \E w \in Registries : Published(w)

\* A later snapshot changes one thing about one organisation: it enters,
\* leaves, or it or one of its keys gets another status, comes or goes.
\* Nothing but the verifier keeps the authority from undoing a revocation.
Update(o) ==
  /\ chain # <<>>
  /\ LET w == chain[Len(chain)].witnesses
         With(v) == [p \in DOMAIN w \cup {o} |-> IF p = o THEN v ELSE w[p]]
     IN  IF o \notin DOMAIN w
         THEN \E v \in [status : Statuses, keys : PartialFunctions(Keys, Statuses)] :
                Published(With(v))
         ELSE \/ Published([p \in DOMAIN w \ {o} |-> w[p]])
              \/ \E s \in Statuses : Published(With([w[o] EXCEPT !.status = s]))
              \/ \E ks \in PartialFunctions(Keys, Statuses) :
                   Published(With([w[o] EXCEPT !.keys = ks]))

\* The directory lists its files by name, in whatever order that puts the
\* versions.
Export ==
  /\ pc = "publish"
  /\ \E p \in Bijection(1..Len(chain), 1..Len(chain)) :
       files' = [k \in 1..Len(chain) |-> chain[p[k]]]
  /\ pc' = "transit"
  /\ UNCHANGED <<explicit, chain, faults, run>>

Fault(f) ==
  /\ pc = "transit" /\ faults < MaxFaults
  /\ files' = f /\ faults' = faults + 1
  /\ UNCHANGED <<explicit, chain, pc, run>>

Lose(k) == Fault([j \in 1..(Len(files) - 1) |-> IF j < k THEN files[j] ELSE files[j + 1]])
Copy(k) == Fault(Append(files, files[k]))

Alterations(s) ==
       {[s EXCEPT !.version = n] : n \in 1..MaxVersion}
  \cup {[s EXCEPT !.witnesses = files[j].witnesses] : j \in 1..Len(files)}
  \cup {[s EXCEPT !.previous_registry_hash = files[j].registry_hash] : j \in 1..Len(files)}
  \cup {[s EXCEPT !.registry_hash = files[j].registry_hash] : j \in 1..Len(files)}
  \cup {[s EXCEPT !.registry_hash = Hash(s)]}
  \cup {[s EXCEPT !.registry_signature = files[j].registry_signature] : j \in 1..Len(files)}
  \cup {[s EXCEPT !.parses = FALSE]}

Alter(k) == \E s \in Alterations(files[k]) \ {files[k]} : Fault([files EXCEPT ![k] = s])

-----------------------------------------------------------------------------
(* The verifier *)

\* Signatures are skipped on request, without a public key, and without the
\* cryptography package; they are checked with the authority's key or with
\* some other key, which no signature satisfies.
SignatureModes == {"skipped", "authority", "other"}

\* Mutant: the hash is not computed again.
SnapshotSigned(s, mode) ==
  mode = "skipped" \/ (mode = "authority" /\ s.registry_signature = s.registry_hash)

\* validate_registry_snapshot on a parsed snapshot, which is how both command
\* handlers call it.
SnapshotValid(s, mode) ==
  /\ Hash(ToDict(s)) = s.registry_hash
  /\ \/ mode = "skipped"
     \/ mode = "authority" /\ s.registry_signature = s.registry_hash

\* load_registry_snapshots_sorted: what does not parse is left out, and its
\* error goes into a list the command handler does not look at; the rest is
\* sorted by version, files with the same version as the directory lists them.
Readable == {k \in 1..Len(files) : files[k].parses}

Listings == Bijection(1..Cardinality(Readable), Readable)

\* Mutant: the directory's order is kept.
UnsortedListings == {p \in Listings : \A r \in 2..Cardinality(Readable) : p[r - 1] < p[r]}

SortedBefore(j, k) ==
  \/ files[j].version < files[k].version
  \/ files[j].version = files[k].version /\ j < k

SortedListings ==
  {p \in Listings : \A r \in 2..Cardinality(Readable) : SortedBefore(p[r - 1], p[r])}

\* cmd_registry_verify_chain up to the loop of verify_registry_chain
VerifyChain ==
  /\ pc = "transit"
  /\ sigs' \in SignatureModes
  /\ \E p \in SortedListings : snapshots' = [r \in 1..Cardinality(Readable) |-> files[p[r]]]
  /\ IF Readable = {}
     THEN pc' = "done" /\ exit' = EXIT_ERROR
     ELSE pc' = "check" /\ exit' = exit
  /\ UNCHANGED <<inputs, next, chain_valid>>

\* A public key file that cannot be read ends either command.
KeyUnreadable ==
  /\ pc = "transit"
  /\ pc' = "done" /\ exit' = EXIT_ERROR
  /\ UNCHANGED <<inputs, sigs, snapshots, next, chain_valid>>

\* cmd_registry_verify: one snapshot by itself, which nothing else is read for.
VerifySnapshot(k) ==
  /\ pc = "transit"
  /\ sigs' \in SignatureModes
  /\ snapshots' = <<files[k]>> /\ pc' = "done"
  /\ exit' = IF ~files[k].parses THEN EXIT_ERROR
             ELSE IF SnapshotValid(files[k], sigs') THEN EXIT_PASS ELSE EXIT_FAIL
  /\ UNCHANGED <<inputs, next, chain_valid>>

\* Mutant: keys are not looked at.
WitnessRevocationsUndone(previous, current) ==
  \E o \in DOMAIN previous.witnesses \cap DOMAIN current.witnesses :
    previous.witnesses[o].status = "revoked" /\ current.witnesses[o].status # "revoked"

\* enforce_revocation_monotonicity: looks at the snapshot before, at the
\* witnesses both list, and at the keys both list for the same witness.
RevocationsUndone(previous, current) ==
  \E o \in DOMAIN previous.witnesses \cap DOMAIN current.witnesses :
    LET p == previous.witnesses[o]
        c == current.witnesses[o]
    IN  \/ p.status = "revoked" /\ c.status # "revoked"
        \/ \E k \in DOMAIN p.keys \cap DOMAIN c.keys :
             p.keys[k] = "revoked" /\ c.keys[k] # "revoked"

LinkValid(s) ==
  IF next = 0 THEN s.previous_registry_hash = GENESIS_HASH
  ELSE LET previous == snapshots[next]
       IN  /\ s.previous_registry_hash = previous.registry_hash
           /\ s.version > previous.version
           /\ ~RevocationsUndone(previous, s)

\* Mutant: only the last snapshot decides.
CheckSnapshotAlone ==
  /\ pc = "check" /\ next < Len(snapshots)
  /\ chain_valid' = (SnapshotValid(snapshots[next + 1], sigs) /\ LinkValid(snapshots[next + 1]))
  /\ next' = next + 1
  /\ UNCHANGED <<inputs, sigs, pc, snapshots, exit>>

\* One turn of the loop of verify_registry_chain
CheckSnapshot ==
  /\ pc = "check" /\ next < Len(snapshots)
  /\ LET s == snapshots[next + 1]
     IN  chain_valid' = (chain_valid /\ SnapshotValid(s, sigs) /\ LinkValid(s))
  /\ next' = next + 1
  /\ UNCHANGED <<inputs, sigs, pc, snapshots, exit>>

\* The warnings of verify_registry_chain are always empty: WARN cannot come.
FinishChain ==
  /\ pc = "check" /\ next = Len(snapshots)
  /\ pc' = "done" /\ exit' = IF chain_valid THEN EXIT_PASS ELSE EXIT_FAIL
  /\ UNCHANGED <<inputs, sigs, snapshots, next, chain_valid>>

Next ==
  \/ Genesis
  \/ \E o \in Orgs : Update(o)
  \/ Export
  \/ \E k \in 1..Len(files) : Lose(k) \/ Copy(k) \/ Alter(k) \/ VerifySnapshot(k)
  \/ VerifyChain \/ KeyUnreadable \/ CheckSnapshot \/ FinishChain

Spec == Init /\ [][Next]_vars
-----------------------------------------------------------------------------
(* Properties *)

\* verify-chain looks at a snapshot at least, verify at none in the loop.
Passed == exit = EXIT_PASS /\ next > 0
SnapshotPassed == exit = EXIT_PASS /\ next = 0

\* Everything has its type, and chain_valid speaks for all snapshots that the
\* loop has passed.
TypeOK ==
  /\ explicit \in BOOLEAN /\ chain_valid \in BOOLEAN
  /\ \A k \in 1..Len(chain) : chain[k].witnesses \in Registries
  /\ faults \in 0..MaxFaults
  /\ sigs \in SignatureModes
  /\ pc \in {"publish", "transit", "check", "done"}
  /\ next \in 0..Len(snapshots) /\ Len(snapshots) <= Len(files)
  /\ chain_valid => \A k \in 1..next : SnapshotValid(snapshots[k], sigs)
  /\ exit \in {NoExit, EXIT_PASS, EXIT_FAIL, EXIT_ERROR}

\* INV-REG-002: even unsigned, the last hash pins the whole history.
LatestHashPinsHistory ==
  Passed =>
    \A n \in 1..Len(chain) :
      snapshots[Len(snapshots)].registry_hash = chain[n].registry_hash =>
        /\ Len(snapshots) = n
        /\ \A k \in 1..n : Hash(snapshots[k]) = Hash(chain[k])

\* Checked against the authority's key, the only directories that pass hold
\* the first snapshots the authority published, each once, unaltered: no
\* version in between is missing and none is there twice.  The only snapshots that
\* pass by themselves are published ones.  Unsigned, the last hash decides.
PassedIsPublished ==
  /\ Passed /\ sigs = "authority" =>
       /\ Len(snapshots) <= Len(chain)
       /\ snapshots = SubSeq(chain, 1, Len(snapshots))
  /\ SnapshotPassed /\ sigs = "authority" => snapshots[1] \in Range(chain)
  /\ LatestHashPinsHistory

KeyListed(s, o, k) == o \in DOMAIN s.witnesses /\ k \in DOMAIN s.witnesses[o].keys

\* In a history that passes, who is revoked at some version stays revoked at
\* every later one up to which every version lists them, however far apart,
\* and so do their keys: the check looks at neighbours only.
RevocationLasts ==
  Passed =>
    \A i, j \in 1..Len(snapshots) : i < j =>
      \A o \in Orgs :
        /\ (\A n \in i..j : o \in DOMAIN snapshots[n].witnesses) =>
             (snapshots[i].witnesses[o].status = "revoked" =>
                snapshots[j].witnesses[o].status = "revoked")
        /\ \A k \in Keys :
             (\A n \in i..j : KeyListed(snapshots[n], o, k)) =>
               (snapshots[i].witnesses[o].keys[k] = "revoked" =>
                  snapshots[j].witnesses[o].keys[k] = "revoked")

\* A directory with the first snapshots, in any order, of an authority that undid no
\* revocation passes, if optional fields were written out; and so
\* does each of its snapshots by itself.
FaithfulHistoryPasses ==
  /\ pc = "done" /\ exit # EXIT_ERROR /\ sigs # "other" /\ explicit
  /\ \E n \in 0..Len(chain) :
       /\ Len(files) = n
       /\ {files[k] : k \in 1..n} = {chain[k] : k \in 1..n}
  /\ \A k \in 2..Len(chain) : ~RevocationsUndone(chain[k - 1], chain[k])
  => exit = EXIT_PASS

\* However the directory is changed on its way, registry verify-chain
\* implements AuthenticHistory: its one verdict calls a directory authentic
\* only if what it loaded of it is the beginning of the authority's history.
Authentic == Passed /\ sigs = "authority"

AH == INSTANCE AuthenticHistory WITH
        history  <- chain,
        verdict  <- IF exit = NoExit THEN "none" ELSE IF Authentic THEN "authentic" ELSE "other",
        accepted <- IF Authentic THEN snapshots ELSE <<>>

AuthenticHistorySpec == AH!Spec
=============================================================================
