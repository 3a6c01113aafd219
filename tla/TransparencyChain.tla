-------------------------- MODULE TransparencyChain --------------------------
(***************************************************************************)
(* "specora-verify verify-log": cmd_verify_log in cli.py and               *)
(* specora_verify/validators/chain.py.  The platform publishes a chain of  *)
(* entries, each hashed, linked to the hash before it and signed; a copy   *)
(* of the log reaches the verifier, perhaps cut, reordered or altered on   *)
(* the way; the verifier sorts the copy by index and checks it entry by    *)
(* entry.                                                                  *)
(*                                                                         *)
(* An entry's hash is an injective constructor over what                   *)
(* _build_canonical_payload puts into it.  "body" stands for its           *)
(* artifact_type, artifact_sha256, public_key_id and created_at.  A        *)
(* signature of the platform's key is identified with the hash it signs.   *)
(***************************************************************************)
EXTENDS Integers, Sequences, FiniteSets, ExitCodes

CONSTANTS
  Bodies,     \* what entries record
  MaxLen,     \* bound on the entries of the published chain
  MaxFaults   \* bound on what happens to the copy on its way

ASSUME BoundsOK == MaxLen \in Nat /\ MaxFaults \in Nat

VARIABLES
  chain,      \* the published chain
  file,       \* the verifier's copy of it
  faults,     \* how often the copy was cut, reordered or altered
  args,       \* once it starts: the command line, the file's format, and
              \* whether the cryptography package is installed
  pc,         \* "publish", "transit", "check" or "done"
  entries,    \* sorted_entries
  next,       \* entries checked so far: the i of the loop
  prev_hash,  \* previous_entry_hash
  valid,      \* result.valid
  verified,   \* result.verified_count
  exit        \* exit code, NoExit while running

vars == <<chain, file, faults, args, pc, entries, next, prev_hash, valid, verified, exit>>
inputs == <<chain, file, faults, args>>
-----------------------------------------------------------------------------
(* Entries *)

GENESIS_PREVIOUS_HASH == <<>>

EntryHash(e) == <<e.index, e.body, e.previous_entry_hash>>

NewEntry(index, body, previous) ==
  LET hash == <<index, body, previous>>
  IN  [index |-> index, body |-> body, previous_entry_hash |-> previous,
       entry_hash |-> hash, signature |-> hash, well_formed |-> TRUE]

\* Mutant: the file's order is kept.
Unsorted(f) == f

\* sorted(entries, key=index), which is stable
Rank(f, k) ==
  Cardinality({j \in 1..Len(f) : \/ f[j].index < f[k].index
                                 \/ f[j].index = f[k].index /\ j < k}) + 1

SortedByIndex(f) ==
  [r \in 1..Len(f) |-> f[CHOOSE k \in 1..Len(f) : Rank(f, k) = r]]

-----------------------------------------------------------------------------
(* The platform, and the copy on its way to the verifier *)

Args == [key            : {"none", "issuer", "other"},
         skip_signatures : BOOLEAN,
         crypto          : BOOLEAN,
         format          : {"array", "ndjson"},
         parses          : BOOLEAN]

NoArgs == [key |-> "none", skip_signatures |-> FALSE, crypto |-> TRUE,
           format |-> "array", parses |-> TRUE]

Init ==
  /\ chain = <<>> /\ file = <<>> /\ faults = 0
  /\ args = NoArgs
  /\ pc = "publish"
  /\ entries = <<>> /\ next = 0 /\ prev_hash = GENESIS_PREVIOUS_HASH
  /\ valid = TRUE /\ verified = 0
  /\ exit = NoExit

run == <<entries, next, prev_hash, valid, verified, exit>>

Publish(body) ==
  /\ pc = "publish" /\ Len(chain) < MaxLen
  /\ chain' = Append(chain, NewEntry(Len(chain), body,
                                     IF chain = <<>> THEN GENESIS_PREVIOUS_HASH
                                     ELSE chain[Len(chain)].entry_hash))
  /\ UNCHANGED <<file, faults, args, pc, run>>

Export ==
  /\ pc = "publish"
  /\ file' = chain /\ pc' = "transit"
  /\ UNCHANGED <<chain, faults, args, run>>

Fault(f) ==
  /\ pc = "transit" /\ faults < MaxFaults
  /\ file' = f /\ faults' = faults + 1
  /\ UNCHANGED <<chain, args, pc, run>>

Without(f, k) == [j \in 1..(Len(f) - 1) |-> IF j < k THEN f[j] ELSE f[j + 1]]

Drop(k) == Fault(Without(file, k))
Repeat(k) == Fault(Append(file, file[k]))
Swap(j, k) == j < k /\ Fault([file EXCEPT ![j] = file[k], ![k] = file[j]])

\* One field of an entry is changed: to another value, to what would make it
\* consistent again, or to that of another entry.
Alterations(e) ==
       {[e EXCEPT !.body = b] : b \in Bodies}
  \cup {[e EXCEPT !.index = n] : n \in 0..MaxLen}
  \cup {[e EXCEPT !.entry_hash = EntryHash(e)]}
  \cup {[e EXCEPT !.previous_entry_hash = file[j].entry_hash] : j \in 1..Len(file)}
  \cup {[e EXCEPT !.signature = file[j].signature] : j \in 1..Len(file)}
  \cup {[e EXCEPT !.well_formed = FALSE]}

Alter(k) == \E e \in Alterations(file[k]) \ {file[k]} : Fault([file EXCEPT ![k] = e])

-----------------------------------------------------------------------------
(* The verifier *)

\* load_chain_file.  A text that parses as JSON and is not a list is refused,
\* and a log of one line is such a text.
Loads(a) == a.parses /\ ~(a.format = "ndjson" /\ Len(file) = 1)

\* verify_chain_file, up to the loop of verify_chain.  A file that does not
\* load is a result that is not valid, like a chain that does not verify; an
\* empty chain is valid.
Start ==
  /\ pc = "transit"
  /\ args' \in Args
  /\ entries' = SortedByIndex(file)
  /\ IF Loads(args') /\ file # <<>>
     THEN /\ pc' = "check" /\ UNCHANGED <<valid, exit>>
     ELSE /\ pc' = "done" /\ valid' = Loads(args')
          /\ exit' = IF Loads(args') THEN EXIT_PASS ELSE EXIT_FAIL
  /\ UNCHANGED <<chain, file, faults, next, prev_hash, verified>>

\* A log file or a public key file that does not exist, before anything is
\* read.
NoInput ==
  /\ pc = "transit"
  /\ pc' = "done" /\ exit' = EXIT_ERROR
  /\ UNCHANGED <<inputs, entries, next, prev_hash, valid, verified>>

SignaturesChecked == args.key # "none" /\ ~args.skip_signatures

\* _verify_signature: without the cryptography package everything verifies.
SignatureValid(e) ==
  \/ ~args.crypto
  \/ args.key = "issuer" /\ e.signature = e.entry_hash

\* Mutant: the hash is there, and is not computed again.
HashPresent(e) == e.entry_hash # GENESIS_PREVIOUS_HASH

HashValid(e) == e.well_formed => EntryHash(e) = e.entry_hash

\* Mutant: only the first entry's link is looked at.
LinkValidAtGenesis(e) == next = 0 => e.previous_entry_hash = GENESIS_PREVIOUS_HASH

LinkValid(e) ==
  e.previous_entry_hash = IF next = 0 THEN GENESIS_PREVIOUS_HASH ELSE prev_hash

\* Mutant: only the first entry's signature is looked at.
EntryValidSignedOnce(e) ==
  /\ e.well_formed /\ HashValid(e) /\ LinkValid(e)
  /\ SignaturesChecked /\ next = 0 => SignatureValid(e)

EntryValid(e) ==
  /\ e.well_formed /\ HashValid(e) /\ LinkValid(e)
  /\ SignaturesChecked => SignatureValid(e)

\* One turn of the loop.  A wrong index makes the chain invalid but not the
\* entry.
CheckEntry ==
  /\ pc = "check" /\ next < Len(entries)
  /\ LET e == entries[next + 1]
     IN  /\ valid' = (valid /\ EntryValid(e) /\ e.index = next)
         /\ verified' = IF EntryValid(e) THEN verified + 1 ELSE verified
         /\ prev_hash' = e.entry_hash
  /\ next' = next + 1
  /\ UNCHANGED <<inputs, pc, entries, exit>>

Finish ==
  /\ pc = "check" /\ next = Len(entries)
  /\ pc' = "done" /\ exit' = IF valid THEN EXIT_PASS ELSE EXIT_FAIL
  /\ UNCHANGED <<inputs, entries, next, prev_hash, valid, verified>>

Next ==
  \/ \E b \in Bodies : Publish(b)
  \/ Export
  \/ \E k \in 1..Len(file) : Drop(k) \/ Repeat(k) \/ Alter(k)
  \/ \E j, k \in 1..Len(file) : Swap(j, k)
  \/ Start \/ NoInput \/ CheckEntry \/ Finish

Spec == Init /\ [][Next]_vars
-----------------------------------------------------------------------------
(* Properties *)

Passed == exit = EXIT_PASS

\* Everything has its type, and between two turns of the loop prev_hash is
\* the hash the last entry states.
TypeOK ==
  /\ Len(chain) <= MaxLen /\ faults \in 0..MaxFaults
  /\ args \in Args
  /\ pc \in {"publish", "transit", "check", "done"}
  /\ next \in 0..Len(entries) /\ verified \in 0..next
  /\ prev_hash = IF next = 0 THEN GENESIS_PREVIOUS_HASH ELSE entries[next].entry_hash
  /\ valid \in BOOLEAN
  /\ exit \in {NoExit, EXIT_PASS, EXIT_FAIL, EXIT_ERROR}
  /\ (exit # NoExit) <=> (pc = "done")

\* With signatures checked, the verifier passes nothing but a prefix of the
\* published chain, its entries in any order: not a selection of it, not one
\* with an entry twice, changed, or signed for another place.
PassedIsPublished ==
  Passed /\ SignaturesChecked /\ args.crypto
    => /\ Len(entries) <= Len(chain)
       /\ entries = SubSeq(chain, 1, Len(entries))

\* Without signatures a rebuilt chain passes, but the last hash still pins
\* all before it: a copy that passes and ends in a published hash is the
\* published chain up to there.
LastHashPinsChain ==
  Passed /\ entries # <<>> =>
    \A n \in 1..Len(chain) :
      prev_hash = chain[n].entry_hash =>
        /\ Len(entries) = n
        /\ \A k \in 1..n : EntryHash(entries[k]) = EntryHash(chain[k])

\* What the platform published passes, whatever the order of its lines and
\* wherever it ends: no faithful copy is refused.
FaithfulCopyPasses ==
  /\ pc = "done" /\ Loads(args) /\ exit # EXIT_ERROR
  /\ \E n \in 0..Len(chain) :
       /\ Len(file) = n
       /\ {file[k] : k \in 1..n} = {chain[k] : k \in 1..n}
  /\ SignaturesChecked => args.key = "issuer" \/ ~args.crypto
  => Passed

\* What verify-log counts as verified, with signatures checked, is true of a
\* copy that it refuses as well: no entry is counted that was not published just
\* so, and none is left out before the first that is not in its place.
VerifiedCountIsTrue ==
  SignaturesChecked /\ args.crypto =>
    /\ verified <= Cardinality({k \in 1..next : \E i \in 1..Len(chain) : entries[k] = chain[i]})
    /\ args.key = "issuer" =>
         \A n \in 1..next :
           n <= Len(chain) /\ (\A k \in 1..n : entries[k] = chain[k]) => verified >= n

\* However the copy is cut, reordered or altered, verify-log implements
\* AuthenticHistory: its one verdict calls a copy authentic only if what it
\* checked, signatures included, is the beginning of the published chain.
Authentic == Passed /\ SignaturesChecked /\ args.crypto

AH == INSTANCE AuthenticHistory WITH
        history  <- chain,
        verdict  <- IF exit = NoExit THEN "none" ELSE IF Authentic THEN "authentic" ELSE "other",
        accepted <- IF Authentic THEN entries ELSE <<>>

AuthenticHistorySpec == AH!Spec
=============================================================================
