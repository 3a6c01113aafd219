---------------------------- MODULE WitnessQuorum ----------------------------
(***************************************************************************)
(* "specora-verify witness verify-network" and "witness verify":           *)
(* validators/witness.py, fetchers/witness.py and the handlers in cli.py.  *)
(* Witnesses sign statements about the anchor hash they saw; the registry  *)
(* authority enrols, renames, rekeys, suspends and revokes them meanwhile; *)
(* the verifier reads the registry, then the directory of statements, then *)
(* the anchor, judges one statement after the other and counts who agrees. *)
(* "witness verify" reads one statement first and then the registry, if    *)
(* one was given, and is a quorum of one here.                             *)
(*                                                                         *)
(* A key stands for its key id too: the registry's parser requires that    *)
(* the id be derived from the key.                                         *)
(***************************************************************************)
EXTENDS Integers, Sequences, FiniteSets, FiniteSetsExt

CONSTANTS
  Orgs,           \* witness_org_id
  Keys,           \* public_key and public_key_id
  Hashes,         \* anchor_hash
  Absent,         \* no such hash
  Enrolled,       \* number of witnesses in the registry
  MaxStatements,  \* bound on the statements in the directory
  MaxChanges,     \* bound on the changes of registry entries
  MaxFaults,      \* bound on the statement files spoilt
  MaxQuorum       \* largest --min-witnesses

ASSUME QuorumBoundsOK ==
  /\ {Enrolled, MaxStatements, MaxChanges, MaxFaults, MaxQuorum} \subseteq Nat
  /\ Absent \notin Hashes /\ Enrolled > 0

VARIABLES
  registry,    \* the registry file: a list of entries
  directory,   \* the statement files, in the order of their names
  changes, faults,
  pc,          \* "idle", "registry", "statements", "check", "done"; of
               \* witness verify "one", "anchor", "judge"
  known,       \* the registry the verifier has loaded, <<>> for none
  statements,  \* the statements it has loaded
  args,        \* quorum_required, expected_anchor_hash, signatures checked?
  next,        \* statements judged so far
  results,     \* statement_results: by the org id a statement claims
  status       \* WitnessVerificationStatus, "NONE" while running

vars == <<registry, directory, changes, faults, pc, known, statements, args, next,
          results, status>>
world == <<registry, directory, changes, faults>>
-----------------------------------------------------------------------------
(* Registry and statements *)

WitnessStatus == {"active", "suspended", "revoked"}
Entries == [org : Orgs, key : Keys, status : WitnessStatus]

\* parse_witness_registry refuses an org id or a key that is listed twice
ParsesAsRegistry(r) ==
  \A i, j \in 1..Len(r) : i # j => r[i].org # r[j].org /\ r[i].key # r[j].key

Statements ==
  [org : Orgs, key : Keys, signer : Keys, anchor_hash : Hashes,
   file : {"intact", "altered", "malformed", "unreadable"}]

NoArgs == [quorum_required |-> 0, expected |-> Absent, checked |-> FALSE]

Init ==
  /\ registry \in {r \in [1..Enrolled -> Entries] :
                     /\ ParsesAsRegistry(r)
                     /\ \A i \in 1..Enrolled : r[i].status = "active"}
  /\ directory = <<>> /\ changes = 0 /\ faults = 0
  /\ pc = "idle" /\ known = <<>> /\ statements = <<>>
  /\ args = NoArgs /\ next = 0 /\ results = <<>> /\ status = "NONE"

-----------------------------------------------------------------------------
(* The world, which does not wait for the verifier *)

Reading == pc \in {"idle", "registry", "one"}
verifier == <<pc, known, statements, args, next, results, status>>

InsertAt(f, p, s) ==
  [k \in 1..(Len(f) + 1) |-> CASE k < p -> f[k] [] k = p -> s [] OTHER -> f[k - 1]]

\* A witness signs a statement under the name and key the registry has for it.
Issue(i, h) ==
  /\ Reading /\ Len(directory) < MaxStatements
  /\ LET s == [org |-> registry[i].org, key |-> registry[i].key,
               signer |-> registry[i].key, anchor_hash |-> h, file |-> "intact"]
     IN  \E p \in 1..(Len(directory) + 1) : directory' = InsertAt(directory, p, s)
  /\ UNCHANGED <<registry, changes, faults, verifier>>

Change(i, e) ==
  /\ Reading /\ changes < MaxChanges
  /\ e # registry[i]
  /\ registry' = [registry EXCEPT ![i] = e]
  /\ ParsesAsRegistry(registry')
  /\ changes' = changes + 1
  /\ UNCHANGED <<directory, faults, verifier>>

SetStatus(i) == \E s \in WitnessStatus : Change(i, [registry[i] EXCEPT !.status = s])
Rename(i) == \E o \in Orgs : Change(i, [registry[i] EXCEPT !.org = o])
Rekey(i) == \E k \in Keys : Change(i, [registry[i] EXCEPT !.key = k])

\* A statement file is changed after signing, loses its form, or cannot be
\* read at all.
Spoil(k) ==
  /\ Reading /\ faults < MaxFaults
  /\ \/ \E h \in Hashes \ {directory[k].anchor_hash} :
          directory' = [directory EXCEPT ![k].anchor_hash = h, ![k].file = "altered"]
     \/ \E f \in {"malformed", "unreadable"} :
          directory' = [directory EXCEPT ![k].file = f]
  /\ faults' = faults + 1
  /\ UNCHANGED <<registry, changes, verifier>>

-----------------------------------------------------------------------------
(* The verifier *)

LoadRegistry ==
  /\ pc = "idle"
  /\ known' = registry /\ pc' = "registry"
  /\ UNCHANGED <<world, statements, args, next, results, status>>

\* Command lines that end in ERROR before anything is judged: the registry
\* does not load, or --dangerously-skip-signature meets --ci.
Refuse ==
  /\ pc = "idle"
  /\ pc' = "done" /\ status' = "ERROR"
  /\ UNCHANGED <<world, known, statements, args, next, results>>

ReadableFiles == {k \in 1..Len(directory) : directory[k].file # "unreadable"}

\* The places of the files that can be read, in the order of their names.
Listing == {f \in [1..Cardinality(ReadableFiles) -> ReadableFiles] :
              \A i, j \in DOMAIN f : i < j => f[i] < f[j]}

\* Mutant: reports that there are no statements, and goes on.
LoadStatementsOrGoOn ==
  /\ pc = "registry"
  /\ \E f \in Listing : statements' = [i \in DOMAIN f |-> directory[f[i]]]
  /\ status' = IF statements' = <<>> THEN "ERROR" ELSE status
  /\ pc' = "statements"
  /\ UNCHANGED <<world, known, args, next, results>>

\* Files that cannot be read are left out of the list.
LoadStatements ==
  /\ pc = "registry"
  /\ \E f \in Listing : statements' = [i \in DOMAIN f |-> directory[f[i]]]
  /\ IF statements' = <<>>
     THEN pc' = "done" /\ status' = "ERROR"
     ELSE pc' = "statements" /\ UNCHANGED status
  /\ UNCHANGED <<world, known, args, next, results>>

\* load_local_witness_statement
LoadStatement(k) ==
  /\ pc = "idle"
  /\ IF directory[k].file = "unreadable"
     THEN pc' = "done" /\ status' = "ERROR" /\ UNCHANGED statements
     ELSE pc' = "one" /\ statements' = <<directory[k]>> /\ UNCHANGED status
  /\ UNCHANGED <<world, known, args, next, results>>

\* The registry is given or not, and loads or not.
LoadRegistryForOne ==
  /\ pc = "one"
  /\ \/ known' \in {registry, <<>>} /\ pc' = "anchor" /\ UNCHANGED status
     \/ known' = known /\ pc' = "done" /\ status' = "ERROR"
  /\ UNCHANGED <<world, statements, args, next, results>>

\* The anchor to compare with is none, or a file's anchor_hash, or nothing
\* again when the file cannot be loaded: that prints an error and goes on.
LoadAnchor ==
  /\ pc \in {"statements", "anchor"}
  /\ args' \in [quorum_required : IF pc = "anchor" THEN {1} ELSE 0..MaxQuorum,
               expected : Hashes \cup {Absent}, checked : BOOLEAN]
  /\ pc' = IF pc = "anchor" THEN "judge" ELSE "check"
  /\ UNCHANGED <<world, known, statements, next, results, status>>

\* WitnessRegistry.lookup: the first entry with the org id or the key id
Matching(s) == {i \in 1..Len(known) : known[i].org = s.org \/ known[i].key = s.key}
Lookup(s) == known[Min(Matching(s))]

\* Mutant: checks the signature with the key the statement names.
StatementValidByItsKey(s) ==
  /\ s.file # "malformed"
  /\ args.expected # Absent => s.anchor_hash = args.expected
  /\ known # <<>> =>
       /\ Matching(s) # {}
       /\ Lookup(s).status # "revoked"
       /\ args.checked => s.file = "intact" /\ s.signer = s.key

\* validate_witness_statement: without a registry a signature is not checked.
StatementValid(s) ==
  /\ s.file # "malformed"
  /\ args.expected # Absent => s.anchor_hash = args.expected
  /\ known # <<>> =>
       /\ Matching(s) # {}
       /\ Lookup(s).status # "revoked"
       /\ args.checked => s.file = "intact" /\ s.signer = Lookup(s).key

\* The end of cmd_witness_verify
JudgeStatement ==
  /\ pc = "judge"
  /\ pc' = "done" /\ status' = IF StatementValid(statements[1]) THEN "PASS" ELSE "FAIL"
  /\ UNCHANGED <<world, known, statements, args, next, results>>

\* One turn of the loop of verify_witness_quorum: a later statement of the
\* same org id replaces an earlier one.
CheckStatement ==
  /\ pc = "check" /\ next < Len(statements)
  /\ LET s == statements[next + 1]
         r == [valid |-> StatementValid(s), anchor_hash |-> s.anchor_hash]
     IN  results' = [o \in DOMAIN results \cup {s.org} |->
                       IF o = s.org THEN r ELSE results[o]]
  /\ next' = next + 1
  /\ UNCHANGED <<world, pc, known, statements, args, status>>

ValidOrgs == {o \in DOMAIN results : results[o].valid}
HashGroup(h) == {o \in ValidOrgs : results[o].anchor_hash = h}
AgreedHashes == {h \in Hashes : HashGroup(h) # {}}
QuorumAchieved == Max({0} \cup {Cardinality(HashGroup(h)) : h \in AgreedHashes})
\* Mutant: a minority is outvoted.
HashMismatchWithoutQuorum ==
  Cardinality(AgreedHashes) > 1 /\ QuorumAchieved < args.quorum_required

HashMismatch == Cardinality(AgreedHashes) > 1

\* Mutant: asks for one more than the quorum.
DecideByMoreThanQuorum ==
  /\ pc = "check" /\ next = Len(statements)
  /\ pc' = "done"
  /\ status' = IF HashMismatch \/ QuorumAchieved <= args.quorum_required THEN "FAIL"
               ELSE IF ValidOrgs # DOMAIN results THEN "WARN"
               ELSE "PASS"
  /\ UNCHANGED <<world, known, statements, args, next, results>>

Decide ==
  /\ pc = "check" /\ next = Len(statements)
  /\ pc' = "done"
  /\ status' = IF HashMismatch \/ QuorumAchieved < args.quorum_required THEN "FAIL"
               ELSE IF ValidOrgs # DOMAIN results THEN "WARN"
               ELSE "PASS"
  /\ UNCHANGED <<world, known, statements, args, next, results>>

Next ==
  \/ \E i \in 1..Len(registry) :
       \/ \E h \in Hashes : Issue(i, h)
       \/ SetStatus(i) \/ Rename(i) \/ Rekey(i)
  \/ \E k \in 1..Len(directory) : Spoil(k) \/ LoadStatement(k)
  \/ LoadRegistry \/ Refuse \/ LoadStatements \/ LoadAnchor
  \/ LoadRegistryForOne \/ JudgeStatement
  \/ CheckStatement \/ Decide

Spec == Init /\ [][Next]_vars
-----------------------------------------------------------------------------
(* Properties *)

TypeOK ==
  /\ registry \in [1..Enrolled -> Entries] /\ ParsesAsRegistry(registry)
  /\ \A k \in 1..Len(directory) : directory[k] \in Statements
  /\ changes \in 0..MaxChanges /\ faults \in 0..MaxFaults
  /\ pc \in {"idle", "registry", "statements", "check", "done", "one", "anchor", "judge"}
  /\ next \in 0..Len(statements) /\ Len(statements) <= Len(directory)
  /\ DOMAIN results \subseteq {statements[k].org : k \in 1..next}
  /\ status \in {"NONE", "PASS", "WARN", "FAIL", "ERROR"}
  /\ (status # "NONE") <=> (pc = "done")

Valid == status \in {"PASS", "WARN"}
Indices == 1..Len(statements)

\* The witnesses not revoked in the registry the verifier read that signed a
\* statement it read, about h, unaltered since.
Attesting(h) ==
  {i \in 1..Len(known) :
     /\ known[i].status # "revoked"
     /\ \E k \in Indices : /\ statements[k].signer = known[i].key
                           /\ statements[k].file = "intact"
                           /\ statements[k].anchor_hash = h}

\* No witness signed under two names.
OneNameEach ==
  \A j, k \in Indices : statements[j].signer = statements[k].signer =>
                          statements[j].org = statements[k].org

\* INV-ANCHOR-015: with signatures checked and one name each, a positive
\* verdict rests on as many registered witnesses as were asked for, none of
\* them revoked, all attesting to the same hash, the expected one if it was
\* read; duplicates, replaced statements and altered ones never make up the
\* number.  One statement that passes against a registry is such a quorum too.
QuorumAttested ==
  Valid /\ args.checked /\ OneNameEach /\ args.quorum_required > 0 /\ known # <<>> =>
    \E h \in Hashes : /\ Cardinality(Attesting(h)) >= args.quorum_required
                      /\ args.expected \in {h, Absent}

\* Two witnesses whose only statements contradict each other never get a
\* positive verdict, whoever else agrees with them (INV-ANCHOR-014).
ContradictionFails ==
  Valid /\ args.expected = Absent =>
    ~\E j, k \in Indices :
       /\ statements[j].org # statements[k].org
       /\ statements[j].anchor_hash # statements[k].anchor_hash
       /\ StatementValid(statements[j]) /\ StatementValid(statements[k])
       /\ \A i \in Indices \ {j, k} : statements[i].org \notin {statements[j].org, statements[k].org}

\* If all statements are of one hash, unaltered, from witnesses that still
\* have name and key and are not revoked, and enough of them, all is well:
\* the verdict is PASS, for the network and for each statement.
AgreementPasses ==
  /\ pc = "done" /\ statements # <<>>
  /\ \E h \in Hashes :
       /\ args.expected \in {h, Absent}
       /\ \A k \in Indices :
            /\ statements[k].anchor_hash = h /\ statements[k].file = "intact"
            /\ \E i \in 1..Len(known) : /\ known[i].status # "revoked"
                                        /\ known[i].org = statements[k].org
                                        /\ known[i].key = statements[k].key
       /\ Cardinality(Attesting(h)) >= args.quorum_required
       /\ \A k \in Indices : Cardinality(Matching(statements[k])) = 1
  => status = "PASS"
=============================================================================
