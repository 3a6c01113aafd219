--------------------------- MODULE SignedEvidence ---------------------------
(***************************************************************************)
(* "specora-verify run" (orchestration.py) and the commands that judge     *)
(* what it leaves behind: verify, emit-receipt, key-info, manifest hash    *)
(* and canonicalize (cli.py, receipt.py, signature.py, revocation.py).     *)
(*                                                                         *)
(* A run signs a bundle and writes four files into a directory, each       *)
(* emptied and then filled; it may die in between, and other runs, with    *)
(* other keys or documents, write into the same directory.  One judging    *)
(* command reads the files one at a time while this goes on.  The command  *)
(* line's other arguments and the revocation list are drawn where they     *)
(* first matter, which is at the end.                                      *)
(*                                                                         *)
(* The hash of a document is the document, a signature of it the pair of   *)
(* the document and the key, and a public key its private key; a key's     *)
(* fingerprint names the key, and so does the id derived from it.          *)
(***************************************************************************)
EXTENDS Integers, Sequences, ExitCodes

CONSTANTS
  Runs,    \* each runs once
  Docs,    \* bundle payloads
  Keys,    \* signing keys
  MaxList, \* bound on the entries of a revocation list
  NoRun,
  Missing, \* the value of a file that does not exist, or was not asked for
  Emptied  \* the value of a file that was opened for writing and not filled,
           \* or holds bytes of two runs: neither is a JSON text

\* A file without content is no document, key or signature, and no document
\* is made to have the hash of a manifest that is signed afterwards.
ASSUME EvidenceOK ==
  /\ MaxList \in Nat /\ NoRun \notin Runs /\ Missing # Emptied
  /\ {Missing, Emptied} \cap (Docs \cup Keys \cup (Docs \X Keys)) = {}
  /\ \A m \in [content : Docs, declared : Docs \cup {Missing},
               signature : (Docs \X Keys) \cup {Missing}] : <<m>> \notin Docs

VARIABLES
  dir,      \* file |-> content
  run,      \* run |-> how far it is: Fresh, Ready, Ready + half-writes, or Dead
  bundle,   \* run |-> the document and the key it signs it with
  signed,   \* history: everything that was ever signed
  writer,   \* history: the last run to write, if no other was writing meanwhile
  asked,    \* the judging command and the files it is given
  read,     \* file |-> what the command read
  settled,  \* history: the run that had written dir when the command started
  args,     \* the command's other arguments
  exit      \* exit code, NoExit while running

vars == <<dir, run, bundle, signed, writer, asked, read, settled, args, exit>>
judging == <<asked, read, settled, args, exit>>
-----------------------------------------------------------------------------
Written == <<"payload", "signature", "key", "metadata">>
Files == {Written[i] : i \in 1..4}

Idle == [command |-> "none", given |-> {}]
NoArgs == [list |-> <<>>, listed |-> FALSE, require_trusted_key |-> FALSE,
           allow_hash_only |-> FALSE, crypto |-> TRUE, manifest |-> Missing]

Dead  == -1
Fresh == 0
Ready == 1
Done  == 9    \* four files, each emptied and filled

Init ==
  /\ dir = [f \in Files |-> Missing]
  /\ run = [r \in Runs |-> Fresh] /\ bundle = [r \in Runs |-> <<>>]
  /\ signed = {} /\ writer = NoRun
  /\ asked = Idle /\ read = [f \in Files |-> Missing] /\ settled = NoRun
  /\ args = NoArgs /\ exit = NoExit

-----------------------------------------------------------------------------
(* run_pipeline *)

Unread == {f \in asked.given : read[f] = Missing}

\* Runs are followed until the command has read all it reads.
Matters == exit = NoExit /\ (asked = Idle \/ Unread # {})

\* _sign_payload
Signature(doc, key) == <<doc, key>>

\* load_signing_key, _read_provider and _sign_payload touch no shared file, and
\* whatever goes wrong there ends the run before it writes.
Prepare(r, doc, key) ==
  /\ Matters /\ run[r] = Fresh
  /\ bundle' = [bundle EXCEPT ![r] = <<doc, key>>]
  /\ signed' = signed \cup {Signature(doc, key)}
  /\ run' = [run EXCEPT ![r] = Ready]
  /\ UNCHANGED <<dir, writer, judging>>

Fail(r) ==
  /\ Matters /\ run[r] = Fresh
  /\ run' = [run EXCEPT ![r] = Dead]
  /\ UNCHANGED <<dir, bundle, signed, writer, judging>>

Writing(r) == run[r] > Ready /\ run[r] < Done

\* Mutant: the key is written in hexadecimal, which load_public_key takes for
\* base64 of the wrong length.
KeyInHex(f, b) == CASE f = "signature" -> b
                    [] f = "key" -> Emptied
                    [] f \in {"payload", "metadata"} -> b[1]

\* What run_pipeline writes; the metadata holds the payload's hash.
Content(f, b) == CASE f = "signature" -> Signature(b[1], b[2])
                   [] f = "key" -> b[2]
                   [] f \in {"payload", "metadata"} -> b[1]

\* What filling a file leaves in it.  One that another run has filled since it
\* was emptied may be longer and keep its tail; signatures and keys are all of
\* one length.
Filled(r, f) ==
  LET c == Content(f, bundle[r])
  IN  {c} \cup IF f \in {"payload", "metadata"} /\ dir[f] \notin {Emptied, c}
              THEN {Emptied} ELSE {}

\* write_text: the file is emptied, then filled.
Write(r) ==
  LET f == Written[(run[r] + 1) \div 2]
  IN  /\ Matters /\ run[r] \in Ready..(Done - 1)
      /\ \E c \in IF run[r] % 2 = 1 THEN {Emptied} ELSE Filled(r, f) : dir' = [dir EXCEPT ![f] = c]
      /\ run' = [run EXCEPT ![r] = @ + 1]
      /\ writer' = IF \/ writer = r
                      \/ run[r] = Ready /\ \A s \in Runs \ {r} : ~Writing(s)
                   THEN r ELSE NoRun
      /\ UNCHANGED <<bundle, signed, judging>>

Die(r) ==
  /\ Matters /\ run[r] \in Ready..(Done - 1)
  /\ run' = [run EXCEPT ![r] = Dead]
  /\ UNCHANGED <<dir, bundle, signed, writer, judging>>

-----------------------------------------------------------------------------
(* Signatures and trust *)

\* load_public_key
Loads(k) == k \in Keys

\* Mutant: the payload's hash is taken from metadata.json.
RecordedHash(d) == dir["metadata"]

\* compute_manifest_hash of what was read
HashOf(d) == d

\* verify_signature
SignatureValid(hash, s, k) == Loads(k) /\ s = Signature(hash, k)

\* compute_key_fingerprint; the id that is derived from it names the key too.
Fingerprint(k) == <<"fp", k>>

\* An entry names a key by its id or its fingerprint.
Statuses == {"active", "retired", "revoked"}
Entries == [fingerprint : {Fingerprint(k) : k \in Keys}, status : Statuses]
Lists == UNION {[1..n -> Entries] : n \in 0..MaxList}

\* Mutant: a later entry for the key overrules an earlier one.
StatusOfLast(list, k) ==
  LET Of(i) == list[i].fingerprint = Fingerprint(k)
  IN  IF \A i \in DOMAIN list : ~Of(i) THEN "unknown"
      ELSE list[CHOOSE i \in DOMAIN list :
                  Of(i) /\ \A j \in DOMAIN list : j > i => ~Of(j)].status

\* RevocationList.lookup: a list may name a key more than once.
StatusOf(list, k) ==
  LET Of(i) == list[i].fingerprint = Fingerprint(k)
  IN  IF \A i \in DOMAIN list : ~Of(i) THEN "unknown"
      ELSE list[CHOOSE i \in DOMAIN list :
                  Of(i) /\ \A j \in DOMAIN list : j < i => ~Of(j)].status

\* check_key_trust, as "trusted", "warning" and "untrusted"
Trust(a, k) ==
  LET status == StatusOf(a.list, k)
  IN  IF ~a.listed THEN "warning"
      ELSE IF status = "active" THEN "trusted"
      ELSE IF status = "revoked" \/ a.require_trusted_key THEN "untrusted"
      ELSE "warning"

ExitOf(trust) == CASE trust = "trusted"   -> EXIT_PASS
                   [] trust = "warning"   -> EXIT_WARN
                   [] trust = "untrusted" -> EXIT_FAIL

-----------------------------------------------------------------------------
(* The commands' verdicts, once everything is read *)

VerifyExit(in, a) ==
  IF SignatureValid(HashOf(in["payload"]), in["signature"], in["key"])
  THEN ExitOf(Trust(a, in["key"])) ELSE EXIT_FAIL

\* Mutant: the trust that was looked up is not used.
ReceiptWithoutTrust(in, a) ==
  IF {"signature", "key"} \subseteq asked.given
  THEN IF a.crypto /\ SignatureValid(HashOf(in["payload"]), in["signature"], in["key"])
       THEN EXIT_PASS ELSE EXIT_FAIL
  ELSE IF a.allow_hash_only THEN EXIT_PASS ELSE EXIT_FAIL

\* generate_artifact_receipt: without a list nothing is said about trust.
ArtifactReceiptExit(in, a) ==
  IF {"signature", "key"} \subseteq asked.given
  THEN IF a.crypto /\ SignatureValid(HashOf(in["payload"]), in["signature"], in["key"])
       THEN IF a.listed THEN ExitOf(Trust(a, in["key"])) ELSE EXIT_PASS
       ELSE EXIT_FAIL
  ELSE IF a.allow_hash_only THEN EXIT_PASS ELSE EXIT_FAIL

\* A manifest declares the hash of its other fields and carries a signature,
\* or leaves out either.  Its own hash is nobody's to sign beforehand.
Manifests == [content   : Docs,
              declared  : Docs \cup {Missing},
              signature : signed \cup {Missing}]

SignedHash(m) == IF m.declared = Missing THEN <<m>> ELSE m.declared

\* generate_bundle_receipt: an empty key file counts as none, and the trust
\* that was looked up before is not used.
ManifestReceiptExit(m, in, a) ==
  IF /\ m.declared \in {Missing, HashOf(m.content)}
     /\ in["key"] \notin {Missing, Emptied} /\ m.signature # Missing =>
          a.crypto /\ SignatureValid(SignedHash(m), m.signature, in["key"])
  THEN EXIT_PASS ELSE EXIT_FAIL

-----------------------------------------------------------------------------
(* A judging command *)

Order == [verify      |-> <<"payload", "signature", "key">>,
          receipt     |-> <<"signature", "key", "payload">>,
          manifest    |-> <<"signature", "key">>,
          key_info    |-> <<"key">>,
          hash        |-> <<"payload">>]

Given == [verify   |-> {{"payload", "signature", "key"}},
          receipt  |-> {g \cup {"payload"} : g \in SUBSET {"signature", "key"}},
          manifest |-> SUBSET {"signature", "key"},
          key_info |-> {{"key"}},
          hash     |-> {{"payload"}}]

\* main loads the revocation list first, and whatever is wrong with it is an
\* error; so is a missing cryptography package to verify and key-info.
Start(command, given, usable) ==
  /\ asked = Idle /\ exit = NoExit
  /\ asked' = [command |-> command, given |-> given]
  /\ settled' = IF writer # NoRun /\ run[writer] = Done THEN writer ELSE NoRun
  /\ exit' = IF usable THEN NoExit ELSE EXIT_ERROR
  /\ UNCHANGED <<dir, run, bundle, signed, writer, read, args>>

\* _load_json_file wants JSON; the other files only have to exist.
ReadFile(f) ==
  /\ asked # Idle /\ exit = NoExit
  /\ f \in Unread
  /\ LET order == Order[asked.command]
         At(g) == CHOOSE i \in DOMAIN order : order[i] = g
     IN  \A g \in Unread : At(f) <= At(g)
  /\ IF dir[f] = Missing \/ (f = "payload" /\ dir[f] = Emptied)
     THEN exit' = EXIT_ERROR /\ read' = read
     ELSE exit' = NoExit /\ read' = [read EXCEPT ![f] = dir[f]]
  /\ UNCHANGED <<dir, run, bundle, signed, writer, asked, settled, args>>

Judge(code, a) ==
  /\ asked # Idle /\ exit = NoExit /\ Unread = {}
  /\ args' = a /\ exit' = code
  /\ UNCHANGED <<dir, run, bundle, signed, writer, asked, read, settled>>

Trusting ==
  {[NoArgs EXCEPT !.require_trusted_key = q] : q \in BOOLEAN}
  \cup UNION {{[NoArgs EXCEPT !.listed = TRUE, !.list = l, !.require_trusted_key = q]
                 : q \in BOOLEAN} : l \in Lists}

HashOnly == {[NoArgs EXCEPT !.allow_hash_only = h] : h \in BOOLEAN}

NoCrypto == [NoArgs EXCEPT !.crypto = FALSE]

VerifySignature ==
  /\ asked.command = "verify"
  /\ \E a \in Trusting : Judge(VerifyExit(read, a), a)

EmitReceipt ==
  /\ asked.command = "receipt"
  /\ \E a \in {NoCrypto} \cup IF {"signature", "key"} \subseteq asked.given
                           THEN Trusting ELSE HashOnly :
       Judge(ArtifactReceiptExit(read, a), a)

EmitManifestReceipt(m) ==
  /\ asked.command = "manifest"
  /\ \E a \in {NoArgs, NoCrypto} :
       Judge(ManifestReceiptExit(m, read, a), [a EXCEPT !.manifest = m])

KeyInfo == /\ asked.command = "key_info"
           /\ Judge(IF Loads(read["key"]) THEN EXIT_PASS ELSE EXIT_FAIL, NoArgs)

Hash == asked.command = "hash" /\ Judge(EXIT_PASS, NoArgs)

Next ==
  \/ \E r \in Runs : \/ \E doc \in Docs, key \in Keys : Prepare(r, doc, key)
                     \/ Fail(r) \/ Write(r) \/ Die(r)
  \/ \E command \in DOMAIN Order : \E given \in Given[command], usable \in BOOLEAN :
       Start(command, given, usable)
  \/ \E f \in Files : ReadFile(f)
  \/ VerifySignature \/ EmitReceipt \/ (\E m \in Manifests : EmitManifestReceipt(m))
  \/ KeyInfo \/ Hash

Spec == Init /\ [][Next]_vars
-----------------------------------------------------------------------------
(* Properties *)

Positive == exit \in {EXIT_PASS, EXIT_WARN}

SignatureAsked == args.crypto /\ {"signature", "key"} \subseteq asked.given

\* Of the entries of a list that name a key, the first has this status.
NamedFirst(list, k, status) ==
  \E i \in DOMAIN list :
    /\ list[i].fingerprint = Fingerprint(k) /\ list[i].status = status
    /\ \A j \in DOMAIN list : j < i => list[j].fingerprint # Fingerprint(k)

\* Whatever runs mix, die or write meanwhile, a verification or an artifact's
\* receipt that looked at a signature is only positive about a document that
\* the key it read has signed; and so is a manifest's receipt about the
\* manifest's content, if it carries a signature and the key file is not empty.
VerifiedIsSigned ==
  /\ Positive /\ asked.command \in {"verify", "receipt"} /\ SignatureAsked =>
       <<read["payload"], read["key"]>> \in signed
  /\ Positive /\ asked.command = "manifest" /\ read["key"] \in Keys
       /\ args.manifest.signature # Missing =>
       <<args.manifest.content, read["key"]>> \in signed

\* A directory that one run wrote from beginning to end, and no other run has
\* touched since, is what that run read and signed: verify passes it when the
\* list's first entry for its key is active, and is never worse than a warning when there
\* is no list; and a receipt for it passes in both cases.
FinishedRunVerifies ==
  LET judged == /\ settled # NoRun /\ settled = writer
                /\ asked.command \in {"verify", "receipt"} /\ SignatureAsked
                /\ exit # NoExit /\ \E f \in Files : read[f] # Missing
  IN judged =>
       /\ read["payload"] = bundle[settled][1] /\ read["key"] = bundle[settled][2]
       /\ NamedFirst(args.list, read["key"], "active") => exit = EXIT_PASS
       /\ ~args.listed =>
            exit = (IF asked.command = "receipt" THEN EXIT_PASS ELSE EXIT_WARN)

\* With a list, verify and an artifact's receipt agree, and its first entry for
\* the key decides, whatever later ones say: neither command is positive about
\* a key that is revoked there; a PASS, and anything positive under
\* --require-trusted-key, is about a key that is active there.
ListDecides ==
  LET k == read["key"]
  IN  Positive /\ args.listed /\ asked.command \in {"verify", "receipt"} /\ SignatureAsked =>
        /\ ~NamedFirst(args.list, k, "revoked")
        /\ args.require_trusted_key \/ exit = EXIT_PASS => NamedFirst(args.list, k, "active")
        /\ exit = VerifyExit(read, args)
=============================================================================
