# A verification of specora-verify in TLA+

specora-verify is a Python command line tool (`src/specora_verify`) with which a
third party checks what the Specora platform publishes: chains of log entries and
anchors, registries of witnesses, witness statements, mirrors, receipts, bundles,
certificates, and a public transparency log that the package can also write. Almost
every command reads some files that crossed a network, decides, and exits with
0 (PASS), 1 (WARN), 2 (FAIL) or 3 (ERROR). What makes it correct is therefore not an
algorithm but a promise about verdicts: what does a PASS exclude, and what does it
never refuse? The one part that writes shared state, the transparency log, has to
survive processes that die in the middle.

This directory holds TLA+ modules translated from that code, TLC configurations that
check them on small instances, and proofs checked by TLAPS. `PROJECT.json` lists the
runs, the source lines behind every definition (`map`), for each property a mutant of
the code that violates it (`mutants`; the mutated operators stand in the modules just
before the definition they replace, marked `\* Mutant:`), and the hazards the
properties are there for.

## 1. Inventory

| Component | Source | State | Operations | What is hard | What makes it correct |
|---|---|---|---|---|---|
| Transparency log | `transparency.py` | per epoch `entries.ndjson`, `root.json`, `root.json.tmp` | `append_entry`, `inclusion_proof`, `epoch_root`, `verify_inclusion_proof`, `assert_monotonic_no_gaps` | five file operations per append, deaths and short writes between and inside them, readers that fetch the two files at different moments, odd Merkle layers | acknowledged entries stay; the root is always that of a prefix; proofs agree with the root; what a reader accepts was published |
| Platform chain | `validators/chain.py`, `cmd_verify_log` | loop: expected link, verdict | `verify-log` | copies with entries lost, repeated, moved, changed; stable sort before the checks | a PASS means a prefix of what was published; no faithful copy is refused |
| Registry snapshots | `validators/registry.py`, `fetchers/registry.py` | loop over snapshots | `registry verify`, `verify-chain`, `info` | long histories where only neighbours are compared, directories in file name order, files that do not load | the history is the published one; revocation lasts |
| Witness quorum | `validators/witness.py`, `fetchers/witness.py` | results keyed by organisation | `witness verify`, `verify-network`, `registry-info` | registry, statements and anchor are read one after the other while the registry changes; later statements replace earlier ones | a positive verdict rests on K witnesses; contradictions fail |
| Mirrors | `validators/mirror.py`, `fetchers/{github,s3,dns,local}.py` | results per surface, `expected_previous_hash` | `mirror verify-latest`, `verify-anchors` | fetches race a publication that goes surface by surface; outages; DNS holds half a hash | an honest surface decides; a FAIL is a divergence; gaps never pass |
| External anchors | `validators/external_anchor.py` | loop over anchors: expected link | `verify-external-anchor`, `verify-external-anchor-chain` | sorted by an index that may be forged, over files in name order; the same directories go to `mirror verify-anchors`, which computes no hash | a PASS is the published history; a signed directory decides what the mirrors' verdict covers |
| Signing keys | `signature.py`, `revocation.py`, `fingerprint.py` | revocation list, trusted keys | `verify`, `key-info`, trust lookup | list order decides, files of two runs in one directory | the list decides, in `verify` and in receipts alike |
| Receipts | `receipt.py`, `validators/receipt.py` | receipt file | `emit-receipt`, receipt verification | trust checks that raise and are passed over | a receipt never claims more than was checked |
| Manifests and bundles | `validators/manifest.py`, `bundle.py` | artifact list | `verify manifest`, `verify bundle` | files that change between listing and reading, size 0 | every listed artifact is checked |
| Agent identity | `agent_identity.py` | certificate, clock | certificate verification | validity windows, order of checks | an expired or revoked certificate is refused |
| Certification, STP | `validators/certification.py`, `stp.py`, `stp_certification.py`, `stp_contracts.py`, `scaffold.py` | evidence directory | `certify` and `stp certify`: scaffold, check, attest, verify | a workflow over files that change between and during commands; scaffolds that die or overwrite | a verdict was true while the command ran; attestations match the evidence; a placeholder never passes |
| Readers | `readers/*.py`, `_dispatch_read` | `seen_ids`, mapped records, warnings, first collection | `read` per provider, strict or lenient | malformed, repeated and foreign records in a stream; what is noted before a record turns out bad | the bundle is the first good record of each id; silence means nothing is missing; the metadata are true |
| Orchestration | `orchestration.py` | four output files | `run` | written one after the other, each emptied first, by runs that die or overlap | what verifies was signed |
| Release | `release.py` | - | `verify-release` | retries, missing artifact | "verified" means something was compared |
| Command line | `cli.py`, `errors.py`, `__main__.py` | - | routing, `--ci` mapping | exceptions, exit code 1 for both WARN and a crash | exit codes follow the verdict |
| Vectors, contracts, wire specification, canonical JSON, hashing, output, templates | the rest | none | pure | - | - |

How they interact: `cli.py` calls one loader (`fetchers/`) and one validator
(`validators/`) per command and maps the result to an exit code. Components share no
memory; they share files, and the outside world (the platform, the registry
authority, witnesses, surfaces) changes those files while a command reads them one
after the other. That is why each module below has an environment part (who writes
what the command will read) and a verifier part (the command), interleaved.

## 2. Plan

Stage 1, done: the log that is written (Merkle, TransparencyLog and its refinement of
PublicLog, LogReader), then the verdicts over published histories (TransparencyChain,
RegistryChain), over statements (WitnessQuorum) and over mirrors (MirrorLatest,
MirrorHistory); the proofs of the log's invariants and refinement, and of what a PASS
of TransparencyChain means, with and without signatures.

Stage 2, done: the commands on one registry snapshot and one witness statement, in
the modules of their networks; `Readers`; `SignedEvidence` (the plan's KeyTrust and
Orchestration in one module, because the hazard is between them: a verifier reads files
that runs write); `Certification`; `ExternalAnchors`, on top of MirrorHistory, because
both read the same directories.

Stage 3, done: proofs about every module that has a state, the readers last, and
`AuthenticHistory`, the abstract specification that TransparencyChain, RegistryChain and
ExternalAnchors implement. Every safety property of a passing run is a theorem;
section 5 ends with what is not proved.

## 3. Modules

Conventions. A hash is an injective constructor over exactly the fields that are
hashed (a tuple), so two hashes are equal iff those fields are. A signature of a key
is identified with what was signed. Names, keys and bodies are model values. The
wording of messages, timestamps of results, latencies, receipts and output formats
are left out. Every loop of a validator is one action per turn, with the loop's own
local variables as state.

**Merkle** (`transparency.py` 108-177, 291-303). `merkle_root`,
`compute_inclusion_proof` and `verify_inclusion_proof` as recursive functions, with
the duplicated rightmost hash of an odd layer.

**TransparencyLog** (`transparency.py` 180-266, 307-318). `append_entry` as what it does
to the disk: ReadExisting, WriteLine, RefreshRead, WriteTmp, Replace, Return.
ShortWrite cuts the write of the line, before its newline or earlier; Crash ends the
process between any two operations. `lines` and `tail` are `entries.ndjson` (what
parses, and how the file ends), `root` and `tmp` are the two root files, `calls` the
local variables. The docstring of `append_entry` leaves serialisation to the caller:
`lock` is the caller's transaction, and Call's wait for it and EndCall are external to the
code, so that no property is about them. Epochs are separate
directories: one is modelled.

**PublicLog**. What an epoch promises: a sequence that only ever grows at its end.
TransparencyLog implements it with `log <- SubSeq(lines, 1, root.entry_count)`: the
published entries are those the root covers.

**LogReader** composes TransparencyLog with a relying party that follows section 3 of
`docs/transparency-log.md`: it fetches the two files in either order, makes and
replays the inclusion proof and compares roots, while appends, deaths and at most
`MaxEdits` edits of the file go on.

**TransparencyChain** (`validators/chain.py`, `cmd_verify_log`). Publish and Export are
the platform's; Drop, Repeat, Swap and Alter what happens on the way; Start is loading,
sorting and the early exits; CheckEntry one turn of the loop of `verify_chain`.

**RegistryChain** (`validators/registry.py`, `fetchers/registry.py`,
`cmd_registry_verify_chain`, `cmd_registry_verify`). Genesis and Update publish
snapshots, with nothing to keep the authority from undoing a revocation; the directory
is listed in any order and suffers faults; CheckSnapshot is one turn of
`verify_registry_chain`, with hash, signature, link, version and
`enforce_revocation_monotonicity`; VerifySnapshot is `registry verify` of one of the files.

**WitnessQuorum** (`validators/witness.py`, `fetchers/witness.py`,
`cmd_witness_verify_network`, `cmd_witness_verify`). Witnesses issue statements, the
authority renames, rekeys, suspends and revokes, files are spoilt; the verifier's three
reads are three actions, each judgement of a statement another, and Decide is the
verdict. LoadStatement, LoadRegistryForOne and JudgeStatement are `witness verify`, a
quorum of one with or without a registry.

**MirrorLatest** (`cmd_mirror_verify_latest`, `verify_mirror_consistency`, the
fetchers). NewAnchor, Mirror, CreateRelease and UploadAsset are the platform that
mirrors an anchor surface by surface; Alter changes a surface; the verifier fetches in
the code's order, GitHub by two requests, any of which can fail.

**MirrorHistory** (`cmd_mirror_verify_anchors`, `load_local_anchor`,
`verify_anchor_chain`). Two directories of anchors, files lost, altered and hashed anew,
the `--since` filter, the index map, and the loop that compares and links.

**ExternalAnchors** extends it with `verify-external-anchor` and
`verify-external-anchor-chain` over a file or a directory of the same copies: schema,
computed hash, signature under the platform's key, links from GENESIS on.

**Readers** (`_dispatch_read` and the five readers). A record of the export is what the
readers tell apart: its id, the first thing wrong with it, its signature and its
collection, and whether its signature names a key is kept apart from what the signature is.
Any object may carry `"__malformed__": true`, in any form of an export of OpenAI or LangSmith,
strict reads included. ReadLine, ReadEvent, ReadEntry, ReadComplianceEvent and ReadRun are one turn
of the loop of each reader; the record is drawn in the turn that reads it. Finish is what
the handler makes of the result. Its specification is `ReadSpec`, with `read_args` and
`read_exit` for the command line and the exit code.

**AuthenticHistory**. What a command promises that checks a copy of a linked history with the
publisher's key: the history only ever grows at its end, the copy gets one verdict, for good,
and is called authentic only if what was read is the beginning of the history.
TransparencyChain, RegistryChain and ExternalAnchors implement it, with their published
history, their exit code and what they read (`AH` in each); it is proved of them (section 5),
and no run checks it, because it rests on PassedIsPublished, which the runs do check. "Authentic" is a PASS that
checked signatures with the publisher's key; every other verdict, and a PASS without, is
`Abstain`.

**ExitCodes** (`errors.py` 16-20): the four exit codes, that of an uncaught exception, and
`NoExit` while a command runs.

**SignedEvidence** (`orchestration.py`, `signature.py`, `revocation.py`, `receipt.py` and
the handlers of `run`, `verify`, `emit-receipt`, `key-info`, `hash`). Write empties or
fills the next of the four files of a run, Die ends it. A payload or metadata file that is
filled over what another run has put there since it was emptied may keep the tail of the
longer text, and is no JSON then (Filled); signatures and keys have one length each. Meanwhile a
judging command reads its files one by one and then decides, with any revocation list.

**Certification** (`certify` and `stp certify`). A bundle is a set of artifacts (files the
commands treat alike). Scaffold commands, the integrator and a CI job change it, between any
two steps of a command: Look tests one artifact for existence, ReadMeta, ReadMessages and
ReadOutput read one, CheckRequirement reads the output once per requirement, and Hash reads
and hashes one artifact for the attestation. AllOrNone is what replaces the lookup when there
is an error, and in `certify`. `during` remembers what the bundle was while the command ran.

**TransparencyLogProofs** (with Merkle and LogReader), **TransparencyChainProofs**,
**RegistryChainProofs**, **WitnessQuorumProofs**, **MirrorLatestProofs**,
**ExternalAnchorsProofs** (with MirrorHistory), **SignedEvidenceProofs** (with Readers),
**CertificationProofs**: section 5. The `MC*` modules instantiate the modules for TLC; MCMerkle,
which grows a list of leaves one at a time, is also the specification that the theorems about
the tree are about.

Some definitions are stated by what they compute instead of by how, which says the same and
can be reasoned about. The depth of a Merkle tree is the turn at which the loop's condition
first fails (`Depth`). The result of a sort is any order-preserving rearrangement
(`SortedListings` of RegistryChain, `Sorted` of ExternalAnchors) where the code sorts files
that a directory lists in any order, so that ties may fall either way; where the code's
stable sort of a given list matters it is `Rank` in TransparencyChain. What MirrorHistory
has loaded of a directory is the set of places it was loaded from.

## 4. Runs

All runs finish; passing runs explore their whole state space. Deadlock is not checked
because every one of these systems stops: a command exits, and a bounded log is full.

| Run | Question | Bounds | Why they are enough |
|---|---|---|---|
| `merkle` | Do root, path and verifier agree, and does a path bind its leaf? | all lists of up to 9 leaves over 2 bodies | 9 leaves have four layers above them and odd layers at every level (9, 5, 3); two bodies make equal and different siblings |
| `transparency_log` | Does the log keep its promises under deaths and short writes? | 2 writers, 2 events, 4 lines | a damaged line, a call that trips over it, and calls of both writers before and after; odd and even lists |
| `log_reader` | What may a relying party believe that races the writers? | 1 writer, 3 lines, 1 edit | the two fetches can lie on either side of any append; with calls serialised a second writer adds no file state |
| `transparency_chain` | What does a PASS of `verify-log` exclude, what does it never refuse? | 3 entries, 2 bodies, 2 faults | two faults can be a change and the change that hides it, or a loss and a repetition; three entries have a first, a middle and a last |
| `registry_chain` | The same for the registry, its single snapshots too, and does revocation last? | 1 organisation, 1 key, 3 snapshots, 1 fault | statuses of different organisations and keys do not interact in the code; three snapshots are needed for revoked, gone, back |
| `witness_quorum` | What does a positive verdict of the network, or of one statement, rest on? | 2 witnesses of 3 names and keys, 2 hashes, 3 statements, 1 change, 1 fault, quorum up to 2 | a spare name and key for renaming and rekeying; a third statement that replaces or contradicts |
| `mirror_latest` | Does an honest surface decide, and is a FAIL always a divergence? | 3 surfaces, 2 anchors, 2 alterations, quorum 0 to 3 | a whole publication on top of another; two of three surfaces altered, in agreement too |
| `mirror_history` | Do lost files and altered files show, to the mirrors' command and to that of the external anchors? | 3 anchors in 2 directories, 2 faults, file names in two orders | two faults rewrite an anchor consistently and link the next one to it, or lose one anchor in both directories |
| `readers` | What is in a bundle, and are warnings and metadata true? | 3 ids, 2 collections, 3 records | three records have a bad one, a good one of the same id and one after them; two collections are the first and another |
| `signed_evidence` | What does a positive verdict over files of several runs rest on? | 2 runs, 2 documents, 2 keys, lists of 2 entries | every mixture of two runs' files and, in one file, of their texts; two entries of a list can name one key twice, in either order |
| `certification` | Is the verdict on a bundle that changes meanwhile true, and what is attested? | 2 changes, all tiers, both programs, from nothing or a bundle filled in for a tier | two changes during one command, between any of its steps, or a change and a scaffold over a filled bundle |

What the properties say:

* `merkle`: ProofsVerify, ProofsBindLeaf.
* `transparency_log`: SeqMatchesPosition (the file that can be read passes
  `assert_monotonic_no_gaps`, after any sequence of deaths), RootCommitsPrefix (the
  root is stale at worst), AckedIsPublished (what `append_entry` returned is under the
  root for good), RootDistinguishesPrefixes (odd layers do not make two states of the
  file share a root, because the sequence number is hashed), PublicLogSpec (refinement),
  DamageStopsTheEpoch (an action property: once a write was cut short, no later call
  publishes a root or is acknowledged; every one raises at its first or second read).
* `log_reader`: AcceptedIsPublished (no race makes a relying party accept what later
  goes away), OldRootBindsLeaves (a root kept from before an edit exposes it).
* `transparency_chain`: PassedIsPublished (with signatures), LastHashPinsChain
  (without), FaithfulCopyPasses, VerifiedCountIsTrue (`entries_verified`, which is printed
  for a chain that fails too, counts no entry that was not published, and at least the
  faithful beginning). Its TypeOK is a part of the inductive invariant and is
  proved, not checked by a run.
* `registry_chain`: PassedIsPublished (with signatures, and by the last hash without),
  RevocationLasts (at any distance, while listed), FaithfulHistoryPasses.
* `witness_quorum`: QuorumAttested, ContradictionFails, AgreementPasses.
* `mirror_latest`: HonestSurfaceDecides (and the anchor is no older than what all
  surfaces showed at the start), FailIsDivergence.
* `mirror_history`: LossesAreGaps, PassedIsPublished and FaithfulDirectoryPasses (of the
  external anchors), SignedDirectoryDecides (a directory that passes with the key decides
  what a PASS of the mirrors' command covers, whatever the other directory holds).
* `readers`: BundleIsFirstGood (in a strict read nothing in scope was passed over but
  objects that look like the sentinel), NoWarningNothingMissing, StatusIsTrue ("absent" says
  that no record of the bundle names its key, not that none is signed).
* `signed_evidence`: VerifiedIsSigned (no mixture of files verifies), FinishedRunVerifies
  (what one run wrote undisturbed does), ListDecides (the first entry for a key, whatever
  later ones say).
* `certification`: VerdictWasTrue (no single thing a tier asks for was missing all the
  while), AttestedIsEvidence, UneditedNeverCertified.

Fairness. None is assumed and no run checks liveness. Every command is a straight line or a
loop over a finite list, and nothing in the code waits, retries or is scheduled: that a
command ends says no more than that the process runs on. What does block for good, an epoch
with a line that does not parse, is a safety property here (DamageStopsTheEpoch), and that
callers take turns is their business.

One run ends in a violation, of something the repository says (`findings` in
`PROJECT.json` quotes it):

* `entries_never_deleted`: "entries are written once, never updated, never deleted". A
  write cut just before its newline leaves an entry that reads well; the next append
  continues its line and neither parses any more.

### Where text and code part ways

Other disagreements met while modelling. The models follow the code; the premises of
the properties exclude these cases and name them.

* `root.json` is the "Merkle root over the entries.ndjson contents"
  (`transparency.py:18-19`); after a death between line and rename it is the root of
  fewer, until the next append.
* `docs/transparency-log.md:91` says an edited entry is "detected by the inclusion-proof
  verifier"; no function recomputes the leaf hash of an entry it read. Its edits of
  `leaf_hash` itself are what OldRootBindsLeaves is about.
* `load_chain_file` "Supports both formats" (`validators/chain.py:174-176`); an NDJSON
  log of exactly one entry is refused (line 203). `Loads` in TransparencyChain.
* "All signatures valid (INV-ANCHOR-003)" (`validators/chain.py:278`); without the
  cryptography package every signature is (line 156).
* "3 (ERROR): File not found, parse error" (`cli.py:2164`); a parse error exits with 2.
* `compute_registry_hash` is "over the canonical JSON of the snapshot"
  (`validators/registry.py:290-291`); it is over the parsed snapshot, where optional
  fields that were left out are null. `explicit` in RegistryChain.
* "Hash mismatch is a tamper signal - always FAIL" (`validators/witness.py:866`); a later
  statement of the same organisation replaces an earlier one before the comparison, and
  with an expected hash a mismatch is only an invalid statement. ContradictionFails
  states what remains.
* "FAIL: Quorum not met, hash mismatch, or revoked witness" (`validators/witness.py:125`);
  a revoked witness beside a quorum of others is WARN.
* An anchor file that cannot be loaded prints an error and the verdict is given without
  it (`cli.py:3061-3064`). `LoadAnchor` in WitnessQuorum.
* "quorum_required: Minimum agreeing sources per anchor" (`validators/mirror.py:439`);
  `verify_anchor_chain` does not read it, and cannot give WARN to this command.
* "anchor_hash must match across all surfaces" (`validators/mirror.py:6`); surfaces that
  hold all of it are compared by its first 32 characters as well (line 188).

Invariants that the repository names and that hold only in part:

* "Once revoked, witnesses/keys cannot become active" (`validators/registry.py:779`). By
  leaving the registry for one version they can; RevocationLasts is what remains.
* "Verification requires >= K witnesses to agree" (`validators/witness.py:787`). A witness
  that was renamed counts once per name; QuorumAttested counts names.
* "no single compromised surface can modify history undetected" (`validators/mirror.py:8`).
  The directories are compared by half the hash and linked by all of it, so one of them
  can change the other half of the last hash. SignedDirectoryDecides is what remains.
* "verifiable with key registry" (`validators/external_anchor.py:13`): one key is used for
  all anchors and `anchor_key_id` is not read, so a history across a change of keys is
  refused. Without a key the exit code is PASS, with a warning. Without the cryptography
  package a key cannot be loaded and the verdict is FAIL; the `ImportError` that lines 380
  and 454 pass over never comes.

Readers, evidence and certification:

* "duplicate record_id ... (first occurrence wins)" (`readers/anthropic.py:240`); a lenient
  read notes the id before it maps the record (line 242), so that a first occurrence that
  is dropped keeps a good second one out. BundleIsFirstGood excepts it. The other readers
  note it afterwards.
* "If True, the first malformed or non-AR event fails the read"
  (`readers/cloudtrail.py:179`); such events are skipped (lines 300-310). A lenient read
  says how many, a strict one does not.
* "so the surviving records were checked" (`cli.py:1612`): without PyNaCl the check returns
  at once (`readers/anthropic.py:409`) and the status is "verified" all the same. StatusIsTrue
  has PyNaCl as its premise.
* "strict: If True, the first malformed event fails the read" (`readers/openai_compliance.py:238`,
  and `langsmith.py:226` of runs); an object in which `__malformed__` is true
  is taken for what a lenient read makes of a bad line and dropped with a warning, in strict
  reads and in documents too (`openai_compliance.py:394-399`, `langsmith.py:374-379`).
  BundleIsFirstGood and the model have it.
* "absent — no record carried an upstream signature" (`cli.py:1616`): the status goes by the key
  id, and a signature whose `key_id` is null is kept, checked if a key is given, and counted as
  absent (`readers/anthropic.py:160-163`, 307). StatusIsTrue says what is so.
* Text that starts with "[" over several lines and is not JSON, a signature that is not of
  64 bytes, and fields of unexpected types end a read in an uncaught exception, whose exit
  code 1 is that of WARN. So does an anchor file that is JSON but no object.
* "Fail if key is not explicitly active in revocation list" (`cli.py:50`); without a list
  `--require-trusted-key` changes nothing: `verify` warns and the receipt passes.
* `emit-receipt --manifest` looks the trust up and does not use it, takes an empty key file
  for none, and only asks of `--signature` that the file exists. An exception in the trust
  check is passed over (`cli.py:2338`). ListDecides is about artifacts.
* The scaffold of `certify` says how to replace its placeholder output (`scaffold.py:449`):
  by `vectors verify --format json`, whose JSON has `valid` and no `status`, so that
  `certify check` refuses it.
* The sample responses that `stp certify scaffold` writes lack fields that its own check
  requires (`validators/stp_certification.py:419-546`, `stp_contracts.py:263-279`).
* A tier or protocol in `meta.json` other than the one asked for is an error of `stp certify
  check` that leaves the verdict valid; a pending output is accepted there and refused by
  `certify check`.
* `certify attest` exits with PASS whatever the attestation says; evidence that is not JSON
  ends it in an uncaught exception. `stp certify attest` validates what it wrote.

## 5. Proofs

Every theorem is of the form `Spec => []Inv` or a refinement, for every value of the
constants; no bound of section 4 is assumed beyond its being a natural number. Hashes are
injective constructors and a signature is identified with what it signs, so the theorems
hold under ideal cryptography. Each module lists its assumption by name.

**The log.** TransparencyLogProofs proves, for any set of writers and events and any bound on
the lines, that TypeOK, SeqMatchesPosition, RootCommitsPrefix, AckedIsPublished and
RootDistinguishesPrefixes are invariants of `Spec` and that `Spec` implements PublicLog
(`PublicLogSpec`). Assumptions: `ConstantsOK` only (the two null values are no writer and no
event, the bound is a natural number).

None of the safety properties is inductive. RootCommitsPrefix, for one, survives
`Replace` only if `tmp` holds the root of a prefix, which holds only if the list a call
read is a prefix of the file when it writes `tmp`; that is stable only because nobody
else appends meanwhile. IInv adds, to the properties themselves, what each call in
progress knows: who holds the transaction, that `next_seq` is the number of lines from
the read to the write, that from `write` on the entry is on the last line, that the
list read for the refresh is the file, and that `tmp` is its root. Appends keep it
because `LinesAfter` never touches a line below the last one when the last is complete,
and because a short write can harm only a line that no root covers. The proof has one
step per action, and the refinement maps WriteLine and everything before `Replace` to
stuttering and `Replace` to the growth of the published sequence. DamageStopsTheEpoch follows from the same
invariant: a call that replaces the root or returns has its line whole and last in the file
(CallKnows), so that a file that does not end well has no call at either place.

**The tree.** The first part of the module proves ProofsVerify and ProofsBindLeaf for a list of any length,
and the lemma RootDeterminesLeaves that RootDistinguishesPrefixes rests on. The tree is
defined by recursive functions over a finite interval, and what they compute is shown
without induction over data: if a layer did not have the claimed property there would be
a least such layer (LeastOf, from the well-foundedness of `<`), and one turn of the loop
contradicts it. LayersExist, IndicesExist and ReplaysExist come first: the functions have the
values their equations say. Then Halved and DepthFacts (the loop stops, with one hash),
SiblingHashed (the neighbour the path builder takes, the hash the root builder pairs with
and the side the verifier puts it on agree, also at the end of an odd layer), and
RootInjective: lists without repetition that share a root are equal. Repetition is the one
thing duplication could hide, and leaf hashes carry the sequence number, so that a list of
leaf hashes never has any. MCMerkle's variable `leaves` plays no part in the theorems about
the log.

**The relying party.** For LogReader the same module proves AcceptedIsPublished and
OldRootBindsLeaves, for any number of edits (`MaxEditsOK`, a natural number). After an edit
IInv no longer holds, so RInv keeps what survives: Counted (lines, calls and root still
count as they should, and line i still says seq i - 1), SealedLines (the history variable has
one leaf hash per line, over that line's seq), CleanRoots (a root published before any edit is
the root of the first leaf hashes that were sealed, for good), Unedited (until the first edit
IInv itself holds and every root about is clean) and Held (what was fetched and accepted is
about the sequence number it says). OldRootBindsLeaves then follows from RootDeterminesLeaves: a proof carries the root of the
list it was made from, and two lists of leaf hashes with one root are equal. AcceptedIsPublished is the case without edits, where the entries fetched and the file
now are both prefixes of one history.

**Platform chain.** TransparencyChainProofs proves, for any bodies, any length of the chain
and any number of faults (BoundsOK, the only assumption, says that the two bounds are natural
numbers), that TypeOK, PassedIsPublished, LastHashPinsChain and FaithfulCopyPasses are
invariants. Its IInv has four parts beside TypeOK. ChainSound: what the platform published is numbered, linked, hashed
and signed. CopiesGenuine: every signature in the copy, and in the sorted copy, is one
the platform made; each fault has a lemma of its own, and sorting keeps it because the
ranks of a list are a bijection (RanksTaken), so that sorting invents nothing. Checked:
with signatures checked and the chain valid so far, entry k of the sorted copy is entry
k of the chain for every k the loop has passed; a verified signature is that of a
published hash, the hash fixes the index, and the index is the turn of the loop.
Pinned: without signatures, if the last hash seen is the published hash of place n, the
loop is at n and all hashes before agree; one turn of the loop extends it by one link.

What is never refused is the other direction and needs its own invariant. Justified: a chain
that loads is invalid only because one of the entries the loop has passed is not correct
(VerdictJustified). FaithfulSorts then shows that a copy which holds the first n entries of
the chain is sorted into them: n places hold n different indices, so index and place are a
bijection, and the entries sorted before one with index m are exactly m.

**Verdicts over published histories.** Three theorems named Refinement, in
TransparencyChainProofs, RegistryChainProofs and ExternalAnchorsProofs, say that each of these
specifications implements AuthenticHistory. Publishing an entry or a snapshot is `Publish`
(the anchors are all published at the start); a step that ends the command is `Accept` or
`Abstain`; every other step, a fault or a turn of the loop, is a stutter. The prefix that
`Accept` asks for is PassedIsPublished in the state after the step, which is why the
refinement rests on that invariant and not the other way round; what it adds is about time:
no step before the verdict touches what was published, and none follows it. It is a corollary,
and so no run checks it. For the anchors
PassedIsPublished leaves the signature open, because a known last hash says nothing of it;
AcceptedIsPrefix, for a PASS that checked it, has it too (AuthenticSound).

**Registry.** RegistryChainProofs proves, for any organisations and keys and histories of any
length (RegistryBoundsOK), that TypeOK, PassedIsPublished, RevocationLasts and
FaithfulHistoryPasses are invariants. ChainSound and FilesGenuine are as above, and so are
Prefix and Pinned, for the two halves of PassedIsPublished. Sorted says that what the loop
goes through is an order-preserving listing of the files that parse; IncreasingIsIdentity,
that only the identity maps 1..n into itself increasingly, makes the sorted listing of a
faithful directory the chain. Checked is an equivalence: `chain_valid` if and only if every
snapshot passed is valid and linked, which serves FaithfulHistoryPasses in one direction.
Lasting is the point: the code compares neighbours only, and the invariant is about any two
snapshots i < j the loop has passed, provided who is revoked is listed in all between;
one turn of the loop extends j by one.

**Witness quorum.** WitnessQuorumProofs proves, for any organisations, keys, hashes, number of
statements and `--min-witnesses` (QuorumBoundsOK), that TypeOK, QuorumAttested,
ContradictionFails and AgreementPasses are invariants. The registry, the statements and the
anchor are read at different moments and change in between. FilesGenuine says what is on the
disk and in memory whatever changed: registries that parse, and statements that, where nobody
touched them, are signed with the key they name. Stages ties each local variable to how far
the command is. ResultsAreLatest replaces the loop: for each organisation `results` holds the
judgement of the last of its statements so far, later ones having replaced earlier ones;
that is what ContradictionFails needs, and why its premise is about witnesses with one
statement. Verdict says from which counts each status came. The bound on attesting witnesses
is a bound on cardinalities: valid organisations are among those the registry lists.

**Mirrors, newest anchor.** MirrorLatestProofs proves, for any number of anchors and faults and
any `--quorum` (MirrorBoundsOK), that TypeOK, HonestSurfaceDecides and FailIsDivergence are
invariants. Surfaced says what an unaltered surface shows at any moment: the newest anchor,
or the one before where mirroring has not got there. Fetched says that what an unaltered
surface gave lies between what all showed at the start and the newest (`Fresh`), GitHub's two
requests included: the release number fetched first bounds the asset fetched second. History
ties `settled` and `moved` to the platform's progress and Verdict to the agreement of the
answers. HonestSurfaceDecides then needs only that all answers of a positive verdict have one
prefix and that the honest one is fresh.

**Anchor directories.** ExternalAnchorsProofs proves, for any number of anchors and faults
(HistoryBoundsOK), the properties of both modules as invariants of `AnchorSpec`: TypeOK and
LossesAreGaps of MirrorHistory, PassedIsPublished, FaithfulDirectoryPasses and
SignedDirectoryDecides of ExternalAnchors. FilesGenuine: no fault makes a new signature. Loads:
what was loaded of a directory is nothing or all of it, then what the filters leave. Looping
is the invariant of the loop of `verify_anchor_chain`: indices looked at and indices to do
partition what was loaded, in order; `expected` is the hash of the last; and `broken` is
exactly the set of indices at which the directories differ or the link to the index just
before does not hold, so that an empty `broken` at the end speaks about all pairs (Ended).
Judged keeps, for the other two commands, that their verdict is that of what they read.
SignedDirectoryDecides joins the two: a directory that passes with the key holds the first
anchors published and no other, so an index the mirrors' command takes from either directory
agrees with it or is broken.

**Signed evidence.** SignedEvidenceProofs proves, for any number of runs, documents and keys
and for revocation lists of any length, that VerifiedIsSigned, ListDecides and
FinishedRunVerifies are invariants.
Its assumption is EvidenceOK: the values that stand for a missing and for an emptied
file differ from each other and are no document, key or signature, and the hash of a
manifest that declares none is no document that a run signs (hashes do not collide).
None of them is inductive. For the first two, the files that a command reads may come from different
runs, and what ties them together is only that nobody writes a signature that was not
made. IInv therefore adds two parts. Signed: a run that has begun to write has signed its
bundle, and signatures are of documents by keys. FilesRead: every file on the disk and
every file that was read is missing, emptied, or of its kind, which for a signature means
one in `signed`; and a command was given the files it judges. Each write keeps FilesRead,
wherever the run dies; a verdict follows from it because a valid signature is the pair of
the document and the key that were read, whoever wrote each. For the list,
TrustIsListed says that the status of the first entry that names a key is what the key is
trusted by (FirstEntry: that first entry exists because `<` on the naturals is well founded,
and is the one NamedFirst speaks of); and TrustedVerdict covers both commands that look trust up.

FinishedRunVerifies needs an invariant about time. Alone: since the first write of `writer` no
other run has been writing, each file it has filled holds what it signed, and the one it has
emptied is still empty, so that filling it leaves no bytes of another; a run that
joins in makes `writer` nobody, and one that begins when all others have ended or died
takes over. Undisturbed: a command that started on a finished directory has, as long as
`writer` is still that run, read nothing but what that run wrote, so that no file is missing
or empty and the signature is that of the payload under the key.

**Readers.** The second part of SignedEvidenceProofs (run_pipeline reads its export with the
same readers) proves, for any sets of ids and collections and exports of any length, that
BundleIsFirstGood, NoWarningNothingMissing and StatusIsTrue are invariants of `ReadSpec`; no
assumption on the constants is used. All three speak of the end of a read only, so ReadInv
says what is so between two turns of the loop. SeenIsMapped: `seen_ids` holds exactly the ids
of the records mapped, and these are the first acceptable ones of their ids. A lenient read of
Anthropic's export is left out of it because there a dropped record takes its id along; a
strict one is not, because it stops at the first such record. Accounted: until the first
warning every record in scope was mapped, into one collection, and each one out of scope was
counted. Signatures: every record mapped carries the upstream key's signature if that is
checked, and a key id was noted exactly if one of them names its key. The five readers order their tests
differently; Judged and Turn are what one turn of any of them does to a record (it is mapped
exactly if it is acceptable by itself and its id was not seen), shown for each reader once, so
that the invariant is proved for one loop and not for five.

**Certification.** CertificationProofs proves, for any number of changes to the bundle
(MaxChangesOK is not even needed), for both programs and all tiers, that VerdictWasTrue,
AttestedIsEvidence and UneditedNeverCertified are invariants. `during` holds every state of
the bundle since the command began; a change adds one, so "some state in `during`" is
stable. Found says, of each artifact, sample and requirement that has had its turn (`at` says
how many have), that what the step wants was there in some state of `during`, if the command
found nothing wrong so far; Judged says that whatever
it found wrong was wrong in one of them, that `valid` and an empty `missing` mean the same
once the requirements were looked up, and what exit code and attestation follow. If nobody
changed the bundle `during` has one member and the scattered facts are about one state, which
makes the verdict exact. Attested does the same for the second reading: each hash is of
what the bundle held at some time, and an artifact that had its turn and was there all the
while is among the hashes. Placeholders: a bundle only scaffolds wrote holds nothing but what
scaffolds write, including one that died halfway, on a directory with content or without.
TablesAreCumulative, that the table of each tier contains those below, is what lets a tier's
verdict speak for the lower ones.

Every property of a passing run is proved, and there is no liveness property (section 4, Fairness).
Not proved is `entries_never_deleted`, which is false. That the installed provers cannot
instantiate the library's induction theorems has not been in the way: every induction needed
here is over a finite interval and is done by a least counterexample.

## 6. Not modelled, and limits

`PROJECT.json` lists every component with its status. What is not modelled, and why:

* `agent-identity`, `anchor verify`, `manifest verify`, `receipt verify`, `bundle verify`
  and `stp` on one message: a conjunction of tests of one document (or one ZIP, opened
  once). Nothing changes between the tests and none depends on another, so a model would
  repeat the code line by line.
* `release.py`: one fetch without retries and two tests; Sigstore does the work. Without an
  artifact it reports a release as verified if its checksums have a line (lines 307-311).
* `registry info`, `witness registry-info`, receipts of the networks and mirrors, vectors,
  contracts, wire specification, canonical JSON, output and templates keep no state or
  print what was read. The asynchronous and by-index fetchers have no caller in the tool.
* The mapping of exit codes under `--ci` (`errors.py`) is a table over the verdicts.

Abstractions worth knowing. Readers takes a record for its id, flaw, signature and
collection: what makes a field acceptable is one value, and the model does not say which
strings those are. SignedEvidence reads a file at one instant, a file is emptied in one step and
filled in another, and bytes of two runs in one file are no JSON. Certification puts files that
the commands treat alike into one artifact, which is looked for, read or hashed at one instant
with the test for its existence, and the requirements that a tier adds into one requirement. MirrorHistory and
ExternalAnchors assume that the platform anchors each chain head once, in order; two
anchors of one head would be one index in the mirrors' map.

Hashes never collide and signatures of a key are never made without it: a model that
says otherwise would be about SHA-256 and Ed25519. A filesystem keeps what was written
and renames atomically (`os.replace`); loss of unsynced pages in a power failure is not
modelled, and the code does not call `fsync`.
