------------------------------ MODULE Readers -------------------------------
(***************************************************************************)
(* "specora-verify read <provider>": _dispatch_read in cli.py and the five *)
(* readers in specora_verify/readers.  A reader opens an export, takes its *)
(* records one by one, maps each to a record of the bundle, or drops it    *)
(* with a warning, or stops, and the handler says what became of the       *)
(* upstream signatures.                                                    *)
(*                                                                         *)
(* A record of the export is what the readers' decisions depend on: its    *)
(* id, the first thing wrong with it ("flaw"), its signature and whether   *)
(* that names a key (Anthropic), and its collection (Azure).  The file's   *)
(* lines are drawn when they are read, which is the first time they        *)
(* matter.                                                                 *)
(***************************************************************************)
EXTENDS Integers, Sequences, FiniteSets, ExitCodes

CONSTANTS
  Ids,         \* record_id, eventID or id of a record
  Collections, \* collectionId of a ledger entry
  Absent,      \* an entry with no collectionId
  MaxRecords   \* bound on the records of an export

ASSUME RecordsOK == MaxRecords \in Nat /\ Absent \notin Collections

VARIABLES
  provider,        \* the reader
  read_args,       \* the command line, and whether PyNaCl is installed
  form,            \* what the text of the file looks like
  pc,              \* "open", "read" or "done"
  export,          \* the records read so far
  seen_ids,
  mapped,          \* positions in export of mapped_records
  warnings,        \* what each warning is about: a position in export, or a notice
  skipped_non_ar,
  collection,      \* first_collection_id
  upstream_key_id, \* whether it is set: to the key_id of a mapped record
  status,          \* metadata.upstream_signatures
  read_exit        \* exit code, NoExit while running

opened == <<provider, read_args, form>>
read_vars == <<opened, pc, export, seen_ids, mapped, warnings, skipped_non_ar,
               collection, upstream_key_id, status, read_exit>>
-----------------------------------------------------------------------------
(* Exports *)

READERS == {"anthropic", "cloudtrail", "azure-cl", "openai", "langsmith"}
Preview == {"openai", "langsmith"}

Args == [strict         : BOOLEAN,
         public_key     : {"none", "given", "unusable"},
         schema_version : {"declared", "supported", "unsupported"},
         nacl           : BOOLEAN]

\* "lines" is JSON Lines, "brackets" several lines from a "[" on that are not
\* JSON, "unreadable" a file that is missing or not UTF-8.
Forms ==
  {"unreadable", "empty"} \cup
  CASE provider = "anthropic" -> {"lines"}
    [] provider \in {"cloudtrail", "azure-cl"} -> {"document", "not_json", "wrong_shape"}
    [] provider \in Preview -> {"document", "lines", "not_json", "wrong_shape", "brackets"}

\* "content" is a value the mapping refuses (decision, hash, timestamp, receipt),
\* "wrong_type" one it does not expect and raises another exception on than
\* ReaderSchemaError.
MappingFlaws == {"content", "wrong_type"}

\* "shape" is a missing field or one of the wrong kind, "unhashable" a record_id
\* that is a list or an object, "sentinel" an object in which __malformed__ is
\* true: what a lenient read makes of a line that is no JSON, but it may stand
\* in any export.
Flaws ==
  {"none", "not_object", "shape"} \cup MappingFlaws \cup
  CASE provider = "anthropic"  -> {"not_json", "version", "unhashable"}
    [] provider = "cloudtrail" -> {"version", "foreign", "not_ar"}
    [] provider = "azure-cl"   -> {}
    [] provider \in Preview    -> {"sentinel"}

\* Signatures are "missing", without a value ("empty"), made by the upstream key
\* over this record, made otherwise, or what the check crashes on ("short": not
\* of 64 bytes, or no object).  Whether they name a key is another matter.
Sound ==
  {r \in [id         : Ids,
          flaw       : {"none"},
          signature  : IF provider # "anthropic" THEN {"missing"}
                       ELSE {"missing", "empty", "upstream", "other", "short"},
          key_named  : BOOLEAN,
          collection : IF provider = "azure-cl" THEN Collections \cup {Absent}
                       ELSE {Absent}] :
     r.signature = "missing" => ~r.key_named}

Records ==
  Sound \cup [id : Ids, flaw : Flaws \ {"none"},
              signature : IF provider = "anthropic" THEN {"upstream"} ELSE {"missing"},
              key_named : {provider = "anthropic"}, collection : {Absent}]

-----------------------------------------------------------------------------
(* Opening the export *)

ReadInit ==
  /\ provider \in READERS /\ read_args \in Args
  /\ form = "none" /\ pc = "open"
  /\ export = <<>> /\ seen_ids = {} /\ mapped = <<>> /\ warnings = <<>>
  /\ skipped_non_ar = 0 /\ collection = Absent /\ upstream_key_id = FALSE
  /\ status = "none" /\ read_exit = NoExit

\* The readers that look at --schema-version once, and not per record.
VersionRefused ==
  provider \notin {"anthropic", "cloudtrail"} /\ read_args.schema_version = "unsupported"

\* Anthropic's _load_public_key; the other readers never open the key.
KeyRefused == provider = "anthropic" /\ read_args.public_key = "unusable"

\* _extract_events and _extract_runs: what can become of a text.  Strict JSON
\* Lines are parsed to the end before the first is mapped.
Extract(f) ==
  CASE f = "unreadable" -> {EXIT_ERROR, CRASH}
    [] f \in {"not_json", "wrong_shape"} -> {EXIT_ERROR}
    [] f = "brackets" -> {CRASH}
    [] f \in {"empty", "document"} -> {NoExit}
    [] f = "lines" -> IF provider \in Preview /\ read_args.strict THEN {NoExit, EXIT_ERROR}
                      ELSE {NoExit}

Open ==
  /\ pc = "open"
  /\ form' \in Forms
  /\ read_exit' \in IF form' # "unreadable" /\ (VersionRefused \/ KeyRefused)
                    THEN {EXIT_ERROR} ELSE Extract(form')
  /\ pc' = IF read_exit' = NoExit THEN "read" ELSE "done"
  /\ UNCHANGED <<provider, read_args, export, seen_ids, mapped, warnings, skipped_non_ar,
                 collection, upstream_key_id, status>>

-----------------------------------------------------------------------------
(* One record: "mapped", "duplicate", "dropped", "skipped", "error", "crash" *)

Refused == IF read_args.strict THEN "error" ELSE "dropped"

VersionSupported(r) ==
  IF read_args.schema_version = "declared" THEN r.flaw # "version"
  ELSE read_args.schema_version = "supported"

\* _validate_record_shape and the version check, before the id is looked up.
Shaped(r) ==
  r.flaw \notin {"not_json", "not_object", "shape"} /\ VersionSupported(r)

\* _verify_upstream_signature: without PyNaCl nothing is checked.
SignaturesChecked == read_args.public_key = "given" /\ read_args.nacl

\* Mutant: a signature that does not verify is a reason to stop, but in a
\* lenient read the record stays.
MapLineKeepingUnsigned(r) ==
  IF ~Shaped(r) THEN Refused
  ELSE IF r.flaw = "unhashable" THEN "crash"
  ELSE IF r.id \in seen_ids THEN "duplicate"
  ELSE IF r.flaw = "wrong_type" THEN "crash"
  ELSE IF r.flaw = "content" \/ r.signature = "missing" THEN Refused
  ELSE IF SignaturesChecked /\ r.signature = "short" THEN "crash"
  ELSE IF SignaturesChecked /\ r.signature # "upstream" /\ read_args.strict THEN Refused
  ELSE "mapped"

MapLine(r) ==
  IF ~Shaped(r) THEN Refused
  ELSE IF r.flaw = "unhashable" THEN "crash"
  ELSE IF r.id \in seen_ids THEN "duplicate"
  ELSE IF r.flaw = "wrong_type" THEN "crash"
  ELSE IF r.flaw = "content" \/ r.signature = "missing" THEN Refused
  ELSE IF SignaturesChecked /\ r.signature = "short" THEN "crash"
  ELSE IF SignaturesChecked /\ r.signature # "upstream" THEN Refused
  ELSE "mapped"

MapEntry(r) ==
  IF r.flaw \in {"not_object", "shape", "content"} THEN Refused
  ELSE IF r.flaw = "wrong_type" THEN "crash"
  ELSE IF r.id \in seen_ids THEN "duplicate"
  ELSE "mapped"

\* An InvokeModel event of bedrock.amazonaws.com with the reasoning extension
InScope(r) == r.flaw \notin {"foreign", "not_ar"}

MapEvent(r) ==
  IF r.flaw = "not_object" THEN Refused
  ELSE IF ~InScope(r) THEN "skipped"
  ELSE IF ~VersionSupported(r) THEN Refused
  ELSE MapEntry(r)

\* The test for a sentinel comes first and does not ask for strict.
MapComplianceEvent(r) == IF r.flaw = "sentinel" THEN "dropped" ELSE MapEntry(r)

MapRun(r) == IF r.flaw = "sentinel" THEN "dropped" ELSE MapEntry(r)

-----------------------------------------------------------------------------
(* The readers' loops *)

\* A record with the outcome o is taken: the end of each turn.
Take(r, o) ==
  /\ export' = Append(export, r)
  /\ skipped_non_ar' = skipped_non_ar + (IF o = "skipped" THEN 1 ELSE 0)
  /\ mapped' = IF o = "mapped" THEN Append(mapped, Len(export) + 1) ELSE mapped
  /\ read_exit' = IF o = "error" THEN EXIT_ERROR ELSE IF o = "crash" THEN CRASH ELSE NoExit
  /\ pc' = IF o \in {"error", "crash"} THEN "done" ELSE "read"
  /\ UNCHANGED <<opened, status>>

Reading(p) == pc = "read" /\ provider = p /\ form # "empty" /\ Len(export) < MaxRecords

Warned(o) == IF o \in {"dropped", "duplicate"} THEN Append(warnings, Len(export) + 1)
             ELSE warnings

ReadLine ==
  /\ Reading("anthropic")
  /\ \E r \in Records :
       /\ Take(r, MapLine(r))
       /\ seen_ids' = IF Shaped(r) /\ r.flaw # "unhashable" THEN seen_ids \cup {r.id}
                      ELSE seen_ids
       /\ warnings' = Warned(MapLine(r))
       /\ upstream_key_id' = (upstream_key_id \/ (MapLine(r) = "mapped" /\ r.key_named))
  /\ UNCHANGED collection

\* Mutant: the id is noted before the event is known to map.
SeenEarly(r, o) == seen_ids \cup {r.id}

SeenAfter(r, o) == IF o = "mapped" THEN seen_ids \cup {r.id} ELSE seen_ids

ReadEvent ==
  /\ Reading("cloudtrail")
  /\ \E r \in Records :
       /\ Take(r, MapEvent(r))
       /\ seen_ids' = SeenAfter(r, MapEvent(r))
       /\ warnings' = Warned(MapEvent(r))
  /\ UNCHANGED <<collection, upstream_key_id>>

\* Mutant: an entry is compared with the first only if that one has a
\* collection of its own, and the first is never replaced.
CollectionOfFirst(r) == IF mapped = <<>> THEN r.collection ELSE collection

CollectionAfter(r) == IF collection = Absent THEN r.collection ELSE collection

\* A mapped entry of another collection than the first is kept, with a warning.
ReadEntry ==
  /\ Reading("azure-cl")
  /\ \E r \in Records :
       LET o == MapEntry(r)
       IN  /\ Take(r, o)
           /\ seen_ids' = SeenAfter(r, o)
           /\ collection' = IF o = "mapped" THEN CollectionAfter(r) ELSE collection
           /\ warnings' = IF /\ o = "mapped" /\ Absent \notin {collection, r.collection}
                             /\ r.collection # collection
                          THEN Append(warnings, Len(export) + 1)
                          ELSE Warned(o)
  /\ UNCHANGED upstream_key_id

ReadComplianceEvent ==
  /\ Reading("openai")
  /\ \E r \in Records :
       /\ Take(r, MapComplianceEvent(r))
       /\ seen_ids' = SeenAfter(r, MapComplianceEvent(r))
       /\ warnings' = Warned(MapComplianceEvent(r))
  /\ UNCHANGED <<collection, upstream_key_id>>

ReadRun ==
  /\ Reading("langsmith")
  /\ \E r \in Records :
       /\ Take(r, MapRun(r))
       /\ seen_ids' = SeenAfter(r, MapRun(r))
       /\ warnings' = Warned(MapRun(r))
  /\ UNCHANGED <<collection, upstream_key_id>>

-----------------------------------------------------------------------------
(* The end of the export *)

\* What the reader adds to its warnings once it is through.
Notices ==
  (IF skipped_non_ar > 0 /\ ~read_args.strict THEN <<"skipped">> ELSE <<>>)
  \o (IF provider # "anthropic" /\ read_args.public_key # "none"
      THEN <<"key ignored">> ELSE <<>>)

\* _classify_upstream_signatures
Classified ==
  IF ~upstream_key_id THEN "absent"
  ELSE IF read_args.public_key # "none" THEN "verified" ELSE "present_unverified"

\* A single line is a JSON document and not JSON Lines.
Finish ==
  /\ pc = "read"
  /\ form = "lines" /\ provider \in Preview => Len(export) >= 2
  /\ warnings' = warnings \o Notices
  /\ status' = Classified
  /\ read_exit' = EXIT_PASS /\ pc' = "done"
  /\ UNCHANGED <<opened, export, seen_ids, mapped, skipped_non_ar, collection,
                 upstream_key_id>>

ReadNext ==
  \/ Open \/ Finish
  \/ ReadLine \/ ReadEvent \/ ReadEntry \/ ReadComplianceEvent \/ ReadRun

ReadSpec == ReadInit /\ [][ReadNext]_read_vars
-----------------------------------------------------------------------------
(* Properties *)

Passed == read_exit = EXIT_PASS

\* A record that is acceptable by itself.
Good(r) ==
  /\ r.flaw = "none" \/ (r.flaw = "version" /\ read_args.schema_version = "supported")
  /\ read_args.schema_version # "unsupported"
  /\ provider = "anthropic" =>
       r.signature # "missing" /\ (SignaturesChecked => r.signature = "upstream")

FirstGood ==
  {k \in DOMAIN export : /\ Good(export[k])
                         /\ \A j \in 1..(k - 1) :
                              export[j].id = export[k].id => ~Good(export[j])}

\* The bundle holds each acceptable record once, the first of its id, in the
\* order of the export; a strict read passes only if nothing in scope was
\* unacceptable, but for objects that look like the sentinel.  A lenient read of
\* Anthropic's export is excepted: there the first occurrence counts even if it
\* was dropped.
BundleIsFirstGood ==
  Passed /\ (read_args.strict \/ provider # "anthropic") =>
    /\ {mapped[k] : k \in DOMAIN mapped} = FirstGood
    /\ \A j, k \in DOMAIN mapped : j < k => mapped[j] < mapped[k]
    /\ read_args.strict =>
         \A k \in DOMAIN export : InScope(export[k]) /\ export[k].flaw # "sentinel" =>
           \E j \in FirstGood : export[j].id = export[k].id

\* A read with no warning lost nothing: every record is in the bundle, unless
\* a strict read passed over an event of another source, and the bundle is of
\* one collection.
NoWarningNothingMissing ==
  Passed /\ warnings = <<>> =>
    /\ \A k \in DOMAIN export : \/ \E j \in DOMAIN mapped : mapped[j] = k
                                \/ (read_args.strict /\ ~InScope(export[k]))
    /\ \A j, k \in DOMAIN mapped :
         LET c == export[mapped[j]].collection
             d == export[mapped[k]].collection
         IN  c = d \/ Absent \in {c, d}

\* What the metadata say of the upstream signatures is so, record by record:
\* "verified", with PyNaCl, means that every record of the bundle carries the
\* upstream key's signature over it, and "absent" that none names its key; one
\* that names it is enough for the other two, whatever was dropped around it.
StatusIsTrue ==
  Passed =>
    /\ status = "verified" /\ read_args.nacl =>
         \A k \in DOMAIN mapped : export[mapped[k]].signature = "upstream"
    /\ status = "absent" <=> \A k \in DOMAIN mapped : ~export[mapped[k]].key_named
=============================================================================
