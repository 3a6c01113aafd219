--------------------------- MODULE TransparencyLog ---------------------------
(***************************************************************************)
(* One epoch of specora_verify/transparency.py on disk, and the processes  *)
(* that call TransparencyLog.append_entry on it.                           *)
(*                                                                         *)
(* append_entry is several file operations: read entries.ndjson, append a  *)
(* line, read entries.ndjson again, write root.json.tmp, rename it onto    *)
(* root.json.  Each is an action of its own, because a process may die     *)
(* between any two of them and because the relying parties of LogReader    *)
(* fetch the files in between.  Epochs live in separate directories and    *)
(* share nothing, so one epoch is modelled.                                *)
(*                                                                         *)
(* The caller serialises the calls (the docstring of append_entry): "lock" *)
(* is that serialisation, a transaction held from the call to its return   *)
(* and given up when the call raises or the process dies.                  *)
(*                                                                         *)
(* Appending a line is not atomic: a full disk or a kill can cut the write *)
(* short, before the line's newline ("noeol": the JSON is complete) or     *)
(* earlier ("torn").  Nothing in the code looks at how the file ends.      *)
(***************************************************************************)
EXTENDS Merkle

CONSTANTS
  Writers,    \* processes that call append_entry
  NoWriter,   \* lock value: nobody holds the caller's transaction
  Events,     \* what an entry records (type, identity, org, key, timestamp)
  NoEvent,    \* the event of a process that is in no call
  MaxLines    \* bound on the lines of entries.ndjson

ASSUME ConstantsOK ==
  /\ NoWriter \notin Writers
  /\ NoEvent \notin Events
  /\ MaxLines \in Nat

VARIABLES
  lines,   \* entries.ndjson: the entries on the lines that parse
  tail,    \* how entries.ndjson ends: "ok", "noeol" or "torn"
  tmp,     \* root.json.tmp
  root,    \* root.json
  lock,    \* the writer whose call is in progress
  calls,   \* calls[w]: the local state of w's append_entry
  acked    \* history: the entries append_entry has returned

vars == <<lines, tail, tmp, root, lock, calls, acked>>
-----------------------------------------------------------------------------
(* Files *)

\* Mutant: seq is not among the fields the leaf hash covers.
EntryLeafWithoutSeq(seq, event) ==
  [seq |-> seq, event |-> event, leaf_hash |-> LeafHash(<<event>>)]

Entry(seq, event) ==
  [seq |-> seq, event |-> event, leaf_hash |-> LeafHash(<<seq, event>>)]

EntrySet == {Entry(p[1], p[2]) : p \in (0..MaxLines) \X Events}

LeafHashes(entries) == [i \in 1..Len(entries) |-> entries[i].leaf_hash]

RootPayload(entries) ==
  [entry_count      |-> Len(entries),
   merkle_root_hash |-> MerkleRoot(LeafHashes(entries))]

\* A missing root file, or one that does not parse.  No refresh writes an
\* entry_count of 0: it follows an append.
NoRoot == RootPayload(<<>>)

\* Mutant: a line that does not parse is skipped.
ReadableSkippingBadLines == TRUE

\* _read_entries parses every line: one bad line makes json.loads raise.
Readable == tail # "torn"

\* entries.ndjson after bytes of a line for entry e are added to it, of
\* which the last is the newline iff how = "ok".  They continue a line that
\* has no newline, and two objects on a line do not parse.
LinesAfter(e) ==
  CASE tail = "ok"    -> Append(lines, e)
    [] tail = "noeol" -> SubSeq(lines, 1, Len(lines) - 1)
    [] tail = "torn"  -> lines

-----------------------------------------------------------------------------
(* append_entry *)

Steps == {"idle", "read", "write", "refresh", "tmp", "replace", "return"}

\* What append_entry and _refresh_root keep in local variables.
CallSet == [pc : Steps, event : Events \cup {NoEvent}, next_seq : 0..MaxLines,
            entries : Seq(EntrySet)]

Idle == [pc |-> "idle", event |-> NoEvent, next_seq |-> 0, entries |-> <<>>]

Goto(w, pc) == calls' = [calls EXCEPT ![w].pc = pc]

\* The call returns, raises or dies: the caller's transaction ends.
EndCall(w) == calls' = [calls EXCEPT ![w] = Idle] /\ lock' = NoWriter

Init ==
  /\ lines = <<>> /\ tail = "ok"
  /\ tmp = NoRoot /\ root = NoRoot
  /\ lock = NoWriter
  /\ calls = [w \in Writers |-> Idle]
  /\ acked = {}

\* Mutant: callers are not serialised.
CallUnserialised(w, event) ==
  /\ calls[w].pc = "idle"
  /\ Len(lines) < MaxLines
  /\ lock' = w
  /\ calls' = [calls EXCEPT ![w].pc = "read", ![w].event = event]
  /\ UNCHANGED <<lines, tail, tmp, root, acked>>

Call(w, event) ==
  /\ calls[w].pc = "idle" /\ lock = NoWriter
  /\ Len(lines) < MaxLines
  /\ lock' = w
  /\ calls' = [calls EXCEPT ![w].pc = "read", ![w].event = event]
  /\ UNCHANGED <<lines, tail, tmp, root, acked>>

\* Mutant: takes the next seq for a count that starts at 1.
ReadExistingFromOne(w) ==
  /\ calls[w].pc = "read"
  /\ IF Readable
     THEN /\ calls' = [calls EXCEPT ![w].pc = "write", ![w].next_seq = Len(lines) + 1]
          /\ UNCHANGED lock
     ELSE EndCall(w)
  /\ UNCHANGED <<lines, tail, tmp, root, acked>>

\* existing = self._read_entries(epoch_id); next_seq = len(existing)
ReadExisting(w) ==
  /\ calls[w].pc = "read"
  /\ IF Readable
     THEN /\ calls' = [calls EXCEPT ![w].pc = "write", ![w].next_seq = Len(lines)]
          /\ UNCHANGED lock
     ELSE EndCall(w)
  /\ UNCHANGED <<lines, tail, tmp, root, acked>>

\* Mutant: returns without refreshing the root.
WriteLineOnly(w) ==
  /\ calls[w].pc = "write"
  /\ lines' = LinesAfter(Entry(calls[w].next_seq, calls[w].event))
  /\ tail' = IF tail = "ok" THEN "ok" ELSE "torn"
  /\ Goto(w, "return")
  /\ UNCHANGED <<tmp, root, lock, acked>>

\* fh.write(json.dumps(full) + "\n") and the close that flushes it
WriteLine(w) ==
  /\ calls[w].pc = "write"
  /\ lines' = LinesAfter(Entry(calls[w].next_seq, calls[w].event))
  /\ tail' = IF tail = "ok" THEN "ok" ELSE "torn"
  /\ Goto(w, "refresh")
  /\ UNCHANGED <<tmp, root, lock, acked>>

\* The same write cut short, and the exception or death that follows.  A line
\* that is complete but for its newline parses.
ShortWrite(w, how) ==
  /\ calls[w].pc = "write"
  /\ lines' = IF tail = "ok" /\ how = "torn" THEN lines
              ELSE LinesAfter(Entry(calls[w].next_seq, calls[w].event))
  /\ tail' = IF tail = "ok" THEN how ELSE "torn"
  /\ EndCall(w)
  /\ UNCHANGED <<tmp, root, acked>>

\* Mutant: takes what it read before and its own entry for the file.
RefreshFromMemory(w) ==
  /\ calls[w].pc = "refresh"
  /\ calls' = [calls EXCEPT ![w].pc = "tmp",
                ![w].entries = [i \in 1..(calls[w].next_seq + 1) |->
                                  IF i <= Len(lines) THEN lines[i]
                                  ELSE Entry(i - 1, calls[w].event)]]
  /\ UNCHANGED <<lines, tail, tmp, root, lock, acked>>

\* _refresh_root reads entries.ndjson again
RefreshRead(w) ==
  /\ calls[w].pc = "refresh"
  /\ IF Readable
     THEN /\ calls' = [calls EXCEPT ![w].pc = "tmp", ![w].entries = lines]
          /\ UNCHANGED lock
     ELSE EndCall(w)
  /\ UNCHANGED <<lines, tail, tmp, root, acked>>

\* It computes the root of what it read and writes it beside root.json.
WriteTmp(w) ==
  /\ calls[w].pc = "tmp"
  /\ tmp' = RootPayload(calls[w].entries)
  /\ Goto(w, "replace")
  /\ UNCHANGED <<lines, tail, root, lock, acked>>

\* os.replace(tmp_path, root_path)
Replace(w) ==
  /\ calls[w].pc = "replace"
  /\ root' = tmp /\ tmp' = NoRoot
  /\ Goto(w, "return")
  /\ UNCHANGED <<lines, tail, lock, acked>>

Return(w) ==
  /\ calls[w].pc = "return"
  /\ acked' = acked \cup {Entry(calls[w].next_seq, calls[w].event)}
  /\ EndCall(w)
  /\ UNCHANGED <<lines, tail, tmp, root>>

\* The process dies between two operations, or inside the write of
\* root.json.tmp, which is then left in a state no reader accepts.
Crash(w) ==
  /\ calls[w].pc # "idle"
  /\ \/ UNCHANGED tmp
     \/ calls[w].pc = "tmp" /\ tmp' = NoRoot
  /\ EndCall(w)
  /\ UNCHANGED <<lines, tail, root, acked>>

\* What a live process does next.
Step(w) ==
  \/ ReadExisting(w) \/ WriteLine(w) \/ RefreshRead(w)
  \/ WriteTmp(w) \/ Replace(w) \/ Return(w)

Next ==
  \E w \in Writers :
    \/ \E e \in Events : Call(w, e)
    \/ Step(w)
    \/ \E how \in {"noeol", "torn"} : ShortWrite(w, how)
    \/ Crash(w)

Spec == Init /\ [][Next]_vars
-----------------------------------------------------------------------------
(* Properties *)

\* Every variable has its type, and only the holder of the caller's
\* transaction is inside append_entry.
TypeOK ==
  /\ lines \in Seq(EntrySet) /\ Len(lines) <= MaxLines
  /\ tail \in {"ok", "noeol", "torn"}
  /\ tmp.entry_count \in Nat /\ root.entry_count \in Nat
  /\ lock \in Writers \cup {NoWriter}
  /\ calls \in [Writers -> CallSet]
  /\ \A w \in Writers : calls[w].pc # "idle" <=> lock = w
  /\ acked \subseteq EntrySet

\* assert_monotonic_no_gaps never raises on a log that can be read: whatever
\* appends died half way, line i carries seq i - 1.
SeqMatchesPosition == \A i \in 1..Len(lines) : lines[i].seq = i - 1

\* A root payload commits to the first entry_count lines.
Commits(payload) ==
  /\ payload.entry_count \in 0..Len(lines)
  /\ payload.merkle_root_hash =
       MerkleRoot([i \in 1..payload.entry_count |-> lines[i].leaf_hash])

\* root.json is at all times the Merkle root of a prefix of entries.ndjson,
\* stale perhaps, never torn and never of anything else: a short write
\* damages only lines that no root covers.
RootCommitsPrefix == Commits(root)

\* An entry append_entry returned is on its line and under root.json, for
\* good: no later crash, short write or append takes it away.
AckedIsPublished ==
  \A e \in acked : /\ e.seq < root.entry_count
                   /\ lines[e.seq + 1] = e

\* The epoch promises what PublicLog says: published entries only grow at
\* the end, and only published entries are returned.
PL == INSTANCE PublicLog WITH log   <- SubSeq(lines, 1, root.entry_count)
PublicLogSpec == PL!Spec

\* Two states of the file that differ never share a root: the duplicated
\* rightmost hash of an odd layer cannot confuse them, because seq is part
\* of the leaf.  (root.json of a shorter prefix differs from that of a
\* longer one.)
RootDistinguishesPrefixes ==
  \A m, n \in 0..Len(lines) :
    MerkleRoot(LeafHashes(SubSeq(lines, 1, m))) =
    MerkleRoot(LeafHashes(SubSeq(lines, 1, n))) => m = n

\* Once a write was cut short, even just before its newline, when the file
\* still reads well, the epoch stands still: no root is published over the
\* damage and no append is acknowledged any more, because _read_entries raises
\* in the call that runs into the damage and in every later one.
DamageStopsTheEpoch == [][tail # "ok" => UNCHANGED <<root, acked>>]_vars

\* The module docstring: "entries are written once, never updated, never
\* deleted".  An append that follows a write cut just before its newline
\* runs two entries into one unreadable line.
EntriesNeverDeleted ==
  [][\A i \in 1..Len(lines) : i <= Len(lines') /\ lines'[i] = lines[i]]_vars
=============================================================================
