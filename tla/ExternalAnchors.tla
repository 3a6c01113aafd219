---------------------------- MODULE ExternalAnchors ----------------------------
(***************************************************************************)
(* "specora-verify verify-external-anchor" and                             *)
(* "verify-external-anchor-chain": validators/external_anchor.py and the   *)
(* two handlers in cli.py.  They read the very directories that            *)
(* MirrorHistory compares, one file or one directory at a time, and        *)
(* compute what that command takes as given: the hash of every anchor and, *)
(* with the platform's public key, its signature.                          *)
(***************************************************************************)
EXTENDS MirrorHistory, Functions

VARIABLES
  command,   \* "file" or "chain", "none" while neither was run
  read,      \* sorted_anchors: what the command looked at, in order
  key,       \* --public-key
  checked,   \* it verified signatures
  exit       \* its exit code

anchorVars == <<command, read, key, checked, exit>>

AnchorInit ==
  Init /\ command = "none" /\ read = <<>> /\ key = "none" /\ checked = FALSE /\ exit = "NONE"
-----------------------------------------------------------------------------
(* The checks *)

\* A file that does not load counts as one without an anchor_hash: neither
\* passes in either command.
SchemaValid(a) ==
  a.chain_head_index # NoIndex /\ a.day # 0 /\ NoHash \notin {a.anchor_hash, a.previous_anchor_hash}

\* Mutant: takes the stored hash for the computed one.
HashStored(a) == TRUE

HashValid(a) == a.anchor_hash = HashOf(a)

\* The platform's key signed the hashes of its anchors and nothing else.
SignatureValid(a) == a.anchor_signature = a.anchor_hash

AnchorValid(a, signatures) ==
  SchemaValid(a) /\ HashValid(a) /\ (signatures => SignatureValid(a))

\* Mutant: takes the anchors in the order of their file names.
FileOrder(s) == {s}

\* Sorted by chain_head_index; equal ones stay in the order of their names.
\* There is one such list.
Sorted(s) ==
  LET before(j, k) == \/ s[j].chain_head_index < s[k].chain_head_index
                      \/ s[j].chain_head_index = s[k].chain_head_index /\ j < k
      orders == {p \in Bijection(1..Len(s), 1..Len(s)) :
                   \A r \in 2..Len(s) : before(p[r - 1], p[r])}
  IN  {[r \in 1..Len(s) |-> s[p[r]]] : p \in orders}

Linked(s) ==
  \A k \in 1..Len(s) :
    s[k].previous_anchor_hash = IF k = 1 THEN Hash(0) ELSE s[k - 1].anchor_hash

ChainValid(s, signatures) ==
  s # <<>> /\ Linked(s) /\ \A k \in 1..Len(s) : AnchorValid(s[k], signatures)
-----------------------------------------------------------------------------
(* The commands *)

\* --public-key: none, the platform's, a file that holds no key or cannot be
\* used without the cryptography package, or a file that is not there.  The
\* key is loaded before anything is verified, with --skip-signatures too.
Keys == {"none", "platform", "unusable", "missing"}

\* valid: the verdict without and with signatures.
Judge(name, s, valid) ==
  \E given \in Keys, skip \in BOOLEAN :
    /\ command' = name /\ read' = s /\ key' = given
    /\ checked' = (given = "platform" /\ ~skip)
    /\ exit' = CASE given = "missing" -> "ERROR"
                 [] given = "unusable" -> "FAIL"
                 [] OTHER -> IF valid[checked'] THEN "PASS" ELSE "FAIL"

VerifyFile(d, k) ==
  Judge("file", <<files[d][k]>>, [signatures \in BOOLEAN |-> AnchorValid(files[d][k], signatures)])

VerifyChain(d) ==
  \E s \in Sorted(files[d]) :
    Judge("chain", s, [signatures \in BOOLEAN |-> ChainValid(s, signatures)])

AnchorNext ==
  \/ command = "none" /\ Next /\ UNCHANGED anchorVars
  \/ /\ command = "none" /\ pc = "copy" /\ UNCHANGED vars
     /\ \E d \in DOMAIN files : VerifyChain(d) \/ \E k \in 1..Len(files[d]) : VerifyFile(d, k)

AnchorSpec == AnchorInit /\ [][AnchorNext]_<<vars, anchorVars>>
-----------------------------------------------------------------------------
(* Properties *)

Published(a) == \E n \in 1..count : [a EXCEPT !.anchor_signature = Hash(n)] = Anchor(n)

\* INV-ANCHOR-006 and INV-ANCHOR-007: a PASS is about what the platform
\* published.  If signatures were verified, or the last anchor read carries a
\* hash the relying party knows to be published, every anchor read is a
\* published one, and a chain is the history from its first anchor on, without
\* a gap, however files were lost, altered and linked anew.
PassedIsPublished ==
  exit = "PASS" /\ (checked \/ \E n \in 1..count : read[Len(read)].anchor_hash = Hash(n)) =>
    /\ \A k \in 1..Len(read) : Published(read[k])
    /\ command = "chain" => \A k \in 1..Len(read) : read[k].chain_head_index = k

\* What the platform published is never refused: with the key or without, a
\* directory that lost none but its last files passes in whatever order its
\* files are listed, and so does each of its files.
FaithfulDirectoryPasses ==
  exit = "FAIL" /\ key # "unusable" =>
    CASE command = "file"  -> \A n \in 1..count : read[1] # Anchor(n)
      [] command = "chain" -> read = <<>> \/ Range(read) # {Anchor(n) : n \in 1..Len(read)}

\* INV-ANCHOR-012, with the two commands together: one honest directory is
\* enough, and it need not be known to be honest.  If
\* verify-external-anchor-chain passes it with the platform's key, a PASS of
\* mirror verify-anchors covers every anchor in it since the date, with the
\* published hash as far as hashes are compared, however the other directory
\* was altered.
SignedDirectoryDecides ==
  status = "PASS" =>
    \A d \in DOMAIN files : Given(d) /\ (\E s \in Sorted(files[d]) : ChainValid(s, TRUE)) =>
      \A n \in since..Len(files[d]) :
        n \in DOMAIN agreed /\ agreed[n].anchor_hash[1] = <<n>>

\* However files are lost or altered, verify-external-anchor-chain implements
\* AuthenticHistory: its one verdict calls a directory authentic only if the
\* anchors in it are the first that the platform published.
Authentic == exit = "PASS" /\ command = "chain" /\ checked

AH == INSTANCE AuthenticHistory WITH
        history  <- [n \in 1..count |-> Anchor(n)],
        verdict  <- IF command = "none" THEN "none" ELSE IF Authentic THEN "authentic" ELSE "other",
        accepted <- IF Authentic THEN read ELSE <<>>

AuthenticHistorySpec == AH!Spec
=============================================================================
