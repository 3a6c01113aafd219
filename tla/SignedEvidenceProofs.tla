------------------------ MODULE SignedEvidenceProofs ------------------------
(***************************************************************************)
(* For any number of runs, documents and keys, and revocation lists of any *)
(* length: VerifiedIsSigned, ListDecides and FinishedRunVerifies are       *)
(* invariants of SignedEvidence.  For exports of any number of records:    *)
(* BundleIsFirstGood, NoWarningNothingMissing and StatusIsTrue are         *)
(* invariants of the readers, whose bundle a run signs.                    *)
(***************************************************************************)
EXTENDS SignedEvidence, Readers, WellFoundedInduction, TLAPS

Vacant == {Missing, Emptied}

\* Signatures are of documents, and a run that writes has signed its bundle.
Signed ==
  /\ signed \subseteq Docs \X Keys
  /\ DOMAIN bundle = Runs /\ run \in [Runs -> Dead..Done]
  /\ \A r \in Runs : run[r] \in Ready..Done => bundle[r] \in signed

\* Whatever runs leave behind, a signature on the disk was made by a run, and
\* so was one that a command has read.
Contents(d) ==
  /\ DOMAIN d = Files
  /\ d["payload"] \in Vacant \cup Docs
  /\ d["signature"] \in Vacant \cup signed
  /\ d["key"] \in Vacant \cup Keys

FilesRead ==
  /\ Contents(dir) /\ Contents(read) /\ read["payload"] # Emptied
  /\ asked.given \subseteq Files
  /\ asked.command \in {"verify", "receipt"} => "payload" \in asked.given
  /\ asked.command = "verify" => {"signature", "key"} \subseteq asked.given

IInv == Signed /\ FilesRead /\ VerifiedIsSigned /\ ListDecides

USE DEF EXIT_PASS, EXIT_WARN, EXIT_FAIL, EXIT_ERROR, CRASH, NoExit, Dead, Fresh, Ready, Done

\* What the constants are not.
LEMMA Distinct ==
  /\ Missing \notin Docs \cup Keys \cup (Docs \X Keys)
  /\ Emptied \notin Docs \cup Keys \cup (Docs \X Keys)
BY EvidenceOK

\* The four files, and which one a run is at.
LEMMA FilesAre == Files = {"payload", "signature", "key", "metadata"}
<1>1. 1..4 = {1, 2, 3, 4}
  OBVIOUS
<1>. QED
  BY <1>1 DEF Files, Written

LEMMA WhichFile ==
  ASSUME NEW n \in Ready..(Done - 1)
  PROVE  Written[(n + 1) \div 2] \in Files
<1>1. (n + 1) \div 2 \in 1..4
  OBVIOUS
<1>. QED
  BY <1>1 DEF Files

-----------------------------------------------------------------------------
(* Trust *)

\* The other arguments of a command that looks trust up.
LEMMA TrustingFields ==
  ASSUME NEW a \in Trusting
  PROVE  /\ a.listed \in BOOLEAN /\ a.require_trusted_key \in BOOLEAN /\ a.crypto = TRUE
         /\ IF a.listed THEN a.list \in Lists ELSE a.list = <<>>
<1>. DEFINE None(q) == [NoArgs EXCEPT !.require_trusted_key = q]
            Some(l, q) == [NoArgs EXCEPT !.listed = TRUE, !.list = l, !.require_trusted_key = q]
<1>1. CASE a \in {None(q) : q \in BOOLEAN}
  <2>1. PICK q \in BOOLEAN : a = None(q)
    BY <1>1
  <2>. QED
    BY <2>1 DEF NoArgs
<1>2. CASE \E l \in Lists : a \in {Some(l, q) : q \in BOOLEAN}
  <2>1. PICK l \in Lists, q \in BOOLEAN : a = Some(l, q)
    BY <1>2
  <2>. QED
    BY <2>1 DEF NoArgs
<1>3. \/ a \in {None(q) : q \in BOOLEAN}
      \/ \E l \in Lists : a \in {Some(l, q) : q \in BOOLEAN}
  BY DEF Trusting
<1>. QED
  BY <1>1, <1>2, <1>3

\* The status found for a key is the one of the first entry that names it.
LEMMA FirstEntry ==
  ASSUME NEW list \in Lists, NEW k
  PROVE  /\ \A st : NamedFirst(list, k, st) => StatusOf(list, k) = st
         /\ StatusOf(list, k) # "unknown" => NamedFirst(list, k, StatusOf(list, k))
<1>. DEFINE Of(i) == list[i].fingerprint = Fingerprint(k)
            of == {i \in DOMAIN list : Of(i)}
            First(i) == Of(i) /\ \A j \in DOMAIN list : j < i => ~Of(j)
            c == CHOOSE i \in DOMAIN list : First(i)
<1>1. DOMAIN list \subseteq Nat
  BY DEF Lists
<1>2. ASSUME of # {}
      PROVE  \E i \in DOMAIN list : First(i)
  <2>1. \E i \in of : \A j \in of : ~(<<j, i>> \in OpToRel(<, Nat))
    BY <1>1, <1>2, NatLessThanWellFounded, WFMin
  <2>2. PICK i \in of : \A j \in of : ~(<<j, i>> \in OpToRel(<, Nat))
    BY <2>1
  <2>3. \A j \in of : ~(j < i)
    BY <1>1, <2>2 DEF OpToRel
  <2>. QED
    BY <2>3
<1>3. of # {} => c \in DOMAIN list /\ First(c)
  BY <1>2
<1>4. StatusOf(list, k) = IF of = {} THEN "unknown" ELSE list[c].status
  BY DEF StatusOf
<1>5. ASSUME NEW st, NamedFirst(list, k, st)
      PROVE  StatusOf(list, k) = st
  <2>1. PICK i \in DOMAIN list : First(i) /\ list[i].status = st
    BY <1>5 DEF NamedFirst
  <2>2. c = i
    BY <1>1, <1>3, <2>1
  <2>. QED
    BY <1>4, <2>1, <2>2
<1>6. ASSUME StatusOf(list, k) # "unknown"
      PROVE  NamedFirst(list, k, StatusOf(list, k))
  BY <1>3, <1>4, <1>6 DEF NamedFirst
<1>. QED
  BY <1>5, <1>6

\* The list decides: its first entry for a key is what the key is trusted by.
LEMMA TrustIsListed ==
  ASSUME NEW a \in Trusting, NEW k, a.listed, Trust(a, k) # "untrusted"
  PROVE  /\ ~NamedFirst(a.list, k, "revoked")
         /\ a.require_trusted_key \/ Trust(a, k) = "trusted" => NamedFirst(a.list, k, "active")
<1>. DEFINE s == StatusOf(a.list, k)
<1>1. a.list \in Lists /\ a.require_trusted_key \in BOOLEAN
  BY TrustingFields
<1>2. /\ \A st : NamedFirst(a.list, k, st) => s = st
      /\ s # "unknown" => NamedFirst(a.list, k, s)
  BY <1>1, FirstEntry
<1>3. s # "revoked" /\ (a.require_trusted_key \/ Trust(a, k) = "trusted" => s = "active")
  BY <1>1 DEF Trust
<1>. QED
  BY <1>2, <1>3

-----------------------------------------------------------------------------
(* The inductive invariant *)

LEMMA InitIInv == Init => IInv
<1>. SUFFICES ASSUME Init PROVE IInv
  OBVIOUS
<1>1. Signed
  BY DEF Init, Signed
<1>2. FilesRead
  <2>1. Contents(dir) /\ Contents(read) /\ read["payload"] # Emptied
    BY FilesAre, EvidenceOK DEF Init, Contents, Vacant
  <2>2. asked.given = {} /\ asked.command = "none"
    BY DEF Init, Idle
  <2>. QED
    BY <2>1, <2>2 DEF FilesRead
<1>3. VerifiedIsSigned /\ ListDecides
  BY DEF Init, VerifiedIsSigned, ListDecides, Positive
<1>. QED
  BY <1>1, <1>2, <1>3 DEF IInv

\* Before a verdict there is nothing to show.
LEMMA NoVerdict ==
  ASSUME exit' \in {NoExit, EXIT_ERROR}
  PROVE  VerifiedIsSigned' /\ ListDecides'
BY DEF VerifiedIsSigned, ListDecides, Positive

\* A signature that is valid for the document that was read, under the key
\* that was read, was made by a run, though each may be another run's.
LEMMA ValidIsSigned ==
  ASSUME Signed, FilesRead, Unread = {}, {"payload", "signature"} \subseteq asked.given,
         SignatureValid(HashOf(read["payload"]), read["signature"], read["key"])
  PROVE  <<read["payload"], read["key"]>> \in signed
<1>1. read["signature"] = <<read["payload"], read["key"]>> /\ read["key"] \in Keys
  BY DEF SignatureValid, HashOf, Signature, Loads
<1>2. read["payload"] \in Docs
  BY DEF FilesRead, Contents, Vacant, Unread
<1>3. read["signature"] \in Docs \X Keys
  BY <1>1, <1>2
<1>. QED
  BY <1>1, <1>3, Distinct DEF FilesRead, Contents, Vacant

\* A run signs before it writes.
LEMMA PrepareStep ==
  ASSUME IInv, NEW r \in Runs, NEW doc \in Docs, NEW key \in Keys, Prepare(r, doc, key)
  PROVE  IInv'
<1>1. exit' = NoExit
  BY DEF Prepare, Matters, judging
<1>2. signed' = signed \cup {<<doc, key>>} /\ <<doc, key>> \in Docs \X Keys
  BY DEF Prepare, Signature
<1>3. Signed'
  BY <1>2 DEF IInv, Signed, Prepare
<1>4. FilesRead'
  BY <1>2 DEF IInv, FilesRead, Contents, Prepare, judging
<1>. QED
  BY <1>1, <1>3, <1>4, NoVerdict DEF IInv

LEMMA WriteStep ==
  ASSUME IInv, NEW r \in Runs, Write(r)
  PROVE  IInv'
<1>. DEFINE f == Written[(run[r] + 1) \div 2]
<1>0. PICK c \in {Emptied, Content(f, bundle[r])} : dir' = [dir EXCEPT ![f] = c]
  BY DEF Write, Filled
<1>1. run[r] \in Ready..(Done - 1) /\ exit' = NoExit
         /\ UNCHANGED <<bundle, signed, asked, read>> /\ run' = [run EXCEPT ![r] = @ + 1]
  BY DEF Write, Matters, judging
<1>2. f \in Files
  BY <1>1, WhichFile
<1>3. bundle[r] \in signed /\ bundle[r] \in Docs \X Keys
  BY <1>1 DEF IInv, Signed
<1>4. PICK doc \in Docs, key \in Keys : bundle[r] = <<doc, key>>
  BY <1>3
<1>. HIDE DEF f
<1>5. /\ f = "payload" => c \in Vacant \cup Docs
      /\ f = "signature" => c \in Vacant \cup signed
      /\ f = "key" => c \in Vacant \cup Keys
  <2>1. f = "payload" => Content(f, bundle[r]) = doc
    BY <1>4 DEF Content
  <2>2. f = "signature" => Content(f, bundle[r]) = bundle[r]
    BY <1>4 DEF Content, Signature
  <2>3. f = "key" => Content(f, bundle[r]) = key
    BY <1>4 DEF Content
  <2>. QED
    BY <1>0, <2>1, <2>2, <2>3, <1>3 DEF Vacant
<1>6. Contents(dir)'
  BY <1>0, <1>1, <1>2, <1>5, FilesAre DEF IInv, FilesRead, Contents
<1>7. FilesRead'
  BY <1>1, <1>6 DEF IInv, FilesRead, Contents
<1>8. Signed'
  BY <1>1, <1>3 DEF IInv, Signed
<1>. QED
  BY <1>1, <1>7, <1>8, NoVerdict DEF IInv

\* A run that ends writes nothing.
LEMMA EndStep ==
  ASSUME IInv, NEW r \in Runs, Fail(r) \/ Die(r)
  PROVE  IInv'
<1>1. exit' = NoExit /\ run' = [run EXCEPT ![r] = Dead]
         /\ UNCHANGED <<dir, bundle, signed, asked, read>>
  BY DEF Fail, Die, Matters, judging
<1>2. Signed'
  BY <1>1 DEF IInv, Signed
<1>3. FilesRead'
  BY <1>1 DEF IInv, FilesRead, Contents
<1>. QED
  BY <1>1, <1>2, <1>3, NoVerdict DEF IInv

LEMMA StartStep ==
  ASSUME IInv, NEW command \in DOMAIN Order, NEW given \in Given[command],
         NEW usable \in BOOLEAN, Start(command, given, usable)
  PROVE  IInv'
<1>1. exit' \in {NoExit, EXIT_ERROR} /\ asked' = [command |-> command, given |-> given]
         /\ UNCHANGED <<dir, run, bundle, signed, read>>
  BY DEF Start
<1>2. command \in {"verify", "receipt", "manifest", "key_info", "hash"}
  BY DEF Order
<1>3. /\ given \subseteq Files
      /\ command \in {"verify", "receipt"} => "payload" \in given
      /\ command = "verify" => {"signature", "key"} \subseteq given
  <2>1. CASE command = "verify"
    <3>1. given = {"payload", "signature", "key"}
      BY <2>1 DEF Given
    <3>. QED
      BY <2>1, <3>1, FilesAre
  <2>2. CASE command = "receipt"
    <3>1. \E g \in SUBSET {"signature", "key"} : given = g \cup {"payload"}
      BY <2>2 DEF Given
    <3>. QED
      BY <2>2, <3>1, FilesAre
  <2>3. CASE command = "manifest"
    <3>1. given \in SUBSET {"signature", "key"}
      BY <2>3 DEF Given
    <3>. QED
      BY <2>3, <3>1, FilesAre
  <2>4. CASE command \in {"key_info", "hash"}
    <3>1. given \in {{"key"}, {"payload"}}
      BY <2>4 DEF Given
    <3>. QED
      BY <2>4, <3>1, FilesAre
  <2>. QED
    BY <1>2, <2>1, <2>2, <2>3, <2>4
<1>4. Signed'
  BY <1>1 DEF IInv, Signed
<1>5. FilesRead'
  BY <1>1, <1>3 DEF IInv, FilesRead, Contents
<1>. QED
  BY <1>1, <1>4, <1>5, NoVerdict DEF IInv

LEMMA ReadFileStep ==
  ASSUME IInv, NEW f \in Files, ReadFile(f)
  PROVE  IInv'
<1>1. exit' \in {NoExit, EXIT_ERROR} /\ UNCHANGED <<dir, run, bundle, signed, asked>>
  BY DEF ReadFile
<1>2. \/ read' = read
      \/ read' = [read EXCEPT ![f] = dir[f]] /\ ~(f = "payload" /\ dir[f] = Emptied)
  BY DEF ReadFile
<1>3. Signed'
  BY <1>1 DEF IInv, Signed
<1>4. Contents(read') /\ read'["payload"] # Emptied
  BY <1>2, FilesAre DEF IInv, FilesRead, Contents
<1>5. FilesRead'
  BY <1>1, <1>4 DEF IInv, FilesRead, Contents
<1>. QED
  BY <1>1, <1>3, <1>5, NoVerdict DEF IInv

-----------------------------------------------------------------------------
(* The verdicts *)

\* What a verdict leaves alone.
LEMMA JudgeFacts ==
  ASSUME IInv, NEW code, NEW a, Judge(code, a)
  PROVE  /\ Signed' /\ FilesRead' /\ Unread = {} /\ args' = a /\ exit' = code
         /\ UNCHANGED <<signed, asked, read>>
<1>1. UNCHANGED <<dir, run, bundle, signed, asked, read>> /\ args' = a /\ exit' = code
         /\ Unread = {}
  BY DEF Judge
<1>2. Signed'
  BY <1>1 DEF IInv, Signed
<1>3. FilesRead'
  BY <1>1 DEF IInv, FilesRead, Contents
<1>. QED
  BY <1>1, <1>2, <1>3

\* verify, and emit-receipt for an artifact with a signature.
LEMMA TrustedVerdict ==
  ASSUME IInv, NEW a \in Trusting, NEW code, Judge(code, a),
         asked.command \in {"verify", "receipt"},
         {"signature", "key"} \subseteq asked.given,
         code \in {EXIT_PASS, EXIT_WARN} =>
           /\ SignatureValid(HashOf(read["payload"]), read["signature"], read["key"])
           /\ a.listed => code = ExitOf(Trust(a, read["key"]))
  PROVE  IInv'
<1>1. /\ Signed' /\ FilesRead' /\ Unread = {} /\ args' = a /\ exit' = code
      /\ UNCHANGED <<signed, asked, read>>
  BY JudgeFacts
<1>2. CASE code \notin {EXIT_PASS, EXIT_WARN}
  BY <1>1, <1>2 DEF IInv, VerifiedIsSigned, ListDecides, Positive
<1>3. CASE code \in {EXIT_PASS, EXIT_WARN}
  <2>. DEFINE k == read["key"]
  <2>1. <<read["payload"], k>> \in signed
    <3>1. "payload" \in asked.given
      BY DEF IInv, FilesRead
    <3>. QED
      BY <1>1, <1>3, <3>1, ValidIsSigned DEF IInv
  <2>2. VerifiedIsSigned'
    BY <1>1, <2>1 DEF VerifiedIsSigned
  <2>3. ASSUME a.listed
        PROVE  /\ ~NamedFirst(a.list, k, "revoked")
               /\ a.require_trusted_key \/ code = EXIT_PASS => NamedFirst(a.list, k, "active")
               /\ code = VerifyExit(read, a)
    <3>1. code = ExitOf(Trust(a, k)) /\ Trust(a, k) \in {"trusted", "warning", "untrusted"}
      BY <1>3, <2>3 DEF Trust
    <3>2. Trust(a, k) # "untrusted" /\ (code = EXIT_PASS => Trust(a, k) = "trusted")
      BY <1>3, <3>1 DEF ExitOf
    <3>3. code = VerifyExit(read, a)
      BY <1>3, <3>1 DEF VerifyExit
    <3>. QED
      BY <2>3, <3>2, <3>3, TrustIsListed
  <2>4. ListDecides'
    <3>1. args'.list = a.list /\ k' = k
      BY <1>1
    <3>2. VerifyExit(read', a) = VerifyExit(read, a)
      BY <1>1
    <3>3. SUFFICES ASSUME a.listed
                   PROVE  /\ ~NamedFirst(a.list, k, "revoked")
                          /\ a.require_trusted_key \/ code = EXIT_PASS => NamedFirst(a.list, k, "active")
                          /\ code = VerifyExit(read, a)
      BY <1>1 DEF ListDecides, VerifyExit, SignatureValid, HashOf
    <3>. QED
      BY <2>3, <3>1, <3>3
  <2>. QED
    BY <1>1, <2>2, <2>4 DEF IInv
<1>. QED
  BY <1>2, <1>3

\* A verdict that no signature went into is not bound by anything.
LEMMA UnsignedVerdict ==
  ASSUME IInv, NEW code, NEW a, Judge(code, a), asked.command # "manifest",
         \/ asked.command \notin {"verify", "receipt"}
         \/ ~a.crypto
         \/ ~({"signature", "key"} \subseteq asked.given)
  PROVE  IInv'
<1>1. Signed' /\ FilesRead' /\ args' = a /\ UNCHANGED asked
  BY JudgeFacts
<1>2. VerifiedIsSigned' /\ ListDecides'
  BY <1>1 DEF VerifiedIsSigned, ListDecides, SignatureAsked
<1>. QED
  BY <1>1, <1>2 DEF IInv

LEMMA VerifySignatureStep ==
  ASSUME IInv, VerifySignature
  PROVE  IInv'
<1>1. PICK a \in Trusting : Judge(VerifyExit(read, a), a)
  BY DEF VerifySignature
<1>2. asked.command = "verify" /\ {"signature", "key"} \subseteq asked.given
  BY DEF VerifySignature, IInv, FilesRead
<1>3. VerifyExit(read, a) \in {EXIT_PASS, EXIT_WARN} =>
        /\ SignatureValid(HashOf(read["payload"]), read["signature"], read["key"])
        /\ VerifyExit(read, a) = ExitOf(Trust(a, read["key"]))
  BY DEF VerifyExit
<1>. QED
  BY <1>1, <1>2, <1>3, TrustedVerdict

LEMMA EmitReceiptStep ==
  ASSUME IInv, EmitReceipt
  PROVE  IInv'
<1>. DEFINE both == {"signature", "key"} \subseteq asked.given
<1>1. PICK a \in {NoCrypto} \cup IF both THEN Trusting ELSE HashOnly :
             Judge(ArtifactReceiptExit(read, a), a)
  BY DEF EmitReceipt
<1>2. asked.command = "receipt"
  BY DEF EmitReceipt
<1>3. CASE a = NoCrypto
  <2>1. ~a.crypto
    BY <1>3 DEF NoCrypto, NoArgs
  <2>. QED
    BY <1>1, <1>2, <2>1, UnsignedVerdict
<1>4. CASE ~both
  BY <1>1, <1>2, <1>4, UnsignedVerdict
<1>5. CASE both /\ a \in Trusting
  <2>1. ArtifactReceiptExit(read, a) \in {EXIT_PASS, EXIT_WARN} =>
          /\ SignatureValid(HashOf(read["payload"]), read["signature"], read["key"])
          /\ a.listed => ArtifactReceiptExit(read, a) = ExitOf(Trust(a, read["key"]))
    BY <1>5 DEF ArtifactReceiptExit
  <2>. QED
    BY <1>1, <1>2, <1>5, <2>1, TrustedVerdict
<1>. QED
  BY <1>1, <1>3, <1>4, <1>5

\* A manifest that declares no hash is none that was signed.
LEMMA EmitManifestReceiptStep ==
  ASSUME IInv, NEW m \in Manifests, EmitManifestReceipt(m)
  PROVE  IInv'
<1>1. PICK a \in {NoArgs, NoCrypto} :
             Judge(ManifestReceiptExit(m, read, a), [a EXCEPT !.manifest = m])
  BY DEF EmitManifestReceipt
<1>. DEFINE b == [a EXCEPT !.manifest = m]
            code == ManifestReceiptExit(m, read, a)
            k == read["key"]
<1>2. /\ Signed' /\ FilesRead' /\ args' = b /\ exit' = code
      /\ UNCHANGED <<signed, asked, read>> /\ asked.command = "manifest"
  BY <1>1, JudgeFacts DEF EmitManifestReceipt
<1>3. b.manifest = m
  BY DEF NoArgs, NoCrypto
<1>4. m \in [content : Docs, declared : Docs \cup {Missing}, signature : signed \cup {Missing}]
  BY DEF Manifests
<1>5. ASSUME code \in {EXIT_PASS, EXIT_WARN}, k \in Keys, m.signature # Missing
      PROVE  <<m.content, k>> \in signed
  <2>1. k \notin {Missing, Emptied}
    BY <1>5, Distinct
  <2>2. m.declared \in {Missing, m.content} /\ m.signature = <<SignedHash(m), k>>
    BY <1>5, <2>1 DEF ManifestReceiptExit, HashOf, SignatureValid, Signature
  <2>3. m.signature \in signed /\ m.signature \in Docs \X Keys
    BY <1>4, <1>5 DEF IInv, Signed
  <2>4. SignedHash(m) \in Docs
    BY <2>2, <2>3
  <2>5. m \in [content : Docs, declared : Docs \cup {Missing},
               signature : (Docs \X Keys) \cup {Missing}]
    BY <1>4 DEF IInv, Signed
  <2>6. m.declared # Missing
    BY <2>4, <2>5, EvidenceOK DEF SignedHash
  <2>. QED
    BY <2>2, <2>3, <2>6 DEF SignedHash
<1>6. VerifiedIsSigned' /\ ListDecides'
  BY <1>2, <1>3, <1>5 DEF VerifiedIsSigned, ListDecides, Positive
<1>. QED
  BY <1>2, <1>6 DEF IInv

LEMMA OtherVerdictStep ==
  ASSUME IInv, KeyInfo \/ Hash
  PROVE  IInv'
<1>1. /\ asked.command \in {"key_info", "hash"}
      /\ \E code \in {EXIT_PASS, EXIT_FAIL} : Judge(code, NoArgs)
  BY DEF KeyInfo, Hash
<1>. QED
  BY <1>1, UnsignedVerdict

-----------------------------------------------------------------------------
\* IInv is inductive.
THEOREM Invariance == Spec => []IInv
<1>1. ASSUME IInv, [Next]_vars
      PROVE  IInv'
  <2>1. CASE \E r \in Runs : \/ \E doc \in Docs, key \in Keys : Prepare(r, doc, key)
                             \/ Fail(r) \/ Write(r) \/ Die(r)
    BY <1>1, <2>1, PrepareStep, EndStep, WriteStep
  <2>2. CASE \E command \in DOMAIN Order : \E given \in Given[command], usable \in BOOLEAN :
                Start(command, given, usable)
    BY <1>1, <2>2, StartStep
  <2>3. CASE \E f \in Files : ReadFile(f)
    BY <1>1, <2>3, ReadFileStep
  <2>4. CASE VerifySignature
    BY <1>1, <2>4, VerifySignatureStep
  <2>5. CASE EmitReceipt
    BY <1>1, <2>5, EmitReceiptStep
  <2>6. CASE \E m \in Manifests : EmitManifestReceipt(m)
    BY <1>1, <2>6, EmitManifestReceiptStep
  <2>7. CASE KeyInfo \/ Hash
    BY <1>1, <2>7, OtherVerdictStep
  <2>8. CASE UNCHANGED vars
    <3>1. UNCHANGED <<dir, run, bundle, signed, asked, read, args, exit>>
      BY <2>8 DEF vars
    <3>2. Signed' /\ FilesRead'
      BY <1>1, <3>1 DEF IInv, Signed, FilesRead, Contents
    <3>3. VerifiedIsSigned'
      BY <1>1, <3>1 DEF IInv, VerifiedIsSigned, Positive, SignatureAsked
    <3>4. ListDecides'
      BY <1>1, <3>1 DEF IInv, ListDecides, Positive, SignatureAsked, NamedFirst, VerifyExit,
                        SignatureValid, HashOf
    <3>. QED
      BY <3>2, <3>3, <3>4 DEF IInv
  <2>. QED
    BY <1>1, <2>1, <2>2, <2>3, <2>4, <2>5, <2>6, <2>7, <2>8 DEF Next
<1>. QED
  BY <1>1, InitIInv, PTL DEF Spec

\* Whatever runs mix, die or write meanwhile, a positive verdict that looked at
\* a signature is about a document that the key which was read has signed.
THEOREM VerifiedSigned == Spec => []VerifiedIsSigned
<1>1. IInv => VerifiedIsSigned
  BY DEF IInv
<1>. QED
  BY <1>1, Invariance, PTL

\* With a revocation list, of any length and naming a key any number of times,
\* verify and emit-receipt agree and are not positive about a revoked key.
THEOREM ListInForce == Spec => []ListDecides
<1>1. IInv => ListDecides
  BY DEF IInv
<1>. QED
  BY <1>1, Invariance, PTL
-----------------------------------------------------------------------------
(* What a finished run leaves behind *)

\* Since its first write no other run has written.  The files it has filled
\* hold what it signed, and the one it has emptied is still empty.
Alone ==
  writer # NoRun =>
    /\ writer \in Runs /\ (run[writer] = Dead \/ run[writer] > Ready)
    /\ \A s \in Runs \ {writer} : ~Writing(s)
    /\ \A i \in 1..4 : run[writer] > 2 * i =>
         dir[Written[i]] = Content(Written[i], bundle[writer])
    /\ \A i \in 1..4 : run[writer] = 2 * i => dir[Written[i]] = Emptied

\* A command that started on a finished directory reads what the run wrote, as
\* long as no other run writes; and before it starts nothing is read.
Undisturbed ==
  /\ asked = Idle => settled = NoRun /\ \A f \in Files : read[f] = Missing
  /\ settled # NoRun => settled \in Runs /\ run[settled] = Done
  /\ settled # NoRun /\ settled = writer =>
       \A f \in Files : read[f] \in {Missing, Content(f, bundle[settled])}

FInv == Alone /\ Undisturbed /\ FinishedRunVerifies

\* Files are written in one order, each once.
LEMMA FileOrder ==
  /\ \A f \in Files : \E i \in 1..4 : f = Written[i]
  /\ \A i, j \in 1..4 : Written[i] = Written[j] => i = j
<1>1. \A f \in Files : \E i \in 1..4 : f = Written[i]
  BY DEF Files
<1>2. \A i, j \in 1..4 : Written[i] = Written[j] => i = j
  <2>1. 1..4 = {1, 2, 3, 4}
    OBVIOUS
  <2>. QED
    BY <2>1 DEF Written
<1>. QED
  BY <1>1, <1>2

\* What a run writes is a document, a signature or a key.
LEMMA ContentFacts ==
  ASSUME Signed, NEW r \in Runs, run[r] \in Ready..Done
  PROVE  \E doc \in Docs, key \in Keys :
           /\ bundle[r] = <<doc, key>> /\ doc \notin Vacant /\ key \notin Vacant
           /\ Content("payload", bundle[r]) = doc
           /\ Content("signature", bundle[r]) = <<doc, key>> /\ <<doc, key>> \notin Vacant
           /\ Content("key", bundle[r]) = key
           /\ Content("metadata", bundle[r]) = doc
<1>1. bundle[r] \in Docs \X Keys
  BY DEF Signed
<1>2. PICK doc \in Docs, key \in Keys : bundle[r] = <<doc, key>>
  BY <1>1
<1>3. <<doc, key>> \notin Vacant /\ doc \notin Vacant /\ key \notin Vacant
  BY Distinct DEF Vacant
<1>. QED
  BY <1>2, <1>3 DEF Content, Signature

\* Before a verdict FinishedRunVerifies says nothing.
LEMMA NotFinished ==
  ASSUME exit' = NoExit
  PROVE  FinishedRunVerifies'
BY DEF FinishedRunVerifies

\* A run that prepares itself, or ends, is not the one that wrote the
\* directory to its end.
LEMMA RunKeepsFInv ==
  ASSUME IInv, FInv, NEW r \in Runs,
         (\E doc \in Docs, key \in Keys : Prepare(r, doc, key)) \/ Fail(r) \/ Die(r)
  PROVE  FInv'
<1>1. /\ exit' = NoExit /\ UNCHANGED <<dir, writer, asked, read, settled>>
      /\ run[r] # Done /\ (run' = [run EXCEPT ![r] = Ready] \/ run' = [run EXCEPT ![r] = Dead])
  BY DEF Prepare, Fail, Die, Matters, judging
<1>2. /\ run \in [Runs -> Dead..Done] /\ DOMAIN bundle = Runs
      /\ \A s \in Runs \ {r} : bundle'[s] = bundle[s]
  BY DEF Prepare, Fail, Die, IInv, Signed
<1>3. run[r] # Fresh => bundle' = bundle /\ run' = [run EXCEPT ![r] = Dead]
  BY DEF Prepare, Fail, Die
<1>4. /\ \A s \in Runs \ {r} : run'[s] = run[s]
      /\ run'[r] \in {Ready, Dead} /\ (run[r] # Fresh => run'[r] = Dead)
  BY <1>1, <1>2, <1>3
<1>5. Alone'
  <2>. SUFFICES ASSUME writer # NoRun PROVE Alone'
    BY <1>1 DEF Alone
  <2>1. writer \in Runs /\ (run'[writer] = Dead \/ run'[writer] > Ready) /\ bundle'[writer] = bundle[writer]
    BY <1>2, <1>3, <1>4 DEF FInv, Alone
  <2>2. \A s \in Runs \ {writer} : ~Writing(s)'
    BY <1>4 DEF FInv, Alone, Writing
  <2>3. run'[writer] # Dead => run'[writer] = run[writer]
    BY <1>2, <1>4, <2>1
  <2>4. ASSUME NEW i \in 1..4, run'[writer] > 2 * i
        PROVE  dir[Written[i]] = Content(Written[i], bundle[writer])
    <3>1. run'[writer] # Dead
      BY <2>4
    <3>. QED
      BY <2>3, <2>4, <3>1 DEF FInv, Alone
  <2>5. ASSUME NEW i \in 1..4, run'[writer] = 2 * i
        PROVE  dir[Written[i]] = Emptied
    <3>1. run'[writer] # Dead
      BY <2>5
    <3>. QED
      BY <2>3, <2>5, <3>1 DEF FInv, Alone
  <2>. QED
    BY <1>1, <2>1, <2>2, <2>4, <2>5 DEF Alone
<1>6. Undisturbed'
  <2>1. settled # NoRun => settled \in Runs \ {r} /\ run'[settled] = Done /\ bundle'[settled] = bundle[settled]
    BY <1>1, <1>2, <1>4 DEF FInv, Undisturbed
  <2>. QED
    BY <1>1, <2>1 DEF FInv, Undisturbed
<1>. QED
  BY <1>1, <1>5, <1>6, NotFinished DEF FInv

\* The next write of the run that is alone, the first write of another, or
\* one that ends its being alone.
LEMMA WriteKeepsFInv ==
  ASSUME IInv, FInv, NEW r \in Runs, Write(r)
  PROVE  FInv'
<1>. DEFINE n == run[r]
            i == (n + 1) \div 2
            f == Written[i]
<1>0. PICK c \in IF n % 2 = 1 THEN {Emptied} ELSE Filled(r, f) : dir' = [dir EXCEPT ![f] = c]
  BY DEF Write
<1>1. /\ n \in Ready..(Done - 1) /\ exit' = NoExit
      /\ run' = [run EXCEPT ![r] = n + 1]
      /\ writer' = IF writer = r \/ (n = Ready /\ \A s \in Runs \ {r} : ~Writing(s)) THEN r ELSE NoRun
      /\ UNCHANGED <<bundle, asked, read, settled>>
  BY DEF Write, Matters, judging
<1>2. run \in [Runs -> Dead..Done] /\ DOMAIN dir = Files
  BY DEF IInv, Signed, FilesRead, Contents
<1>3. n \in Nat /\ i \in 1..4 /\ (n % 2 = 1 => n = 2 * i - 1) /\ (n % 2 # 1 => n = 2 * i)
  BY <1>1
<1>. HIDE DEF n, i, f
<1>4. run'[r] = n + 1 /\ \A s \in Runs \ {r} : run'[s] = run[s]
  BY <1>1, <1>2
<1>5. Alone'
  <2>. SUFFICES ASSUME writer' # NoRun PROVE Alone'
    BY DEF Alone
  <2>1. writer' = r /\ r # NoRun /\ (writer = r \/ (n = Ready /\ \A s \in Runs \ {r} : ~Writing(s)))
    BY <1>1, EvidenceOK
  <2>2. \A s \in Runs \ {r} : ~Writing(s)'
    <3>1. \A s \in Runs \ {r} : ~Writing(s)
      BY <2>1 DEF FInv, Alone
    <3>. QED
      BY <1>4, <3>1 DEF Writing
  <2>3. ASSUME NEW j \in 1..4, n + 1 > 2 * j
        PROVE  dir'[Written[j]] = Content(Written[j], bundle[r])
    <3>1. CASE j = i
      <4>1. n = 2 * i /\ n % 2 # 1
        BY <1>3, <2>3, <3>1
      <4>2. f \in Files /\ f = Written[j]
        BY <1>3, <3>1 DEF f, Files
      <4>3. writer = r /\ dir[f] = Emptied
        BY <1>3, <2>1, <4>1, <4>2, <3>1 DEF FInv, Alone, n
      <4>4. c = Content(f, bundle[r])
        BY <1>0, <4>1, <4>3 DEF Filled
      <4>. QED
        BY <1>0, <1>2, <4>2, <4>4
    <3>2. CASE j # i
      <4>1. n > 2 * j /\ n # Ready
        BY <1>3, <2>3, <3>2
      <4>2. dir[Written[j]] = Content(Written[j], bundle[r])
        BY <2>1, <4>1 DEF FInv, Alone, n
      <4>3. Written[j] # f
        BY <1>3, <3>2, FileOrder DEF f
      <4>4. dir'[Written[j]] = dir[Written[j]]
        BY <1>0, <1>2, <4>3 DEF Files
      <4>. QED
        BY <4>2, <4>4
    <3>. QED
      BY <3>1, <3>2
  <2>4. n + 1 > Ready
    BY <1>1
  <2>5. ASSUME NEW j \in 1..4, n + 1 = 2 * j
        PROVE  dir'[Written[j]] = Emptied
    <3>1. n % 2 = 1 /\ j = i
      BY <1>3, <2>5
    <3>2. f \in Files /\ f = Written[j]
      BY <1>3, <3>1 DEF f, Files
    <3>. QED
      BY <1>0, <1>2, <3>1, <3>2
  <2>. QED
    BY <1>1, <1>4, <2>1, <2>2, <2>3, <2>4, <2>5 DEF Alone
<1>6. Undisturbed'
  <2>1. settled # NoRun => settled \in Runs \ {r} /\ run'[settled] = Done
    BY <1>1, <1>4 DEF FInv, Undisturbed, n
  <2>2. settled # NoRun => settled # writer'
    BY <1>1, <2>1
  <2>. QED
    BY <1>1, <2>1, <2>2 DEF FInv, Undisturbed
<1>. QED
  BY <1>1, <1>5, <1>6, NotFinished DEF FInv

\* Nothing is read yet, whatever was written.
LEMMA StartKeepsFInv ==
  ASSUME IInv, FInv, NEW command, NEW given, NEW usable, Start(command, given, usable),
         command \in DOMAIN Order
  PROVE  FInv'
<1>1. /\ asked = Idle /\ asked'.command = command /\ UNCHANGED <<dir, run, bundle, writer, read>>
      /\ settled' = IF writer # NoRun /\ run[writer] = Done THEN writer ELSE NoRun
  BY DEF Start
<1>2. \A f \in Files : read[f] = Missing
  BY <1>1 DEF FInv, Undisturbed
<1>3. asked' # Idle
  BY <1>1 DEF Order, Idle
<1>4. Alone'
  BY <1>1 DEF FInv, Alone, Writing
<1>5. Undisturbed'
  BY <1>1, <1>2, <1>3 DEF FInv, Alone, Undisturbed
<1>6. FinishedRunVerifies'
  BY <1>1, <1>2 DEF FinishedRunVerifies
<1>. QED
  BY <1>4, <1>5, <1>6 DEF FInv

\* Of a directory that one run wrote to its end, no file is missing or empty.
LEMMA ReadFileKeepsFInv ==
  ASSUME IInv, FInv, NEW f \in Files, ReadFile(f)
  PROVE  FInv'
<1>1. /\ asked # Idle /\ UNCHANGED <<dir, run, bundle, writer, asked, settled>>
      /\ IF dir[f] = Missing \/ (f = "payload" /\ dir[f] = Emptied)
         THEN read' = read
         ELSE exit' = NoExit /\ read' = [read EXCEPT ![f] = dir[f]]
  BY DEF ReadFile
<1>2. ASSUME settled # NoRun, settled = writer
      PROVE  dir[f] = Content(f, bundle[settled]) /\ dir[f] \notin {Missing, Emptied}
  <2>1. settled \in Runs /\ run[settled] = Done
    BY <1>2 DEF FInv, Undisturbed
  <2>2. PICK i \in 1..4 : f = Written[i]
    BY FileOrder
  <2>3. dir[f] = Content(f, bundle[settled])
    <3>1. run[settled] > 2 * i
      BY <2>1
    <3>. QED
      BY <1>2, <2>2, <3>1 DEF FInv, Alone
  <2>4. Content(f, bundle[settled]) \notin Vacant
    <3>1. Signed /\ run[settled] \in Ready..Done
      BY <2>1 DEF IInv
    <3>. QED
      BY <2>1, <3>1, ContentFacts, FilesAre
  <2>. QED
    BY <2>3, <2>4 DEF Vacant
<1>3. Alone'
  BY <1>1 DEF FInv, Alone, Writing
<1>4. Undisturbed'
  <2>1. ASSUME settled # NoRun, settled = writer, NEW g \in Files
        PROVE  read'[g] \in {Missing, Content(g, bundle[settled])}
    <3>1. read[g] \in {Missing, Content(g, bundle[settled])}
      BY <2>1 DEF FInv, Undisturbed
    <3>2. read'[g] = read[g] \/ (g = f /\ read'[g] = dir[f])
      BY <1>1 DEF IInv, FilesRead, Contents
    <3>. QED
      BY <1>2, <2>1, <3>1, <3>2
  <2>. QED
    BY <1>1, <2>1 DEF FInv, Undisturbed
<1>5. FinishedRunVerifies'
  <2>1. CASE settled # NoRun /\ settled = writer
    <3>1. exit' = NoExit
      BY <1>1, <1>2, <2>1
    <3>. QED
      BY <3>1, NotFinished
  <2>2. CASE ~(settled # NoRun /\ settled = writer)
    BY <1>1, <2>2 DEF FinishedRunVerifies
  <2>. QED
    BY <2>1, <2>2
<1>. QED
  BY <1>3, <1>4, <1>5 DEF FInv

\* A verdict leaves the directory and what was read of it alone.
LEMMA JudgeKeepsFInv ==
  ASSUME IInv, FInv, NEW code, NEW a, Judge(code, a)
  PROVE  Alone' /\ Undisturbed'
<1>1. UNCHANGED <<dir, run, bundle, writer, asked, read, settled>>
  BY DEF Judge
<1>. QED
  BY <1>1 DEF FInv, Alone, Undisturbed, Writing

\* What verify and emit-receipt read of such a directory is what the run
\* signed.
LEMMA UndisturbedReads ==
  ASSUME IInv, FInv, settled # NoRun, settled = writer, Unread = {},
         {"payload", "signature", "key"} \subseteq asked.given
  PROVE  /\ read["payload"] = bundle[settled][1] /\ read["key"] = bundle[settled][2]
         /\ SignatureValid(HashOf(read["payload"]), read["signature"], read["key"])
<1>1. settled \in Runs /\ run[settled] = Done
  BY DEF FInv, Undisturbed
<1>2. PICK doc \in Docs, key \in Keys :
           /\ bundle[settled] = <<doc, key>>
           /\ Content("payload", bundle[settled]) = doc
           /\ Content("signature", bundle[settled]) = <<doc, key>>
           /\ Content("key", bundle[settled]) = key
  <2>1. Signed /\ run[settled] \in Ready..Done
    BY <1>1 DEF IInv
  <2>. QED
    BY <1>1, <2>1, ContentFacts
<1>3. \A f \in {"payload", "signature", "key"} :
        read[f] # Missing /\ read[f] \in {Missing, Content(f, bundle[settled])}
  BY FilesAre DEF FInv, Undisturbed, Unread
<1>4. read["payload"] = doc /\ read["signature"] = <<doc, key>> /\ read["key"] = key
  BY <1>2, <1>3
<1>. QED
  BY <1>2, <1>4 DEF SignatureValid, HashOf, Signature, Loads

\* Without a list trust is a warning, with one that says "active" first it is
\* given.
LEMMA TrustGiven ==
  ASSUME NEW a \in Trusting, NEW k
  PROVE  /\ ~a.listed => Trust(a, k) = "warning"
         /\ NamedFirst(a.list, k, "active") => a.listed /\ Trust(a, k) = "trusted"
<1>1. ~a.listed => Trust(a, k) = "warning"
  BY DEF Trust
<1>2. ASSUME NamedFirst(a.list, k, "active") PROVE a.listed /\ Trust(a, k) = "trusted"
  <2>1. a.listed /\ a.list \in Lists
    <3>1. DOMAIN <<>> = {}
      OBVIOUS
    <3>2. DOMAIN a.list # {}
      BY <1>2 DEF NamedFirst
    <3>. QED
      BY <3>1, <3>2, TrustingFields
  <2>2. StatusOf(a.list, k) = "active"
    BY <1>2, <2>1, FirstEntry
  <2>. QED
    BY <2>1, <2>2 DEF Trust
<1>. QED
  BY <1>1, <1>2

\* verify, and emit-receipt for an artifact with a signature.
LEMMA FinishedVerdict ==
  ASSUME IInv, FInv, NEW a \in Trusting, NEW code, Judge(code, a),
         {"signature", "key"} \subseteq asked.given,
         \/ asked.command = "verify" /\ code = VerifyExit(read, a)
         \/ asked.command = "receipt" /\ code = ArtifactReceiptExit(read, a)
  PROVE  FinishedRunVerifies'
<1>. DEFINE k == read["key"]
<1>1. Unread = {} /\ args' = a /\ exit' = code
         /\ UNCHANGED <<dir, run, bundle, writer, asked, read, settled>>
  BY DEF Judge
<1>2. SUFFICES ASSUME settled # NoRun, settled = writer
               PROVE  /\ read["payload"] = bundle[settled][1] /\ k = bundle[settled][2]
                      /\ NamedFirst(a.list, k, "active") => code = EXIT_PASS
                      /\ ~a.listed =>
                           code = (IF asked.command = "receipt" THEN EXIT_PASS ELSE EXIT_WARN)
  BY <1>1 DEF FinishedRunVerifies, NamedFirst
<1>3. {"payload", "signature", "key"} \subseteq asked.given
  BY DEF IInv, FilesRead
<1>4. /\ read["payload"] = bundle[settled][1] /\ k = bundle[settled][2]
      /\ SignatureValid(HashOf(read["payload"]), read["signature"], k)
  BY <1>1, <1>2, <1>3, UndisturbedReads
<1>5. /\ ~a.listed => Trust(a, k) = "warning"
      /\ NamedFirst(a.list, k, "active") => a.listed /\ Trust(a, k) = "trusted"
  BY TrustGiven
<1>6. CASE asked.command = "verify"
  <2>1. code = ExitOf(Trust(a, k))
    BY <1>4, <1>6 DEF VerifyExit
  <2>. QED
    BY <1>4, <1>5, <1>6, <2>1 DEF ExitOf
<1>7. CASE asked.command = "receipt"
  <2>1. code = IF a.listed THEN ExitOf(Trust(a, k)) ELSE EXIT_PASS
    BY <1>4, <1>7, TrustingFields DEF ArtifactReceiptExit
  <2>. QED
    BY <1>4, <1>5, <1>7, <2>1 DEF ExitOf
<1>. QED
  BY <1>6, <1>7

\* A verdict that no signature went into is not one FinishedRunVerifies is
\* about.
LEMMA OtherVerdict ==
  ASSUME NEW code, NEW a, Judge(code, a),
         \/ asked.command \notin {"verify", "receipt"}
         \/ ~a.crypto
         \/ ~({"signature", "key"} \subseteq asked.given)
  PROVE  FinishedRunVerifies'
<1>1. args' = a /\ UNCHANGED asked
  BY DEF Judge
<1>. QED
  BY <1>1 DEF FinishedRunVerifies, SignatureAsked

LEMMA EmitReceiptFinished ==
  ASSUME IInv, FInv, EmitReceipt
  PROVE  FInv'
<1>. DEFINE both == {"signature", "key"} \subseteq asked.given
<1>1. PICK a \in {NoCrypto} \cup IF both THEN Trusting ELSE HashOnly :
             Judge(ArtifactReceiptExit(read, a), a)
  BY DEF EmitReceipt
<1>2. asked.command = "receipt"
  BY DEF EmitReceipt
<1>3. CASE a = NoCrypto
  <2>1. ~a.crypto
    BY <1>3 DEF NoCrypto, NoArgs
  <2>. QED
    BY <1>1, <2>1, OtherVerdict, JudgeKeepsFInv DEF FInv
<1>4. CASE ~both
  BY <1>1, <1>4, OtherVerdict, JudgeKeepsFInv DEF FInv
<1>5. CASE both /\ a \in Trusting
  BY <1>1, <1>2, <1>5, FinishedVerdict, JudgeKeepsFInv DEF FInv
<1>. QED
  BY <1>1, <1>3, <1>4, <1>5

LEMMA VerdictKeepsFInv ==
  ASSUME IInv, FInv,
         VerifySignature \/ EmitReceipt \/ (\E m \in Manifests : EmitManifestReceipt(m))
           \/ KeyInfo \/ Hash
  PROVE  FInv'
<1>1. CASE VerifySignature
  <2>1. PICK a \in Trusting : Judge(VerifyExit(read, a), a)
    BY <1>1 DEF VerifySignature
  <2>2. asked.command = "verify" /\ {"signature", "key"} \subseteq asked.given
    BY <1>1 DEF VerifySignature, IInv, FilesRead
  <2>. QED
    BY <2>1, <2>2, FinishedVerdict, JudgeKeepsFInv DEF FInv
<1>2. CASE EmitReceipt
  BY <1>2, EmitReceiptFinished
<1>3. CASE (\E m \in Manifests : EmitManifestReceipt(m)) \/ KeyInfo \/ Hash
  <2>1. asked.command \in {"manifest", "key_info", "hash"}
    BY <1>3 DEF EmitManifestReceipt, KeyInfo, Hash
  <2>2. \E code, a : Judge(code, a)
    BY <1>3 DEF EmitManifestReceipt, KeyInfo, Hash
  <2>3. PICK code, a : Judge(code, a)
    BY <2>2
  <2>. QED
    BY <2>1, <2>3, OtherVerdict, JudgeKeepsFInv DEF FInv
<1>. QED
  BY <1>1, <1>2, <1>3

\* A directory that one run wrote to its end, and none has touched since,
\* verifies: as a pass if the list names its key as active, as a warning
\* without a list, and its receipt passes in both cases.
THEOREM FinishedVerifies == Spec => []FinishedRunVerifies
<1>1. Init => FInv
  BY EvidenceOK DEF Init, FInv, Alone, Undisturbed, FinishedRunVerifies
<1>2. ASSUME IInv, FInv, [Next]_vars
      PROVE  FInv'
  <2>1. CASE \E r \in Runs : \/ \E doc \in Docs, key \in Keys : Prepare(r, doc, key)
                             \/ Fail(r) \/ Write(r) \/ Die(r)
    BY <1>2, <2>1, RunKeepsFInv, WriteKeepsFInv
  <2>2. CASE \E command \in DOMAIN Order : \E given \in Given[command], usable \in BOOLEAN :
                Start(command, given, usable)
    BY <1>2, <2>2, StartKeepsFInv
  <2>3. CASE \E f \in Files : ReadFile(f)
    BY <1>2, <2>3, ReadFileKeepsFInv
  <2>4. CASE \/ VerifySignature \/ EmitReceipt \/ (\E m \in Manifests : EmitManifestReceipt(m))
             \/ KeyInfo \/ Hash
    BY <1>2, <2>4, VerdictKeepsFInv
  <2>5. CASE UNCHANGED vars
    BY <1>2, <2>5 DEF vars, FInv, Alone, Undisturbed, FinishedRunVerifies, Writing,
                      SignatureAsked, NamedFirst
  <2>. QED
    BY <1>2, <2>1, <2>2, <2>3, <2>4, <2>5 DEF Next
<1>3. FInv => FinishedRunVerifies
  BY DEF FInv
<1>. QED
  BY <1>1, <1>2, <1>3, Invariance, PTL DEF Spec

-----------------------------------------------------------------------------
(* The read that comes before a run: the exports of any number of records. *)
(* run_pipeline and "specora-verify read" open them with the same readers. *)

\* What the readers may assume of their records, and when they run.
Opened ==
  /\ provider \in READERS /\ read_args \in Args
  /\ pc \in {"open", "read", "done"}
  /\ pc # "done" => read_exit = NoExit
  /\ pc = "open" => export = <<>>
  /\ pc = "read" => /\ form \in Forms
                    /\ ~VersionRefused /\ ~KeyRefused

Positions ==
  /\ mapped \in Seq(Nat) /\ export \in Seq(Records) /\ warnings \in Seq(Nat)
  /\ skipped_non_ar \in Nat
  /\ \A i \in DOMAIN mapped : mapped[i] \in DOMAIN export
  /\ \A i, j \in DOMAIN mapped : i < j => mapped[i] < mapped[j]

\* While a record that is dropped takes its id with it, or stops the read, the
\* ids seen are those of the records mapped, and these are the acceptable ones.
SeenIsMapped ==
  read_args.strict \/ provider # "anthropic" =>
    /\ \A k \in DOMAIN export : Good(export[k]) => export[k].id \in seen_ids
    /\ \A x \in seen_ids : \E i \in DOMAIN mapped : export[mapped[i]].id = x
    /\ \A k \in DOMAIN export :
         k \in FirstGood <=> \E i \in DOMAIN mapped : mapped[i] = k
    /\ read_args.strict =>
         \A k \in DOMAIN export :
           InScope(export[k]) /\ export[k].flaw # "sentinel" => export[k].id \in seen_ids

\* Until the first warning every record in scope has been mapped, and into one
\* collection; one out of scope has been counted.
Accounted ==
  /\ \A k \in DOMAIN export : ~InScope(export[k]) => skipped_non_ar > 0
  /\ warnings = <<>> =>
       /\ \A k \in DOMAIN export : InScope(export[k]) =>
            \E i \in DOMAIN mapped : mapped[i] = k
       /\ \A i \in DOMAIN mapped : export[mapped[i]].collection \in {collection, Absent}

\* A key id is noted when the first record that names its key is mapped.
Signatures ==
  /\ provider # "anthropic" => ~upstream_key_id
  /\ upstream_key_id <=> \E i \in DOMAIN mapped : export[mapped[i]].key_named
  /\ provider = "anthropic" /\ SignaturesChecked =>
       \A i \in DOMAIN mapped : export[mapped[i]].signature = "upstream"

ReadInv ==
  /\ Opened
  /\ pc # "done" => Positions /\ SeenIsMapped /\ Accounted /\ Signatures
  /\ BundleIsFirstGood /\ NoWarningNothingMissing /\ StatusIsTrue

\* What becomes of a record depends on whether it is acceptable by itself and
\* whether its id was seen.
Judged(r, o) ==
  /\ o \in {"mapped", "duplicate", "dropped", "skipped", "error", "crash"}
  /\ o = "mapped" <=> Good(r) /\ r.id \notin seen_ids
  /\ o = "duplicate" => r.id \in seen_ids
  /\ o = "skipped" <=> ~InScope(r)
  /\ read_args.strict /\ o = "dropped" => r.flaw = "sentinel"

\* What a record of the export can be, reader by reader.
LEMMA RecordFacts ==
  ASSUME Opened, pc = "read", NEW r \in Records
  PROVE  /\ r.flaw \in {"none", "not_object", "shape", "content", "wrong_type",
                        "not_json", "unhashable", "sentinel", "version", "foreign",
                        "not_ar"}
         /\ r.flaw = "version" => provider \in {"anthropic", "cloudtrail"}
         /\ r.flaw \in {"foreign", "not_ar"} => provider = "cloudtrail"
         /\ r.flaw \in {"not_json", "unhashable"} => provider = "anthropic"
         /\ r.flaw = "sentinel" => provider \in Preview
         /\ provider # "anthropic" => ~r.key_named
         /\ provider # "azure-cl" => r.collection = Absent
         /\ provider \in READERS /\ read_args.strict \in BOOLEAN
         /\ read_args.schema_version \in {"declared", "supported", "unsupported"}
<1>1. /\ provider \in READERS /\ read_args.strict \in BOOLEAN
      /\ read_args.schema_version \in {"declared", "supported", "unsupported"}
  BY DEF Opened, Args
<1>3. CASE r \in Sound
  BY <1>1, <1>3 DEF Sound
<1>4. CASE r \notin Sound
  <2>1. r.flaw \in Flaws /\ r.flaw # "none" /\ r.collection = Absent
    BY <1>4 DEF Records
  <2>2. r.key_named = (provider = "anthropic")
    BY <1>4 DEF Records
  <2>3. Preview \subseteq READERS \ {"anthropic", "cloudtrail", "azure-cl"}
    BY DEF Preview, READERS
  <2>4. QED
    BY <1>1, <2>1, <2>2, <2>3 DEF Flaws, MappingFlaws, READERS, Preview
<1>5. QED
  BY <1>3, <1>4

LEMMA JudgedLine ==
  ASSUME Opened, pc = "read", NEW r \in Records, provider = "anthropic"
  PROVE  Judged(r, MapLine(r))
BY RecordFacts DEF Judged, MapLine, Shaped, Refused,
   VersionSupported,
   Good, InScope, SignaturesChecked, Preview

LEMMA JudgedEntry ==
  ASSUME Opened, pc = "read", NEW r \in Records
  PROVE  /\ provider = "cloudtrail" => Judged(r, MapEvent(r))
         /\ provider = "azure-cl"   => Judged(r, MapEntry(r))
         /\ provider = "openai"     => Judged(r, MapComplianceEvent(r))
         /\ provider = "langsmith"  => Judged(r, MapRun(r))
BY RecordFacts DEF Opened, Judged, MapEvent, MapEntry,
   MapComplianceEvent, MapRun,
   Refused, VersionSupported, VersionRefused, Good, InScope, Preview

\* The turn of a reader's loop: a record is taken, and what the outcome says
\* holds of seen_ids, warnings, collection and upstream_key_id.
Turn(r, o) ==
  /\ Take(r, o)
  /\ read_args.strict \/ provider # "anthropic" =>
       (o \notin {"error", "crash"} => seen_ids' = SeenAfter(r, o))
  /\ warnings' \in {warnings, Append(warnings, Len(export) + 1)}
  /\ warnings' = warnings =>
       /\ o \notin {"dropped", "duplicate"}
       /\ o = "mapped" => r.collection \in {collection', Absent}
  /\ collection' = collection \/ collection = Absent
  /\ upstream_key_id' = IF provider = "anthropic"
                         THEN upstream_key_id \/ (o = "mapped" /\ r.key_named)
                         ELSE upstream_key_id

LEMMA TurnExtends ==
  ASSUME Opened, Positions, pc = "read", NEW r \in Records, NEW o, Judged(r, o),
         Turn(r, o),
         o \notin {"error", "crash"}
  PROVE  /\ Len(export) \in Nat /\ DOMAIN export = 1..Len(export)
         /\ DOMAIN export' = 1..(Len(export) + 1)
         /\ \A k \in DOMAIN export : export'[k] = export[k]
         /\ export'[Len(export) + 1] = r
         /\ o # "mapped" => mapped' = mapped
         /\ o = "mapped" => /\ Len(mapped) \in Nat /\ DOMAIN mapped = 1..Len(mapped)
                            /\ DOMAIN mapped' = 1..(Len(mapped) + 1)
                            /\ \A i \in DOMAIN mapped : mapped'[i] = mapped[i]
                            /\ mapped'[Len(mapped) + 1] = Len(export) + 1
         /\ \A i \in DOMAIN mapped : mapped[i] \in DOMAIN export
<1>1. export' = Append(export, r) /\ export \in Seq(Records)
  BY DEF Turn, Take, Positions
<1>2. /\ mapped \in Seq(Nat)
      /\ mapped' = IF o = "mapped" THEN Append(mapped, Len(export) + 1) ELSE mapped
  BY DEF Turn, Take, Positions
<1>3. \A i \in DOMAIN mapped : mapped[i] \in DOMAIN export
  BY DEF Positions
<1>4. QED
  BY <1>1, <1>2, <1>3

LEMMA TurnPositions ==
  ASSUME Opened, Positions, pc = "read", NEW r \in Records, NEW o, Judged(r, o),
         Turn(r, o),
         o \notin {"error", "crash"}
  PROVE  Positions'
<1>0. UNCHANGED <<provider, read_args, form>>
  BY DEF Turn, Take, opened
<1>1. Records' = Records
  BY <1>0 DEF Records, Sound, Flaws, MappingFlaws
<1>2. /\ export' = Append(export, r) /\ export \in Seq(Records)
      /\ mapped \in Seq(Nat)
      /\ mapped' = IF o = "mapped" THEN Append(mapped, Len(export) + 1) ELSE mapped
      /\ warnings \in Seq(Nat) /\ warnings' \in {warnings, Append(warnings, Len(export) + 1)}
      /\ skipped_non_ar \in Nat
      /\ skipped_non_ar' = skipped_non_ar + (IF o = "skipped" THEN 1 ELSE 0)
  BY DEF Turn, Take, Positions
<1>3. export' \in Seq(Records) /\ mapped' \in Seq(Nat)
  BY <1>2
<1>4. warnings' \in Seq(Nat)
  <2>1. Len(export) + 1 \in Nat
    BY <1>2
  <2>2. Append(warnings, Len(export) + 1) \in Seq(Nat)
    BY <1>2, <2>1
  <2>3. QED
    BY <1>2, <2>2
<1>5. skipped_non_ar' \in Nat
  BY <1>2
<1>6. \A i \in DOMAIN mapped' : mapped'[i] \in DOMAIN export'
  BY TurnExtends
<1>7. \A i, j \in DOMAIN mapped' : i < j => mapped'[i] < mapped'[j]
  <2>1. \A i, j \in DOMAIN mapped : i < j => mapped[i] < mapped[j]
    BY DEF Positions
  <2>2. CASE o # "mapped"
    BY <1>2, <2>1, <2>2
  <2>3. CASE o = "mapped"
    <3>1. \A i \in DOMAIN mapped : mapped[i] < Len(export) + 1
      BY TurnExtends
    <3>2. TAKE i, j \in DOMAIN mapped'
    <3>3. HAVE i < j
    <3>4. CASE j = Len(mapped) + 1
      BY <2>3, <3>1, <3>3, <3>4, TurnExtends
    <3>5. CASE j # Len(mapped) + 1
      <4>1. i \in DOMAIN mapped /\ j \in DOMAIN mapped
        BY <2>3, <3>3, <3>5, TurnExtends
      <4>2. QED
        BY <2>1, <2>3, <3>3, <4>1, TurnExtends
    <3>6. QED
      BY <3>4, <3>5
  <2>4. QED
    BY <2>2, <2>3
<1>8. QED
  BY <1>1, <1>3, <1>4, <1>5, <1>6, <1>7 DEF Positions

\* Whether a record is acceptable or in scope does not change with the turn.
LEMMA TurnJudges ==
  ASSUME Opened, Positions, pc = "read", NEW r \in Records, NEW o, Judged(r, o),
         Turn(r, o),
         o \notin {"error", "crash"}
  PROVE  /\ \A k \in DOMAIN export :
              /\ Good(export[k])' <=> Good(export[k])
              /\ InScope(export[k])' <=> InScope(export[k])
         /\ \A k \in DOMAIN export' : k = Len(export) + 1 =>
              /\ Good(export[k])' <=> Good(r)
              /\ InScope(export[k])' <=> InScope(r)
<1>0. UNCHANGED <<provider, read_args>>
  BY DEF Turn, Take, opened
<1>1. QED
  BY <1>0, TurnExtends DEF Good, InScope, SignaturesChecked

LEMMA TurnSeen ==
  ASSUME Opened, Positions, SeenIsMapped, pc = "read", NEW r \in Records, NEW o,
         Judged(r, o),
         Turn(r, o), o \notin {"error", "crash"}
  PROVE  SeenIsMapped'
<1>0. UNCHANGED <<provider, read_args>>
  BY DEF Turn, Take, opened
<1> SUFFICES ASSUME read_args.strict \/ provider # "anthropic"
             PROVE  /\ \A k \in DOMAIN export' : Good(export[k])' =>
                         export'[k].id \in seen_ids'
                    /\ \A x \in seen_ids' : \E i \in DOMAIN mapped' : export'[mapped'[i]].id = x
                    /\ \A k \in DOMAIN export' :
                         k \in FirstGood' <=> \E i \in DOMAIN mapped' : mapped'[i] = k
                    /\ read_args.strict =>
                         \A k \in DOMAIN export' :
                           InScope(export[k])' /\ export'[k].flaw # "sentinel" =>
                             export'[k].id \in seen_ids'
  BY <1>0 DEF SeenIsMapped
<1>1. seen_ids' = IF o = "mapped" THEN seen_ids \cup {r.id} ELSE seen_ids
  BY DEF Turn, SeenAfter
<1>2. /\ \A k \in DOMAIN export : Good(export[k]) => export[k].id \in seen_ids
      /\ \A x \in seen_ids : \E i \in DOMAIN mapped : export[mapped[i]].id = x
      /\ \A k \in DOMAIN export :
           k \in FirstGood <=> \E i \in DOMAIN mapped : mapped[i] = k
      /\ read_args.strict =>
           \A k \in DOMAIN export :
             InScope(export[k]) /\ export[k].flaw # "sentinel" => export[k].id \in seen_ids
  BY DEF SeenIsMapped
<1>3. Good(r) => r.id \in seen_ids'
  BY <1>1 DEF Judged
<1>4. \A k \in DOMAIN export' : Good(export[k])' => export'[k].id \in seen_ids'
  <2> TAKE k \in DOMAIN export'
  <2>1. CASE k = Len(export) + 1
    BY <1>3, <2>1, TurnExtends, TurnJudges
  <2>2. CASE k # Len(export) + 1
    <3>1. k \in DOMAIN export
      BY <2>2, TurnExtends
    <3>2. QED
      BY <1>1, <1>2, <3>1, TurnExtends, TurnJudges
  <2>3. QED
    BY <2>1, <2>2
<1>5. \A x \in seen_ids' : \E i \in DOMAIN mapped' : export'[mapped'[i]].id = x
  <2> TAKE x \in seen_ids'
  <2>1. CASE x \in seen_ids
    <3>1. PICK i \in DOMAIN mapped : export[mapped[i]].id = x
      BY <1>2, <2>1
    <3>2. i \in DOMAIN mapped' /\ mapped'[i] = mapped[i]
      BY <3>1, TurnExtends
    <3>3. export'[mapped[i]] = export[mapped[i]]
      BY <3>1, TurnExtends
    <3>4. QED
      BY <3>1, <3>2, <3>3
  <2>2. CASE x \notin seen_ids
    <3>1. o = "mapped" /\ x = r.id
      BY <1>1, <2>2
    <3>2. QED
      BY <3>1, TurnExtends
  <2>3. QED
    BY <2>1, <2>2
<1>6. \A k \in DOMAIN export' :
        k \in FirstGood' <=> \E i \in DOMAIN mapped' : mapped'[i] = k
  <2> TAKE k \in DOMAIN export'
  <2>1. CASE k # Len(export) + 1
    <3>1. k \in DOMAIN export /\ \A j \in 1..(k - 1) : j \in DOMAIN export
      BY <2>1, TurnExtends
    <3>2. k \in FirstGood' <=> k \in FirstGood
      <4>1. \A j \in DOMAIN export : j \in DOMAIN export' /\ export'[j] = export[j]
        BY TurnExtends
      <4>2. \A j \in DOMAIN export : Good(export[j])' <=> Good(export[j])
        BY TurnJudges
      <4>3. QED
        BY <3>1, <4>1, <4>2 DEF FirstGood
    <3>3. (\E i \in DOMAIN mapped' : mapped'[i] = k) <=> \E i \in DOMAIN mapped : mapped[i] = k
      <4>1. CASE o # "mapped"
        BY <4>1, TurnExtends
      <4>2. CASE o = "mapped"
        <5>1. \A i \in DOMAIN mapped : i \in DOMAIN mapped' /\ mapped'[i] = mapped[i]
          BY <4>2, TurnExtends
        <5>2. \A i \in DOMAIN mapped' : mapped'[i] = k => i \in DOMAIN mapped
          BY <2>1, <4>2, TurnExtends
        <5>3. QED
          BY <5>1, <5>2
      <4>3. QED
        BY <4>1, <4>2
    <3>4. QED
      BY <1>2, <3>1, <3>2, <3>3
  <2>2. CASE k = Len(export) + 1
    <3>1. \A j \in 1..(k - 1) : j \in DOMAIN export
      BY <2>2, TurnExtends
    <3>2. k \in FirstGood' <=>
            Good(r) /\ \A j \in DOMAIN export : export[j].id = r.id =>
              ~Good(export[j])
      BY <2>2, <3>1, TurnExtends, TurnJudges DEF FirstGood
    <3>3. (\E i \in DOMAIN mapped' : mapped'[i] = k) <=> o = "mapped"
      <4>1. CASE o # "mapped"
        BY <2>2, <4>1, TurnExtends
      <4>2. CASE o = "mapped"
        BY <2>2, <4>2, TurnExtends
      <4>3. QED
        BY <4>1, <4>2
    <3>4. (\A j \in DOMAIN export : export[j].id = r.id => ~Good(export[j]))
            <=> r.id \notin seen_ids
      <4>1. ASSUME r.id \in seen_ids
            PROVE  \E j \in DOMAIN export : export[j].id = r.id /\ Good(export[j])
        <5>1. PICK i \in DOMAIN mapped : export[mapped[i]].id = r.id
          BY <1>2, <4>1
        <5>2. mapped[i] \in DOMAIN export /\ mapped[i] \in FirstGood
          BY <1>2, TurnExtends
        <5>3. QED
          BY <5>1, <5>2 DEF FirstGood
      <4>2. QED
        BY <1>2, <4>1
    <3>5. QED
      BY <3>2, <3>3, <3>4 DEF Judged
  <2>3. QED
    BY <2>1, <2>2
<1>7. ASSUME read_args.strict
      PROVE  \A k \in DOMAIN export' :
               InScope(export[k])' /\ export'[k].flaw # "sentinel" =>
                 export'[k].id \in seen_ids'
  <2>1. InScope(r) /\ r.flaw # "sentinel" => r.id \in seen_ids'
    BY <1>1, <1>7 DEF Judged
  <2> TAKE k \in DOMAIN export'
  <2>2. CASE k = Len(export) + 1
    BY <2>1, <2>2, TurnExtends, TurnJudges
  <2>3. CASE k # Len(export) + 1
    <3>1. k \in DOMAIN export
      BY <2>3, TurnExtends
    <3>2. QED
      BY <1>1, <1>2, <1>7, <3>1, TurnExtends, TurnJudges
  <2>4. QED
    BY <2>2, <2>3
<1>8. QED
  BY <1>4, <1>5, <1>6, <1>7

LEMMA TurnAccounted ==
  ASSUME Opened, Positions, Accounted, pc = "read", NEW r \in Records, NEW o,
         Judged(r, o),
         Turn(r, o), o \notin {"error", "crash"}
  PROVE  Accounted'
<1>1. skipped_non_ar' = skipped_non_ar + (IF o = "skipped" THEN 1 ELSE 0) /\ skipped_non_ar \in Nat
  BY DEF Turn, Take, Positions
<1>2. \A k \in DOMAIN export' : ~InScope(export[k])' => skipped_non_ar' > 0
  <2> TAKE k \in DOMAIN export'
  <2>1. CASE k = Len(export) + 1
    <3>1. InScope(export[k])' <=> o # "skipped"
      BY <2>1, TurnExtends, TurnJudges DEF Judged
    <3>2. QED
      BY <1>1, <3>1
  <2>2. CASE k # Len(export) + 1
    <3>1. k \in DOMAIN export
      BY <2>2, TurnExtends
    <3>2. ~InScope(export[k])' => skipped_non_ar > 0
      BY <3>1, TurnJudges DEF Accounted
    <3>3. QED
      BY <1>1, <3>2
  <2>3. QED
    BY <2>1, <2>2
<1>3. ASSUME warnings' = <<>>
      PROVE  /\ \A k \in DOMAIN export' : InScope(export[k])' =>
                  \E i \in DOMAIN mapped' : mapped'[i] = k
             /\ \A i \in DOMAIN mapped' : export'[mapped'[i]].collection \in {collection', Absent}
  <2>1. warnings' = warnings /\ warnings = <<>>
    <3>1. warnings \in Seq(Nat) /\ Len(export) + 1 \in Nat
      BY TurnExtends DEF Positions
    <3>2. Append(warnings, Len(export) + 1) # <<>>
      BY <3>1
    <3>3. QED
      BY <1>3, <3>2 DEF Turn
  <2>2. /\ o \notin {"dropped", "duplicate"}
        /\ o = "mapped" => r.collection \in {collection', Absent}
    BY <2>1 DEF Turn
  <2>3. /\ \A k \in DOMAIN export : InScope(export[k]) =>
             \E i \in DOMAIN mapped : mapped[i] = k
        /\ \A i \in DOMAIN mapped : export[mapped[i]].collection \in {collection, Absent}
    BY <2>1 DEF Accounted
  <2>4. ASSUME NEW k \in DOMAIN export', InScope(export[k])'
        PROVE  \E i \in DOMAIN mapped' : mapped'[i] = k
    <3>1. CASE k = Len(export) + 1
      <4>1. o = "mapped"
        BY <2>2, <2>4, <3>1, TurnJudges DEF Judged
      <4>2. QED
        BY <3>1, <4>1, TurnExtends
    <3>2. CASE k # Len(export) + 1
      <4>1. k \in DOMAIN export
        BY <3>2, TurnExtends
      <4>2. PICK i \in DOMAIN mapped : mapped[i] = k
        BY <2>3, <2>4, <4>1, TurnJudges
      <4>3. i \in DOMAIN mapped' /\ mapped'[i] = mapped[i]
        BY TurnExtends
      <4>4. QED
        BY <4>2, <4>3
    <3>3. QED
      BY <3>1, <3>2
  <2>5. \A i \in DOMAIN mapped' : export'[mapped'[i]].collection \in {collection', Absent}
    <3>1. \A i \in DOMAIN mapped : export'[mapped[i]].collection \in {collection', Absent}
      BY <2>3, TurnExtends DEF Turn
    <3>2. CASE o # "mapped"
      BY <3>1, <3>2, TurnExtends
    <3>3. CASE o = "mapped"
      <4>1. \A i \in DOMAIN mapped' : i \in DOMAIN mapped \/ i = Len(mapped) + 1
        BY <3>3, TurnExtends
      <4>2. QED
        BY <2>2, <3>1, <3>3, <4>1, TurnExtends
    <3>4. QED
      BY <3>2, <3>3
  <2>6. QED
    BY <2>4, <2>5
<1>4. QED
  BY <1>2, <1>3 DEF Accounted

LEMMA TurnSignatures ==
  ASSUME Opened, Positions, Signatures, pc = "read", NEW r \in Records, NEW o,
         Judged(r, o),
         Turn(r, o), o \notin {"error", "crash"}
  PROVE  Signatures'
<1>1. UNCHANGED <<provider, read_args>>
  BY DEF Turn, Take, opened
<1>2. SignaturesChecked' <=> SignaturesChecked
  BY <1>1 DEF SignaturesChecked
<1>3. upstream_key_id' = IF provider = "anthropic"
                         THEN upstream_key_id \/ (o = "mapped" /\ r.key_named)
                         ELSE upstream_key_id
  BY DEF Turn
<1>4. ASSUME provider = "anthropic", SignaturesChecked, NEW i \in DOMAIN mapped'
      PROVE  export'[mapped'[i]].signature = "upstream"
  <2>1. CASE i \in DOMAIN mapped
    <3>1. mapped'[i] = mapped[i] /\ export'[mapped[i]] = export[mapped[i]]
      BY <2>1, TurnExtends
    <3>2. QED
      BY <1>4, <2>1, <3>1 DEF Signatures
  <2>2. CASE i \notin DOMAIN mapped
    <3>1. o = "mapped" /\ export'[mapped'[i]] = r
      BY <2>2, TurnExtends
    <3>2. Good(r)
      BY <3>1 DEF Judged
    <3>3. QED
      BY <1>4, <3>1, <3>2 DEF Good
  <2>3. QED
    BY <2>1, <2>2
<1>5. upstream_key_id' <=> upstream_key_id \/ (o = "mapped" /\ r.key_named)
  <2>1. CASE provider = "anthropic"
    BY <1>3, <2>1
  <2>2. CASE provider # "anthropic"
    BY <1>3, <2>2, RecordFacts
  <2>3. QED
    BY <2>1, <2>2
<1>6. (\E i \in DOMAIN mapped' : export'[mapped'[i]].key_named) <=>
        \/ \E i \in DOMAIN mapped : export[mapped[i]].key_named
        \/ o = "mapped" /\ r.key_named
  <2>1. \A i \in DOMAIN mapped : /\ i \in DOMAIN mapped'
                                /\ export'[mapped'[i]] = export[mapped[i]]
    BY TurnExtends
  <2>2. \A i \in DOMAIN mapped' : i \in DOMAIN mapped \/ (o = "mapped" /\ export'[mapped'[i]] = r)
    BY TurnExtends
  <2>3. o = "mapped" => \E i \in DOMAIN mapped' : export'[mapped'[i]] = r
    BY TurnExtends
  <2>4. QED
    BY <2>1, <2>2, <2>3
<1>7. provider' # "anthropic" => ~upstream_key_id'
  BY <1>1, <1>3 DEF Signatures
<1>8. QED
  BY <1>1, <1>2, <1>4, <1>5, <1>6, <1>7 DEF Signatures

\* A turn either stops the read or leaves everything ready for the next.
LEMMA TurnKeeps ==
  ASSUME ReadInv, pc = "read", NEW r \in Records, NEW o, Judged(r, o), Turn(r, o)
  PROVE  ReadInv'
<1>0. UNCHANGED <<provider, read_args, form>>
  BY DEF Turn, Take, opened
<1>1. /\ Opened /\ Positions /\ SeenIsMapped /\ Accounted /\ Signatures
  BY DEF ReadInv
<1>2. /\ read_exit' = IF o = "error" THEN EXIT_ERROR
                       ELSE IF o = "crash" THEN CRASH ELSE NoExit
      /\ pc' = IF o \in {"error", "crash"} THEN "done" ELSE "read"
  BY DEF Turn, Take
<1>3. Opened'
  BY <1>0, <1>1, <1>2 DEF Opened, Forms, VersionRefused, KeyRefused
<1>4. ~Passed'
  BY <1>2 DEF Passed
<1>5. BundleIsFirstGood' /\ NoWarningNothingMissing' /\ StatusIsTrue'
  BY <1>4 DEF BundleIsFirstGood, NoWarningNothingMissing,
     StatusIsTrue
<1>6. CASE o \in {"error", "crash"}
  BY <1>2, <1>3, <1>5, <1>6 DEF ReadInv
<1>7. CASE o \notin {"error", "crash"}
  BY <1>1, <1>3, <1>5, <1>7, TurnPositions, TurnSeen, TurnAccounted,
     TurnSignatures DEF ReadInv
<1>8. QED
  BY <1>6, <1>7

LEMMA LineIsATurn ==
  ASSUME ReadInv, ReadLine
  PROVE  ReadInv'
<1>1. pc = "read" /\ provider = "anthropic" /\ Opened
  BY DEF ReadLine, Reading, ReadInv
<1>2. PICK r \in Records :
        /\ Take(r, MapLine(r))
        /\ seen_ids' = IF Shaped(r) /\ r.flaw # "unhashable" THEN seen_ids \cup {r.id}
                       ELSE seen_ids
        /\ warnings' = Warned(MapLine(r))
        /\ upstream_key_id' =
             (upstream_key_id \/ (MapLine(r) = "mapped" /\ r.key_named))
  BY DEF ReadLine
<1>3. PICK o : o = MapLine(r)
  OBVIOUS
<1>4. Judged(r, o)
  BY <1>1, <1>3, JudgedLine
<1>5. read_args.strict /\ o \notin {"error", "crash"} =>
        seen_ids' = SeenAfter(r, o)
  BY <1>1, <1>2, <1>3, <1>4, RecordFacts DEF Judged, SeenAfter, MapLine, Refused, Preview
<1>6. r.collection = Absent
  BY <1>1, RecordFacts
<1>7. collection' = collection
  BY DEF ReadLine
<1>8. warnings' = Warned(o) /\ warnings \in Seq(Nat) /\ Len(export) + 1 \in Nat
  BY <1>1, <1>2, <1>3 DEF ReadInv, Positions
<1>9. /\ warnings' \in {warnings, Append(warnings, Len(export) + 1)}
      /\ warnings' = warnings => o \notin {"dropped", "duplicate"}
  BY <1>8 DEF Warned
<1>10. Turn(r, o)
  BY <1>1, <1>2, <1>3, <1>5, <1>6, <1>7, <1>9 DEF Turn
<1>11. QED
  BY <1>1, <1>4, <1>10, TurnKeeps

\* The four readers that note an id once its record is mapped.
LEMMA EntryIsATurn ==
  ASSUME ReadInv, pc = "read", provider # "anthropic", NEW r \in Records, NEW o,
         Judged(r, o),
         Take(r, o), seen_ids' = SeenAfter(r, o), UNCHANGED upstream_key_id,
         warnings' \in {warnings, Append(warnings, Len(export) + 1)},
         o \in {"dropped", "duplicate"} =>
           warnings' = Append(warnings, Len(export) + 1),
         warnings' = warnings /\ o = "mapped" => r.collection \in {collection', Absent},
         collection' = collection \/ collection = Absent
  PROVE  ReadInv'
<1>1. warnings \in Seq(Nat) /\ Len(export) + 1 \in Nat
  BY DEF ReadInv, Positions
<1>2. Append(warnings, Len(export) + 1) # warnings
  BY <1>1
<1>3. Turn(r, o)
  BY <1>2 DEF Turn
<1>4. QED
  BY <1>3, TurnKeeps

LEMMA ReadEventIsATurn ==
  ASSUME ReadInv, ReadEvent
  PROVE  ReadInv'
<1>1. pc = "read" /\ provider = "cloudtrail" /\ Opened
  BY DEF ReadEvent, Reading, ReadInv
<1>2. PICK r \in Records :
        /\ Take(r, MapEvent(r))
        /\ seen_ids' = SeenAfter(r, MapEvent(r))
        /\ warnings' = Warned(MapEvent(r))
  BY DEF ReadEvent
<1>3. PICK o : o = MapEvent(r)
  OBVIOUS
<1>4. Judged(r, o)
  BY <1>1, <1>3, JudgedEntry
<1>5. r.collection = Absent
  BY <1>1, RecordFacts
<1>6. UNCHANGED <<collection, upstream_key_id>>
  BY DEF ReadEvent
<1>7. /\ warnings' \in {warnings, Append(warnings, Len(export) + 1)}
      /\ o \in {"dropped", "duplicate"} => warnings' = Append(warnings, Len(export) + 1)
  BY <1>2, <1>3 DEF Warned
<1>8. QED
  BY <1>1, <1>2, <1>3, <1>4, <1>5, <1>6, <1>7, EntryIsATurn

LEMMA ReadComplianceEventIsATurn ==
  ASSUME ReadInv, ReadComplianceEvent
  PROVE  ReadInv'
<1>1. pc = "read" /\ provider = "openai" /\ Opened
  BY DEF ReadComplianceEvent, Reading, ReadInv
<1>2. PICK r \in Records :
        /\ Take(r, MapComplianceEvent(r))
        /\ seen_ids' = SeenAfter(r, MapComplianceEvent(r))
        /\ warnings' = Warned(MapComplianceEvent(r))
  BY DEF ReadComplianceEvent
<1>3. PICK o : o = MapComplianceEvent(r)
  OBVIOUS
<1>4. Judged(r, o)
  BY <1>1, <1>3, JudgedEntry
<1>5. r.collection = Absent
  BY <1>1, RecordFacts
<1>6. UNCHANGED <<collection, upstream_key_id>>
  BY DEF ReadComplianceEvent
<1>7. /\ warnings' \in {warnings, Append(warnings, Len(export) + 1)}
      /\ o \in {"dropped", "duplicate"} => warnings' = Append(warnings, Len(export) + 1)
  BY <1>2, <1>3 DEF Warned
<1>8. QED
  BY <1>1, <1>2, <1>3, <1>4, <1>5, <1>6, <1>7, EntryIsATurn

LEMMA ReadRunIsATurn ==
  ASSUME ReadInv, ReadRun
  PROVE  ReadInv'
<1>1. pc = "read" /\ provider = "langsmith" /\ Opened
  BY DEF ReadRun, Reading, ReadInv
<1>2. PICK r \in Records :
        /\ Take(r, MapRun(r))
        /\ seen_ids' = SeenAfter(r, MapRun(r))
        /\ warnings' = Warned(MapRun(r))
  BY DEF ReadRun
<1>3. PICK o : o = MapRun(r)
  OBVIOUS
<1>4. Judged(r, o)
  BY <1>1, <1>3, JudgedEntry
<1>5. r.collection = Absent
  BY <1>1, RecordFacts
<1>6. UNCHANGED <<collection, upstream_key_id>>
  BY DEF ReadRun
<1>7. /\ warnings' \in {warnings, Append(warnings, Len(export) + 1)}
      /\ o \in {"dropped", "duplicate"} => warnings' = Append(warnings, Len(export) + 1)
  BY <1>2, <1>3 DEF Warned
<1>8. QED
  BY <1>1, <1>2, <1>3, <1>4, <1>5, <1>6, <1>7, EntryIsATurn

LEMMA ReadEntryIsATurn ==
  ASSUME ReadInv, ReadEntry
  PROVE  ReadInv'
<1>1. pc = "read" /\ provider = "azure-cl" /\ Opened
  BY DEF ReadEntry, Reading, ReadInv
<1>2. PICK r \in Records :
        /\ Take(r, MapEntry(r))
        /\ seen_ids' = SeenAfter(r, MapEntry(r))
        /\ collection' = IF MapEntry(r) = "mapped" THEN CollectionAfter(r) ELSE collection
        /\ warnings' = IF /\ MapEntry(r) = "mapped" /\ Absent \notin {collection, r.collection}
                          /\ r.collection # collection
                       THEN Append(warnings, Len(export) + 1)
                       ELSE Warned(MapEntry(r))
  BY DEF ReadEntry
<1>3. PICK o : o = MapEntry(r)
  OBVIOUS
<1>4. Judged(r, o)
  BY <1>1, <1>3, JudgedEntry
<1>5. collection' = IF o = "mapped" THEN CollectionAfter(r) ELSE collection
  BY <1>2, <1>3
<1>6. warnings' = IF o = "mapped" /\ Absent \notin {collection, r.collection} /\ r.collection # collection
                  THEN Append(warnings, Len(export) + 1)
                  ELSE Warned(o)
  BY <1>2, <1>3
<1>7. UNCHANGED upstream_key_id
  BY DEF ReadEntry
<1>8. /\ warnings' \in {warnings, Append(warnings, Len(export) + 1)}
      /\ o \in {"dropped", "duplicate"} => warnings' = Append(warnings, Len(export) + 1)
  BY <1>6 DEF Warned
<1>9. collection' = collection \/ collection = Absent
  BY <1>5 DEF CollectionAfter
<1>10. warnings' = warnings /\ o = "mapped" => r.collection \in {collection', Absent}
  <2>1. warnings \in Seq(Nat) /\ Len(export) + 1 \in Nat
    BY <1>1 DEF ReadInv, Positions
  <2>2. Append(warnings, Len(export) + 1) # warnings
    BY <2>1
  <2>3. QED
    BY <1>5, <1>6, <2>2 DEF CollectionAfter
<1>11. QED
  BY <1>1, <1>2, <1>3, <1>4, <1>7, <1>8, <1>9, <1>10, EntryIsATurn

LEMMA OpenKeeps ==
  ASSUME ReadInv, Open
  PROVE  ReadInv'
<1>1. /\ pc = "open" /\ form' \in Forms'
      /\ pc' = IF read_exit' = NoExit THEN "read" ELSE "done"
      /\ UNCHANGED <<provider, read_args, export, seen_ids, mapped, warnings,
                    skipped_non_ar, collection, upstream_key_id, status>>
  BY DEF Open, Forms, Preview
<1>2. form' \in {"unreadable", "empty", "lines", "document", "not_json", "wrong_shape", "brackets"}
  BY <1>1 DEF ReadInv, Opened, READERS, Forms, Preview
<1>3. read_exit' \in {NoExit, EXIT_ERROR, CRASH}
  <2>1. Extract(form') \subseteq {NoExit, EXIT_ERROR, CRASH}
    BY <1>2 DEF Extract
  <2>2. QED
    BY <2>1 DEF Open
<1>4. read_exit' = NoExit => ~VersionRefused /\ ~KeyRefused
  <2>1. Extract("unreadable") = {EXIT_ERROR, CRASH}
    BY DEF Extract
  <2>2. QED
    BY <2>1 DEF Open
<1>5. Opened'
  BY <1>1, <1>3, <1>4 DEF ReadInv, Opened, Forms, VersionRefused,
     KeyRefused
<1>6. ~Passed'
  BY <1>3 DEF Passed
<1>7. export = <<>> /\ Positions /\ SeenIsMapped /\ Accounted /\ Signatures
  BY <1>1 DEF ReadInv, Opened
<1>8. Positions'
  <2>1. export \in Seq(Records')
    BY <1>7
  <2>2. export' \in Seq(Records')
    BY <1>1, <2>1
  <2>3. QED
    BY <1>1, <1>7, <2>2 DEF Positions
<1>9. SeenIsMapped'
  BY <1>1, <1>7 DEF SeenIsMapped, FirstGood, Good, InScope,
     SignaturesChecked
<1>10. Accounted' /\ Signatures'
  BY <1>1, <1>7 DEF Accounted, Signatures, InScope, SignaturesChecked
<1>11. QED
  BY <1>5, <1>6, <1>8, <1>9, <1>10 DEF ReadInv, BundleIsFirstGood,
     NoWarningNothingMissing, StatusIsTrue

LEMMA SeqInLarger ==
  ASSUME NEW S, NEW T, S \subseteq T, NEW s \in Seq(S)
  PROVE  s \in Seq(T)
<1>1. s \in [1..Len(s) -> T] /\ Len(s) \in Nat
  OBVIOUS
<1>2. QED
  BY <1>1

LEMMA Singleton ==
  ASSUME NEW S, NEW s \in S
  PROVE  <<s>> \in Seq(S) /\ <<s>> # <<>> /\ <<>> \in Seq(S)
OBVIOUS

\* What is appended to a sequence is empty if the result is.
LEMMA NothingAppended ==
  ASSUME NEW S, NEW a \in Seq(S), NEW b \in Seq(S), NEW c \in Seq(S),
         a \o (b \o c) = <<>>
  PROVE  a = <<>> /\ b = <<>>
<1>1. b \o c \in Seq(S) /\ Len(b \o c) = Len(b) + Len(c)
  OBVIOUS
<1>2. Len(a \o (b \o c)) = Len(a) + Len(b \o c)
  BY <1>1
<1>3. Len(a) + (Len(b) + Len(c)) = 0
  BY <1>1, <1>2
<1>4. Len(a) \in Nat /\ Len(b) \in Nat /\ Len(c) \in Nat
  OBVIOUS
<1>5. Len(a) = 0 /\ Len(b) = 0
  BY <1>3, <1>4
<1>6. QED
  BY <1>5

LEMMA FinishKeeps ==
  ASSUME ReadInv, Finish
  PROVE  ReadInv'
<1>1. /\ pc = "read" /\ warnings' = warnings \o Notices /\ status' = Classified
      /\ read_exit' = EXIT_PASS /\ pc' = "done"
      /\ UNCHANGED <<provider, read_args, form, export, seen_ids, mapped,
                    skipped_non_ar, collection, upstream_key_id>>
  BY DEF Finish, opened
<1>2. Opened /\ Positions /\ SeenIsMapped /\ Accounted /\ Signatures
  BY <1>1 DEF ReadInv
<1>3. /\ provider \in READERS /\ read_args.strict \in BOOLEAN
      /\ read_args.public_key \in {"none", "given", "unusable"}
  BY <1>2 DEF Opened, Args
<1>5. ASSUME read_args.strict \/ provider # "anthropic"
      PROVE  /\ {mapped[k] : k \in DOMAIN mapped} = FirstGood
             /\ \A j, k \in DOMAIN mapped : j < k => mapped[j] < mapped[k]
             /\ read_args.strict =>
                  \A k \in DOMAIN export :
                    InScope(export[k]) /\ export[k].flaw # "sentinel" =>
                      \E j \in FirstGood : export[j].id = export[k].id
  <2>1. \A k \in DOMAIN export : k \in FirstGood <=> \E i \in DOMAIN mapped : mapped[i] = k
    BY <1>2, <1>5 DEF SeenIsMapped
  <2>2. FirstGood \subseteq DOMAIN export /\ \A i \in DOMAIN mapped : mapped[i] \in DOMAIN export
    BY <1>2 DEF FirstGood, Positions
  <2>3. {mapped[k] : k \in DOMAIN mapped} = FirstGood
    BY <2>1, <2>2
  <2>4. \A j, k \in DOMAIN mapped : j < k => mapped[j] < mapped[k]
    BY <1>2 DEF Positions
  <2>5. ASSUME read_args.strict, NEW k \in DOMAIN export, InScope(export[k]),
               export[k].flaw # "sentinel"
        PROVE  \E j \in FirstGood : export[j].id = export[k].id
    <3>1. PICK i \in DOMAIN mapped : export[mapped[i]].id = export[k].id
      BY <1>2, <1>5, <2>5 DEF SeenIsMapped
    <3>2. mapped[i] \in FirstGood
      BY <2>1, <2>2
    <3>3. QED
      BY <3>1, <3>2
  <2>6. QED
    BY <2>3, <2>4, <2>5
<1>6. BundleIsFirstGood'
  <2>1. FirstGood' = FirstGood
    BY <1>1 DEF FirstGood, Good, SignaturesChecked
  <2>2. QED
    BY <1>1, <1>5, <2>1 DEF BundleIsFirstGood, InScope
<1>7. ASSUME warnings' = <<>>
      PROVE  warnings = <<>> /\ (skipped_non_ar = 0 \/ read_args.strict)
  <2>1. warnings \in Seq(Nat) /\ skipped_non_ar \in Nat
    BY <1>2 DEF Positions
  <2>2. PICK S : S = Nat \cup {"skipped", "key ignored"}
    OBVIOUS
  <2>3. PICK n : n = IF skipped_non_ar > 0 /\ ~read_args.strict THEN <<"skipped">> ELSE <<>>
    OBVIOUS
  <2>4. PICK m : m = IF provider # "anthropic" /\ read_args.public_key # "none"
                     THEN <<"key ignored">> ELSE <<>>
    OBVIOUS
  <2>5. "skipped" \in S /\ "key ignored" \in S /\ warnings \in Seq(S)
    <3>1. Nat \subseteq S /\ "skipped" \in S /\ "key ignored" \in S
      BY <2>2
    <3>2. warnings \in Seq(S)
      BY <2>1, <3>1, SeqInLarger
    <3>3. QED
      BY <3>1, <3>2
  <2>6. n \in Seq(S) /\ m \in Seq(S) /\ <<"skipped">> # <<>>
    BY <2>3, <2>4, <2>5, Singleton, Zenon
  <2>7. warnings \o (n \o m) = <<>>
    BY <1>1, <1>7, <2>3, <2>4 DEF Notices
  <2>8. warnings = <<>> /\ n = <<>>
    BY <2>5, <2>6, <2>7, NothingAppended, Zenon
  <2>9. ~(skipped_non_ar > 0 /\ ~read_args.strict)
    BY <2>3, <2>6, <2>8, Zenon
  <2>10. QED
    BY <1>3, <2>1, <2>8, <2>9
<1>8. NoWarningNothingMissing'
  <2>1. SUFFICES ASSUME warnings' = <<>>
                 PROVE  /\ \A k \in DOMAIN export : \/ \E j \in DOMAIN mapped : mapped[j] = k
                                                    \/ (read_args.strict /\ ~InScope(export[k]))
                        /\ \A j, k \in DOMAIN mapped :
                             \/ export[mapped[j]].collection = export[mapped[k]].collection
                             \/ Absent \in {export[mapped[j]].collection, export[mapped[k]].collection}
    BY <1>1 DEF NoWarningNothingMissing, InScope
  <2>2. warnings = <<>> /\ (skipped_non_ar = 0 \/ read_args.strict)
    BY <1>7, <2>1
  <2>3. QED
    BY <1>2, <2>2 DEF Accounted
<1>9. StatusIsTrue'
  <2>1. Classified = "absent" <=> \A i \in DOMAIN mapped : ~export[mapped[i]].key_named
    BY <1>2 DEF Signatures, Classified
  <2>2. ASSUME Classified = "verified", read_args.nacl
        PROVE  \A i \in DOMAIN mapped : export[mapped[i]].signature = "upstream"
    <3>1. upstream_key_id /\ read_args.public_key # "none"
      BY <2>2 DEF Classified
    <3>2. provider = "anthropic" /\ SignaturesChecked
      BY <1>1, <1>2, <1>3, <2>2, <3>1 DEF Signatures, Opened, SignaturesChecked, KeyRefused
    <3>3. QED
      BY <1>2, <3>2 DEF Signatures
  <2>3. QED
    BY <1>1, <2>1, <2>2 DEF StatusIsTrue
<1>10. QED
  BY <1>1, <1>2, <1>6, <1>8, <1>9 DEF ReadInv, Opened

-----------------------------------------------------------------------------
\* ReadInv is inductive.
THEOREM ReadersInv == ReadSpec => []ReadInv
<1>1. ReadInit => ReadInv
  <2> SUFFICES ASSUME ReadInit PROVE ReadInv
    OBVIOUS
  <2>1. Opened /\ ~Passed
    BY DEF ReadInit, Opened, Passed
  <2>2. Positions
    BY DEF ReadInit, Positions
  <2>3. SeenIsMapped /\ Accounted /\ Signatures
    BY DEF ReadInit, SeenIsMapped, Accounted, Signatures, FirstGood
  <2>4. QED
    BY <2>1, <2>2, <2>3 DEF ReadInv, BundleIsFirstGood,
       NoWarningNothingMissing, StatusIsTrue
<1>2. ReadInv /\ [ReadNext]_read_vars => ReadInv'
  <2>1. ASSUME ReadInv, UNCHANGED read_vars
        PROVE  ReadInv'
    <3>1. UNCHANGED <<provider, read_args, form, pc, export, seen_ids, mapped, warnings, skipped_non_ar,
                      collection, upstream_key_id, status, read_exit>>
      BY <2>1 DEF read_vars, opened
    <3>2. Opened' <=> Opened
      BY <3>1 DEF Opened, Forms, VersionRefused, KeyRefused
    <3>3. Positions' <=> Positions
      BY <3>1 DEF Positions, Records, Sound, Flaws
    <3>4. FirstGood' = FirstGood
      BY <3>1 DEF FirstGood, Good, SignaturesChecked
    <3>5. SeenIsMapped' <=> SeenIsMapped
      BY <3>1, <3>4 DEF SeenIsMapped, Good, SignaturesChecked,
         InScope
    <3>6. Accounted' <=> Accounted
      BY <3>1 DEF Accounted, InScope
    <3>7. Signatures' <=> Signatures
      BY <3>1 DEF Signatures, SignaturesChecked
    <3>8. BundleIsFirstGood' <=> BundleIsFirstGood
      BY <3>1, <3>4 DEF BundleIsFirstGood, Passed, InScope
    <3>9. NoWarningNothingMissing' <=> NoWarningNothingMissing
      BY <3>1 DEF NoWarningNothingMissing, Passed, InScope
    <3>10. StatusIsTrue' <=> StatusIsTrue
      BY <3>1 DEF StatusIsTrue, Passed
    <3>11. QED
      BY <2>1, <3>1, <3>2, <3>3, <3>5, <3>6, <3>7, <3>8, <3>9, <3>10 DEF ReadInv
  <2>2. QED
    BY <2>1, OpenKeeps, FinishKeeps, LineIsATurn, ReadEventIsATurn, ReadEntryIsATurn,
       ReadComplianceEventIsATurn,
       ReadRunIsATurn DEF ReadNext
<1>3. QED
  BY <1>1, <1>2, PTL DEF ReadSpec

\* However many records an export has, in whatever order and with whatever
\* wrong with them, the bundle holds each acceptable one once, the first of its
\* id, in order; and a strict read passes over nothing in scope but objects that
\* look like the sentinel of a malformed line.
THEOREM BundleOfFirstGood == ReadSpec => []BundleIsFirstGood
<1>1. ReadInv => BundleIsFirstGood
  BY DEF ReadInv
<1>. QED
  BY <1>1, ReadersInv, PTL

\* A read of any export that ends without a warning has lost no record and
\* mixed no collections.
THEOREM SilentReadIsComplete == ReadSpec => []NoWarningNothingMissing
<1>1. ReadInv => NoWarningNothingMissing
  BY DEF ReadInv
<1>. QED
  BY <1>1, ReadersInv, PTL

\* However many records were dropped, "verified" holds of every record of the
\* bundle (with PyNaCl), and "absent" exactly if none names its key.
THEOREM SignatureStatusIsTrue == ReadSpec => []StatusIsTrue
<1>1. ReadInv => StatusIsTrue
  BY DEF ReadInv
<1>. QED
  BY <1>1, ReadersInv, PTL
=============================================================================
