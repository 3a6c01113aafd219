---------------------------- MODULE Certification ----------------------------
(***************************************************************************)
(* The two certification programs of specora-verify: "certify" (cli.py,    *)
(* scaffold.py, validators/certification.py) and "stp certify"             *)
(* (validators/stp_certification.py).  An integrator has a bundle of       *)
(* evidence generated, edits it, has it checked against a tier and has an  *)
(* attestation written, which others verify.                               *)
(*                                                                         *)
(* A command looks for the files of the bundle one by one, reads them one  *)
(* by one and, to attest, reads them again, while the integrator, or a CI  *)
(* job, goes on changing them.  Files that are generated, looked for and   *)
(* read next to each other are one artifact here, with what tells them     *)
(* apart to the commands for their content; the hash of an artifact is its *)
(* content.                                                                *)
(* The tiers of a program are 1, 2 and 3, and the requirements that a tier *)
(* adds are one requirement, named by that tier.                           *)
(***************************************************************************)
EXTENDS Integers, Sequences, ExitCodes

CONSTANT MaxChanges   \* bound on the changes to a bundle

ASSUME MaxChangesOK == MaxChanges \in Nat

VARIABLES
  program,     \* "certify" or "stp"
  bundle,      \* artifact |-> content
  output,      \* verification/specora-verify-output.json
  changes,     \* how often bundle or output was changed
  unedited,    \* history: all there is was written by scaffolds
  command,     \* what runs: a name and a tier
  phase,       \* what the command does next, or "idle"
  at,          \* which artifact or requirement it does it with
  valid,       \* result.valid
  missing,     \* result.requirements_missing
  during,      \* history: what the bundle was while the last command ran
  attestation, \* what the last command wrote, NoAttestation if it did not; while
               \* it hashes, what it will write
  exit         \* the last command's exit code, NoExit while running

vars == <<program, bundle, output, changes, unedited, command, phase, at, valid, missing,
          during, attestation, exit>>
-----------------------------------------------------------------------------
Tiers == 1..3

\* "messages" are the request and response samples, "attest_messages" those of
\* execution.attest and the attestation bundle, "receipts" the ledger's receipt
\* and the SIEM test, "manifests" the proof and the attestation manifest,
\* "anchors" the anchor payload and its receipt.
Artifacts == IF program = "certify"
             THEN {"meta", "manifests", "anchors", "tla_summary"}
             ELSE {"meta", "messages", "attest_messages", "signature", "receipts"}

\* TIER_ARTIFACTS, STP_TIER_ARTIFACTS; every tier has the verification output.
TierArtifacts(tier) ==
  IF program = "certify"
  THEN CASE tier = 1 -> {"meta", "manifests"}
         [] tier = 2 -> {"meta", "manifests", "anchors"}
         [] tier = 3 -> {"meta", "manifests", "anchors", "tla_summary"}
  ELSE CASE tier = 1 -> {"meta", "messages"}
         [] tier = 2 -> {"meta", "messages", "attest_messages", "signature"}
         [] tier = 3 -> {"meta", "messages", "attest_messages", "signature", "receipts"}

\* What each tier adds to the one below
Requirements == {1, 2, 3}

\* Mutant: the table of the third tier leaves out what the second adds.
OwnRequirements(tier) == IF tier = 3 THEN {1, 3} ELSE 1..tier

\* TIER_REQUIREMENTS, STP_TIER_REQUIREMENTS: each table repeats the lower ones.
TierRequirements(tier) ==
  CASE tier = 1 -> {1}
    [] tier = 2 -> {1, 2}
    [] tier = 3 -> {1, 2, 3}

\* Contents of an artifact: "generated" is the scaffold's, "filled" the
\* integrator's, "broken" is not JSON.  Samples can also be "flawed": they lack
\* what validate_stp_message wants.  (An unknown version or value only warns.)
Contents(a) ==
  {"absent", "generated", "filled", "broken"} \cup
    IF a \in {"messages", "attest_messages"} THEN {"flawed"} ELSE {}

\* A verification output with status and requirements_checked; "fail" is any
\* other status, and none, as in what "vectors verify" prints.
Output(status, checked) == [status |-> status, checked |-> checked]
NoOutput == Output("absent", {})
Pending  == Output("pending", {})
Outputs  == {NoOutput, Pending, Output("pending", Requirements)}
            \cup {Output(status, {}) : status \in {"broken", "fail"}}
            \cup {Output("pass", checked) : checked \in {{}, {1}, {1, 2}, {1, 3}, {1, 2, 3}}}

NoAttestation == [tier |-> 0, missing |-> {}, hashes |-> <<>>, output |-> NoOutput]
Idle == [name |-> "none", tier |-> 0]

Empty == [a \in Artifacts |-> "absent"]
Exists == bundle # Empty \/ output # NoOutput
Now == [bundle |-> bundle, output |-> output]

\* A bundle that the integrator filled in for a tier.
FilledIn(tier) ==
  [a \in Artifacts |-> IF a \in TierArtifacts(tier) THEN "filled" ELSE "absent"]

\* There is nothing yet, or a bundle that was filled in.
Init ==
  /\ program \in {"certify", "stp"}
  /\ \/ bundle = Empty /\ output = NoOutput /\ unedited = TRUE
     \/ \E tier \in Tiers : /\ bundle = FilledIn(tier) /\ output = Output("pass", 1..tier)
                            /\ unedited = FALSE
  /\ changes = 0
  /\ command = Idle /\ phase = "idle" /\ at = 1 /\ valid = TRUE /\ missing = {} /\ during = {}
  /\ attestation = NoAttestation /\ exit = NoExit

-----------------------------------------------------------------------------
(* Changes to the bundle *)

\* The command that ended is forgotten when there is a change after it.
Change(b, o, u) ==
  /\ changes < MaxChanges
  /\ bundle' = b /\ output' = o /\ unedited' = u
  /\ changes' = changes + 1
  /\ IF phase = "idle"
     THEN /\ command' = Idle /\ valid' = TRUE /\ missing' = {} /\ during' = {}
          /\ attestation' = NoAttestation /\ exit' = NoExit
     ELSE /\ during' = during \cup {Now'}
          /\ UNCHANGED <<command, valid, missing, attestation, exit>>
  /\ UNCHANGED <<program, phase, at>>

\* Mutant: an output that is already there is kept.
KeptOutput == IF output = NoOutput THEN Pending ELSE output

\* The placeholder the scaffold writes.
PlaceholderOutput == Pending

\* What the scaffold writes, in order.
Files == IF program = "certify"
         THEN <<"meta", "manifests", "output", "anchors", "tla_summary">>
         ELSE <<"meta", "messages", "attest_messages", "output", "signature", "receipts">>

\* generate_stp_certification_scaffold removes what is there, generate_scaffold
\* writes over it; either asks for --force first.
Kept == program = "certify"

\* A scaffold that wrote the first n files; the last one, or it died before.
Scaffold(tier, n) ==
  LET written == {Files[i] : i \in 1..n}
      others  == Artifacts \ (written \cap TierArtifacts(tier))
  IN Change([a \in Artifacts |-> IF a \notin others THEN "generated"
                                 ELSE IF Kept THEN bundle[a] ELSE "absent"],
            IF "output" \in written THEN PlaceholderOutput
            ELSE IF Kept THEN output ELSE NoOutput,
            \/ unedited \/ ~Kept
            \/ "output" \in written /\ \A a \in others : bundle[a] = "absent")

\* The integrator fills in a bundle of a tier, changes one artifact, or has
\* another verification output.
Fill(tier) ==
  Change([a \in Artifacts |-> IF a \in TierArtifacts(tier) THEN "filled" ELSE bundle[a]],
         Output("pass", 1..tier), FALSE)

Edit(a, content) ==
  content # bundle[a] /\ Change([bundle EXCEPT ![a] = content], output, FALSE)

EditOutput(o) == o # output /\ Change(bundle, o, FALSE)

-----------------------------------------------------------------------------
(* check_certification_bundle, check_stp_certification_bundle *)

\* What is looked for, and hashed, in this order
Order == IF program = "certify"
         THEN <<"meta", "manifests", "anchors", "output", "tla_summary">>
         ELSE <<"meta", "messages", "attest_messages", "signature", "receipts", "output">>

world == <<program, bundle, output, changes, unedited, during, command>>

\* The handlers of certify look for the directory first.
Start(name, tier) ==
  /\ phase = "idle"
  /\ command' = [name |-> name, tier |-> tier]
  /\ valid' = TRUE /\ missing' = {} /\ during' = {Now} /\ at' = 1
  /\ IF program = "certify" /\ ~Exists THEN exit' = EXIT_ERROR /\ phase' = "idle"
                                       ELSE exit' = NoExit /\ phase' = "look"
  /\ attestation' = NoAttestation
  /\ UNCHANGED <<program, bundle, output, changes, unedited>>

\* The phase goes on with the next one of n, or the next phase begins.
Advance(n, to) ==
  IF at < n THEN at' = at + 1 /\ UNCHANGED phase ELSE at' = 1 /\ phase' = to

Step(from, n, to, v) ==
  /\ phase = from /\ Advance(n, to)
  /\ valid' = (valid /\ v)
  /\ UNCHANGED <<world, missing, attestation, exit>>

Exist(x) == IF x = "output" THEN output # NoOutput ELSE bundle[x] # "absent"

\* artifact_path.exists(), one after the other
Look == Step("look", Len(Order), "meta",
             Order[at] \in TierArtifacts(command.tier) \cup {"output"} => Exist(Order[at]))

\* A meta.json for another tier is an error that does not count.
ReadMeta == Step("meta", 1, IF program = "stp" THEN "messages" ELSE "output",
                 bundle["meta"] # "broken")

\* STP_REQUIRED_FIELDS and the fields of payload and result: the responses that
\* the scaffold generates lack some.
LacksFields(content) == content \in {"generated", "flawed"}

\* validate_stp_message, not strict: what only warns is accepted.
MessagesValid(content) ==
  content \notin {"absent", "broken"} /\ ~LacksFields(content)

\* if samples_dir.exists()
NoSamples ==
  /\ phase = "messages" /\ at = 1
  /\ bundle["messages"] = "absent" /\ bundle["attest_messages"] = "absent"
  /\ Step("messages", 1, "output", TRUE)

\* _verify_sample_messages
ReadMessages ==
  /\ phase = "messages"
  /\ at = 1 => bundle["messages"] # "absent" \/ bundle["attest_messages"] # "absent"
  /\ Step("messages", IF command.tier >= 2 THEN 2 ELSE 1, "output",
          MessagesValid(bundle[IF at = 1 THEN "messages" ELSE "attest_messages"]))

\* Pending passes for stp; an attestation signature is looked at and does not
\* count.
ReadOutput ==
  Step("output", 1, "requirements",
       output.status \in {"absent", "pass"} \cup IF program = "stp" THEN {"pending"} ELSE {})

CheckExit(ok) == IF ok THEN EXIT_PASS ELSE EXIT_FAIL

\* The result is complete: it is printed, or an attestation begun with it.
EndCheck ==
  IF command.name = "check"
  THEN phase' = "idle" /\ exit' = CheckExit(valid') /\ UNCHANGED attestation
  ELSE /\ phase' = "hash" /\ UNCHANGED exit
       /\ attestation' = [tier |-> command.tier, missing |-> missing',
                          hashes |-> <<>>, output |-> NoOutput]

\* A bundle with an error meets no requirement, and certify's others meet all.
AllOrNone ==
  /\ phase = "requirements" /\ (program = "certify" \/ ~valid)
  /\ missing' = IF valid THEN {} ELSE TierRequirements(command.tier)
  /\ at' = 1 /\ UNCHANGED <<world, valid>> /\ EndCheck

\* _check_requirement reads the output again, for every requirement.
Unmet(r) == output.status \in {"absent", "broken"} \/ r \notin output.checked

CheckRequirement ==
  /\ phase = "requirements" /\ program = "stp" /\ valid
  /\ missing' = missing \cup {r \in TierRequirements(command.tier) : r = at /\ Unmet(r)}
  /\ IF at < command.tier
     THEN at' = at + 1 /\ UNCHANGED <<phase, valid, attestation, exit>>
     ELSE at' = 1 /\ valid' = (missing' = {}) /\ EndCheck
  /\ UNCHANGED world

-----------------------------------------------------------------------------
(* generate_attestation, generate_stp_certification_attestation *)

\* Mutant: the anchors are evidence of the second tier only.
HashedOfTier ==
  IF program = "stp" THEN {"meta", "messages", "attest_messages"}
  ELSE TierArtifacts(command.tier) \ IF command.tier = 3 THEN {"anchors"} ELSE {}

\* All samples are hashed, and of certify only what the tier asks for, with the
\* output.
Hashed == IF program = "certify" THEN TierArtifacts(command.tier)
          ELSE {"meta", "messages", "attest_messages"}

\* validate_attestation, validate_stp_certification_attestation
Verifies(att) == att # NoAttestation /\ att.missing = {}

\* certify's command passes whatever the attestation says, stp's validates it.
AttestExit(att) ==
  IF program = "stp" /\ ~Verifies(att) THEN EXIT_FAIL ELSE EXIT_PASS

\* What an artifact adds to the attestation
WithHash(x) ==
  IF x = "output"
  THEN [attestation EXCEPT !.output = IF program = "certify" THEN output ELSE NoOutput]
  ELSE [attestation EXCEPT !.hashes =
          [a \in DOMAIN @ \cup ({x} \cap {h \in Hashed : bundle[h] # "absent"}) |->
             IF a = x THEN bundle[x] ELSE @[a]]]

Broken(x) == IF x = "output" THEN program = "certify" /\ output.status = "broken"
             ELSE x \in Hashed /\ bundle[x] = "broken"

\* The evidence is read anew; what does not parse is not expected any more.
Hash ==
  /\ phase = "hash"
  /\ IF Broken(Order[at])
     THEN phase' = "idle" /\ at' = 1 /\ exit' = CRASH /\ attestation' = NoAttestation
     ELSE /\ attestation' = WithHash(Order[at])
          /\ Advance(Len(Order), "idle")
          /\ exit' = IF phase' = "idle" THEN AttestExit(attestation') ELSE exit
  /\ UNCHANGED <<world, valid, missing>>

Next ==
  \/ \E tier \in Tiers, n \in 0..Len(Files) : Scaffold(tier, n)
  \/ \E tier \in Tiers : Fill(tier)
  \/ \E a \in Artifacts : \E content \in Contents(a) : Edit(a, content)
  \/ \E o \in Outputs : EditOutput(o)
  \/ \E name \in {"check", "attest"}, tier \in Tiers : Start(name, tier)
  \/ Look \/ ReadMeta \/ NoSamples \/ ReadMessages \/ ReadOutput
  \/ AllOrNone \/ CheckRequirement \/ Hash

Spec == Init /\ [][Next]_vars
-----------------------------------------------------------------------------
(* Properties *)

Ended(name) == phase = "idle" /\ command.name = name /\ exit \in {EXIT_PASS, EXIT_FAIL}

\* The verdict of the command that ended: an attestation's is what validating
\* it says.
Passed == \/ Ended("check") /\ exit = EXIT_PASS
          \/ Ended("attest") /\ Verifies(attestation)
Refused == \/ Ended("check") /\ exit = EXIT_FAIL
           \/ Ended("attest") /\ ~Verifies(attestation)

\* What a tier asks for includes what the lower tiers ask for.
Wanted(tier) == UNION {TierArtifacts(t) : t \in 1..tier}
Samples(tier) == {"messages"} \cup IF tier >= 2 THEN {"attest_messages"} ELSE {}
Accepted == {"pass"} \cup IF program = "stp" THEN {"pending"} ELSE {}

Complete(s, tier) ==
  /\ \A a \in Wanted(tier) : s.bundle[a] # "absent"
  /\ s.bundle["meta"] # "broken"
  /\ s.output.status \in Accepted
  /\ program = "stp" =>
       /\ \A a \in Samples(tier) : s.bundle[a] \in {"filled"}
       /\ 1..tier \subseteq s.output.checked

\* A tier is refused for something that was wrong with the bundle while the
\* command ran, and passed only if each single thing that the tier and the
\* tiers below ask for was there and in order at some time while it ran, even
\* if the bundle was being changed; a bundle that nobody changed passes exactly
\* if it is complete.  (check_certification_bundle, check_stp_certification_-
\* bundle, and the attestations that rest on them.)
VerdictWasTrue ==
  LET tier == command.tier
      Once(P(_)) == \E s \in during : P(s)
  IN /\ Refused => \E s \in during : ~Complete(s, tier)
     /\ Passed =>
          /\ during = {Now} => Complete(Now, tier)
          /\ \A a \in Wanted(tier) : Once(LAMBDA s : s.bundle[a] # "absent")
          /\ Once(LAMBDA s : s.bundle["meta"] # "broken")
          /\ Once(LAMBDA s : s.output # NoOutput)
          /\ Once(LAMBDA s : s.output.status \in Accepted \cup {"absent"})
          /\ program = "stp" =>
               /\ \A a \in Samples(tier) :
                    Once(LAMBDA s : s.bundle[a] \in {"filled", "absent"})
               /\ \A r \in 1..tier : Once(LAMBDA s : r \in s.output.checked)

\* What an attestation names as evidence is what the bundle held at some time
\* while the command ran; and if nobody changed the bundle, an attestation that
\* validates names all that its tier asks for, or, for stp, the samples.
AttestedIsEvidence ==
  Ended("attest") =>
    LET h == attestation.hashes IN
    /\ attestation.tier = command.tier
    /\ \A a \in DOMAIN h : \E s \in during : s.bundle[a] = h[a]
    /\ during = {Now} /\ Verifies(attestation) =>
         IF program = "certify" THEN DOMAIN h = Wanted(command.tier)
                                ELSE {"meta"} \cup Samples(command.tier) \subseteq DOMAIN h

\* A bundle that only scaffolds wrote, whatever was there before them and
\* whether or not one died, is never certified: the integrator has to fill it in.
UneditedNeverCertified ==
  unedited /\ during = {Now} => ~Passed
=============================================================================
