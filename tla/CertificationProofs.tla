------------------------ MODULE CertificationProofs ------------------------
(***************************************************************************)
(* For any number of changes to a bundle, before a command and while it    *)
(* runs: VerdictWasTrue, AttestedIsEvidence and UneditedNeverCertified are *)
(* invariants of Certification.                                            *)
(***************************************************************************)
EXTENDS Certification, TLAPS

USE DEF EXIT_PASS, EXIT_FAIL, EXIT_ERROR, CRASH, NoExit

-----------------------------------------------------------------------------
(* Tiers *)

\* The table of a tier repeats those of the tiers below.
LEMMA TablesAreCumulative ==
  ASSUME program \in {"certify", "stp"}, NEW tier \in Tiers
  PROVE  /\ Wanted(tier) = TierArtifacts(tier)
         /\ TierRequirements(tier) = 1..tier
         /\ "meta" \in TierArtifacts(tier)
         /\ program = "stp" => Samples(tier) \subseteq TierArtifacts(tier)
<1>1. tier \in {1, 2, 3}
  BY DEF Tiers
<1>2. CASE tier = 1
  <2>1. 1..1 = {1}
    OBVIOUS
  <2>. QED
    BY <1>2, <2>1 DEF Wanted, TierArtifacts, TierRequirements, Samples
<1>3. CASE tier = 2
  <2>1. 1..2 = {1, 2}
    OBVIOUS
  <2>. QED
    BY <1>3, <2>1 DEF Wanted, TierArtifacts, TierRequirements, Samples
<1>4. CASE tier = 3
  <2>1. 1..3 = {1, 2, 3}
    OBVIOUS
  <2>. QED
    BY <1>4, <2>1 DEF Wanted, TierArtifacts, TierRequirements, Samples
<1>. QED
  BY <1>1, <1>2, <1>3, <1>4

\* Everything has its place in the order.
LEMMA OrderIsComplete ==
  ASSUME program \in {"certify", "stp"}
  PROVE  /\ Len(Order) \in Nat
         /\ \A a \in Artifacts \cup {"output"} : \E i \in 1..Len(Order) : Order[i] = a
<1>1. CASE program = "certify"
  <2>1. Order = <<"meta", "manifests", "anchors", "output", "tla_summary">>
    BY <1>1 DEF Order
  <2>2. Len(Order) = 5
    BY <2>1
  <2>3. /\ Order[1] = "meta" /\ Order[2] = "manifests" /\ Order[3] = "anchors"
        /\ Order[4] = "output" /\ Order[5] = "tla_summary"
    BY <2>1
  <2>4. /\ 1 \in 1..5 /\ 2 \in 1..5 /\ 3 \in 1..5 /\ 4 \in 1..5 /\ 5 \in 1..5
    OBVIOUS
  <2>5. Artifacts \cup {"output"} = {"meta", "manifests", "anchors", "output", "tla_summary"}
    BY <1>1 DEF Artifacts
  <2>. HIDE DEF Order
  <2>. QED
    BY <2>2, <2>3, <2>4, <2>5
<1>2. CASE program = "stp"
  <2>1. Order = <<"meta", "messages", "attest_messages", "signature", "receipts", "output">>
    BY <1>2 DEF Order
  <2>2. Len(Order) = 6
    BY <2>1
  <2>3. /\ Order[1] = "meta" /\ Order[2] = "messages" /\ Order[3] = "attest_messages"
        /\ Order[4] = "signature" /\ Order[5] = "receipts" /\ Order[6] = "output"
    BY <2>1
  <2>4. /\ 1 \in 1..6 /\ 2 \in 1..6 /\ 3 \in 1..6 /\ 4 \in 1..6 /\ 5 \in 1..6 /\ 6 \in 1..6
    OBVIOUS
  <2>5. Artifacts \cup {"output"}
          = {"meta", "messages", "attest_messages", "signature", "receipts", "output"}
    BY <1>2 DEF Artifacts
  <2>. QED
    BY <2>2, <2>3, <2>4, <2>5
<1>. QED
  BY <1>1, <1>2

\* What is asked for depends on the program and the command alone.
LEMMA SameTier ==
  ASSUME UNCHANGED <<program, command>>
  PROVE  /\ UNCHANGED <<Artifacts, Order, Accepted, Hashed, TierArtifacts(command.tier),
                        Wanted(command.tier), Samples(command.tier)>>
         /\ \A s : Complete(s, command.tier)' <=> Complete(s, command.tier)
<1>1. UNCHANGED <<Artifacts, Order, Accepted, Hashed, TierArtifacts(command.tier),
                  Wanted(command.tier), Samples(command.tier)>>
  BY DEF Artifacts, Order, Accepted, Hashed, TierArtifacts, Wanted, Samples
<1>2. ASSUME NEW s PROVE Complete(s, command.tier)' <=> Complete(s, command.tier)
  BY DEF Complete, Wanted, TierArtifacts, Samples, Accepted
<1>. QED
  BY <1>1, <1>2

\* A step of a phase is about the next thing, and after the last one all of them
\* had their turn.
LEMMA Advanced ==
  ASSUME NEW from, NEW to, NEW n \in Nat, at \in Nat, at >= 1, phase = from, from # to, Advance(n, to)
  PROVE  /\ at' \in Nat /\ at' >= 1 /\ phase' \in {from, to}
         /\ \A i \in 1..n : (phase' = from => i < at') => i < at \/ i = at
<1>1. CASE at < n
  BY <1>1 DEF Advance
<1>2. CASE ~(at < n)
  BY <1>2 DEF Advance
<1>. QED
  BY <1>1, <1>2

-----------------------------------------------------------------------------
(* The invariant *)

\* What an artifact can hold, of those that are samples more than of others.
Values == {"absent", "generated", "filled", "broken", "flawed"}

Running == command # Idle /\ exit # EXIT_ERROR

Stages ==
  /\ program \in {"certify", "stp"}
  /\ phase \in {"look", "meta", "messages", "output", "requirements", "hash", "idle"}
  /\ at \in Nat /\ at >= 1
  /\ phase # "idle" => command # Idle /\ exit = NoExit
  /\ phase = "messages" => program = "stp" /\ (at = 1 \/ command.tier >= 2)
  /\ command # Idle =>
       /\ command.name \in {"check", "attest"} /\ command.tier \in Tiers
       /\ Now \in during
  /\ phase = "hash" => command.name = "attest"
  /\ valid \in BOOLEAN
  /\ DOMAIN bundle = Artifacts /\ \A a \in Artifacts : bundle[a] \in Values
  /\ output.status = "absent" => output = NoOutput

\* What the steps of a phase are about, one after the other
Looked(i) == Order[i] \in TierArtifacts(command.tier) \cup {"output"}
Sample(i) == IF i = 1 THEN "messages" ELSE "attest_messages"
IsRead(i) == i = 2 => command.tier >= 2

Held(s, x) == IF x = "output" THEN s.output # NoOutput ELSE s.bundle[x] # "absent"

\* What was there, each thing at some time, if the command found nothing wrong
\* so far.
Found ==
  Running /\ valid =>
    /\ \A i \in 1..Len(Order) :
         (phase = "look" => i < at) /\ Looked(i) => \E s \in during : Held(s, Order[i])
    /\ phase \notin {"look", "meta"} => \E s \in during : s.bundle["meta"] # "broken"
    /\ phase \notin {"look", "meta"} /\ program = "stp" =>
         \A i \in 1..2 : (phase = "messages" => i < at) /\ IsRead(i) =>
           \E s \in during : s.bundle[Sample(i)] \in {"filled", "absent"}
    /\ phase \notin {"look", "meta", "messages", "output"} =>
         \E s \in during : s.output.status \in Accepted \cup {"absent"}
    /\ phase \in {"requirements", "hash", "idle"} /\ program = "stp" =>
         \A r \in 1..command.tier : (phase = "requirements" => r < at) =>
           r \in missing \/ \E s \in during : r \in s.output.checked

\* What is found wrong is wrong, and what the command says in the end.
Judged ==
  Running =>
    /\ ~valid \/ missing # {} => \E s \in during : ~Complete(s, command.tier)
    /\ phase \in {"hash", "idle"} => (valid <=> missing = {})
    /\ phase = "idle" /\ command.name = "check" => exit = CheckExit(valid)

\* There is an attestation, begun or written.
Attesting ==
  Running /\ command.name = "attest" /\ phase \in {"hash", "idle"} /\ exit # CRASH

\* What was hashed is what was there at some time, and what was there all the
\* time and had its turn was hashed.
Attested ==
  Attesting =>
    /\ attestation = [tier |-> command.tier, missing |-> missing,
                      hashes |-> attestation.hashes, output |-> attestation.output]
    /\ DOMAIN attestation.hashes \subseteq Hashed
    /\ \A a \in DOMAIN attestation.hashes :
         \E s \in during : s.bundle[a] = attestation.hashes[a]
    /\ \A i \in 1..Len(Order) :
         /\ phase = "hash" => i < at
         /\ Order[i] \in Hashed /\ Order[i] # "output"
         /\ \A s \in during : s.bundle[Order[i]] # "absent"
         => Order[i] \in DOMAIN attestation.hashes

\* A bundle that only scaffolds wrote holds nothing else.
Placeholders ==
  unedited =>
    /\ \A a \in Artifacts : bundle[a] \in {"absent", "generated"}
    /\ output \in {NoOutput, Pending}

IInv == Stages /\ Found /\ Judged /\ Attested /\ Placeholders

LEMMA InitIInv == Init => IInv
<1>. SUFFICES ASSUME Init PROVE IInv
  OBVIOUS
<1>1. Stages
  <2>1. DOMAIN bundle = Artifacts /\ \A a \in Artifacts : bundle[a] \in Values
    BY DEF Init, Empty, FilledIn, Values
  <2>2. output.status = "absent" => output = NoOutput
    BY DEF Init, NoOutput, Output
  <2>. QED
    BY <2>1, <2>2 DEF Init, Stages
<1>2. Found /\ Judged /\ Attested
  BY DEF Init, Found, Judged, Running, Attested, Attesting
<1>3. Placeholders
  BY DEF Init, Placeholders, Empty
<1>. QED
  BY <1>1, <1>2, <1>3 DEF IInv

-----------------------------------------------------------------------------
(* Changes *)

\* A change forgets the command that ended, and gives a running one another
\* bundle that it was judging.
LEMMA ChangeKeeps ==
  ASSUME IInv, NEW b, NEW o, NEW u, Change(b, o, u), o.status = "absent" => o = NoOutput,
         DOMAIN b = Artifacts, \A a \in Artifacts : b[a] \in Values
  PROVE  Stages' /\ Found' /\ Judged' /\ Attested'
<1>1. output' = o /\ bundle' = b /\ Artifacts' = Artifacts /\ UNCHANGED <<program, phase, at>>
  BY DEF Change, Artifacts
<1>2. CASE phase = "idle"
  <2>1. command' = Idle /\ valid' = TRUE /\ phase' = "idle" /\ exit' = NoExit
    BY <1>1, <1>2 DEF Change
  <2>2. Stages'
    BY <1>1, <2>1 DEF IInv, Stages, NoOutput, Output
  <2>. QED
    BY <2>1, <2>2 DEF Found, Judged, Running, Attested, Attesting
<1>3. CASE phase # "idle"
  <2>1. /\ during' = during \cup {Now'}
        /\ UNCHANGED <<command, valid, missing, attestation, exit>>
    BY <1>3 DEF Change
  <2>2. Stages'
    BY <1>1, <1>3, <2>1 DEF IInv, Stages, NoOutput, Output
  <2>3. /\ UNCHANGED <<Order, Accepted, Hashed, TierArtifacts(command.tier)>>
        /\ \A s : Complete(s, command.tier)' <=> Complete(s, command.tier)
    BY <1>1, <2>1, SameTier
  <2>4. Found'
    BY <1>1, <1>3, <2>1, <2>3 DEF IInv, Found, Running, Looked, IsRead
  <2>5. Judged'
    BY <1>1, <1>3, <2>1, <2>3 DEF IInv, Judged, Running
  <2>6. Attested'
    BY <1>1, <1>3, <2>1, <2>3 DEF IInv, Attested, Attesting, Running
  <2>. QED
    BY <2>2, <2>4, <2>5, <2>6
<1>. QED
  BY <1>2, <1>3

\* What a scaffold leaves behind, whole or not, is placeholders, unless it
\* keeps what was there.
LEMMA ScaffoldStep ==
  ASSUME IInv, NEW tier \in Tiers, NEW n \in 0..Len(Files), Scaffold(tier, n)
  PROVE  IInv'
<1>. DEFINE written == {Files[i] : i \in 1..n}
            others == Artifacts \ (written \cap TierArtifacts(tier))
            b == [a \in Artifacts |-> IF a \notin others THEN "generated"
                                      ELSE IF Kept THEN bundle[a] ELSE "absent"]
            o == IF "output" \in written THEN PlaceholderOutput
                 ELSE IF Kept THEN output ELSE NoOutput
            u == \/ unedited \/ ~Kept
                 \/ "output" \in written /\ \A a \in others : bundle[a] = "absent"
<1>1. Change(b, o, u)
  BY DEF Scaffold
<1>. HIDE DEF written
<1>2. bundle' = b /\ output' = o /\ unedited' = u /\ program' = program
  BY <1>1 DEF Change
<1>3. o.status = "absent" => o = NoOutput
  BY DEF PlaceholderOutput, Pending, NoOutput, Output, IInv, Stages
<1>4. DOMAIN b = Artifacts /\ \A a \in Artifacts : b[a] \in Values
  BY DEF IInv, Stages, Values
<1>5. Placeholders'
  <2>. SUFFICES ASSUME u PROVE /\ \A a \in Artifacts : b[a] \in {"absent", "generated"}
                               /\ o \in {NoOutput, Pending}
    BY <1>2 DEF Placeholders, Artifacts
  <2>1. CASE unedited
    BY <2>1 DEF IInv, Placeholders, PlaceholderOutput
  <2>2. CASE ~Kept
    BY <2>2 DEF PlaceholderOutput
  <2>3. CASE "output" \in written /\ \A a \in others : bundle[a] = "absent"
    BY <2>3 DEF PlaceholderOutput
  <2>. QED
    BY <2>1, <2>2, <2>3
<1>. QED
  BY <1>1, <1>3, <1>4, <1>5, ChangeKeeps DEF IInv

\* What the integrator changes is not a scaffold's any more.
LEMMA IntegratorStep ==
  ASSUME IInv,
         \/ \E tier \in Tiers : Fill(tier)
         \/ \E a \in Artifacts : \E content \in Contents(a) : Edit(a, content)
         \/ \E o \in Outputs : EditOutput(o)
  PROVE  IInv'
<1>1. \A o \in Outputs : o.status = "absent" => o = NoOutput
  BY DEF Outputs, Output, NoOutput, Pending
<1>2. PICK b, o : /\ Change(b, o, FALSE) /\ (o.status = "absent" => o = NoOutput)
                  /\ DOMAIN b = Artifacts /\ \A a \in Artifacts : b[a] \in Values
  <2>1. CASE \E tier \in Tiers : Fill(tier)
    <3>1. PICK tier \in Tiers : Fill(tier)
      BY <2>1
    <3>. DEFINE b == [a \in Artifacts |-> IF a \in TierArtifacts(tier) THEN "filled" ELSE bundle[a]]
                o == Output("pass", 1..tier)
    <3>2. Change(b, o, FALSE)
      BY <3>1 DEF Fill
    <3>3. o.status # "absent"
      BY DEF Output
    <3>4. DOMAIN b = Artifacts /\ \A a \in Artifacts : b[a] \in Values
      BY DEF IInv, Stages, Values
    <3>. QED
      BY <3>2, <3>3, <3>4
  <2>2. CASE \E a \in Artifacts : \E content \in Contents(a) : Edit(a, content)
    <3>1. PICK a \in Artifacts : \E content \in Contents(a) : Edit(a, content)
      BY <2>2
    <3>2. PICK content \in Contents(a) : Edit(a, content)
      BY <3>1
    <3>. DEFINE b == [bundle EXCEPT ![a] = content]
    <3>3. Change(b, output, FALSE) /\ (output.status = "absent" => output = NoOutput)
      BY <3>2 DEF Edit, IInv, Stages
    <3>4. content \in Values
      BY DEF Contents, Values
    <3>5. DOMAIN b = Artifacts /\ \A x \in Artifacts : b[x] \in Values
      BY <3>4 DEF IInv, Stages
    <3>. QED
      BY <3>3, <3>5
  <2>3. CASE \E o \in Outputs : EditOutput(o)
    <3>1. PICK o \in Outputs : Change(bundle, o, FALSE)
      BY <2>3 DEF EditOutput
    <3>. QED
      BY <1>1, <3>1 DEF IInv, Stages
  <2>. QED
    BY <2>1, <2>2, <2>3
<1>3. Placeholders'
  BY <1>2 DEF Change, Placeholders
<1>. QED
  BY <1>2, <1>3, ChangeKeeps DEF IInv

-----------------------------------------------------------------------------
(* The commands *)

\* A command has found nothing before it looks.
LEMMA StartStep ==
  ASSUME IInv, NEW name \in {"check", "attest"}, NEW tier \in Tiers, Start(name, tier)
  PROVE  IInv'
<1>1. /\ command' = [name |-> name, tier |-> tier] /\ valid' = TRUE /\ missing' = {}
      /\ at' = 1 /\ during' = {Now} /\ UNCHANGED <<program, bundle, output, unedited>>
      /\ \/ exit' = EXIT_ERROR /\ phase' = "idle"
         \/ exit' = NoExit /\ phase' = "look"
  BY DEF Start
<1>2. Now' = Now
  BY <1>1 DEF Now
<1>3. command' # Idle
  BY <1>1 DEF Idle, Tiers
<1>4. Stages'
  BY <1>1, <1>2, <1>3 DEF IInv, Stages, NoOutput, Artifacts
<1>5. ~Running' \/ (phase' = "look" /\ at' = 1 /\ valid' = TRUE /\ missing' = {})
  BY <1>1 DEF Running
<1>6. Found' /\ Judged'
  <2>1. ASSUME NEW i \in 1..Len(Order'), at' = 1 PROVE ~(i < at')
    BY <2>1
  <2>2. Found'
    BY <1>5, <2>1 DEF Found
  <2>3. Judged'
    BY <1>5 DEF Judged
  <2>. QED
    BY <2>2, <2>3
<1>7. Attested'
  BY <1>5 DEF Attested, Attesting
<1>8. Placeholders'
  BY <1>1 DEF IInv, Placeholders, Artifacts
<1>. QED
  BY <1>4, <1>6, <1>7, <1>8 DEF IInv

\* A step of the check keeps the invariant if what it finds wrong is wrong, and
\* what it finds in order is.
LEMMA CheckStep ==
  ASSUME IInv, NEW from, NEW n \in Nat, NEW to, NEW v \in BOOLEAN, Step(from, n, to, v),
         <<from, to>> \in {<<"look", "meta">>, <<"meta", "messages">>, <<"meta", "output">>,
                           <<"messages", "output">>, <<"output", "requirements">>},
         from = "messages" => n = 1 \/ command.tier >= 2,
         to = "messages" <=> (from = "meta" /\ program = "stp"),
         ~v => ~Complete(Now, command.tier),
         v =>
           /\ from = "look" => \A i \in 1..Len(Order) :
                (phase' = "look" => i < at') /\ Looked(i) => i < at \/ Held(Now, Order[i])
           /\ from = "meta" => phase' = to /\ bundle["meta"] # "broken"
           /\ from = "messages" => \A i \in 1..2 :
                (phase' = "messages" => i < at') /\ IsRead(i) =>
                  i < at \/ bundle[Sample(i)] \in {"filled", "absent"}
           /\ from = "output" => phase' = to /\ output.status \in Accepted \cup {"absent"}
  PROVE  IInv'
<1>1. /\ phase = from /\ valid' = (valid /\ v)
      /\ UNCHANGED <<program, bundle, output, unedited, during, command, missing,
                     attestation, exit>>
  BY DEF Step, world
<1>2. Now \in during /\ Now.bundle = bundle /\ Now.output = output
  BY <1>1 DEF IInv, Stages, Now
<1>3. at' \in Nat /\ at' >= 1 /\ phase' \in {from, to}
  <2>1. Advance(n, to) /\ at \in Nat /\ at >= 1 /\ from # to
    BY DEF Step, IInv, Stages
  <2>. QED
    BY <1>1, <2>1, Advanced
<1>4. Stages'
  <2>1. phase' = "messages" => at' = 1 \/ command.tier >= 2
    BY <1>1 DEF Step, Advance, IInv, Stages
  <2>. QED
    BY <1>1, <1>3, <2>1 DEF IInv, Stages, Now, NoOutput, Artifacts
<1>5. /\ UNCHANGED <<Order, Accepted, Hashed, TierArtifacts(command.tier)>>
      /\ \A s : Complete(s, command.tier)' <=> Complete(s, command.tier)
  BY <1>1, SameTier
<1>6. Found'
  <2>. SUFFICES ASSUME Running, valid, v PROVE Found'
    BY <1>1 DEF Found, Running
  <2>0. \A i : (Looked(i)' <=> Looked(i)) /\ (IsRead(i)' <=> IsRead(i))
    BY <1>1, <1>5 DEF Looked, IsRead
  <2>1. \A i \in 1..Len(Order') : (phase' = "look" => i < at') /\ Looked(i)' =>
          \E s \in during' : Held(s, Order'[i])
    BY <1>1, <1>2, <1>3, <1>5, <2>0 DEF IInv, Found
  <2>2. phase' \notin {"look", "meta"} => \E s \in during' : s.bundle["meta"] # "broken"
    BY <1>1, <1>2, <1>3 DEF IInv, Found
  <2>3. phase' \notin {"look", "meta"} /\ program' = "stp" =>
          \A i \in 1..2 : (phase' = "messages" => i < at') /\ IsRead(i)' =>
            \E s \in during' : s.bundle[Sample(i)] \in {"filled", "absent"}
    <3>1. CASE from = "messages"
      BY <1>1, <1>2, <1>3, <2>0, <3>1 DEF IInv, Found
    <3>2. CASE from = "output"
      BY <1>1, <1>2, <1>3, <2>0, <3>2 DEF IInv, Found
    <3>3. CASE from = "meta" /\ phase' = to
      <4>1. to = "messages" => at' = 1
        BY <1>1, <3>3 DEF Step, Advance
      <4>2. to = "messages" => \A i \in 1..2 : ~(i < at')
        BY <4>1
      <4>. QED
        BY <1>1, <3>3, <4>2
    <3>. QED
      BY <1>3, <3>1, <3>2, <3>3
  <2>4. phase' \notin {"look", "meta", "messages", "output"} =>
          \E s \in during' : s.output.status \in Accepted' \cup {"absent"}
    BY <1>1, <1>2, <1>3, <1>5 DEF IInv, Found
  <2>5. phase' \in {"requirements", "hash", "idle"} => phase' = "requirements" /\ at' = 1
    BY <1>1, <1>3 DEF Step, Advance
  <2>6. at' = 1 => \A r \in 1..command.tier : ~(r < at')
    BY DEF IInv, Stages
  <2>. QED
    BY <1>1, <2>1, <2>2, <2>3, <2>4, <2>5, <2>6 DEF Found
<1>7. Judged'
  BY <1>1, <1>2, <1>3, <1>5 DEF IInv, Judged, Running
<1>8. Placeholders' /\ Attested'
  BY <1>1, <1>3 DEF IInv, Placeholders, Artifacts, Attested, Attesting
<1>. QED
  BY <1>4, <1>6, <1>7, <1>8 DEF IInv

LEMMA LookStep == ASSUME IInv, Look PROVE IInv'
<1>. DEFINE v == Looked(at) => Exist(Order[at])
<1>1. Step("look", Len(Order), "meta", v)
  BY DEF Look, Looked
<1>2. /\ program \in {"certify", "stp"} /\ command.tier \in Tiers /\ at \in Nat /\ at >= 1
      /\ phase = "look" /\ Advance(Len(Order), "meta")
  BY <1>1 DEF Step, IInv, Stages
<1>3. \A x : Exist(x) <=> Held(Now, x)
  BY DEF Exist, Held, Now
<1>4. Len(Order) \in Nat
  BY <1>2, OrderIsComplete
<1>5. \A i \in 1..Len(Order) : (phase' = "look" => i < at') => i < at \/ i = at
  BY <1>2, <1>4, Advanced
<1>6. ~v => ~Complete(Now, command.tier)
  <2>1. Wanted(command.tier) = TierArtifacts(command.tier)
    BY <1>2, TablesAreCumulative
  <2>2. output = NoOutput => output.status \notin Accepted
    BY DEF NoOutput, Output, Accepted
  <2>3. "output" \notin TierArtifacts(command.tier)
    BY <1>2 DEF TierArtifacts, Tiers
  <2>. QED
    BY <2>1, <2>2, <2>3 DEF Complete, Now, Looked, Exist
<1>7. v => \A i \in 1..Len(Order) :
             (phase' = "look" => i < at') /\ Looked(i) => i < at \/ Held(Now, Order[i])
  BY <1>3, <1>5
<1>8. v \in BOOLEAN
  OBVIOUS
<1>. HIDE DEF v
<1>. QED
  BY <1>1, <1>4, <1>6, <1>7, <1>8, CheckStep

LEMMA ReadMetaStep == ASSUME IInv, ReadMeta PROVE IInv'
<1>. DEFINE to == IF program = "stp" THEN "messages" ELSE "output"
            v  == bundle["meta"] # "broken"
<1>1. Step("meta", 1, to, v)
  BY DEF ReadMeta
<1>2. ~v => ~Complete(Now, command.tier)
  BY DEF Complete, Now
<1>3. phase' = to
  BY <1>1 DEF Step, Advance, IInv, Stages
<1>4. v \in BOOLEAN /\ 1 \in Nat
  OBVIOUS
<1>. QED
  BY <1>1, <1>2, <1>3, <1>4, CheckStep

LEMMA NoSamplesStep == ASSUME IInv, NoSamples PROVE IInv'
<1>1. Step("messages", 1, "output", TRUE)
  BY DEF NoSamples
<1>2. program = "stp"
  BY <1>1 DEF Step, IInv, Stages
<1>3. \A i \in 1..2 : bundle[Sample(i)] \in {"filled", "absent"}
  BY DEF NoSamples, Sample
<1>4. 1 \in Nat /\ TRUE \in BOOLEAN
  OBVIOUS
<1>. QED
  BY <1>1, <1>2, <1>3, <1>4, CheckStep

LEMMA ReadMessagesStep == ASSUME IInv, ReadMessages PROVE IInv'
<1>. DEFINE n == IF command.tier >= 2 THEN 2 ELSE 1
            v == MessagesValid(bundle[Sample(at)])
<1>1. Step("messages", n, "output", v)
  BY DEF ReadMessages, Sample
<1>2. /\ program = "stp" /\ command.tier \in Tiers /\ at \in Nat /\ at >= 1
      /\ phase = "messages" /\ Advance(n, "output")
  BY <1>1 DEF Step, IInv, Stages
<1>3. n \in Nat /\ \A i \in 1..2 : IsRead(i) => i \in 1..n
  BY <1>2 DEF IsRead, Tiers
<1>4. \A i \in 1..n : (phase' = "messages" => i < at') => i < at \/ i = at
  <2>. HIDE DEF n
  <2>. QED
    BY <1>2, <1>3, Advanced
<1>5. (at = 1 \/ command.tier >= 2) /\ (n = 1 \/ command.tier >= 2)
  BY <1>2 DEF IInv, Stages
<1>6. Sample(at) \in Artifacts
  BY <1>2 DEF Artifacts, Sample
<1>7. ~v => ~Complete(Now, command.tier)
  <2>1. Sample(at) \in Samples(command.tier)
    BY <1>5 DEF Samples, Sample
  <2>2. MessagesValid("filled")
    BY DEF MessagesValid, LacksFields
  <2>. QED
    BY <1>2, <2>1, <2>2 DEF Complete, Now
<1>8. v => bundle[Sample(at)] \in {"filled", "absent"}
  <2>1. bundle[Sample(at)] \in Values
    BY <1>6 DEF IInv, Stages
  <2>. QED
    BY <2>1 DEF Values, MessagesValid, LacksFields
<1>9. v \in BOOLEAN
  BY DEF MessagesValid
<1>. HIDE DEF n, v
<1>. QED
  BY <1>1, <1>2, <1>3, <1>4, <1>5, <1>7, <1>8, <1>9, CheckStep

LEMMA ReadOutputStep == ASSUME IInv, ReadOutput PROVE IInv'
<1>. DEFINE v == output.status \in {"absent", "pass"} \cup IF program = "stp" THEN {"pending"} ELSE {}
<1>1. Step("output", 1, "requirements", v)
  BY DEF ReadOutput
<1>2. v <=> output.status \in Accepted \cup {"absent"}
  BY DEF Accepted
<1>3. ~v => ~Complete(Now, command.tier)
  BY <1>2 DEF Complete, Now
<1>4. v \in BOOLEAN /\ 1 \in Nat
  OBVIOUS
<1>. HIDE DEF v
<1>5. phase' = "requirements"
  BY <1>1 DEF Step, Advance, IInv, Stages
<1>. QED
  BY <1>1, <1>2, <1>3, <1>4, <1>5, CheckStep

\* The end of a check keeps the invariant if its verdict is what it found.
LEMMA EndStep ==
  ASSUME IInv, phase = "requirements", EndCheck, at' = 1, UNCHANGED world,
         valid' \in BOOLEAN, valid' => valid, valid' <=> missing' = {},
         ~valid' => \E s \in during : ~Complete(s, command.tier),
         valid' /\ program = "stp" =>
           \A r \in 1..command.tier : \E s \in during : r \in s.output.checked
  PROVE  IInv'
<1>1. /\ phase' \in {"hash", "idle"}
      /\ phase' = "idle" => command.name = "check" /\ exit' = CheckExit(valid')
      /\ phase' = "hash" =>
           /\ command.name # "check" /\ exit' = exit
           /\ attestation' = [tier |-> command.tier, missing |-> missing',
                              hashes |-> <<>>, output |-> NoOutput]
      /\ UNCHANGED <<program, bundle, output, unedited, during, command>>
  BY DEF EndCheck, world
<1>2. command # Idle /\ exit = NoExit /\ command.name \in {"check", "attest"}
  BY DEF IInv, Stages
<1>3. Stages'
  BY <1>1, <1>2 DEF IInv, Stages, Now, NoOutput, Artifacts, CheckExit
<1>4. /\ UNCHANGED <<Order, Accepted, Hashed, TierArtifacts(command.tier)>>
      /\ \A s : Complete(s, command.tier)' <=> Complete(s, command.tier)
  BY <1>1, SameTier
<1>5. Found'
  <2>. SUFFICES ASSUME valid' PROVE Found'
    BY DEF Found
  <2>1. Running
    BY <1>2 DEF Running
  <2>. QED
    BY <1>1, <1>4, <2>1 DEF IInv, Found, Looked, IsRead
<1>6. Judged'
  BY <1>1, <1>4 DEF Judged
<1>7. Attested'
  <2>. SUFFICES ASSUME phase' = "hash" PROVE Attested'
    BY <1>1 DEF Attested, Attesting
  <2>1. attestation' = [tier |-> command.tier, missing |-> missing',
                        hashes |-> <<>>, output |-> NoOutput]
    BY <1>1
  <2>2. DOMAIN attestation'.hashes = {}
    BY <2>1
  <2>3. \A i \in 1..Len(Order') : ~(i < at')
    OBVIOUS
  <2>4. UNCHANGED command
    BY <1>1
  <2>. QED
    BY <2>1, <2>2, <2>3, <2>4 DEF Attested
<1>8. Placeholders'
  BY <1>1 DEF IInv, Placeholders, Artifacts
<1>. QED
  BY <1>3, <1>5, <1>6, <1>7, <1>8 DEF IInv

LEMMA AllOrNoneStep == ASSUME IInv, AllOrNone PROVE IInv'
<1>1. /\ phase = "requirements" /\ (program = "certify" \/ ~valid)
      /\ missing' = IF valid THEN {} ELSE TierRequirements(command.tier)
      /\ at' = 1 /\ UNCHANGED <<world, valid>> /\ EndCheck
  BY DEF AllOrNone
<1>2. /\ program \in {"certify", "stp"} /\ command.tier \in Tiers /\ valid \in BOOLEAN
      /\ Running
  BY <1>1 DEF IInv, Stages, Running
<1>3. 1 \in TierRequirements(command.tier)
  BY <1>2 DEF TierRequirements, Tiers
<1>4. ~valid => \E s \in during : ~Complete(s, command.tier)
  BY <1>2 DEF IInv, Judged
<1>5. ~(valid /\ program = "stp")
  BY <1>1
<1>. QED
  BY <1>1, <1>2, <1>3, <1>4, <1>5, EndStep

\* What is missing is missing from the output as it is now.
LEMMA CheckRequirementStep == ASSUME IInv, CheckRequirement PROVE IInv'
<1>. DEFINE tier == command.tier
            new  == {r \in TierRequirements(tier) : r = at /\ Unmet(r)}
<1>1. /\ phase = "requirements" /\ program = "stp" /\ valid /\ missing' = missing \cup new
      /\ UNCHANGED <<program, bundle, output, unedited, during, command>>
  BY DEF CheckRequirement, world
<1>2. /\ tier \in Tiers /\ at \in Nat /\ at >= 1 /\ Running /\ tier \in Nat
      /\ Now \in during /\ Now.bundle = bundle /\ Now.output = output
  BY <1>1 DEF IInv, Stages, Running, Now, Tiers
<1>3. TierRequirements(tier) = 1..tier
  BY <1>1, <1>2, TablesAreCumulative
<1>4. missing' # {} => \E s \in during : ~Complete(s, tier)
  <2>1. CASE missing # {}
    BY <1>2, <2>1 DEF IInv, Judged
  <2>2. CASE new # {}
    <3>1. PICK r \in 1..tier : output.status \in {"absent", "broken"} \/ r \notin output.checked
      BY <1>3, <2>2 DEF Unmet
    <3>2. ~Complete(Now, tier)
      BY <1>1, <1>2, <3>1 DEF Complete, Accepted
    <3>. QED
      BY <1>2, <3>2
  <2>. QED
    BY <1>1, <2>1, <2>2
<1>5. \A r \in 1..tier : r < at \/ r = at =>
        r \in missing' \/ \E s \in during : r \in s.output.checked
  <2>1. \A r \in 1..tier : r < at => r \in missing \/ \E s \in during : r \in s.output.checked
    BY <1>1, <1>2 DEF IInv, Found
  <2>2. \A r \in 1..tier : r = at => r \in new \/ r \in output.checked
    BY <1>3 DEF Unmet
  <2>. HIDE DEF new
  <2>. QED
    BY <1>1, <1>2, <2>1, <2>2
<1>. HIDE DEF new
<1>6. CASE at < tier
  <2>1. /\ phase' = "requirements" /\ at' = at + 1 /\ valid' = valid
        /\ UNCHANGED <<attestation, exit>>
    BY <1>1, <1>6 DEF CheckRequirement
  <2>2. Stages'
    BY <1>1, <1>2, <2>1 DEF IInv, Stages, Now, NoOutput, Artifacts
  <2>3. /\ UNCHANGED <<Order, Accepted, Hashed, TierArtifacts(command.tier)>>
        /\ \A s : Complete(s, command.tier)' <=> Complete(s, command.tier)
    BY <1>1, SameTier
  <2>4. \A r \in 1..tier : r < at' => r < at \/ r = at
    BY <1>2, <2>1
  <2>5. Found'
    BY <1>1, <1>2, <1>5, <2>1, <2>3, <2>4 DEF IInv, Found, Looked, IsRead
  <2>6. Judged'
    BY <1>1, <1>4, <2>1, <2>3 DEF Judged
  <2>7. Attested' /\ Placeholders'
    BY <1>1, <2>1 DEF IInv, Attested, Attesting, Placeholders, Artifacts
  <2>. QED
    BY <2>2, <2>5, <2>6, <2>7 DEF IInv
<1>7. CASE ~(at < tier)
  <2>1. at' = 1 /\ valid' = (missing' = {}) /\ EndCheck /\ UNCHANGED world
    BY <1>7 DEF CheckRequirement
  <2>2. \A r \in 1..tier : r < at \/ r = at
    BY <1>2, <1>7
  <2>3. valid' => \A r \in 1..tier : \E s \in during : r \in s.output.checked
    BY <1>5, <2>1, <2>2
  <2>. QED
    BY <1>1, <1>4, <2>1, <2>3, EndStep
<1>. QED
  BY <1>6, <1>7

\* What an artifact adds to the attestation is what the bundle holds now, and
\* what is there is not left out.
LEMMA Hashes ==
  ASSUME Stages, phase = "hash", NEW x,
         attestation = [tier |-> command.tier, missing |-> missing,
                        hashes |-> attestation.hashes, output |-> attestation.output]
  PROVE  LET att == WithHash(x) IN
         /\ att = [tier |-> command.tier, missing |-> missing,
                   hashes |-> att.hashes, output |-> att.output]
         /\ DOMAIN attestation.hashes \subseteq DOMAIN att.hashes
         /\ DOMAIN att.hashes \subseteq DOMAIN attestation.hashes \cup Hashed
         /\ \A a \in DOMAIN att.hashes :
              \/ att.hashes[a] = bundle[a]
              \/ a \in DOMAIN attestation.hashes /\ att.hashes[a] = attestation.hashes[a]
         /\ x \in Hashed /\ x # "output" /\ bundle[x] # "absent" => x \in DOMAIN att.hashes
<1>. DEFINE h == attestation.hashes
            held == DOMAIN h \cup ({x} \cap {y \in Hashed : bundle[y] # "absent"})
            more == [a \in held |-> IF a = x THEN bundle[x] ELSE h[a]]
<1>1. CASE x = "output"
  <2>. DEFINE o == IF program = "certify" THEN output ELSE NoOutput
  <2>1. WithHash(x) = [attestation EXCEPT !.output = o]
    BY <1>1 DEF WithHash
  <2>2. WithHash(x) = [tier |-> command.tier, missing |-> missing, hashes |-> h, output |-> o]
    BY <2>1
  <2>. QED
    BY <1>1, <2>2
<1>2. CASE x # "output"
  <2>1. WithHash(x) = [attestation EXCEPT !.hashes = more]
    BY <1>2 DEF WithHash
  <2>2. WithHash(x) = [tier |-> command.tier, missing |-> missing,
                       hashes |-> more, output |-> attestation.output]
    BY <2>1
  <2>3. DOMAIN more = held /\ \A a \in held : more[a] = IF a = x THEN bundle[x] ELSE h[a]
    OBVIOUS
  <2>. HIDE DEF more
  <2>. QED
    BY <1>2, <2>2, <2>3
<1>. QED
  BY <1>1, <1>2

LEMMA HashStep == ASSUME IInv, Hash PROVE IInv'
<1>1. /\ phase = "hash"
      /\ UNCHANGED <<program, bundle, output, unedited, during, command, valid, missing>>
      /\ \/ phase' = "idle" /\ at' = 1 /\ exit' = CRASH
         \/ /\ attestation' = WithHash(Order[at]) /\ Advance(Len(Order), "idle")
            /\ exit' = IF phase' = "idle" THEN AttestExit(attestation') ELSE exit
  BY DEF Hash, world
<1>2. /\ program \in {"certify", "stp"} /\ command.tier \in Tiers /\ valid \in BOOLEAN /\ Running
      /\ command.name = "attest" /\ exit = NoExit /\ at \in Nat /\ at >= 1
      /\ Now \in during /\ Now.bundle = bundle /\ Now.output = output
  BY <1>1 DEF IInv, Stages, Running, Now
<1>3. Len(Order) \in Nat
  BY <1>2, OrderIsComplete
<1>4. /\ at' \in Nat /\ at' >= 1 /\ phase' \in {"hash", "idle"}
      /\ exit' # CRASH => \A i \in 1..Len(Order) : (phase' = "hash" => i < at') => i < at \/ i = at
  <2>1. CASE exit' = CRASH /\ phase' = "idle" /\ at' = 1
    BY <2>1
  <2>2. CASE Advance(Len(Order), "idle")
    BY <1>1, <1>2, <1>3, <2>2, Advanced
  <2>. QED
    BY <1>1, <2>1, <2>2
<1>5. \/ exit' \in {CRASH, EXIT_PASS, EXIT_FAIL} /\ phase' = "idle"
      \/ exit' = NoExit /\ phase' = "hash"
  BY <1>1, <1>2, <1>4 DEF AttestExit
<1>6. Stages'
  BY <1>1, <1>2, <1>4, <1>5 DEF IInv, Stages, Now, NoOutput, Artifacts
<1>7. /\ UNCHANGED <<Order, Accepted, Hashed, TierArtifacts(command.tier)>>
      /\ \A s : Complete(s, command.tier)' <=> Complete(s, command.tier)
  BY <1>1, SameTier
<1>8. Found'
  BY <1>1, <1>2, <1>4, <1>7 DEF IInv, Found, Looked, IsRead
<1>9. Judged'
  BY <1>1, <1>2, <1>7 DEF IInv, Judged
<1>10. Placeholders'
  BY <1>1 DEF IInv, Placeholders, Artifacts
<1>11. Attested'
  <2>. SUFFICES ASSUME exit' # CRASH PROVE Attested'
    BY DEF Attested, Attesting
  <2>. DEFINE x   == Order[at]
              att == WithHash(x)
  <2>1. /\ attestation = [tier |-> command.tier, missing |-> missing,
                          hashes |-> attestation.hashes, output |-> attestation.output]
        /\ DOMAIN attestation.hashes \subseteq Hashed
        /\ \A a \in DOMAIN attestation.hashes :
             \E s \in during : s.bundle[a] = attestation.hashes[a]
        /\ \A i \in 1..Len(Order) :
             /\ i < at
             /\ Order[i] \in Hashed /\ Order[i] # "output"
             /\ \A s \in during : s.bundle[Order[i]] # "absent"
             => Order[i] \in DOMAIN attestation.hashes
    BY <1>1, <1>2 DEF IInv, Attested, Attesting
  <2>2. attestation' = att
    BY <1>1
  <2>3. /\ att = [tier |-> command.tier, missing |-> missing,
                  hashes |-> att.hashes, output |-> att.output]
        /\ DOMAIN attestation.hashes \subseteq DOMAIN att.hashes
        /\ DOMAIN att.hashes \subseteq DOMAIN attestation.hashes \cup Hashed
        /\ \A a \in DOMAIN att.hashes :
             \/ att.hashes[a] = bundle[a]
             \/ a \in DOMAIN attestation.hashes /\ att.hashes[a] = attestation.hashes[a]
        /\ x \in Hashed /\ x # "output" /\ bundle[x] # "absent" => x \in DOMAIN att.hashes
    BY <1>1, <2>1, Hashes DEF IInv
  <2>. HIDE DEF att
  <2>4. \A a \in DOMAIN att.hashes : \E s \in during : s.bundle[a] = att.hashes[a]
    BY <1>2, <2>1, <2>3
  <2>5. ASSUME NEW i \in 1..Len(Order), phase' = "hash" => i < at',
               Order[i] \in Hashed, Order[i] # "output",
               \A s \in during : s.bundle[Order[i]] # "absent"
        PROVE  Order[i] \in DOMAIN att.hashes
    <3>1. CASE i < at
      BY <2>1, <2>3, <2>5, <3>1
    <3>2. CASE i = at
      BY <1>2, <2>3, <2>5, <3>2
    <3>. QED
      BY <1>4, <2>5, <3>1, <3>2
  <2>. QED
    BY <1>1, <1>7, <2>1, <2>2, <2>3, <2>4, <2>5 DEF Attested
<1>. QED
  BY <1>6, <1>8, <1>9, <1>10, <1>11 DEF IInv

-----------------------------------------------------------------------------
\* IInv is inductive.
THEOREM Invariance == Spec => []IInv
<1>1. ASSUME IInv, [Next]_vars
      PROVE  IInv'
  <2>1. CASE \E tier \in Tiers, n \in 0..Len(Files) : Scaffold(tier, n)
    BY <1>1, <2>1, ScaffoldStep
  <2>2. CASE \/ \E tier \in Tiers : Fill(tier)
             \/ \E a \in Artifacts : \E content \in Contents(a) : Edit(a, content)
             \/ \E o \in Outputs : EditOutput(o)
    BY <1>1, <2>2, IntegratorStep
  <2>3. CASE \E name \in {"check", "attest"}, tier \in Tiers : Start(name, tier)
    BY <1>1, <2>3, StartStep
  <2>4. CASE Look \/ ReadMeta \/ NoSamples \/ ReadMessages \/ ReadOutput
    BY <1>1, <2>4, LookStep, ReadMetaStep, NoSamplesStep, ReadMessagesStep, ReadOutputStep
  <2>5. CASE AllOrNone \/ CheckRequirement \/ Hash
    BY <1>1, <2>5, AllOrNoneStep, CheckRequirementStep, HashStep
  <2>6. CASE UNCHANGED vars
    <3>1. UNCHANGED <<program, bundle, output, unedited, command, phase, at, valid, missing,
                      during, attestation, exit>>
      BY <2>6 DEF vars
    <3>2. /\ UNCHANGED <<Artifacts, Order, Accepted, Hashed, TierArtifacts(command.tier)>>
          /\ \A s : Complete(s, command.tier)' <=> Complete(s, command.tier)
      BY <3>1, SameTier
    <3>3. Stages'
      BY <1>1, <3>1, <3>2 DEF IInv, Stages, NoOutput, Now
    <3>4. Found'
      BY <1>1, <3>1, <3>2 DEF IInv, Found, Running, Looked, IsRead
    <3>5. Judged'
      BY <1>1, <3>1, <3>2 DEF IInv, Judged, Running
    <3>6. Attested' /\ Placeholders'
      BY <1>1, <3>1, <3>2 DEF IInv, Attested, Attesting, Running, Placeholders
    <3>. QED
      BY <3>3, <3>4, <3>5, <3>6 DEF IInv
  <2>. QED
    BY <1>1, <2>1, <2>2, <2>3, <2>4, <2>5, <2>6 DEF Next
<1>. QED
  BY <1>1, InitIInv, PTL DEF Spec

\* A command that ended and refused found nothing in order, and one that passed
\* found all that it asks for.
LEMMA Outcome ==
  ASSUME IInv
  PROVE  /\ Passed => Running /\ phase = "idle" /\ valid /\ missing = {} /\ command.tier \in Tiers
         /\ Refused => Running /\ phase = "idle" /\ ~valid /\ command.tier \in Tiers
<1>1. ASSUME NEW name \in {"check", "attest"}, Ended(name)
      PROVE  /\ Running /\ phase = "idle" /\ command.tier \in Tiers /\ command.name = name
             /\ name = "check" => exit = CheckExit(valid)
             /\ name = "attest" => attestation # NoAttestation /\ attestation.missing = missing
             /\ valid <=> missing = {}
  <2>1. command # Idle
    BY <1>1 DEF Ended, Idle
  <2>2. Running /\ command.tier \in Tiers
    BY <1>1, <2>1 DEF Ended, IInv, Stages, Running
  <2>3. name = "attest" =>
          attestation = [tier |-> command.tier, missing |-> missing,
                         hashes |-> attestation.hashes, output |-> attestation.output]
    BY <1>1, <2>2 DEF Ended, IInv, Attested, Attesting
  <2>4. name = "attest" => attestation.tier = command.tier /\ attestation.missing = missing
    BY <2>3
  <2>. QED
    BY <1>1, <2>2, <2>4 DEF Ended, IInv, Judged, NoAttestation, Tiers
<1>. QED
  BY <1>1 DEF Passed, Refused, CheckExit, Verifies

\* A command that found nothing wrong found everything it looked for.
LEMMA EverythingLooked ==
  ASSUME IInv, Running, valid, phase # "look", command.tier \in Tiers
  PROVE  \A x \in TierArtifacts(command.tier) \cup {"output"} : \E s \in during : Held(s, x)
<1>1. program \in {"certify", "stp"}
  BY DEF IInv, Stages
<1>2. TierArtifacts(command.tier) \subseteq Artifacts
  BY <1>1 DEF TierArtifacts, Artifacts, Tiers
<1>3. \A x \in TierArtifacts(command.tier) \cup {"output"} :
        \E i \in 1..Len(Order) : Order[i] = x /\ Looked(i)
  BY <1>1, <1>2, OrderIsComplete DEF Looked
<1>. QED
  BY <1>3 DEF IInv, Found

\* However the bundle changes while a command runs, in both programs and for
\* every tier: a refusal has a reason, a pass found everything at some time, and
\* of a bundle that nobody changed the verdict is exact.
THEOREM VerdictTrue == Spec => []VerdictWasTrue
<1>1. IInv => VerdictWasTrue
  <2>. SUFFICES ASSUME IInv PROVE VerdictWasTrue
    OBVIOUS
  <2>. DEFINE tier == command.tier
  <2>1. Refused => \E s \in during : ~Complete(s, tier)
    BY Outcome DEF IInv, Judged
  <2>2. ASSUME Passed
        PROVE  /\ program \in {"certify", "stp"}
               /\ \A a \in Wanted(tier) : \E s \in during : s.bundle[a] # "absent"
               /\ \E s \in during : s.bundle["meta"] # "broken"
               /\ \E s \in during : s.output # NoOutput
               /\ \E s \in during : s.output.status \in Accepted \cup {"absent"}
               /\ program = "stp" =>
                    /\ \A a \in Samples(tier) :
                         a \in Wanted(tier) /\ \E s \in during : s.bundle[a] \in {"filled", "absent"}
                    /\ \A r \in 1..tier : \E s \in during : r \in s.output.checked
    <3>1. Running /\ phase = "idle" /\ valid /\ missing = {} /\ tier \in Tiers
      BY <2>2, Outcome
    <3>2. program \in {"certify", "stp"}
      BY DEF IInv, Stages
    <3>3. Wanted(tier) = TierArtifacts(tier)
            /\ (program = "stp" => Samples(tier) \subseteq TierArtifacts(tier))
      BY <3>1, <3>2, TablesAreCumulative
    <3>4. \A x \in TierArtifacts(tier) \cup {"output"} : \E s \in during : Held(s, x)
      BY <3>1, <3>2, EverythingLooked DEF IInv
    <3>5. "output" \notin TierArtifacts(tier)
      BY <3>1 DEF TierArtifacts, Tiers
    <3>6. program = "stp" => \A a \in Samples(tier) :
            \E s \in during : s.bundle[a] \in {"filled", "absent"}
      <4>1. program = "stp" => \A i \in 1..2 : IsRead(i) =>
              \E s \in during : s.bundle[Sample(i)] \in {"filled", "absent"}
        BY <3>1 DEF IInv, Found
      <4>2. /\ 1 \in 1..2 /\ 2 \in 1..2 /\ IsRead(1) /\ (tier >= 2 => IsRead(2))
            /\ Sample(1) = "messages" /\ Sample(2) = "attest_messages"
        BY DEF IsRead, Sample
      <4>. QED
        BY <4>1, <4>2 DEF Samples
    <3>7. program = "stp" => \A r \in 1..tier : \E s \in during : r \in s.output.checked
      BY <3>1 DEF IInv, Found
    <3>8. /\ \E s \in during : s.bundle["meta"] # "broken"
          /\ \E s \in during : s.output.status \in Accepted \cup {"absent"}
      BY <3>1 DEF IInv, Found
    <3>9. /\ \A a \in Wanted(tier) : \E s \in during : s.bundle[a] # "absent"
          /\ \E s \in during : s.output # NoOutput
      BY <3>3, <3>4, <3>5 DEF Held
    <3>. QED
      BY <3>2, <3>3, <3>6, <3>7, <3>8, <3>9
  <2>3. ASSUME Passed, during = {Now} PROVE Complete(Now, tier)
    <3>1. output.status = "absent" => output = NoOutput
      BY DEF IInv, Stages
    <3>2. Now.bundle = bundle /\ Now.output = output
      BY DEF Now
    <3>3. \A a \in Wanted(tier) : bundle[a] # "absent"
      BY <2>2, <2>3, <3>2
    <3>4. bundle["meta"] # "broken" /\ output.status \in Accepted
      BY <2>2, <2>3, <3>1, <3>2
    <3>5. ASSUME program = "stp" PROVE /\ \A a \in Samples(tier) : bundle[a] \in {"filled"}
                                       /\ 1..tier \subseteq output.checked
      BY <2>2, <2>3, <3>2, <3>3, <3>5
    <3>. QED
      BY <3>2, <3>3, <3>4, <3>5 DEF Complete
  <2>. QED
    BY <2>1, <2>2, <2>3 DEF VerdictWasTrue
<1>. QED
  BY <1>1, Invariance, PTL

\* What an attestation names was there while the command ran, and an attestation
\* of an unchanged bundle that validates names all that the tier asks for.
THEOREM AttestedEvidence == Spec => []AttestedIsEvidence
<1>1. IInv => AttestedIsEvidence
  <2>. SUFFICES ASSUME IInv, Ended("attest") PROVE AttestedIsEvidence
    BY DEF AttestedIsEvidence
  <2>. DEFINE tier == command.tier
              h    == attestation.hashes
  <2>1. /\ Running /\ phase = "idle" /\ command.name = "attest" /\ exit # CRASH
        /\ tier \in Tiers /\ program \in {"certify", "stp"}
        /\ Now \in during /\ Now.bundle = bundle
    <3>1. command # Idle
      BY DEF Ended, Idle
    <3>. QED
      BY <3>1 DEF Ended, Running, IInv, Stages, Now
  <2>2. /\ attestation = [tier |-> tier, missing |-> missing,
                          hashes |-> attestation.hashes, output |-> attestation.output]
        /\ \A a \in DOMAIN h : \E s \in during : s.bundle[a] = h[a]
        /\ \A i \in 1..Len(Order) :
             /\ Order[i] \in Hashed /\ Order[i] # "output"
             /\ \A s \in during : s.bundle[Order[i]] # "absent"
             => Order[i] \in DOMAIN h
    BY <2>1 DEF IInv, Attested, Attesting
  <2>3. attestation.tier = tier /\ attestation.missing = missing
    BY <2>2
  <2>4. ASSUME during = {Now}, Verifies(attestation)
        PROVE  \A a \in Hashed \cap TierArtifacts(tier) : a \in DOMAIN h
    <3>1. valid
      BY <2>1, <2>3, <2>4 DEF Verifies, IInv, Judged
    <3>2. /\ "output" \notin TierArtifacts(tier)
          /\ TierArtifacts(tier) \subseteq Artifacts
      BY <2>1 DEF TierArtifacts, Artifacts, Tiers
    <3>3. \A a \in TierArtifacts(tier) : bundle[a] # "absent"
      BY <2>1, <2>4, <3>1, <3>2, EverythingLooked DEF Held
    <3>4. \A a \in TierArtifacts(tier) : \E i \in 1..Len(Order) : Order[i] = a
      BY <2>1, <3>2, OrderIsComplete
    <3>. QED
      BY <2>1, <2>2, <2>4, <3>2, <3>3, <3>4
  <2>5. /\ Wanted(tier) = TierArtifacts(tier) /\ "meta" \in TierArtifacts(tier)
        /\ program = "stp" => Samples(tier) \subseteq TierArtifacts(tier)
    BY <2>1, TablesAreCumulative
  <2>6. program = "certify" => Hashed = TierArtifacts(tier)
    BY DEF Hashed
  <2>7. program = "stp" => {"meta"} \cup Samples(tier) \subseteq Hashed
    BY <2>1 DEF Hashed, Samples
  <2>8. DOMAIN h \subseteq Hashed
    BY <2>1 DEF IInv, Attested, Attesting
  <2>. QED
    BY <2>1, <2>2, <2>3, <2>4, <2>5, <2>6, <2>7, <2>8 DEF AttestedIsEvidence
<1>. QED
  BY <1>1, Invariance, PTL

\* Whatever scaffolds wrote, died over or overwrote, their placeholders alone
\* are not certified.
THEOREM PlaceholdersFail == Spec => []UneditedNeverCertified
<1>1. IInv /\ VerdictWasTrue => UneditedNeverCertified
  <2>. SUFFICES ASSUME IInv, VerdictWasTrue, unedited, during = {Now}, Passed PROVE FALSE
    BY DEF UneditedNeverCertified
  <2>1. Complete(Now, command.tier) /\ Now.bundle = bundle /\ Now.output = output
    BY DEF VerdictWasTrue, Now
  <2>2. program \in {"certify", "stp"} /\ command.tier \in Tiers
    BY Outcome DEF IInv, Stages
  <2>3. output.status \in {"absent", "pending"}
    BY DEF IInv, Placeholders, NoOutput, Pending, Output
  <2>4. CASE program = "certify"
    BY <2>1, <2>3, <2>4 DEF Complete, Accepted
  <2>5. CASE program = "stp"
    <3>1. "messages" \in Samples(command.tier) /\ "messages" \in Artifacts
      BY <2>5 DEF Samples, Artifacts
    <3>2. bundle["messages"] \in {"absent", "generated"}
      BY <3>1 DEF IInv, Placeholders
    <3>. QED
      BY <2>1, <2>5, <3>1, <3>2 DEF Complete
  <2>. QED
    BY <2>2, <2>4, <2>5
<1>. QED
  BY <1>1, Invariance, VerdictTrue, PTL
=============================================================================
