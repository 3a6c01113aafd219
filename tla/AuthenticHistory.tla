-------------------------- MODULE AuthenticHistory --------------------------
(***************************************************************************)
(* What the commands promise that check a copy of a linked history with    *)
(* the key of its publisher: the publisher only ever adds to the history,  *)
(* and a copy gets one verdict, which is for good.  It is called authentic *)
(* only if what was read is the beginning of what has been published.      *)
(*                                                                         *)
(* TransparencyChain, RegistryChain and ExternalAnchors implement this,    *)
(* whatever becomes of the copy on its way (AuthenticHistorySpec there).   *)
(***************************************************************************)
EXTENDS Integers, Sequences

VARIABLES
  history,   \* what is published, oldest first
  verdict,   \* "none" while there is none, "authentic", or "other"
  accepted   \* what was read, if it was called authentic

Init == verdict = "none" /\ accepted = <<>>

Publish ==
  /\ verdict = "none"
  /\ Len(history') = Len(history) + 1
  /\ \A i \in 1..Len(history) : history'[i] = history[i]
  /\ UNCHANGED <<verdict, accepted>>

Accept ==
  /\ verdict = "none" /\ verdict' = "authentic"
  /\ Len(accepted') <= Len(history)
  /\ accepted' = SubSeq(history, 1, Len(accepted'))
  /\ UNCHANGED history

\* Refused, not verified at all, or passed without the publisher's key.
Abstain ==
  /\ verdict = "none" /\ verdict' = "other"
  /\ UNCHANGED <<history, accepted>>

Next == Publish \/ Accept \/ Abstain

Spec == Init /\ [][Next]_<<history, verdict, accepted>>
=============================================================================
