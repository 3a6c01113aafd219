----------------------------- MODULE PublicLog ------------------------------
(***************************************************************************)
(* What an epoch of the transparency log promises to those who rely on it: *)
(* the published entries only ever grow at the end, entry i carries seq    *)
(* i - 1, and append_entry returns only entries that are published.        *)
(* TransparencyLog implements this whatever writes are cut short and       *)
(* whichever writers die (TransparencyLog!PublicLogSpec).                  *)
(***************************************************************************)
EXTENDS Integers, Sequences

VARIABLES
  log,    \* the published entries, oldest first
  acked   \* the entries append_entry has returned to a caller

Init == log = <<>> /\ acked = {}

\* One publication may carry several entries: those of appends that died
\* before they refreshed the root are published by the next one.
Publish ==
  /\ Len(log') > Len(log)
  /\ \A i \in 1..Len(log) : log'[i] = log[i]
  /\ \A i \in (Len(log) + 1)..Len(log') : log'[i].seq = i - 1
  /\ UNCHANGED acked

Acknowledge ==
  /\ \E i \in 1..Len(log) : acked' = acked \cup {log[i]}
  /\ UNCHANGED log

Next == Publish \/ Acknowledge

Spec == Init /\ [][Next]_<<log, acked>>
=============================================================================
