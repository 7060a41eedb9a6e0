--------------------------- MODULE ReplicatedLog ---------------------------
(***************************************************************************)
(* What the consensus core promises to the layers above: one sequence of   *)
(* committed entries that only grows, of which every server knows a        *)
(* prefix.  A server that restarts has forgotten how much of it is         *)
(* committed (commitIndex is not stored) and learns it again from the      *)
(* beginning.  Terms, votes, leaders and messages do not appear.           *)
(***************************************************************************)
EXTENDS Naturals, Sequences, SequencesExt

CONSTANTS Server, Entry

VARIABLES
    chosen,     \* the committed entries
    learned     \* what each server knows of them, a prefix

Init ==
    /\ chosen = <<>>
    /\ learned = [n \in Server |-> <<>>]

\* A server commits entries that nobody had committed before.
Choose(n) ==
    /\ Len(learned'[n]) > Len(chosen)
    /\ IsPrefix(chosen, learned'[n])
    /\ \A i \in (Len(chosen) + 1)..Len(learned'[n]) : learned'[n][i] \in Entry
    /\ chosen' = learned'[n]
    /\ learned' = [learned EXCEPT ![n] = chosen']

\* A server hears of committed entries.
Learn(n) ==
    /\ Len(learned'[n]) \in (Len(learned[n]) + 1)..Len(chosen)
    /\ learned' = [learned EXCEPT ![n] = SubSeq(chosen, 1, Len(learned'[n]))]
    /\ UNCHANGED chosen

\* A server restarts.
Forget(n) ==
    /\ learned[n] # <<>> /\ learned'[n] = <<>>
    /\ learned' = [learned EXCEPT ![n] = <<>>]
    /\ UNCHANGED chosen

Next == \E n \in Server : Choose(n) \/ Learn(n) \/ Forget(n)

Spec == Init /\ [][Next]_<<chosen, learned>>

=============================================================================
