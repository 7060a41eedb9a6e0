---------------------------- MODULE RaftHistory ----------------------------
(***************************************************************************)
(* Raft with two history variables, which the proofs about logs and        *)
(* commits speak of.  They record what a step has done and restrain no     *)
(* step: every step of Raft is one of HistoryNext, for exactly one value   *)
(* of the two variables.                                                   *)
(***************************************************************************)
EXTENDS Raft

VARIABLES
    leaderLog,      \* of every term that was won, the last log that its
                    \* Leader had as Leader
    accepted        \* who has held an entry of which term at which index
                    \* while that term was the server's own

historyVars == <<vars, leaderLog, accepted>>

\* Server n is the Leader of term t.
Leads(n, t) == state[n] = "Leader" /\ currentTerm[n] = t

\* The terms that have been won.
WonTerms == {e.term : e \in elections}

\* Server s has stored an entry of term t at index k, in that term.
Acceptance(s, t, k) == [server |-> s, term |-> t, index |-> k]

\* What the servers hold of their own current terms.
OwnTermEntries ==
    UNION {{Acceptance(s, currentTerm[s], k) :
               k \in {i \in DOMAIN log[s] : log[s][i].term = currentTerm[s]}} :
           s \in Server}

HistoryInit ==
    /\ Init
    /\ leaderLog = [t \in WonTerms |-> <<>>]
    /\ accepted = {}

RecordHistory ==
    /\ leaderLog' = [t \in WonTerms' |->
           IF \E n \in Server : Leads(n, t)'
           THEN log'[CHOOSE n \in Server : Leads(n, t)']
           ELSE leaderLog[t]]
    /\ accepted' = accepted \cup OwnTermEntries'

HistoryNext == Next /\ RecordHistory

HistorySpec == HistoryInit /\ [][HistoryNext]_historyVars

=============================================================================
