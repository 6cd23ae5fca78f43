------------------------------- MODULE RaftLog ------------------------------
(***************************************************************************)
(* Why two logs that agree on the term of an entry agree on all entries    *)
(* before it: the inductive invariant behind LogMatching and               *)
(* LeaderAppendOnly.  It relates every log, in memory, on disk and in the  *)
(* messages, to the log of the leader of each term.                        *)
(***************************************************************************)
EXTENDS RaftElection

\* The log has an entry of that term at index k.
Has(log, k, term) == k \in DOMAIN log /\ log[k].term = term

SamePrefix(a, b, k) ==
    /\ k <= Len(a) /\ k <= Len(b)
    /\ \A l \in 1 .. k : a[l] = b[l]

\* n retains the end of the log full, and the term of its snapshot point is
\* that of the entry there.
Holds(n, full) ==
    /\ LastLogIndex(n) = Len(full)
    /\ \A k \in 1 .. Len(n.log) : n.log[k] = full[n.snapshot_index + k]
    /\ n.snapshot_term = IF n.snapshot_index = 0
                         THEN 0 ELSE full[n.snapshot_index].term

HistoryType ==
    /\ full_log \in [Node -> Seq(Entry)]
    /\ DOMAIN term_log \subseteq Nat
    /\ term_log \in [DOMAIN term_log -> Seq(Entry)]

\* Compaction and restarts lose nothing but what the snapshot covers.
LogsAreHeld == \A i \in Node : Holds(node[i], full_log[i])

\* A process that restarts finds the log it had.
LogIsSaved ==
    \A i \in Node : /\ disk[i].log = node[i].log
                    /\ disk[i].last_included_index = node[i].snapshot_index
                    /\ disk[i].last_included_term = node[i].snapshot_term

\* The terms with a leader are those with an election, a leader has the log
\* of its term, and a node that has won a term is not its candidate again.
LeadersHaveLogs ==
    /\ \A t \in DOMAIN term_log : \E e \in elected : e.term = t
    /\ \A e \in elected :
          /\ e.term \in DOMAIN term_log
          /\ e.term <= node[e.leader].current_term
          /\ e.term = node[e.leader].current_term =>
                node[e.leader].role # "Candidate"
    /\ \A i \in Node : node[i].role = "Leader" =>
          full_log[i] = term_log[node[i].current_term]

\* The entries of a log up to one of term t are those of the leader of t.
FollowsLeaders(log) ==
    \A k \in DOMAIN log : /\ log[k].term \in DOMAIN term_log
                          /\ SamePrefix(log, term_log[log[k].term], k)

LogsFollowLeaders ==
    /\ \A i \in Node : FollowsLeaders(full_log[i])
    /\ \A t \in DOMAIN term_log : FollowsLeaders(term_log[t])

\* A request carries a piece of the log of the leader of its term.
CarriesLog(m) ==
    /\ m.term \in DOMAIN term_log
    /\ LET log == term_log[m.term]
       IN  /\ m.prev_log_index + Len(m.entries) <= Len(log)
           /\ \A k \in 1 .. Len(m.entries) :
                 m.entries[k] = log[m.prev_log_index + k]
           /\ m.prev_log_index > 0 =>
                 m.prev_log_term = log[m.prev_log_index].term

MessagesCarryLogs ==
    \A m \in msgs : m.type = "AppendEntries" => CarriesLog(m)

\* Terms never decrease along a log, and end at the given term at the latest.
Sorted(log, term) ==
    /\ \A k \in DOMAIN log : log[k].term <= term
    /\ \A k, l \in DOMAIN log : k <= l => log[k].term <= log[l].term

LogsAreSorted ==
    /\ \A i \in Node : Sorted(full_log[i], node[i].current_term)
    /\ \A t \in DOMAIN term_log : Sorted(term_log[t], t)

\* Every log is made of pieces of the logs of the leaders, at every boundary
\* of the event loop (handle_append_entries, propose_command,
\* compact_committed and restore_from_snapshot together).
LogInv ==
    /\ HistoryType
    /\ LogsAreHeld
    /\ LogIsSaved
    /\ LeadersHaveLogs
    /\ LogsFollowLeaders
    /\ MessagesCarryLogs
    /\ LogsAreSorted
=============================================================================
