----------------------------- MODULE RaftCommit -----------------------------
(***************************************************************************)
(* Why a committed entry stays: the inductive invariant behind             *)
(* LeaderCompleteness and the agreement of the state machines, for the     *)
(* executions in which no follower has acknowledged more than a request    *)
(* carried.                                                                *)
(***************************************************************************)
EXTENDS RaftLog

\* The leader of term t counts q for index k of its log.
Backs(q, t, k) ==
    \/ \E e \in elected : e.term = t /\ e.leader = q
    \/ \E a \in acks : a[1] = q /\ a[2] = t /\ k <= a[3]

\* An entry that its leader may commit: of its own term and on a majority.
Chosen(t, k) ==
    /\ t \in DOMAIN term_log
    /\ Has(term_log[t], k, t)
    /\ \E i \in Node :
          Cardinality({q \in Node : Backs(q, t, k)}) >= Majority(i)

\* Some leader between the terms t and u (exclusive) does not have entry k
\* of term t.
LostBetween(t, k, u) ==
    \E v \in DOMAIN term_log : t < v /\ v < u /\ ~Has(term_log[v], k, t)

\* What q backed: the entries of the leader's own term.
Backed(q) ==
    {b \in UNION {{t} \X DOMAIN term_log[t] : t \in DOMAIN term_log} :
        term_log[b[1]][b[2]].term = b[1] /\ Backs(q, b[1], b[2])}

\* An acknowledgement is of a term the follower has seen and of entries the
\* leader has.
AcksAreExact ==
    \A a \in acks : /\ a[2] <= node[a[1]].current_term
                    /\ a[2] \in DOMAIN term_log
                    /\ a[3] <= Len(term_log[a[2]])

\* A node keeps what it acknowledged, unless a leader it has heard of since
\* did not have it.
BackersKeep ==
    \A q \in Node : \A b \in Backed(q) :
        \/ Has(full_log[q], b[2], b[1])
        \/ LostBetween(b[1], b[2], node[q].current_term + 1)

\* What a voter had acknowledged the candidate it votes for has, unless a
\* leader between did not have it.
VoterKnows(v) ==
    LET c == v[2]
        u == v[3]
    IN  /\ u <= node[c].current_term
        /\ (/\ u \notin DOMAIN term_log
            /\ node[c].role = "Candidate" /\ node[c].current_term = u) =>
              \A b \in Backed(v[1]) : b[1] < u =>
                  \/ Has(full_log[c], b[2], b[1])
                  \/ LostBetween(b[1], b[2], u)

\* And so has the winner of an election.
WinnerKnows(e) ==
    \A q \in e.votes : \A b \in Backed(q) :
        b[1] < e.term => \/ Has(term_log[e.term], b[2], b[1])
                         \/ LostBetween(b[1], b[2], e.term)

VotersKnow ==
    /\ \A v \in cast : VoterKnows(v)
    /\ \A e \in elected : WinnerKnows(e)

\* A request for a vote describes the log of its sender, as long as the
\* sender is a candidate.
DescribesLog(m) ==
    LET c == node[m.from]
    IN  /\ m.term <= c.current_term
        /\ (c.role = "Candidate" /\ c.current_term = m.term) =>
              /\ m.last_log_index = LastLogIndex(c)
              /\ m.last_log_term = LastLogTerm(c)

\* The first c entries of log are entries up to a chosen one of a term up to
\* the given one.
Committed(log, c, term) ==
    \/ c = 0
    \/ \E t \in DOMAIN term_log :
          /\ t <= term
          /\ SamePrefix(log, term_log[t], c)
          /\ \E k \in DOMAIN term_log[t] : c <= k /\ Chosen(t, k)

CommitsAreChosen ==
    \A i \in Node :
        LET n == node[i]
        IN  /\ n.snapshot_index <= n.commit_index
            /\ n.commit_index <= LastLogIndex(n)
            /\ Committed(full_log[i], n.commit_index, n.current_term)
            /\ disk[i].commit_index = n.commit_index

\* What a leader counts was acknowledged in its term.
MatchesAreAcked ==
    \A i \in Node :
        node[i].role = "Leader" =>
            \A p \in Peers(i) :
                \/ node[i].match_index[p] <= node[i].commit_index
                \/ \E a \in acks : /\ a[1] = p /\ a[2] = node[i].current_term
                                   /\ a[3] = node[i].match_index[p]

\* The messages tell of logs, acknowledgements and commits that took place.
Backing(m) ==
    /\ m.type = "RequestVote" => DescribesLog(m)
    /\ (m.type = "AppendEntriesResponse" /\ m.success) =>
          <<m.from, m.term, m.match_index>> \in acks
    /\ m.type = "AppendEntries" =>
          Committed(term_log[m.term], m.leader_commit, m.term)

MessagesAreBacked == \A m \in msgs : Backing(m)

\* Acknowledgements, votes and commit indices fit the logs of the leaders.
CommitsFit ==
    /\ AcksAreExact
    /\ BackersKeep
    /\ VotersKnow
    /\ CommitsAreChosen
    /\ MatchesAreAcked
    /\ MessagesAreBacked

\* So they do at every boundary of the event loop (handle_request_vote,
\* try_advance_commit_index, handle_append_entries), as long as no
\* acknowledgement exceeds its request.
CommitInv == ~over_ack => CommitsFit

\* A machine that has executed the first c commands of a log.
Ran(executed, log, c) ==
    /\ Len(executed) = c
    /\ \A k \in 1 .. c : executed[k] = log[k].command

FollowsLog(i) ==
    /\ node[i].last_applied = node[i].commit_index
    /\ Ran(state_machine[i], full_log[i], node[i].commit_index)

\* Before the first restart every state machine has executed what is committed
\* in its log, in the order of the log, also what compaction dropped from it
\* (apply_committed_entries, compact_committed).
MachinesFollowLogs ==
    (~over_ack /\ restarts = 0) => \A i \in Node : FollowsLog(i)
\* What some machine has executed and no machine has exceeded: apply follows
\* commit within a pass, so this is all that is committed anywhere.
Longest ==
    CHOOSE s \in {state_machine[i] : i \in Node} :
        \A i \in Node : Len(state_machine[i]) <= Len(s)

Log == INSTANCE CommandLog WITH chosen <- Longest, executed <- state_machine

\* The cluster implements one log of commands that only grows and that every
\* machine executes in order (propose_command to apply_committed_entries),
\* until a follower acknowledges more than a request carried or a restart
\* makes a machine execute commands again.
ImplementsCommandLog ==
    /\ Log!Init
    /\ [][(~over_ack' /\ restarts' = 0) => Log!Next]_<<Longest, state_machine>>
=============================================================================
