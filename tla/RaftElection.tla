---------------------------- MODULE RaftElection ----------------------------
(***************************************************************************)
(* Why a term has at most one leader: the inductive invariant behind       *)
(* ElectionSafety.  It says how the ledger of votes (cast), the elections  *)
(* (elected), the nodes, what they saved and the messages in flight fit    *)
(* together when every save succeeds.                                      *)
(***************************************************************************)
EXTENDS RaftCluster

Won(term, leader) == \E e \in elected : e.term = term /\ e.leader = leader

LostTo(term, i) == \E e \in elected : e.term = term /\ e.leader # i

\* A process that restarts finds the term and the vote it had.
BallotIsSaved ==
    \A i \in Node : /\ disk[i].current_term = node[i].current_term
                    /\ disk[i].voted_for = node[i].voted_for

\* The ledger holds a node's current vote and nothing of a later term.  A
\* vote of the current term that the node has forgotten is the one for
\* itself, and it forgot it when it followed another leader of that term.
LedgerMatchesBallots ==
    /\ \A v \in cast : v[3] <= node[v[1]].current_term
    /\ \A i \in Node : node[i].voted_for # Nil =>
          <<i, node[i].voted_for, node[i].current_term>> \in cast
    /\ \A v \in cast :
          v[3] = node[v[1]].current_term =>
              \/ node[v[1]].voted_for = v[2]
              \/ /\ v[2] = v[1]
                 /\ node[v[1]].role = "Follower"
                 /\ LostTo(v[3], v[1])

\* Candidates and leaders voted for themselves, a candidate counts only votes
\* that were given to it, and a leader won the election of its term.
RolesAreEarned ==
    \A i \in Node :
        /\ node[i].role # "Follower" => node[i].voted_for = i
        /\ node[i].role = "Candidate" =>
              \A u \in node[i].votes_received :
                  <<u, i, node[i].current_term>> \in cast
        /\ node[i].role = "Leader" => Won(node[i].current_term, i)

\* A granted vote is in the ledger, only the winner of a term sends
\* AppendEntries in it, and no node writes to itself.
Earned(m) ==
    /\ m.from # m.to
    /\ (m.type = "RequestVoteResponse" /\ m.vote_granted) =>
          <<m.from, m.to, m.term>> \in cast
    /\ m.type = "AppendEntries" => Won(m.term, m.from)

MessagesAreEarned == \A m \in msgs : Earned(m)

\* Every election was won with the votes of a majority.
ElectionsHaveQuorums ==
    \A e \in elected :
        /\ Cardinality(e.votes) >= Majority(e.leader)
        /\ \A u \in e.votes : <<u, e.leader, e.term>> \in cast

\* The ledger, the nodes, the messages and the saved images agree at every
\* boundary of the event loop (runner.rs, process_communication and run),
\* across restarts, delays and repeated deliveries.
ElectionInv ==
    /\ BallotIsSaved
    /\ LedgerMatchesBallots
    /\ RolesAreEarned
    /\ MessagesAreEarned
    /\ ElectionsHaveQuorums
    /\ VotesOnlyTwiceAfterLoss
    /\ ElectionSafety
=============================================================================
