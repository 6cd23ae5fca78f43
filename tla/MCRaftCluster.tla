--------------------------- MODULE MCRaftCluster ----------------------------
(***************************************************************************)
(* RaftCluster for TLC: symmetry, what two states have to agree on to have *)
(* the same future, and a later starting point.                            *)
(***************************************************************************)
EXTENDS RaftCommit, TLC

NodeSymmetry == Permutations(Node)

ValueSymmetry == Permutations(Value)

\* A response whose receiver has left its term, or its role of that term,
\* behind is ignored by every handler, now and later, and so is a refused
\* vote.  (Terms are durable where SaveSucceeds = {TRUE}.)
Spent(m) ==
    LET n == node[m.to]
    IN  \/ /\ m.type = "RequestVoteResponse"
           /\ \/ m.term < n.current_term
              \/ m.term = n.current_term /\ n.role # "Candidate"
              \/ m.term = n.current_term /\ ~m.vote_granted
        \/ /\ m.type = "AppendEntriesResponse"
           /\ \/ m.term < n.current_term
              \/ m.term = n.current_term /\ n.role = "Follower"

\* The messages that matter, and the number of the others: it counts where an
\* inbox can be full.
Network ==
    <<{m \in msgs : ~Spent(m)},
      IF Redelivery
      THEN NoIndex
      ELSE [i \in Node |-> Cardinality({m \in msgs : m.to = i /\ Spent(m)})]>>

\* Two states that differ only in the content of spent messages have the same
\* future.
View ==
    <<node, state_machine, disk, Network, restarts, cast, elected, over_ack>>

\* The same for properties that are about the histories of the logs.  An
\* acknowledgement of index 0 backs no entry: only the response that carries
\* it, sent in the step that records it, is compared with it.
HistoryView ==
    <<View, {a \in acks : a[3] > 0}, full_log, term_log>>

\* For properties that are not about the history of votes and elections: of
\* that history a step reads only the number of candidacies.
LogView ==
    <<node, state_machine, disk, Network, restarts, over_ack,
      Cardinality(Candidacies)>>

\* The cluster after a first election: First leads term 1 with the vote of
\* Second, and the third node has not heard of it.  The request to it is still
\* under way where messages are kept, and lost where they are not.  Of the
\* messages delivered already no copy is under way: where messages are kept
\* this starts the behaviours that do not deliver these two, the request to
\* Second and its answer, again.  The three nodes have different parts, so any
\* choice of the two will do, and symmetry would find nothing to identify.
First == CHOOSE i \in Node : TRUE

Second == CHOOSE i \in Node \ {First} : TRUE

InitLed ==
    LET stood  == StartElection(First, NewNode)
        asked  == CHOOSE m \in RequestVotes(First, stood) : m.to = Second
        leader == HandleRequestVoteResponse(First, stood,
                                      RequestVoteReply(Second, NewNode, asked))
    IN  /\ node = [i \in Node |->
                      CASE i = First  -> leader
                        [] i = Second -> HandleRequestVote(NewNode, asked)
                        [] OTHER      -> NewNode]
        /\ state_machine = [i \in Node |-> << >>]
        /\ disk = [i \in Node |-> FromNode(node[i], << >>)]
        /\ msgs = {m \in RequestVotes(First, stood) :
                      Redelivery /\ m.to # Second}
        /\ restarts = 0
        /\ cast = {<<First, First, 1>>, <<Second, First, 1>>}
        /\ elected = {[term |-> 1, leader |-> First,
                       votes |-> {First, Second}]}
        /\ over_ack = FALSE
        /\ acks = {}
        /\ full_log = [i \in Node |-> << >>]
        /\ term_log = [t \in {1} |-> << >>]

SpecLed == InitLed /\ [][Next]_vars
=============================================================================
