-------------------------- MODULE RaftElectionProofs ------------------------
(***************************************************************************)
(* The type invariant of the cluster, and at most one leader per term, for *)
(* every cluster size.                                                     *)
(***************************************************************************)
EXTENDS RaftElection, RaftNodeProofs

(***************************************************************************)
(* Types, for every set of nodes and commands, every outcome of the saves  *)
(* and every bound.                                                        *)
(***************************************************************************)

\* The image a node saves is well typed and has the node's ballot.
LEMMA FromNodeType ==
    ASSUME NEW n \in NodeState, NEW executed \in Seq(Value)
    PROVE  /\ FromNode(n, executed) \in StorageSnapshot
           /\ FromNode(n, executed).current_term = n.current_term
           /\ FromNode(n, executed).voted_for = n.voted_for
BY DEF FromNode, StorageSnapshot, NodeState

LEMMA CommandsType ==
    ASSUME NEW n \in NodeState
    PROVE  Commands(UnappliedEntries(n)) \in Seq(Value)
<1>1. UnappliedEntries(n) \in Seq(Entry)
  BY UnappliedType
<1>2. ASSUME NEW s \in Seq(Entry) PROVE Commands(s) \in Seq(Value)
  <2>1. Len(s) \in Nat /\ \A k \in 1 .. Len(s) : s[k] \in Entry
    OBVIOUS
  <2>2. \A k \in 1 .. Len(s) : s[k].command \in Value
    BY <2>1 DEF Entry
  <2>. QED  BY <2>1, <2>2 DEF Commands
<1>. QED  BY <1>1, <1>2

LEMMA ExecutedType ==
    ASSUME NEW n \in NodeState, NEW executed \in Seq(Value)
    PROVE  Executed(executed, n) \in Seq(Value)
BY CommandsType DEF Executed

\* A restored node is a follower with the saved ballot.
LEMMA RestoreType ==
    ASSUME NEW image \in StorageSnapshot
    PROVE  /\ RestoreFromStorage(image) \in NodeState
           /\ RestoreFromStorage(image).current_term = image.current_term
           /\ RestoreFromStorage(image).voted_for = image.voted_for
           /\ RestoreFromStorage(image).role = "Follower"
<1> DEFINE loaded == [NewNode EXCEPT
                        !.current_term = image.current_term,
                        !.voted_for = image.voted_for,
                        !.log = image.log,
                        !.snapshot_index = image.last_included_index,
                        !.snapshot_term = image.last_included_term,
                        !.last_applied = image.last_included_index]
<1>1. /\ loaded \in NodeState
      /\ loaded.current_term = image.current_term
      /\ loaded.voted_for = image.voted_for
      /\ loaded.role = "Follower"
  BY NewNodeType DEF StorageSnapshot, NodeState, NewNode
<1>2. image.commit_index \in Nat
  BY DEF StorageSnapshot
<1>3. RestoreFromStorage(image) = CommitTo(loaded, image.commit_index)
  BY DEF RestoreFromStorage
<1> HIDE DEF loaded
<1>. QED  BY <1>1, <1>2, <1>3, CommitToType DEF SameBallot

-----------------------------------------------------------------------------
(* One pass of the loop, seen from the variables it writes.                *)

NodeTypeOK ==
    /\ node \in [Node -> NodeState]
    /\ state_machine \in [Node -> Seq(Value)]
    /\ disk \in [Node -> StorageSnapshot]

\* The node a pass of the loop leaves at i, up to its compaction; nothing
\* else changes but the saved image of i.
Settles(i, n) ==
    /\ \E x \in NodeState : SameBallot(x, n) /\ node' = [node EXCEPT ![i] = x]
    /\ SaveSucceeds = {TRUE} =>
          \E image \in StorageSnapshot :
              /\ image.current_term = n.current_term
              /\ image.voted_for = n.voted_for
              /\ disk' = [disk EXCEPT ![i] = image]

LEMMA PersistType ==
    ASSUME NodeTypeOK, NEW i \in Node, NEW n \in NodeState,
           NEW executed \in Seq(Value), Persist(i, n, executed)
    PROVE  NodeTypeOK' /\ Settles(i, n)
<1> DEFINE x == MaybeCompactLog(n)
<1>1. x \in NodeState /\ SameBallot(x, n)
  BY CompactType
<1>2. /\ FromNode(x, executed) \in StorageSnapshot
      /\ FromNode(x, executed).current_term = n.current_term
      /\ FromNode(x, executed).voted_for = n.voted_for
  <2> HIDE DEF x
  <2>. QED  BY <1>1, FromNodeType DEF SameBallot
<1>3. /\ node' = [node EXCEPT ![i] = x]
      /\ state_machine' = [state_machine EXCEPT ![i] = executed]
      /\ \E saved \in SaveSucceeds :
            disk' = IF saved THEN [disk EXCEPT ![i] = FromNode(x, executed)]
                             ELSE disk
  BY DEF Persist
<1> HIDE DEF x
<1>4. disk' \in {[disk EXCEPT ![i] = FromNode(x, executed)], disk}
  BY <1>3
<1>5. SaveSucceeds = {TRUE} => disk' = [disk EXCEPT ![i] = FromNode(x, executed)]
  BY <1>3
<1>6. NodeTypeOK'
  BY <1>1, <1>2, <1>3, <1>4 DEF NodeTypeOK
<1>7. Settles(i, n)
  BY <1>1, <1>2, <1>3, <1>5 DEF Settles
<1>. QED  BY <1>6, <1>7

LEMMA ApplyAndPersistType ==
    ASSUME NodeTypeOK, NEW i \in Node, NEW n \in NodeState,
           ApplyAndPersist(i, n)
    PROVE  NodeTypeOK' /\ Settles(i, n)
<1>1. MarkApplied(n) \in NodeState /\ SameBallot(MarkApplied(n), n)
  BY MarkAppliedType
<1>2. Executed(state_machine[i], n) \in Seq(Value)
  BY ExecutedType DEF NodeTypeOK
<1>3. Persist(i, MarkApplied(n), Executed(state_machine[i], n))
  BY DEF ApplyAndPersist
<1>4. NodeTypeOK' /\ Settles(i, MarkApplied(n))
  BY <1>1, <1>2, <1>3, PersistType
<1>. QED  BY <1>1, <1>4 DEF Settles, SameBallot

-----------------------------------------------------------------------------
(* The type invariant.                                                     *)

LEMMA MessageFields ==
    ASSUME NEW m \in Message
    PROVE  /\ m.from \in Node /\ m.to \in Node /\ m.term \in Nat
           /\ m.type = "RequestVote" => m \in RequestVoteMessage
           /\ m.type = "RequestVoteResponse" => m \in RequestVoteResponseMessage
           /\ m.type = "AppendEntries" => m \in AppendEntriesMessage
           /\ m.type = "AppendEntriesResponse" =>
                 m \in AppendEntriesResponseMessage
BY DEF Message, RequestVoteMessage, RequestVoteResponseMessage,
       AppendEntriesMessage, AppendEntriesResponseMessage

\* Nothing enters the network but what was in it or was just sent.
LEMMA NetworkType ==
    ASSUME msgs \subseteq Message, NEW out \in SUBSET Message
    PROVE  /\ Send(out) => msgs' \subseteq msgs \cup out
           /\ \A m \in msgs : Reply(m, out) => msgs' \subseteq msgs \cup out
BY DEF Send, Reply, Delivered

LEMMA InitType == Init => TypeOK
<1> SUFFICES ASSUME Init PROVE TypeOK
  OBVIOUS
<1>1. << >> \in Seq(Value)
  OBVIOUS
<1>2. NewNode \in NodeState /\ FromNode(NewNode, << >>) \in StorageSnapshot
  BY <1>1, NewNodeType, FromNodeType
<1>3. /\ node \in [Node -> NodeState]
      /\ state_machine \in [Node -> Seq(Value)]
      /\ disk \in [Node -> StorageSnapshot]
  BY <1>1, <1>2 DEF Init
<1>4. restarts \in 0 .. MaxRestarts
  BY RunnerAssumption DEF Init
<1>. QED  BY <1>3, <1>4 DEF Init, TypeOK

LEMMA NextType == TypeOK /\ [Next]_vars => TypeOK'
<1> SUFFICES ASSUME TypeOK, [Next]_vars PROVE TypeOK'
  OBVIOUS
<1>. NodeTypeOK /\ msgs \subseteq Message
  BY DEF TypeOK, NodeTypeOK
<1>1. ASSUME NEW i \in Node, TickIdle(i) PROVE TypeOK'
  <2>1. NodeTypeOK'
    BY <1>1, PersistType DEF TickIdle, NodeTypeOK
  <2>. QED  BY <1>1, <2>1 DEF TickIdle, TypeOK, NodeTypeOK
<1>2. ASSUME NEW i \in Node, TickHeartbeat(i) PROVE TypeOK'
  <2>1. NodeTypeOK'
    BY <1>2, PersistType DEF TickHeartbeat, NodeTypeOK
  <2>2. Heartbeats(i, node[i]) \in SUBSET Message
    BY HeartbeatsType DEF NodeTypeOK, Message
  <2>3. msgs' \subseteq Message
    BY <1>2, <2>2, NetworkType DEF TickHeartbeat
  <2>. QED  BY <1>2, <2>1, <2>3 DEF TickHeartbeat, TypeOK, NodeTypeOK
<1>3. ASSUME NEW i \in Node, Stand(i)
      PROVE  msgs' \subseteq Message /\ cast' \subseteq Node \X Node \X Nat
  <2>0. node[i] \in NodeState
    BY DEF NodeTypeOK
  <2>1. /\ StartElection(i, node[i]) \in NodeState
        /\ node[i].current_term + 1 \in Nat
    <3>1. StartElection(i, node[i]) \in NodeState
      BY <2>0, StartElectionType
    <3>2. node[i].current_term \in Nat
      BY <2>0 DEF NodeState
    <3>. QED  BY <3>1, <3>2
  <2>2. RequestVotes(i, StartElection(i, node[i])) \in SUBSET Message
    BY <2>1, RequestVotesType DEF Message
  <2>3. msgs' \subseteq Message
    BY <1>3, <2>2, NetworkType DEF Stand
  <2>4. cast' = cast \cup {<<i, i, node[i].current_term + 1>>}
    BY <1>3 DEF Stand
  <2>. QED  BY <2>1, <2>3, <2>4 DEF TypeOK
<1>4. ASSUME NEW i \in Node, TickElection(i) PROVE TypeOK'
  <2>1. StartElection(i, node[i]) \in NodeState
    BY StartElectionType DEF NodeTypeOK
  <2>2. NodeTypeOK'
    BY <1>4, <2>1, PersistType DEF TickElection, NodeTypeOK
  <2>3. msgs' \subseteq Message /\ cast' \subseteq Node \X Node \X Nat
    BY <1>3, <1>4 DEF TickElection
  <2>. QED  BY <1>4, <2>2, <2>3 DEF TickElection, TypeOK, NodeTypeOK
<1>5. ASSUME NEW i \in Node, ForceElection(i) PROVE TypeOK'
  <2>1. StartElection(i, node[i]) \in NodeState
    BY StartElectionType DEF NodeTypeOK
  <2>2. NodeTypeOK'
    BY <1>5, <2>1, ApplyAndPersistType DEF ForceElection
  <2>3. msgs' \subseteq Message /\ cast' \subseteq Node \X Node \X Nat
    BY <1>3, <1>5 DEF ForceElection
  <2>. QED  BY <1>5, <2>2, <2>3 DEF ForceElection, TypeOK, NodeTypeOK
<1>6. ASSUME NEW i \in Node, NEW command \in Value, Propose(i, command)
      PROVE  TypeOK'
  <2> DEFINE after == ProposeCommand(i, node[i], command)
  <2>1. after \in NodeState
    BY ProposeType DEF NodeTypeOK
  <2>2. Heartbeats(i, after) \in SUBSET Message
    BY <2>1, HeartbeatsType DEF Message
  <2>3. Send(Heartbeats(i, after)) /\ ApplyAndPersist(i, after)
    BY <1>6 DEF Propose
  <2> HIDE DEF after
  <2>4. NodeTypeOK' /\ msgs' \subseteq Message
    BY <2>1, <2>2, <2>3, ApplyAndPersistType, NetworkType
  <2>. QED  BY <1>6, <2>4 DEF Propose, TypeOK, NodeTypeOK
<1>7. ASSUME NEW i \in Node, Restart(i) PROVE TypeOK'
  <2> DEFINE restored == RestoreFromStorage(disk[i])
  <2>1. disk[i] \in StorageSnapshot /\ disk[i].state_machine_snapshot \in Seq(Value)
    BY DEF NodeTypeOK, StorageSnapshot
  <2>2. restored \in NodeState
    BY <2>1, RestoreType
  <2>3. /\ node' = [node EXCEPT ![i] = MarkApplied(restored)]
        /\ state_machine' = [state_machine EXCEPT ![i] =
              Executed(disk[i].state_machine_snapshot, restored)]
    BY <1>7 DEF Restart
  <2> HIDE DEF restored
  <2>4. /\ MarkApplied(restored) \in NodeState
        /\ Executed(disk[i].state_machine_snapshot, restored) \in Seq(Value)
    BY <2>1, <2>2, MarkAppliedType, ExecutedType
  <2>5. restarts' \in 0 .. MaxRestarts
    BY <1>7, RunnerAssumption DEF Restart, TypeOK
  <2>. QED  BY <1>7, <2>3, <2>4, <2>5 DEF Restart, TypeOK
<1>8. ASSUME NEW m \in msgs, ReceiveRequestVote(m) PROVE TypeOK'
  <2> DEFINE i == m.to
             n == node[i]
  <2>1. i \in Node /\ n \in NodeState /\ m \in RequestVoteMessage
        /\ m.from \in Node /\ m.term \in Nat
    BY <1>8, MessageFields DEF ReceiveRequestVote, NodeTypeOK
  <2>2. {RequestVoteReply(i, n, m)} \in SUBSET Message
    BY <2>1, RequestVoteReplyType DEF Message
  <2>3. HandleRequestVote(n, m) \in NodeState
    BY <2>1, HandleRequestVoteType
  <2>4. Reply(m, {RequestVoteReply(i, n, m)}) /\ ApplyAndPersist(i, HandleRequestVote(n, m))
    BY <1>8 DEF ReceiveRequestVote
  <2>5. cast' \in {cast, cast \cup {<<i, m.from, m.term>>}}
    BY <1>8 DEF ReceiveRequestVote
  <2> HIDE DEF i, n
  <2>6. NodeTypeOK' /\ msgs' \subseteq Message
    BY <2>1, <2>2, <2>3, <2>4, ApplyAndPersistType, NetworkType
  <2>7. cast' \subseteq Node \X Node \X Nat
    BY <2>1, <2>5 DEF TypeOK
  <2>. QED  BY <1>8, <2>6, <2>7 DEF ReceiveRequestVote, TypeOK, NodeTypeOK
<1>9. ASSUME NEW m \in msgs, ReceiveRequestVoteResponse(m) PROVE TypeOK'
  <2> DEFINE i == m.to
             n == node[i]
             after == HandleRequestVoteResponse(i, n, m)
             out == IF WinsElection(i, n, m) /\ HeartbeatInterval <= 1
                    THEN Heartbeats(i, after) ELSE {}
             e == [term |-> n.current_term, leader |-> i, votes |-> Tally(n, m)]
  <2>1. i \in Node /\ n \in NodeState /\ m \in RequestVoteResponseMessage
    BY <1>9, MessageFields DEF ReceiveRequestVoteResponse, NodeTypeOK
  <2>2. after \in NodeState
    BY <2>1, HandleRequestVoteResponseType
  <2>3. out \in SUBSET Message
    BY <2>1, <2>2, HeartbeatsType DEF Message
  <2>4. Tally(n, m) \in SUBSET Node
    BY <2>1 DEF Tally, NodeState, RequestVoteResponseMessage
  <2>5. e \in Election
    BY <2>1, <2>4 DEF Election, NodeState
  <2>6. Reply(m, out) /\ ApplyAndPersist(i, after)
    BY <1>9 DEF ReceiveRequestVoteResponse
  <2>7. elected' \in {elected, elected \cup {e}}
    BY <1>9 DEF ReceiveRequestVoteResponse
  <2> HIDE DEF i, n, after, out, e
  <2>8. NodeTypeOK' /\ msgs' \subseteq Message
    BY <2>1, <2>2, <2>3, <2>6, ApplyAndPersistType, NetworkType
  <2>9. elected' \subseteq Election
    BY <2>5, <2>7 DEF TypeOK
  <2>. QED  BY <1>9, <2>8, <2>9 DEF ReceiveRequestVoteResponse, TypeOK, NodeTypeOK
<1>10. ASSUME NEW m \in msgs, ReceiveAppendEntries(m) PROVE TypeOK'
  <2> DEFINE i == m.to
             n == node[i]
             after == HandleAppendEntries(n, m)
  <2>1. i \in Node /\ n \in NodeState /\ m \in AppendEntriesMessage
    BY <1>10, MessageFields DEF ReceiveAppendEntries, NodeTypeOK
  <2>2. after \in NodeState
    BY <2>1, HandleAppendEntriesType
  <2>3. {AppendEntriesReply(i, n, m)} \in SUBSET Message
    BY <2>1, AppendEntriesReplyType DEF Message
  <2>4. Reply(m, {AppendEntriesReply(i, n, m)}) /\ ApplyAndPersist(i, after)
    BY <1>10 DEF ReceiveAppendEntries
  <2>5. over_ack' \in BOOLEAN
    <3>1. over_ack' = (\/ over_ack
                       \/ /\ AcceptsEntries(n, m)
                          /\ LastLogIndex(after)
                               > m.prev_log_index + Len(m.entries))
      BY <1>10 DEF ReceiveAppendEntries
    <3> HIDE DEF n, after
    <3>. QED  BY <3>1, Zenon
  <2>7. acks' \in {acks, acks \cup {<<i, m.term, LastLogIndex(after)>>}}
    BY <1>10 DEF ReceiveAppendEntries
  <2> HIDE DEF i, n, after
  <2>6. NodeTypeOK' /\ msgs' \subseteq Message
    BY <2>1, <2>2, <2>3, <2>4, ApplyAndPersistType, NetworkType
  <2>8. acks' \subseteq Node \X Nat \X Nat
    BY <2>1, <2>2, <2>7, LastLogIndexType DEF TypeOK, AppendEntriesMessage
  <2>. QED  BY <1>10, <2>5, <2>6, <2>8 DEF ReceiveAppendEntries, TypeOK, NodeTypeOK
<1>11. ASSUME NEW m \in msgs, ReceiveAppendEntriesResponse(m) PROVE TypeOK'
  <2> DEFINE i == m.to
             n == node[i]
             after == HandleAppendEntriesResponse(i, n, m)
  <2>1. i \in Node /\ n \in NodeState /\ m \in AppendEntriesResponseMessage
    BY <1>11, MessageFields DEF ReceiveAppendEntriesResponse, NodeTypeOK
  <2>2. after \in NodeState
    BY <2>1, HandleAppendEntriesResponseType
  <2>3. Retry(i, n, after, m) \in SUBSET Message
    BY <2>1, RetryType DEF Message
  <2>4. Reply(m, Retry(i, n, after, m)) /\ ApplyAndPersist(i, after)
    BY <1>11 DEF ReceiveAppendEntriesResponse
  <2> HIDE DEF i, n, after
  <2>5. NodeTypeOK' /\ msgs' \subseteq Message
    BY <2>1, <2>2, <2>3, <2>4, ApplyAndPersistType, NetworkType
  <2>. QED  BY <1>11, <2>5 DEF ReceiveAppendEntriesResponse, TypeOK, NodeTypeOK
<1>12. ASSUME NEW m \in msgs, Lose(m) PROVE TypeOK'
  BY <1>12 DEF Lose, TypeOK
<1>13. CASE UNCHANGED vars
  BY <1>13 DEF vars, TypeOK
<1>. QED
  BY <1>1, <1>2, <1>4, <1>5, <1>6, <1>7, <1>8, <1>9, <1>10, <1>11, <1>12, <1>13
  DEF Next

\* Every reachable state is well typed: no handler of node.rs and no branch
\* of the runner's loop takes a node, a message or a saved image out of its
\* type, for any number of nodes and whatever the saves return.
THEOREM TypeCorrect == Spec => []TypeOK
<1>1. Init => TypeOK
  BY InitType
<1>2. TypeOK /\ [Next]_vars => TypeOK'
  BY NextType
<1>. QED  BY <1>1, <1>2, PTL DEF Spec

-----------------------------------------------------------------------------
(* Elections, when every save succeeds.  ElectionInv is inductive: a step  *)
(* of the loop changes the ballot of one node in one of the ways the       *)
(* lemmas below describe.                                                  *)

\* Two majorities of the cluster have a node in common.
LEMMA MajoritiesMeet ==
    ASSUME NEW i \in Node, NEW j \in Node,
           NEW A \in SUBSET Node, NEW B \in SUBSET Node,
           Cardinality(A) >= Majority(i), Cardinality(B) >= Majority(j)
    PROVE  \E u \in Node : u \in A /\ u \in B
<1>1. IsFiniteSet(Node) /\ Cardinality(Node) \in Nat
  BY NodeAssumption, FS_CardinalityType
<1>2. /\ Cardinality(Peers(i)) = Cardinality(Node) - 1
      /\ Cardinality(Peers(j)) = Cardinality(Node) - 1
  BY <1>1, FS_RemoveElement DEF Peers
<1>3. Cardinality(A) \in Nat /\ Cardinality(B) \in Nat
  BY <1>1, FS_Subset, FS_CardinalityType
<1> DEFINE c == Cardinality(Node)
<1>4. /\ Cardinality(A) >= c \div 2 + 1
      /\ Cardinality(B) >= c \div 2 + 1
  BY <1>1, <1>2 DEF Majority
<1>5. 2 * (c \div 2) + 1 >= c
  <2> HIDE DEF c
  <2>. QED  BY <1>1 DEF c
<1>6. Cardinality(A) + Cardinality(B) > Cardinality(Node)
  <2> c \in Nat
    BY <1>1
  <2> HIDE DEF c
  <2>1. c \div 2 \in Nat
    OBVIOUS
  <2>2. Cardinality(A) + Cardinality(B) > c
    BY <1>3, <1>4, <1>5, <2>1
  <2>. QED  BY <2>2 DEF c
<1>7. A \cap B # {}
  BY <1>1, <1>6, FS_MajoritiesIntersect
<1>. QED  BY <1>7

\* What a pass of the loop at i leaves: the ballot of n at i, saved, and the
\* other nodes as they were.
Ballot(i, n) ==
    /\ node'[i].current_term = n.current_term
    /\ node'[i].voted_for = n.voted_for
    /\ node'[i].role = n.role
    /\ node'[i].votes_received = n.votes_received
    /\ \A j \in Node \ {i} : node'[j] = node[j]
    /\ BallotIsSaved'

LEMMA SettlesBallot ==
    ASSUME TypeOK, BallotIsSaved, SaveSucceeds = {TRUE},
           NEW i \in Node, NEW n \in NodeState, Settles(i, n)
    PROVE  Ballot(i, n)
<1>1. PICK x \in NodeState : SameBallot(x, n) /\ node' = [node EXCEPT ![i] = x]
  BY DEF Settles
<1>2. PICK image \in StorageSnapshot :
          /\ image.current_term = n.current_term
          /\ image.voted_for = n.voted_for
          /\ disk' = [disk EXCEPT ![i] = image]
  BY DEF Settles
<1>3. node'[i] = x /\ \A j \in Node \ {i} : node'[j] = node[j]
  BY <1>1 DEF TypeOK
<1>4. disk'[i] = image /\ \A j \in Node \ {i} : disk'[j] = disk[j]
  BY <1>2 DEF TypeOK
<1>5. BallotIsSaved'
  BY <1>1, <1>2, <1>3, <1>4 DEF BallotIsSaved, SameBallot
<1>. QED  BY <1>1, <1>3, <1>5 DEF Ballot, SameBallot

\* A message stays earned: ledger and elections only grow.
LEMMA StaysEarned ==
    ASSUME MessagesAreEarned, cast \subseteq cast', elected \subseteq elected',
           NEW out, msgs' \subseteq msgs \cup out, \A m \in out : Earned(m)'
    PROVE  MessagesAreEarned'
BY DEF MessagesAreEarned, Earned, Won

-----------------------------------------------------------------------------
(* The ways a ballot changes.  Core is what they have to keep.             *)

Core == /\ LedgerMatchesBallots
        /\ RolesAreEarned
        /\ ElectionsHaveQuorums
        /\ VotesOnlyTwiceAfterLoss
        /\ ElectionSafety

\* Nothing but the role and the tally changes, the role to Follower, or the
\* tally of a candidate by votes it was given.
LEMMA KeepsBallot ==
    ASSUME TypeOK, Core, NEW i \in Node, NEW n \in NodeState, Ballot(i, n),
           n.current_term = node[i].current_term,
           n.voted_for = node[i].voted_for,
           n.role \in {node[i].role, "Follower"},
           n.role = "Candidate" =>
              \A u \in n.votes_received : <<u, i, n.current_term>> \in cast,
           UNCHANGED <<cast, elected>>
    PROVE  Core'
<1>1. LedgerMatchesBallots'
  <2>1. \A v \in cast : v[1] \in Node
    BY DEF TypeOK
  <2>2. \A j \in Node : /\ node'[j].current_term = node[j].current_term
                        /\ node'[j].voted_for = node[j].voted_for
                        /\ node'[j].role \in {node[j].role, "Follower"}
    BY DEF Ballot
  <2>3. \A v \in cast : LostTo(v[3], v[1]) => LostTo(v[3], v[1])'
    BY DEF LostTo
  <2>. QED  BY <2>1, <2>2, <2>3 DEF Core, LedgerMatchesBallots
<1>2. RolesAreEarned'
  BY DEF Core, RolesAreEarned, Ballot, Won
<1>3. ElectionsHaveQuorums' /\ VotesOnlyTwiceAfterLoss' /\ ElectionSafety'
  BY DEF Core, ElectionsHaveQuorums, VotesOnlyTwiceAfterLoss, ElectionSafety
<1>. QED  BY <1>1, <1>2, <1>3 DEF Core

\* A later term is seen: the vote of that term is still to be given.
LEMMA SeesLaterTerm ==
    ASSUME TypeOK, Core, NEW i \in Node, NEW n \in NodeState, Ballot(i, n),
           n.current_term > node[i].current_term,
           n.voted_for = Nil, n.role = "Follower",
           UNCHANGED <<cast, elected>>
    PROVE  Core'
<1>0. node[i].current_term \in Nat /\ n.current_term \in Nat
  BY DEF TypeOK, NodeState
<1>1. LedgerMatchesBallots'
  <2>1. \A v \in cast : v[1] \in Node /\ v[3] \in Nat
    BY DEF TypeOK
  <2>2. \A v \in cast' : v[3] <= node'[v[1]].current_term
    BY <1>0, <2>1 DEF Core, LedgerMatchesBallots, Ballot
  <2>3. \A j \in Node : node'[j].voted_for # Nil =>
          <<j, node'[j].voted_for, node'[j].current_term>> \in cast'
    BY DEF Core, LedgerMatchesBallots, Ballot
  <2>4. ASSUME NEW v \in cast', v[3] = node'[v[1]].current_term
        PROVE  \/ node'[v[1]].voted_for = v[2]
               \/ /\ v[2] = v[1]
                  /\ node'[v[1]].role = "Follower"
                  /\ LostTo(v[3], v[1])'
    <3>1. v[1] # i
      BY <1>0, <2>1, <2>4 DEF Core, LedgerMatchesBallots, Ballot
    <3>. QED  BY <2>1, <2>4, <3>1 DEF Core, LedgerMatchesBallots, Ballot, LostTo
  <2>. QED  BY <2>2, <2>3, <2>4 DEF LedgerMatchesBallots
<1>2. RolesAreEarned'
  BY DEF Core, RolesAreEarned, Ballot, Won
<1>3. ElectionsHaveQuorums' /\ VotesOnlyTwiceAfterLoss' /\ ElectionSafety'
  BY DEF Core, ElectionsHaveQuorums, VotesOnlyTwiceAfterLoss, ElectionSafety
<1>. QED  BY <1>1, <1>2, <1>3 DEF Core

\* A candidate or a leader follows another leader of its own term and
\* forgets the vote for itself; it lost the election of that term.
LEMMA FollowsWinner ==
    ASSUME TypeOK, Core, NEW i \in Node, NEW n \in NodeState, Ballot(i, n),
           node[i].role # "Follower",
           n.current_term = node[i].current_term,
           n.voted_for = Nil, n.role = "Follower",
           LostTo(n.current_term, i),
           UNCHANGED <<cast, elected>>
    PROVE  Core'
<1>1. LedgerMatchesBallots'
  <2>1. \A v \in cast : v[1] \in Node
    BY DEF TypeOK
  <2>2. \A j \in Node : node'[j].current_term = node[j].current_term
    BY DEF Ballot
  <2>3. \A v \in cast : LostTo(v[3], v[1]) => LostTo(v[3], v[1])'
    BY DEF LostTo
  <2>4. ASSUME NEW v \in cast, v[3] = node[v[1]].current_term, v[1] = i
        PROVE  v[2] = i /\ LostTo(v[3], i)
    <3>1. node[i].voted_for = i
      BY DEF Core, RolesAreEarned
    <3>2. node[i].voted_for = v[2]
      BY <2>4 DEF Core, LedgerMatchesBallots
    <3>. QED  BY <2>4, <3>1, <3>2
  <2>5. ASSUME NEW v \in cast, v[3] = node[v[1]].current_term
        PROVE  \/ node'[v[1]].voted_for = v[2]
               \/ /\ v[2] = v[1]
                  /\ node'[v[1]].role = "Follower"
                  /\ LostTo(v[3], v[1])'
    <3>1. CASE v[1] = i
      BY <2>3, <2>4, <2>5, <3>1 DEF Ballot
    <3>2. CASE v[1] # i
      BY <2>1, <2>3, <2>5, <3>2 DEF Core, LedgerMatchesBallots, Ballot
    <3>. QED  BY <3>1, <3>2
  <2>6. \A j \in Node : node'[j].voted_for # Nil =>
          <<j, node'[j].voted_for, node'[j].current_term>> \in cast'
    BY DEF Core, LedgerMatchesBallots, Ballot
  <2>7. \A v \in cast' : v[3] <= node'[v[1]].current_term
    BY <2>1, <2>2 DEF Core, LedgerMatchesBallots
  <2>. QED  BY <2>1, <2>2, <2>5, <2>6, <2>7 DEF LedgerMatchesBallots
<1>2. RolesAreEarned'
  BY DEF Core, RolesAreEarned, Ballot, Won
<1>3. ElectionsHaveQuorums' /\ VotesOnlyTwiceAfterLoss' /\ ElectionSafety'
  BY DEF Core, ElectionsHaveQuorums, VotesOnlyTwiceAfterLoss, ElectionSafety
<1>. QED  BY <1>1, <1>2, <1>3 DEF Core

\* A vote is given, to oneself in a new term (start_election) or to another
\* node in a term in which no vote is standing (handle_request_vote).
LEMMA GivesVote ==
    ASSUME TypeOK, Core, NEW i \in Node, NEW n \in NodeState, Ballot(i, n),
           NEW c \in Node, n.voted_for = c,
           \/ /\ n.current_term > node[i].current_term
              /\ n.role = "Follower" \/ c = i
           \/ /\ n.current_term = node[i].current_term
              /\ node[i].voted_for \in {Nil, c} /\ n.role = node[i].role
              /\ c # i,
           n.role = "Candidate" => c = i /\ n.votes_received = {i},
           n.role # "Leader" \/ n.current_term = node[i].current_term,
           cast' = cast \cup {<<i, c, n.current_term>>},
           UNCHANGED elected
    PROVE  Core'
<1>0. node[i].current_term \in Nat /\ n.current_term \in Nat
  BY DEF TypeOK, NodeState
<1> DEFINE given == <<i, c, n.current_term>>
<1>1. given[1] = i /\ given[2] = c /\ given[3] = n.current_term
  OBVIOUS
<1>2. \A v \in cast : /\ v[1] \in Node /\ v[2] \in Node /\ v[3] \in Nat
                      /\ v = <<v[1], v[2], v[3]>>
  BY DEF TypeOK
<1>3. \A t, j : LostTo(t, j) <=> LostTo(t, j)'
  BY DEF LostTo
\* An earlier vote of i in the term of this one.
<1>4. ASSUME NEW v \in cast, v[1] = i, v[3] = n.current_term
      PROVE  \/ v[2] = c
             \/ /\ v[2] = i /\ c # i
                /\ n.role = "Follower"
                /\ LostTo(v[3], i)
  <2>1. n.current_term = node[i].current_term
    BY <1>0, <1>4 DEF Core, LedgerMatchesBallots
  <2>2. /\ node[i].voted_for \in {Nil, c} /\ n.role = node[i].role /\ c # i
    BY <1>0, <2>1
  <2>3. \/ node[i].voted_for = v[2]
        \/ v[2] = i /\ node[i].role = "Follower" /\ LostTo(v[3], i)
    BY <1>4, <2>1 DEF Core, LedgerMatchesBallots
  <2>4. v[2] # Nil
    BY <1>2, NodeAssumption
  <2>. QED  BY <2>2, <2>3, <2>4
<1>5. LedgerMatchesBallots'
  <2>1. \A v \in cast' : v[3] <= node'[v[1]].current_term
    BY <1>0, <1>1, <1>2 DEF Core, LedgerMatchesBallots, Ballot
  <2>2. \A j \in Node : node'[j].voted_for # Nil =>
          <<j, node'[j].voted_for, node'[j].current_term>> \in cast'
    BY DEF Core, LedgerMatchesBallots, Ballot
  <2>3. ASSUME NEW v \in cast', v[3] = node'[v[1]].current_term
        PROVE  \/ node'[v[1]].voted_for = v[2]
               \/ /\ v[2] = v[1]
                  /\ node'[v[1]].role = "Follower"
                  /\ LostTo(v[3], v[1])'
    <3>1. CASE v = given
      BY <1>1, <3>1 DEF Ballot
    <3>2. CASE v \in cast /\ v[1] = i
      BY <1>3, <1>4, <2>3, <3>2 DEF Ballot
    <3>3. CASE v \in cast /\ v[1] # i
      BY <1>2, <1>3, <2>3, <3>3 DEF Core, LedgerMatchesBallots, Ballot
    <3>. QED  BY <3>1, <3>2, <3>3
  <2>. QED  BY <2>1, <2>2, <2>3 DEF LedgerMatchesBallots
<1>6. VotesOnlyTwiceAfterLoss'
  <2>1. ASSUME NEW v \in cast, v[1] = i, v[3] = n.current_term, v[2] # c
        PROVE  i \in {v[2], c} /\ LostTo(n.current_term, i)
    BY <1>4, <2>1
  <2> SUFFICES ASSUME NEW u \in cast', NEW v \in cast',
                      u[1] = v[1], u[3] = v[3], u[2] # v[2]
               PROVE  v[1] \in {u[2], v[2]} /\ LostTo(v[3], v[1])'
    BY DEF VotesOnlyTwiceAfterLoss, LostTo
  <2>2. CASE u \in cast /\ v \in cast
    BY <1>3, <2>2 DEF Core, VotesOnlyTwiceAfterLoss, LostTo
  <2>3. CASE u = given /\ v \in cast
    BY <1>1, <1>3, <2>1, <2>3
  <2>4. CASE v = given /\ u \in cast
    BY <1>1, <1>3, <2>1, <2>4
  <2>. QED  BY <1>1, <2>2, <2>3, <2>4
<1>7. RolesAreEarned'
  <2> SUFFICES ASSUME NEW j \in Node
               PROVE  /\ node'[j].role # "Follower" => node'[j].voted_for = j
                      /\ node'[j].role = "Candidate" =>
                            \A u \in node'[j].votes_received :
                                <<u, j, node'[j].current_term>> \in cast'
                      /\ node'[j].role = "Leader" =>
                            Won(node[j].current_term, j)'
    BY DEF RolesAreEarned
  <2>1. CASE j # i
    BY <2>1 DEF Core, RolesAreEarned, Ballot, Won
  <2>2. CASE j = i
    <3>1. n.role # "Follower" => c = i
      <4>1. node[i].role # "Follower" => node[i].voted_for = i
        BY DEF Core, RolesAreEarned
      <4>2. i # Nil
        BY NodeAssumption
      <4>3. CASE n.current_term > node[i].current_term
        BY <4>3, <1>0
      <4>4. CASE n.current_term = node[i].current_term
        BY <4>1, <4>2, <4>4, <1>0
      <4>. QED  BY <4>3, <4>4
    <3>2. n.role # "Leader"
      <4>1. CASE n.current_term > node[i].current_term
        BY <4>1, <1>0
      <4>2. CASE n.current_term = node[i].current_term
        BY <3>1, <4>2, <1>0
      <4>. QED  BY <4>1, <4>2
    <3>. QED  BY <2>2, <3>1, <3>2 DEF Ballot
  <2>. QED  BY <2>1, <2>2
<1>8. ElectionsHaveQuorums' /\ ElectionSafety'
  BY DEF Core, ElectionsHaveQuorums, ElectionSafety
<1>. QED  BY <1>5, <1>6, <1>7, <1>8 DEF Core

\* A candidate counts a majority and becomes leader.  Another winner of the
\* term would share a voter with it; only a node that voted for itself and
\* lost votes twice, and the candidate has not lost.
LEMMA Wins ==
    ASSUME TypeOK, Core, NEW i \in Node, NEW n \in NodeState, Ballot(i, n),
           node[i].role = "Candidate", n.role = "Leader",
           n.current_term = node[i].current_term,
           n.voted_for = node[i].voted_for,
           NEW tally \in SUBSET Node, Cardinality(tally) >= Majority(i),
           \A u \in tally : <<u, i, n.current_term>> \in cast,
           elected' = elected \cup {[term   |-> n.current_term,
                                     leader |-> i,
                                     votes  |-> tally]},
           UNCHANGED cast
    PROVE  Core'
<1> DEFINE t == n.current_term
           won == [term |-> t, leader |-> i, votes |-> tally]
<1>0. won.term = t /\ won.leader = i /\ won.votes = tally
  OBVIOUS
<1>1. \A v \in cast : v[1] \in Node
  BY DEF TypeOK
<1>2. \A term, j : LostTo(term, j) => LostTo(term, j)'
  BY DEF LostTo
<1>3. node[i].voted_for = i
  BY DEF Core, RolesAreEarned
<1>4. LedgerMatchesBallots'
  <2>1. \A j \in Node : /\ node'[j].current_term = node[j].current_term
                        /\ node'[j].voted_for = node[j].voted_for
                        /\ node[j].role = "Follower" => node'[j].role = "Follower"
    BY DEF Ballot
  <2>. QED  BY <1>1, <1>2, <2>1 DEF Core, LedgerMatchesBallots
<1>5. RolesAreEarned'
  <2> SUFFICES ASSUME NEW j \in Node
               PROVE  /\ node'[j].role # "Follower" => node'[j].voted_for = j
                      /\ node'[j].role = "Candidate" =>
                            \A u \in node'[j].votes_received :
                                <<u, j, node'[j].current_term>> \in cast'
                      /\ node'[j].role = "Leader" =>
                            Won(node[j].current_term, j)'
    BY DEF RolesAreEarned
  <2>1. CASE j # i
    BY <2>1 DEF Core, RolesAreEarned, Ballot, Won
  <2>2. CASE j = i
    BY <1>0, <1>3, <2>2 DEF Ballot, Won
  <2>. QED  BY <2>1, <2>2
<1>6. ElectionsHaveQuorums'
  BY <1>0 DEF Core, ElectionsHaveQuorums
<1>7. VotesOnlyTwiceAfterLoss'
  BY DEF Core, VotesOnlyTwiceAfterLoss
<1>8. ASSUME NEW f \in elected, f.term = t PROVE f.leader = i
  <2> SUFFICES ASSUME f.leader # i PROVE FALSE
    OBVIOUS
  <2>1. f.leader \in Node /\ f.votes \in SUBSET Node
    BY DEF TypeOK, Election
  <2>2. /\ Cardinality(f.votes) >= Majority(f.leader)
        /\ \A u \in f.votes : <<u, f.leader, f.term>> \in cast
    BY DEF Core, ElectionsHaveQuorums
  <2>3. PICK u \in Node : u \in tally /\ u \in f.votes
    BY <2>1, <2>2, MajoritiesMeet
  <2>4. <<u, i, t>> \in cast /\ <<u, f.leader, t>> \in cast
    BY <1>8, <2>2, <2>3
  <2>5. u \in {i, f.leader} /\ \E e \in elected : e.term = t /\ e.leader # u
    <3>1. \A a, b \in cast :
              (a[1] = b[1] /\ a[3] = b[3] /\ a[2] # b[2]) =>
                  /\ b[1] \in {a[2], b[2]}
                  /\ \E e \in elected : e.term = b[3] /\ e.leader # b[1]
      BY DEF Core, VotesOnlyTwiceAfterLoss
    <3>2. /\ <<u, i, t>>[1] = u /\ <<u, f.leader, t>>[1] = u
          /\ <<u, i, t>>[2] = i /\ <<u, f.leader, t>>[2] = f.leader
          /\ <<u, i, t>>[3] = t /\ <<u, f.leader, t>>[3] = t
      OBVIOUS
    <3> HIDE DEF t
    <3>. QED  BY <2>4, <3>1, <3>2
  <2>6. u # f.leader
    BY <1>8, <2>5 DEF Core, ElectionSafety
  <2>7. <<i, f.leader, t>> \in cast
    BY <2>4, <2>5, <2>6
  <2>8. node[i].voted_for = f.leader
    <3>1. \A v \in cast : v[3] = node[v[1]].current_term =>
              \/ node[v[1]].voted_for = v[2]
              \/ v[2] = v[1]
      BY DEF Core, LedgerMatchesBallots
    <3>2. /\ <<i, f.leader, t>>[1] = i /\ <<i, f.leader, t>>[2] = f.leader
          /\ <<i, f.leader, t>>[3] = t
      OBVIOUS
    <3>3. t = node[i].current_term
      OBVIOUS
    <3> HIDE DEF t
    <3>. QED  BY <2>7, <3>1, <3>2, <3>3
  <2>. QED  BY <1>3, <2>8
<1>9. ElectionSafety'
  <2> SUFFICES ASSUME NEW e \in elected', NEW f \in elected', e.term = f.term
               PROVE  e.leader = f.leader
    BY DEF ElectionSafety
  <2>1. CASE e \in elected /\ f \in elected
    BY <2>1 DEF Core, ElectionSafety
  <2>2. CASE e = won \/ f = won
    BY <1>0, <1>8, <2>2
  <2>. QED  BY <2>1, <2>2
<1>. QED  BY <1>4, <1>5, <1>6, <1>7, <1>9 DEF Core

-----------------------------------------------------------------------------
(* The invariant is inductive.                                             *)

LEMMA ElectionInvParts ==
    ElectionInv <=> BallotIsSaved /\ Core /\ MessagesAreEarned
BY DEF ElectionInv, Core

LEMMA ElectionInit == Init => ElectionInv
<1> SUFFICES ASSUME Init PROVE ElectionInv
  OBVIOUS
<1>1. \A i \in Node : /\ node[i].voted_for = Nil /\ node[i].role = "Follower"
                      /\ node[i].current_term = 0
                      /\ disk[i].current_term = 0 /\ disk[i].voted_for = Nil
  BY DEF Init, NewNode, FromNode
<1>. QED  BY <1>1 DEF Init, ElectionInv, BallotIsSaved, LedgerMatchesBallots,
              RolesAreEarned, MessagesAreEarned, ElectionsHaveQuorums,
              VotesOnlyTwiceAfterLoss, ElectionSafety

\* A candidacy sends requests and votes for itself in a new term.
LEMMA StandKeeps ==
    ASSUME TypeOK, ElectionInv, NEW i \in Node, Stand(i),
           Ballot(i, StartElection(i, node[i])), UNCHANGED elected
    PROVE  ElectionInv'
<1> DEFINE n == StartElection(i, node[i])
<1>1. /\ n \in NodeState /\ n.current_term = node[i].current_term + 1
      /\ n.voted_for = i /\ n.role = "Candidate" /\ n.votes_received = {i}
  BY StartElectionType DEF TypeOK
<1>2. node[i].current_term \in Nat
  BY DEF TypeOK, NodeState
<1>3. cast' = cast \cup {<<i, i, n.current_term>>}
  BY <1>1 DEF Stand
<1> DEFINE out == RequestVotes(i, n)
<1>4. msgs' \subseteq msgs \cup out
  BY DEF Stand, Send, Delivered
<1>5. \A m \in out : Earned(m)'
  BY DEF RequestVotes, Earned, Peers
<1> HIDE DEF n, out
<1>6. Core'
  <2>1. n.current_term > node[i].current_term
    BY <1>1, <1>2
  <2>2. Core /\ Ballot(i, n) /\ UNCHANGED elected
    BY ElectionInvParts DEF n
  <2>. QED  BY <1>1, <1>3, <2>1, <2>2, GivesVote
<1>7. MessagesAreEarned'
  <2>1. MessagesAreEarned /\ cast \subseteq cast' /\ elected \subseteq elected'
    BY <1>3, ElectionInvParts
  <2>. QED  BY <1>4, <1>5, <2>1, StaysEarned
<1>8. BallotIsSaved'
  BY DEF Ballot
<1>. QED  BY <1>6, <1>7, <1>8, ElectionInvParts DEF ElectionInv, Core

\* A leader's requests are earned.
LEMMA LeaderEarns ==
    ASSUME RolesAreEarned, UNCHANGED elected, NEW i \in Node, NEW out,
           node[i].role = "Leader",
           \A m \in out : /\ m \in AppendEntriesMessage
                          /\ m.from = i /\ m.to # i
                          /\ m.term = node[i].current_term
    PROVE  \A m \in out : Earned(m)'
<1>1. Won(node[i].current_term, i)
  BY DEF RolesAreEarned
<1>2. \A m \in out : m.type = "AppendEntries"
  BY DEF AppendEntriesMessage
<1>. QED  BY <1>1, <1>2 DEF Earned, Won

LEMMA ElectionNext ==
    ASSUME SaveSucceeds = {TRUE}, TypeOK, ElectionInv, [Next]_vars
    PROVE  ElectionInv'
<1>0. /\ NodeTypeOK /\ msgs \subseteq Message
      /\ BallotIsSaved /\ Core /\ MessagesAreEarned
      /\ \A i \in Node : node[i] \in NodeState
      /\ \A i \in Node : node[i].current_term \in Nat
  <2>1. \A i \in Node : node[i] \in NodeState
    BY DEF TypeOK
  <2>. QED  BY <2>1, ElectionInvParts DEF TypeOK, NodeTypeOK, NodeState
<1>1. ASSUME NEW i \in Node, TickIdle(i) PROVE ElectionInv'
  <2>1. Settles(i, node[i])
    BY <1>0, <1>1, PersistType DEF TickIdle, NodeTypeOK
  <2>2. Ballot(i, node[i])
    BY <1>0, <2>1, SettlesBallot
  <2>3. UNCHANGED <<msgs, cast, elected>>
    BY <1>1 DEF TickIdle
  <2>4. Core'
    <3>1. node[i].role = "Candidate" =>
            \A u \in node[i].votes_received :
                <<u, i, node[i].current_term>> \in cast
      BY <1>0 DEF Core, RolesAreEarned
    <3>. QED  BY <1>0, <2>2, <2>3, <3>1, KeepsBallot
  <2>5. MessagesAreEarned'
    BY <1>0, <2>3 DEF MessagesAreEarned, Earned, Won
  <2>. QED  BY <2>2, <2>4, <2>5 DEF Ballot, ElectionInv, Core
<1>2. ASSUME NEW i \in Node, TickHeartbeat(i) PROVE ElectionInv'
  <2> DEFINE out == Heartbeats(i, node[i])
  <2>1. Settles(i, node[i])
    BY <1>0, <1>2, PersistType DEF TickHeartbeat, NodeTypeOK
  <2>2. Ballot(i, node[i])
    BY <1>0, <2>1, SettlesBallot
  <2>3. UNCHANGED <<cast, elected>> /\ node[i].role = "Leader"
    BY <1>2 DEF TickHeartbeat
  <2>4. Core'
    BY <1>0, <2>2, <2>3, KeepsBallot
  <2>5. \A m \in out : Earned(m)'
    BY <1>0, <2>3, HeartbeatsType, LeaderEarns DEF Core
  <2>6. msgs' \subseteq msgs \cup out
    BY <1>2 DEF TickHeartbeat, Send, Delivered
  <2>7. MessagesAreEarned'
    <3> HIDE DEF out
    <3>. QED  BY <1>0, <2>3, <2>5, <2>6, StaysEarned
  <2>. QED  BY <2>2, <2>4, <2>7 DEF Ballot, ElectionInv, Core
<1>3. ASSUME NEW i \in Node, TickElection(i) PROVE ElectionInv'
  <2>1. StartElection(i, node[i]) \in NodeState
    BY <1>0, StartElectionType
  <2>2. Settles(i, StartElection(i, node[i]))
    BY <1>0, <1>3, <2>1, PersistType DEF TickElection, NodeTypeOK
  <2>3. Ballot(i, StartElection(i, node[i]))
    BY <1>0, <2>1, <2>2, SettlesBallot
  <2>. QED  BY <1>3, <2>3, StandKeeps DEF TickElection
<1>4. ASSUME NEW i \in Node, ForceElection(i) PROVE ElectionInv'
  <2>1. StartElection(i, node[i]) \in NodeState
    BY <1>0, StartElectionType
  <2>2. Settles(i, StartElection(i, node[i]))
    BY <1>0, <1>4, <2>1, ApplyAndPersistType DEF ForceElection
  <2>3. Ballot(i, StartElection(i, node[i]))
    BY <1>0, <2>1, <2>2, SettlesBallot
  <2>. QED  BY <1>4, <2>3, StandKeeps DEF ForceElection
<1>5. ASSUME NEW i \in Node, NEW command \in Value, Propose(i, command)
      PROVE  ElectionInv'
  <2> DEFINE after == ProposeCommand(i, node[i], command)
             out == Heartbeats(i, after)
  <2>1. after \in NodeState /\ SameBallot(after, node[i])
    BY <1>0, ProposeType
  <2>2. /\ ApplyAndPersist(i, after) /\ Send(out)
        /\ UNCHANGED <<cast, elected>> /\ node[i].role = "Leader"
    BY <1>5 DEF Propose
  <2>3. \A m \in out : /\ m \in AppendEntriesMessage /\ m.from = i /\ m.to # i
                       /\ m.term = node[i].current_term
    <3> HIDE DEF after
    <3>. QED  BY <2>1, HeartbeatsType DEF SameBallot
  <2> HIDE DEF after, out
  <2>4. Ballot(i, after)
    BY <1>0, <2>1, <2>2, ApplyAndPersistType, SettlesBallot
  <2>5. Core'
    BY <1>0, <2>1, <2>2, <2>4, KeepsBallot DEF SameBallot
  <2>6. \A m \in out : Earned(m)'
    BY <1>0, <2>2, <2>3, LeaderEarns DEF Core
  <2>7. msgs' \subseteq msgs \cup out
    BY <2>2 DEF Send, Delivered
  <2>8. MessagesAreEarned'
    BY <1>0, <2>2, <2>6, <2>7, StaysEarned
  <2>. QED  BY <2>4, <2>5, <2>8 DEF Ballot, ElectionInv, Core
<1>6. ASSUME NEW i \in Node, Restart(i) PROVE ElectionInv'
  <2> DEFINE restored == RestoreFromStorage(disk[i])
             n == MarkApplied(restored)
  <2>1. /\ restored \in NodeState
        /\ restored.current_term = node[i].current_term
        /\ restored.voted_for = node[i].voted_for
        /\ restored.role = "Follower"
    BY <1>0, RestoreType DEF BallotIsSaved, NodeTypeOK
  <2>2. node' = [node EXCEPT ![i] = n] /\ UNCHANGED <<disk, msgs, cast, elected>>
    BY <1>6 DEF Restart
  <2> HIDE DEF restored
  <2>3. n \in NodeState /\ SameBallot(n, restored)
    BY <2>1, MarkAppliedType
  <2> HIDE DEF n
  <2>4. node'[i] = n /\ \A j \in Node \ {i} : node'[j] = node[j]
    BY <2>2 DEF TypeOK
  <2>5. BallotIsSaved'
    BY <1>0, <2>1, <2>2, <2>3, <2>4 DEF BallotIsSaved, SameBallot
  <2>6. Ballot(i, n)
    BY <2>4, <2>5 DEF Ballot
  <2>7. Core'
    BY <1>0, <2>1, <2>2, <2>3, <2>6, KeepsBallot DEF SameBallot
  <2>8. MessagesAreEarned'
    BY <1>0, <2>2 DEF MessagesAreEarned, Earned, Won
  <2>. QED  BY <2>5, <2>7, <2>8 DEF ElectionInv, Core
<1>7. ASSUME NEW m \in msgs
      PROVE  /\ m.from \in Node /\ m.to \in Node /\ m.from # m.to
             /\ m.term \in Nat /\ node[m.to] \in NodeState
             /\ node[m.to].current_term \in Nat
  BY <1>0, MessageFields DEF MessagesAreEarned, Earned
<1>8. ASSUME NEW m \in msgs, ReceiveRequestVote(m) PROVE ElectionInv'
  <2> DEFINE i == m.to
             b == node[i]
             n == HandleRequestVote(b, m)
             reply == RequestVoteReply(i, b, m)
             grant == GrantsVote(b, m)
  <2>1. m \in RequestVoteMessage
    BY <1>0, <1>8, MessageFields DEF ReceiveRequestVote
  <2>2. /\ ApplyAndPersist(i, n) /\ Reply(m, {reply}) /\ UNCHANGED elected
        /\ cast' = IF grant THEN cast \cup {<<i, m.from, m.term>>} ELSE cast
    BY <1>8 DEF ReceiveRequestVote
  <2>3. /\ n \in NodeState
        /\ n.current_term = SeenTerm(b, m).current_term
        /\ n.role = SeenTerm(b, m).role
        /\ n.votes_received = SeenTerm(b, m).votes_received
        /\ n.voted_for = IF grant THEN m.from ELSE SeenTerm(b, m).voted_for
    BY <1>7, <2>1, HandleRequestVoteType
  <2>4. /\ m.term > b.current_term =>
              /\ SeenTerm(b, m).current_term = m.term
              /\ SeenTerm(b, m).voted_for = Nil
              /\ SeenTerm(b, m).role = "Follower"
        /\ ~(m.term > b.current_term) => SeenTerm(b, m) = b
    BY <1>7, SeenTermType
  <2>5. grant => /\ m.term >= b.current_term
                 /\ SeenTerm(b, m).voted_for \in {Nil, m.from}
    BY DEF GrantsVote
  <2>6. /\ reply.type = "RequestVoteResponse"
        /\ reply.from = i /\ reply.to = m.from
        /\ reply.term = SeenTerm(b, m).current_term
        /\ reply.vote_granted = grant
    BY DEF RequestVoteReply
  <2>7. /\ i \in Node /\ b \in NodeState /\ m.from \in Node /\ m.from # i
        /\ m.term \in Nat /\ b.current_term \in Nat /\ b = node[i]
    BY <1>7
  <2> HIDE DEF i, b, n, reply, grant
  <2>8. Ballot(i, n)
    BY <1>0, <2>2, <2>3, <2>7, ApplyAndPersistType, SettlesBallot
  <2>9. b.role # "Follower" => b.voted_for = i
    BY <1>0, <2>7 DEF Core, RolesAreEarned
  <2>10. b.role = "Candidate" =>
           \A u \in b.votes_received : <<u, i, b.current_term>> \in cast
    BY <1>0, <2>7 DEF Core, RolesAreEarned
  <2>11. Core'
    <3>1. CASE grant
      <4>1. n.current_term = m.term /\ n.voted_for = m.from
        BY <2>3, <2>4, <2>5, <2>7, <3>1
      <4>2. n.role # "Candidate"
        BY <2>3, <2>4, <2>5, <2>7, <2>9, <3>1, NodeAssumption
      <4>3. \/ n.current_term > b.current_term /\ n.role = "Follower"
            \/ /\ n.current_term = b.current_term
               /\ b.voted_for \in {Nil, m.from} /\ n.role = b.role
        BY <2>3, <2>4, <2>5, <2>7, <3>1
      <4>4. n.role # "Leader" \/ n.current_term = b.current_term
        BY <4>3
      <4>5. cast' = cast \cup {<<i, m.from, n.current_term>>}
        BY <2>2, <3>1, <4>1
      <4>. QED  BY <1>0, <2>2, <2>3, <2>7, <2>8, <4>1, <4>2, <4>3, <4>4, <4>5,
                   GivesVote
    <3>2. CASE ~grant /\ m.term > b.current_term
      BY <1>0, <2>2, <2>3, <2>4, <2>7, <2>8, <3>2, SeesLaterTerm
    <3>3. CASE ~grant /\ ~(m.term > b.current_term)
      <4>1. /\ n.current_term = b.current_term /\ n.voted_for = b.voted_for
            /\ n.role = b.role /\ n.votes_received = b.votes_received
            /\ UNCHANGED <<cast, elected>>
        BY <2>2, <2>3, <2>4, <3>3
      <4>. QED  BY <1>0, <2>3, <2>7, <2>8, <2>10, <4>1, KeepsBallot
    <3>. QED  BY <3>1, <3>2, <3>3
  <2>12. MessagesAreEarned'
    <3>1. grant => reply.term = m.term
      BY <2>4, <2>5, <2>6, <2>7
    <3>2. grant => <<i, m.from, m.term>> \in cast'
      BY <2>2
    <3> DEFINE out == {reply}
    <3>3. \A r \in out : Earned(r)'
      <4> SUFFICES ASSUME NEW r \in out PROVE Earned(r)'
        OBVIOUS
      <4>1. /\ r.type = "RequestVoteResponse" /\ r.from # r.to
            /\ r.vote_granted => <<r.from, r.to, r.term>> \in cast'
        BY <2>6, <2>7, <3>1, <3>2
      <4>. QED  BY <4>1 DEF Earned
    <3>4. msgs' \subseteq msgs \cup out
      BY <2>2 DEF Reply, Delivered
    <3>5. cast \subseteq cast' /\ elected \subseteq elected'
      BY <2>2
    <3> HIDE DEF out
    <3>. QED  BY <1>0, <3>3, <3>4, <3>5, StaysEarned
  <2>. QED  BY <2>8, <2>11, <2>12 DEF Ballot, ElectionInv, Core
<1>9. ASSUME NEW m \in msgs, ReceiveRequestVoteResponse(m) PROVE ElectionInv'
  <2> DEFINE i == m.to
             b == node[i]
             n == HandleRequestVoteResponse(i, b, m)
             wins == WinsElection(i, b, m)
             won == [term |-> b.current_term, leader |-> i, votes |-> Tally(b, m)]
             out == IF wins /\ HeartbeatInterval <= 1 THEN Heartbeats(i, n) ELSE {}
             counts == b.role = "Candidate" /\ m.term = b.current_term
  <2>1. m \in RequestVoteResponseMessage /\ m.type = "RequestVoteResponse"
    BY <1>0, <1>9, MessageFields DEF ReceiveRequestVoteResponse
  <2>2. /\ ApplyAndPersist(i, n) /\ Reply(m, out) /\ UNCHANGED cast
        /\ elected' = IF wins THEN elected \cup {won} ELSE elected
    BY <1>9 DEF ReceiveRequestVoteResponse
  <2>3. /\ n \in NodeState
        /\ m.term > b.current_term =>
              n.current_term = m.term /\ n.voted_for = Nil /\ n.role = "Follower"
        /\ ~(m.term > b.current_term) =>
              /\ n.current_term = b.current_term
              /\ n.voted_for = b.voted_for
              /\ IF counts
                 THEN /\ n.role = IF wins THEN "Leader" ELSE "Candidate"
                      /\ n.role = "Candidate" => n.votes_received = Tally(b, m)
                 ELSE n = b
    BY <1>7, <2>1, HandleRequestVoteResponseType
  <2>4. wins => counts /\ Cardinality(Tally(b, m)) >= Majority(i)
    BY DEF WinsElection
  <2>5. /\ i \in Node /\ b \in NodeState /\ m.from \in Node /\ m.from # i
        /\ m.term \in Nat /\ b.current_term \in Nat /\ b = node[i]
    BY <1>7
  <2>6. Tally(b, m) \in SUBSET Node
    BY <2>5, <2>1 DEF Tally, NodeState
  <2>7. counts => \A u \in Tally(b, m) : <<u, i, b.current_term>> \in cast
    <3>1. m.vote_granted => <<m.from, i, m.term>> \in cast
      BY <1>0, <2>1 DEF MessagesAreEarned, Earned
    <3>2. b.role = "Candidate" =>
            \A u \in b.votes_received : <<u, i, b.current_term>> \in cast
      BY <1>0, <2>5 DEF Core, RolesAreEarned
    <3>. QED  BY <3>1, <3>2 DEF Tally
  <2>8. b.role = "Candidate" =>
          \A u \in b.votes_received : <<u, i, b.current_term>> \in cast
    BY <1>0, <2>5 DEF Core, RolesAreEarned
  <2>9. \A h \in out : /\ wins /\ h \in AppendEntriesMessage
                       /\ h.from = i /\ h.to # i /\ h.term = n.current_term
    BY <2>3, <2>5, HeartbeatsType
  <2>10. won.term = b.current_term /\ won.leader = i
    OBVIOUS
  <2>11. counts => b.role = "Candidate" /\ ~(m.term > b.current_term)
    BY <2>5
  <2>12. ~counts => b.role # "Candidate" \/ m.term # b.current_term
    OBVIOUS
  <2>13. Ballot(i, n)
    <3> HIDE DEF i, b, n, out, wins, won, counts
    <3>. QED  BY <1>0, <2>2, <2>3, <2>5, ApplyAndPersistType, SettlesBallot
  <2>14. Core'
    <3>1. CASE wins
      <4>1. elected' = elected \cup {[term   |-> n.current_term,
                                      leader |-> i,
                                      votes  |-> Tally(b, m)]}
        BY <2>2, <2>3, <2>4, <2>11, <3>1
      <4> HIDE DEF i, b, n, out, wins, won, counts
      <4>. QED  BY <1>0, <2>2, <2>3, <2>4, <2>5, <2>6, <2>7, <2>11, <2>13,
                   <3>1, <4>1, Wins
    <3> HIDE DEF i, b, n, out, wins, won, counts
    <3>2. CASE ~wins /\ m.term > b.current_term
      BY <1>0, <2>2, <2>3, <2>5, <2>13, <3>2, SeesLaterTerm
    <3>3. CASE ~wins /\ ~(m.term > b.current_term) /\ counts
      BY <1>0, <2>2, <2>3, <2>5, <2>7, <2>11, <2>13, <3>3, KeepsBallot
    <3>4. CASE ~wins /\ ~(m.term > b.current_term) /\ ~counts
      BY <1>0, <2>2, <2>3, <2>5, <2>8, <2>13, <3>4, KeepsBallot
    <3>. QED  BY <3>1, <3>2, <3>3, <3>4
  <2> HIDE DEF i, b, n, out, wins, won, counts
  <2>15. MessagesAreEarned'
    <3>1. \A h \in out : Earned(h)'
      <4> SUFFICES ASSUME NEW h \in out PROVE Earned(h)'
        OBVIOUS
      <4>1. h.type = "AppendEntries"
        BY <2>9 DEF AppendEntriesMessage
      <4>2. h.term = b.current_term /\ won \in elected'
        BY <2>2, <2>3, <2>4, <2>9, <2>11
      <4>. QED  BY <2>9, <2>10, <4>1, <4>2 DEF Earned, Won
    <3>2. msgs' \subseteq msgs \cup out
      BY <2>2 DEF Reply, Delivered
    <3>3. cast \subseteq cast' /\ elected \subseteq elected'
      BY <2>2
    <3>. QED  BY <1>0, <3>1, <3>2, <3>3, StaysEarned
  <2>. QED  BY <2>13, <2>14, <2>15 DEF Ballot, ElectionInv, Core
<1>10. ASSUME NEW m \in msgs, ReceiveAppendEntries(m) PROVE ElectionInv'
  <2> DEFINE i == m.to
             b == node[i]
             n == HandleAppendEntries(b, m)
             reply == AppendEntriesReply(i, b, m)
             f == FollowLeader(b, m)
  <2>1. m \in AppendEntriesMessage /\ m.type = "AppendEntries"
    BY <1>0, <1>10, MessageFields DEF ReceiveAppendEntries
  <2>2. ApplyAndPersist(i, n) /\ Reply(m, {reply}) /\ UNCHANGED <<cast, elected>>
    BY <1>10 DEF ReceiveAppendEntries
  <2>3. /\ n \in NodeState
        /\ m.term < b.current_term => n = b
        /\ ~(m.term < b.current_term) => SameBallot(n, f)
    BY <1>7, <2>1, HandleAppendEntriesType
  <2>4. IF m.term > b.current_term \/ b.role # "Follower"
        THEN f.current_term = m.term /\ f.voted_for = Nil /\ f.role = "Follower"
        ELSE SameBallot(f, b)
    BY <1>7, <2>1, FollowLeaderType
  <2>5. /\ i \in Node /\ b \in NodeState /\ m.from \in Node /\ m.from # i
        /\ m.term \in Nat /\ b.current_term \in Nat /\ b = node[i]
    BY <1>7
  <2>6. LostTo(m.term, i)
    <3>1. Won(m.term, m.from)
      BY <1>0, <2>1 DEF MessagesAreEarned, Earned
    <3>. QED  BY <2>5, <3>1 DEF Won, LostTo
  <2>7. reply.type = "AppendEntriesResponse" /\ reply.from = i /\ reply.to = m.from
    BY DEF AppendEntriesReply
  <2> HIDE DEF i, b, n, reply, f
  <2>8. Ballot(i, n)
    BY <1>0, <2>2, <2>3, <2>5, ApplyAndPersistType, SettlesBallot
  <2>9. b.role = "Candidate" =>
          \A u \in b.votes_received : <<u, i, b.current_term>> \in cast
    BY <1>0, <2>5 DEF Core, RolesAreEarned
  <2>10. Core'
    <3>1. CASE m.term < b.current_term
      BY <1>0, <2>2, <2>3, <2>5, <2>8, <2>9, <3>1, KeepsBallot
    <3>2. CASE m.term > b.current_term
      <4>1. n.current_term = m.term /\ n.voted_for = Nil /\ n.role = "Follower"
        BY <2>3, <2>4, <2>5, <3>2 DEF SameBallot
      <4>. QED  BY <1>0, <2>2, <2>3, <2>5, <2>8, <3>2, <4>1, SeesLaterTerm
    <3>3. CASE m.term = b.current_term /\ b.role # "Follower"
      <4>1. n.current_term = m.term /\ n.voted_for = Nil /\ n.role = "Follower"
        BY <2>3, <2>4, <2>5, <3>3 DEF SameBallot
      <4>2. LostTo(n.current_term, i)
        BY <2>6, <4>1
      <4>. QED  BY <1>0, <2>2, <2>3, <2>5, <2>8, <3>3, <4>1, <4>2, FollowsWinner
    <3>4. CASE m.term = b.current_term /\ b.role = "Follower"
      <4>1. SameBallot(n, b)
        BY <2>3, <2>4, <2>5, <3>4 DEF SameBallot
      <4>. QED  BY <1>0, <2>2, <2>3, <2>5, <2>8, <2>9, <4>1, KeepsBallot
                DEF SameBallot
    <3>. QED  BY <2>5, <3>1, <3>2, <3>3, <3>4
  <2>11. MessagesAreEarned'
    <3>1. \A r \in {reply} : Earned(r)'
      BY <2>5, <2>7 DEF Earned
    <3>2. msgs' \subseteq msgs \cup {reply}
      BY <2>2 DEF Reply, Delivered
    <3>. QED  BY <1>0, <2>2, <3>1, <3>2, StaysEarned
  <2>. QED  BY <2>8, <2>10, <2>11 DEF Ballot, ElectionInv, Core
<1>11. ASSUME NEW m \in msgs, ReceiveAppendEntriesResponse(m) PROVE ElectionInv'
  <2> DEFINE i == m.to
             b == node[i]
             n == HandleAppendEntriesResponse(i, b, m)
             out == Retry(i, b, n, m)
  <2>1. m \in AppendEntriesResponseMessage
    BY <1>0, <1>11, MessageFields DEF ReceiveAppendEntriesResponse
  <2>2. ApplyAndPersist(i, n) /\ Reply(m, out) /\ UNCHANGED <<cast, elected>>
    BY <1>11 DEF ReceiveAppendEntriesResponse
  <2>3. /\ n \in NodeState
        /\ m.term > b.current_term =>
              n.current_term = m.term /\ n.voted_for = Nil /\ n.role = "Follower"
        /\ ~(m.term > b.current_term) => SameBallot(n, b)
    BY <1>7, <2>1, HandleAppendEntriesResponseType
  <2>4. \A r \in out : /\ b.role = "Leader" /\ r \in AppendEntriesMessage
                       /\ r.from = i /\ r.to = m.from /\ r.term = b.current_term
    BY <1>7, <2>1, RetryType
  <2>5. /\ i \in Node /\ b \in NodeState /\ m.from \in Node /\ m.from # i
        /\ m.term \in Nat /\ b.current_term \in Nat /\ b = node[i]
    BY <1>7
  <2> HIDE DEF i, b, n, out
  <2>6. Ballot(i, n)
    BY <1>0, <2>2, <2>3, <2>5, ApplyAndPersistType, SettlesBallot
  <2>7. b.role = "Candidate" =>
          \A u \in b.votes_received : <<u, i, b.current_term>> \in cast
    BY <1>0, <2>5 DEF Core, RolesAreEarned
  <2>8. Core'
    <3>1. CASE m.term > b.current_term
      BY <1>0, <2>2, <2>3, <2>5, <2>6, <3>1, SeesLaterTerm
    <3>2. CASE ~(m.term > b.current_term)
      BY <1>0, <2>2, <2>3, <2>5, <2>6, <2>7, <3>2, KeepsBallot DEF SameBallot
    <3>. QED  BY <3>1, <3>2
  <2>9. MessagesAreEarned'
    <3>1. ASSUME NEW r \in out PROVE Earned(r)'
      <4>1. Won(r.term, i)
        BY <1>0, <2>4, <2>5 DEF Core, RolesAreEarned
      <4>2. r.type = "AppendEntries" /\ r.from # r.to /\ r.from = i
        BY <2>4, <2>5 DEF AppendEntriesMessage
      <4>3. \E e \in elected' : e.term = r.term /\ e.leader = r.from
        BY <2>2, <4>1, <4>2 DEF Won
      <4>. QED  BY <4>2, <4>3 DEF Earned, Won
    <3>2. msgs' \subseteq msgs \cup out
      BY <2>2 DEF Reply, Delivered
    <3>. QED  BY <1>0, <2>2, <3>1, <3>2, StaysEarned
  <2>. QED  BY <2>6, <2>8, <2>9 DEF Ballot, ElectionInv, Core
<1>12. ASSUME NEW m \in msgs, Lose(m) PROVE ElectionInv'
  BY <1>12 DEF Lose, ElectionInv, BallotIsSaved, LedgerMatchesBallots,
       RolesAreEarned, MessagesAreEarned, Earned, Won, LostTo,
       ElectionsHaveQuorums, VotesOnlyTwiceAfterLoss, ElectionSafety
<1>13. CASE UNCHANGED vars
  BY <1>13 DEF vars, ElectionInv, BallotIsSaved, LedgerMatchesBallots,
       RolesAreEarned, MessagesAreEarned, Earned, Won, LostTo,
       ElectionsHaveQuorums, VotesOnlyTwiceAfterLoss, ElectionSafety
<1>. QED
  BY <1>1, <1>2, <1>3, <1>4, <1>5, <1>6, <1>8, <1>9, <1>10, <1>11, <1>12, <1>13
  DEF Next

-----------------------------------------------------------------------------

\* When every save succeeds, the ledger of votes, the nodes, their saved
\* images, the messages and the elections agree in every reachable state:
\* the inductive invariant that the other theorems rest on.
THEOREM ElectionInvariant ==
    ASSUME SaveSucceeds = {TRUE}
    PROVE  Spec => []ElectionInv
<1>1. Init => ElectionInv
  BY ElectionInit
<1>2. TypeOK /\ ElectionInv /\ [Next]_vars => ElectionInv'
  BY ElectionNext
<1>. QED  BY <1>1, <1>2, TypeCorrect, PTL DEF Spec

\* At most one node becomes leader in a term, in a cluster of any size, with
\* restarts, forced elections, lost, repeated and reordered messages, as long
\* as every save of Runner::persist succeeds before the process ends.
THEOREM OneLeaderPerTerm ==
    ASSUME SaveSucceeds = {TRUE}
    PROVE  Spec => []ElectionSafety
<1>1. ElectionInv => ElectionSafety
  BY DEF ElectionInv
<1>. QED  BY <1>1, ElectionInvariant, PTL

\* A node votes twice in a term only if it first stood itself and then lost
\* to another node: the vote that become_follower forgets within a term is
\* harmless.
THEOREM ForgottenVotesAreHarmless ==
    ASSUME SaveSucceeds = {TRUE}
    PROVE  Spec => []VotesOnlyTwiceAfterLoss
<1>1. ElectionInv => VotesOnlyTwiceAfterLoss
  BY DEF ElectionInv
<1>. QED  BY <1>1, ElectionInvariant, PTL
=============================================================================
