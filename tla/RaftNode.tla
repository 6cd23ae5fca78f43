------------------------------ MODULE RaftNode ------------------------------
(***************************************************************************)
(* The consensus engine of one node (raftust-core/src/node.rs): the fields *)
(* of struct RaftNode as a record, and each of its methods as a function   *)
(* from the record before the call to the record after it.  What a method  *)
(* returns to the runner is a second operator next to it.                  *)
(*                                                                         *)
(* Abstractions.  Log indices, terms and HashMap sizes are unbounded       *)
(* naturals (u64/usize do not overflow in any run of the program).  A      *)
(* missing key of leader_next_index / leader_match_index is the value 0:   *)
(* a stored next index is never 0, and a match index of 0 counts for no    *)
(* log index.  The tick counters (election_elapsed, heartbeat_elapsed and  *)
(* the timeouts they are compared with) are not part of the record:        *)
(* LeaderTenure adds them, and RaftCluster lets a timer be due at any tick. *)
(***************************************************************************)
EXTENDS Integers, Sequences, FiniteSets

CONSTANTS
    Node,                \* the ids of the cluster's members
    Nil,                 \* Option::None for voted_for and leader_id
    Value,               \* the commands clients propose
    CompactionThreshold  \* config.log_compaction_threshold

ASSUME NodeAssumption ==
    /\ IsFiniteSet(Node)
    /\ Node # {}
    /\ Nil \notin Node

\* parse_config refuses a threshold of 0.
ASSUME ThresholdAssumption == CompactionThreshold \in Nat \ {0}

Entry == [term : Nat, command : Value]

Role == {"Follower", "Candidate", "Leader"}

NodeState ==
    [current_term   : Nat,
     voted_for      : Node \cup {Nil},
     log            : Seq(Entry),
     snapshot_index : Nat,
     snapshot_term  : Nat,
     commit_index   : Nat,
     last_applied   : Nat,
     role           : Role,
     leader_id      : Node \cup {Nil},
     next_index     : [Node -> Nat],
     match_index    : [Node -> Nat],
     votes_received : SUBSET Node]

\* The messages of types.rs; from and to are the envelope the transport adds.
RequestVoteMessage ==
    [type : {"RequestVote"}, from : Node, to : Node, term : Nat,
     last_log_index : Nat, last_log_term : Nat]
RequestVoteResponseMessage ==
    [type : {"RequestVoteResponse"}, from : Node, to : Node, term : Nat,
     vote_granted : BOOLEAN]
AppendEntriesMessage ==
    [type : {"AppendEntries"}, from : Node, to : Node, term : Nat,
     prev_log_index : Nat, prev_log_term : Nat, entries : Seq(Entry),
     leader_commit : Nat]
AppendEntriesResponseMessage ==
    [type : {"AppendEntriesResponse"}, from : Node, to : Node, term : Nat,
     success : BOOLEAN, match_index : Nat]

Message == RequestVoteMessage \cup RequestVoteResponseMessage
             \cup AppendEntriesMessage \cup AppendEntriesResponseMessage

NoIndex == [p \in Node |-> 0]

\* RaftNode::new
NewNode ==
    [current_term   |-> 0,
     voted_for      |-> Nil,
     log            |-> << >>,
     snapshot_index |-> 0,
     snapshot_term  |-> 0,
     commit_index   |-> 0,
     last_applied   |-> 0,
     role           |-> "Follower",
     leader_id      |-> Nil,
     next_index     |-> NoIndex,
     match_index    |-> NoIndex,
     votes_received |-> {}]

Peers(i) == Node \ {i}

Majority(i) == (Cardinality(Peers(i)) + 1) \div 2 + 1

Larger(a, b) == IF a >= b THEN a ELSE b
Smaller(a, b) == IF a <= b THEN a ELSE b

-----------------------------------------------------------------------------
(* Positions in the log.  The log holds the indices after the snapshot.    *)

LastLogIndex(n) == n.snapshot_index + Len(n.log)

\* term_at answers None outside the snapshot point and the log.
NoTerm == -1

TermAt(n, index) ==
    IF index = n.snapshot_index
    THEN n.snapshot_term
    ELSE IF index \in n.snapshot_index + 1 .. LastLogIndex(n)
         THEN n.log[index - n.snapshot_index].term
         ELSE NoTerm

LastLogTerm(n) == TermAt(n, LastLogIndex(n))

\* Clamped between the snapshot and the end of the log.
CommitTo(n, index) ==
    [n EXCEPT !.commit_index =
        Smaller(Larger(index, n.snapshot_index), LastLogIndex(n))]

-----------------------------------------------------------------------------
(* Roles.                                                                  *)

\* Also called for a request of the node's own term, by a candidate that
\* hears from the leader of that term: the vote it gave itself is forgotten.
BecomeFollower(n, term, leader) ==
    [n EXCEPT !.role = "Follower",
              !.current_term = term,
              !.voted_for = Nil,
              !.votes_received = {},
              !.next_index = NoIndex,
              !.match_index = NoIndex,
              !.leader_id = leader]

\* Mutant: the leader of the old term is still named.
StartElectionStillLed(i, n) ==
    [n EXCEPT !.role = "Candidate",
              !.current_term = @ + 1,
              !.voted_for = i,
              !.votes_received = {i}]

StartElection(i, n) ==
    [n EXCEPT !.role = "Candidate",
              !.current_term = @ + 1,
              !.voted_for = i,
              !.leader_id = Nil,
              !.votes_received = {i}]

\* Mutant: the last index counted from zero.
RequestVotesFromZero(i, n) ==
    {[type           |-> "RequestVote",
      from           |-> i,
      to             |-> p,
      term           |-> n.current_term,
      last_log_index |-> LastLogIndex(n) - 1,
      last_log_term  |-> LastLogTerm(n)] : p \in Peers(i)}

\* What start_election returns; n is the node after StartElection.
RequestVotes(i, n) ==
    {[type           |-> "RequestVote",
      from           |-> i,
      to             |-> p,
      term           |-> n.current_term,
      last_log_index |-> LastLogIndex(n),
      last_log_term  |-> LastLogTerm(n)] : p \in Peers(i)}

BecomeLeader(i, n) ==
    [n EXCEPT !.role = "Leader",
              !.leader_id = i,
              !.next_index =
                  [p \in Node |-> IF p = i THEN 0 ELSE LastLogIndex(n) + 1],
              !.match_index =
                  [p \in Node |-> IF p = i THEN LastLogIndex(n)
                                           ELSE n.snapshot_index]]

-----------------------------------------------------------------------------
(* Elections.                                                              *)

\* Mutant: a request of the same term clears the vote too.
SeenTermAgain(n, m) ==
    IF m.term >= n.current_term THEN BecomeFollower(n, m.term, Nil) ELSE n

\* A request of a later term makes the receiver a follower of that term,
\* whether or not it then grants its vote.
SeenTerm(n, m) ==
    IF m.term > n.current_term THEN BecomeFollower(n, m.term, Nil) ELSE n

\* Mutant: any candidate will do.
UpToDateAlways(n, m) == TRUE

\* Mutant: the length of the log decides, whatever its last term.
UpToDateByIndex(n, m) == m.last_log_index >= LastLogIndex(n)

UpToDate(n, m) ==
    \/ m.last_log_term > LastLogTerm(n)
    \/ /\ m.last_log_term = LastLogTerm(n)
       /\ m.last_log_index >= LastLogIndex(n)

\* Mutant: a vote already given does not count.
GrantsVoteTwice(n, m) == m.term >= n.current_term /\ UpToDate(n, m)

GrantsVote(n, m) ==
    /\ m.term >= n.current_term
    /\ SeenTerm(n, m).voted_for \in {Nil, m.from}
    /\ UpToDate(n, m)

HandleRequestVote(n, m) ==
    IF GrantsVote(n, m)
    THEN [SeenTerm(n, m) EXCEPT !.voted_for = m.from]
    ELSE SeenTerm(n, m)

RequestVoteReply(i, n, m) ==
    [type         |-> "RequestVoteResponse",
     from         |-> i,
     to           |-> m.from,
     term         |-> SeenTerm(n, m).current_term,
     vote_granted |-> GrantsVote(n, m)]

\* The candidate's tally with this response counted.
Tally(n, m) ==
    IF m.vote_granted THEN n.votes_received \cup {m.from}
                      ELSE n.votes_received

WinsElection(i, n, m) ==
    /\ n.role = "Candidate"
    /\ m.term = n.current_term
    /\ Cardinality(Tally(n, m)) >= Majority(i)

HandleRequestVoteResponse(i, n, m) ==
    IF m.term > n.current_term
    THEN BecomeFollower(n, m.term, Nil)
    ELSE IF n.role # "Candidate" \/ m.term # n.current_term
         THEN n
         ELSE LET counted == [n EXCEPT !.votes_received = Tally(n, m)]
              IN  IF WinsElection(i, n, m) THEN BecomeLeader(i, counted)
                                           ELSE counted

-----------------------------------------------------------------------------
(* Log replication, follower side.                                         *)

\* Mutant: the term of the entry before the new ones is not compared.
LogMatchesAnyTerm(n, m) ==
    m.prev_log_index \in n.snapshot_index .. LastLogIndex(n)

\* The three refusals of handle_append_entries, negated.
LogMatches(n, m) ==
    /\ m.prev_log_index >= n.snapshot_index
    /\ m.prev_log_index <= LastLogIndex(n)
    /\ m.prev_log_index > 0 => TermAt(n, m.prev_log_index) = m.prev_log_term

AcceptsEntries(n, m) == m.term >= n.current_term /\ LogMatches(n, m)

\* Mutant: the log ends with the request, also where they agree.
MergeTruncates(n, m) ==
    SubSeq(n.log, 1, m.prev_log_index - n.snapshot_index) \o m.entries

\* The loop over req.entries.  An entry is kept while the log agrees with the
\* request on the term of every position up to it; from the first position
\* that differs or is missing on, the request's entries replace the log.
\* When every position agrees the log stays as it is, its tail included.
MergeEntries(n, m) ==
    LET base == m.prev_log_index - n.snapshot_index
        agrees(k) == /\ base + k <= Len(n.log)
                     /\ n.log[base + k].term = m.entries[k].term
        kept(x) == \A k \in 1 .. Len(m.entries) : base + k <= x => agrees(k)
    IN  IF \A k \in 1 .. Len(m.entries) : agrees(k)
        THEN n.log
        ELSE [x \in 1 .. base + Len(m.entries) |->
                 IF kept(x) THEN n.log[x] ELSE m.entries[x - base]]

\* The follower the sender of an accepted request makes of the receiver.
FollowLeader(n, m) ==
    IF m.term > n.current_term \/ n.role # "Follower"
    THEN BecomeFollower(n, m.term, m.from)
    ELSE [n EXCEPT !.leader_id = m.from]

HandleAppendEntries(n, m) ==
    IF m.term < n.current_term
    THEN n
    ELSE LET f == FollowLeader(n, m)
             merged == [f EXCEPT !.log = MergeEntries(f, m)]
         IN  IF ~LogMatches(n, m)
             THEN f
             ELSE IF m.leader_commit > merged.commit_index
                  THEN CommitTo(merged, Smaller(m.leader_commit,
                                                LastLogIndex(merged)))
                  ELSE merged

\* The match_index of a refusal, by the reason of the refusal.
RefusalIndex(n, m) ==
    CASE m.term < n.current_term -> LastLogIndex(n)
      [] m.term >= n.current_term /\ m.prev_log_index < n.snapshot_index
            -> n.snapshot_index
      [] m.term >= n.current_term /\ m.prev_log_index > LastLogIndex(n)
            -> LastLogIndex(n)
      [] OTHER -> m.prev_log_index - 1

\* A success acknowledges the whole log of the receiver, not only the
\* entries the request carried.
AppendEntriesReply(i, n, m) ==
    [type        |-> "AppendEntriesResponse",
     from        |-> i,
     to          |-> m.from,
     term        |-> Larger(m.term, n.current_term),
     success     |-> AcceptsEntries(n, m),
     match_index |-> IF AcceptsEntries(n, m)
                     THEN LastLogIndex(HandleAppendEntries(n, m))
                     ELSE RefusalIndex(n, m)]

-----------------------------------------------------------------------------
(* Log replication, leader side.                                           *)

\* The request for peer p, or none: the leader stays silent towards a peer
\* whose next index is not after the snapshot, or is past the end of the log
\* by more than one.
BuildAppendEntries(i, n, p) ==
    LET next == IF n.next_index[p] = 0 THEN 1 ELSE n.next_index[p]
        prev == next - 1
    IN  IF next <= n.snapshot_index \/ TermAt(n, prev) = NoTerm
        THEN {}
        ELSE {[type           |-> "AppendEntries",
               from           |-> i,
               to             |-> p,
               term           |-> n.current_term,
               prev_log_index |-> prev,
               prev_log_term  |-> TermAt(n, prev),
               entries        |-> SubSeq(n.log, next - n.snapshot_index,
                                         Len(n.log)),
               leader_commit  |-> n.commit_index]}

Heartbeats(i, n) == UNION {BuildAppendEntries(i, n, p) : p \in Peers(i)}

\* The indices try_advance_commit_index may commit: of the leader's own term
\* and covered by the match index of a majority.
Committable(i, n) ==
    {index \in n.commit_index + 1 .. LastLogIndex(n) :
        /\ TermAt(n, index) = n.current_term
        /\ Cardinality({p \in Node : n.match_index[p] >= index})
             >= Majority(i)}

TryAdvanceCommit(i, n) ==
    LET indices == Committable(i, n)
    IN  IF indices = {}
        THEN n
        ELSE CommitTo(n, CHOOSE x \in indices : \A y \in indices : x >= y)

FromCurrentFollower(n, m) == n.role = "Leader" /\ m.term = n.current_term

\* Mutant: a refusal leaves next_index alone.
HandleResponseWithoutBackoff(i, n, m) ==
    IF m.term > n.current_term
    THEN BecomeFollower(n, m.term, Nil)
    ELSE IF FromCurrentFollower(n, m) /\ m.success
         THEN TryAdvanceCommit(i,
                [n EXCEPT !.match_index[m.from] = m.match_index,
                          !.next_index[m.from] = m.match_index + 1])
         ELSE n

HandleAppendEntriesResponse(i, n, m) ==
    IF m.term > n.current_term
    THEN BecomeFollower(n, m.term, Nil)
    ELSE IF ~FromCurrentFollower(n, m)
         THEN n
         ELSE IF m.success
              THEN TryAdvanceCommit(i,
                     [n EXCEPT !.match_index[m.from] = m.match_index,
                               !.next_index[m.from] = m.match_index + 1])
              ELSE [n EXCEPT !.next_index[m.from] =
                     Larger((IF @ = 0 THEN LastLogIndex(n) + 1 ELSE @) - 1, 1)]

\* The retry that a refusal triggers at once; after is the node after
\* HandleAppendEntriesResponse.
Retry(i, n, after, m) ==
    IF FromCurrentFollower(n, m) /\ ~m.success
    THEN BuildAppendEntries(i, after, m.from)
    ELSE {}

\* propose_command of a leader.
ProposeCommand(i, n, command) ==
    LET entry == [term |-> n.current_term, command |-> command]
        grown == [n EXCEPT !.log = Append(@, entry),
                           !.match_index[i] = LastLogIndex(n) + 1]
    IN  IF Majority(i) = 1 THEN CommitTo(grown, LastLogIndex(grown)) ELSE grown

-----------------------------------------------------------------------------
(* Application, compaction and recovery.                                   *)

AppliedFloor(n) == Larger(n.last_applied, n.snapshot_index)

AppliedEnd(n) ==
    Larger(AppliedFloor(n), Smaller(n.commit_index, LastLogIndex(n)))

\* take_unapplied_entries: the entries it returns and the node it leaves.
UnappliedEntries(n) ==
    SubSeq(n.log, AppliedFloor(n) - n.snapshot_index + 1,
                  AppliedEnd(n) - n.snapshot_index)

MarkApplied(n) == [n EXCEPT !.last_applied = AppliedEnd(n)]

\* Mutant: the whole log is drained, the uncommitted tail too.
CompactWholeLog(n) ==
    IF n.commit_index <= n.snapshot_index \/ TermAt(n, n.commit_index) = NoTerm
    THEN n
    ELSE [n EXCEPT !.log = << >>,
                   !.snapshot_index = n.commit_index,
                   !.snapshot_term = TermAt(n, n.commit_index),
                   !.last_applied = Larger(@, n.commit_index)]

CompactCommitted(n) ==
    IF n.commit_index <= n.snapshot_index \/ TermAt(n, n.commit_index) = NoTerm
    THEN n
    ELSE [n EXCEPT
            !.log = SubSeq(@, n.commit_index - n.snapshot_index + 1, Len(@)),
            !.snapshot_index = n.commit_index,
            !.snapshot_term = TermAt(n, n.commit_index),
            !.last_applied = Larger(@, n.commit_index)]

\* Runner::maybe_compact_log
MaybeCompactLog(n) ==
    IF Len(n.log) >= CompactionThreshold THEN CompactCommitted(n) ELSE n

\* Mutant: the vote is not saved.
FromNodeWithoutVote(n, data) ==
    [current_term           |-> n.current_term,
     voted_for              |-> Nil,
     log                    |-> n.log,
     commit_index           |-> n.commit_index,
     last_included_index    |-> n.snapshot_index,
     last_included_term     |-> n.snapshot_term,
     state_machine_snapshot |-> data]

\* StorageSnapshot::from_node
FromNode(n, data) ==
    [current_term           |-> n.current_term,
     voted_for              |-> n.voted_for,
     log                    |-> n.log,
     commit_index           |-> n.commit_index,
     last_included_index    |-> n.snapshot_index,
     last_included_term     |-> n.snapshot_term,
     state_machine_snapshot |-> data]

\* Mutant: the vote is not restored.
RestoreWithoutVote(image) ==
    CommitTo([NewNode EXCEPT !.current_term = image.current_term,
                             !.log = image.log,
                             !.snapshot_index = image.last_included_index,
                             !.snapshot_term = image.last_included_term,
                             !.last_applied = image.last_included_index],
             image.commit_index)

\* Mutant: the log after the snapshot point is not restored.
RestoreWithoutLog(image) ==
    CommitTo([NewNode EXCEPT !.current_term = image.current_term,
                             !.voted_for = image.voted_for,
                             !.snapshot_index = image.last_included_index,
                             !.snapshot_term = image.last_included_term,
                             !.last_applied = image.last_included_index],
             image.commit_index)

\* Mutant: the snapshot point is not restored.
RestoreWithoutSnapshotPoint(image) ==
    CommitTo([NewNode EXCEPT !.current_term = image.current_term,
                             !.voted_for = image.voted_for,
                             !.log = image.log],
             image.commit_index)

\* restore_from_storage on a new node.
RestoreFromStorage(image) ==
    CommitTo([NewNode EXCEPT !.current_term = image.current_term,
                             !.voted_for = image.voted_for,
                             !.log = image.log,
                             !.snapshot_index = image.last_included_index,
                             !.snapshot_term = image.last_included_term,
                             !.last_applied = image.last_included_index],
             image.commit_index)

=============================================================================
