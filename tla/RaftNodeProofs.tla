---------------------------- MODULE RaftNodeProofs --------------------------
(***************************************************************************)
(* What the operators of RaftNode preserve: each takes a well-typed node   *)
(* to a well-typed node, and all but the election operators leave the      *)
(* node's term, vote, role and tally alone.                                *)
(***************************************************************************)
EXTENDS RaftNode, TLAPS, FiniteSetTheorems, SequenceTheorems,
        NaturalsInduction, WellFoundedInduction

\* The fields an election is decided by.
SameBallot(a, b) ==
    /\ a.current_term = b.current_term
    /\ a.voted_for = b.voted_for
    /\ a.role = b.role
    /\ a.votes_received = b.votes_received

\* A slice of a log that lies within it, or is empty, is a log.
LEMMA SliceType ==
    ASSUME NEW S, NEW s \in Seq(S), NEW a \in Nat \ {0}, NEW b \in Int,
           b <= Len(s) \/ b < a
    PROVE  SubSeq(s, a, b) \in Seq(S)
<1>1. CASE b < a
  <2>1. SubSeq(s, a, b) = << >>
    BY <1>1
  <2>. QED  BY <2>1
<1>2. CASE a <= b /\ b <= Len(s)
  BY <1>2
<1>. QED  BY <1>1, <1>2

\* The last index is a natural number.
LEMMA LastLogIndexType ==
    ASSUME NEW n \in NodeState
    PROVE  LastLogIndex(n) \in Nat /\ LastLogIndex(n) >= n.snapshot_index
BY DEF LastLogIndex, NodeState

\* term_at answers a term exactly for the snapshot point and the log.
LEMMA TermAtType ==
    ASSUME NEW n \in NodeState, NEW index \in Nat
    PROVE  IF index \in n.snapshot_index .. LastLogIndex(n)
           THEN TermAt(n, index) \in Nat
           ELSE TermAt(n, index) = NoTerm
<1>. /\ n.snapshot_index \in Nat /\ n.snapshot_term \in Nat
     /\ n.log \in Seq(Entry) /\ Len(n.log) \in Nat
     /\ LastLogIndex(n) = n.snapshot_index + Len(n.log)
  BY DEF NodeState, LastLogIndex
<1>1. CASE index = n.snapshot_index
  BY <1>1 DEF TermAt
<1>2. CASE index \in n.snapshot_index + 1 .. LastLogIndex(n)
  <2>1. index - n.snapshot_index \in 1 .. Len(n.log)
    BY <1>2
  <2>2. n.log[index - n.snapshot_index] \in Entry
    BY <2>1
  <2>3. n.log[index - n.snapshot_index].term \in Nat
    BY <2>2 DEF Entry
  <2>. QED  BY <1>2, <2>3 DEF TermAt
<1>3. CASE index \notin n.snapshot_index .. LastLogIndex(n)
  BY <1>3 DEF TermAt
<1>. QED  BY <1>1, <1>2, <1>3

LEMMA CommitToType ==
    ASSUME NEW n \in NodeState, NEW index \in Nat
    PROVE  CommitTo(n, index) \in NodeState /\ SameBallot(CommitTo(n, index), n)
<1>1. Smaller(Larger(index, n.snapshot_index), LastLogIndex(n)) \in Nat
  BY LastLogIndexType DEF Smaller, Larger, NodeState
<1>. QED  BY <1>1 DEF CommitTo, NodeState, SameBallot

LEMMA NewNodeType == NewNode \in NodeState
<1>1. << >> \in Seq(Entry)
  OBVIOUS
<1>. QED  BY <1>1 DEF NewNode, NodeState, NoIndex, Role

LEMMA BecomeFollowerType ==
    ASSUME NEW n \in NodeState, NEW term \in Nat, NEW leader \in Node \cup {Nil}
    PROVE  /\ BecomeFollower(n, term, leader) \in NodeState
           /\ BecomeFollower(n, term, leader).current_term = term
           /\ BecomeFollower(n, term, leader).voted_for = Nil
           /\ BecomeFollower(n, term, leader).role = "Follower"
           /\ BecomeFollower(n, term, leader).votes_received = {}
BY DEF BecomeFollower, NodeState, NoIndex, Role

LEMMA StartElectionType ==
    ASSUME NEW i \in Node, NEW n \in NodeState
    PROVE  /\ StartElection(i, n) \in NodeState
           /\ StartElection(i, n).current_term = n.current_term + 1
           /\ StartElection(i, n).voted_for = i
           /\ StartElection(i, n).role = "Candidate"
           /\ StartElection(i, n).votes_received = {i}
<1>1. n.current_term + 1 \in Nat /\ {i} \in SUBSET Node
  BY DEF NodeState
<1> DEFINE t == n.current_term + 1
<1> HIDE DEF t
<1>3. [n EXCEPT !.role = "Candidate", !.current_term = t, !.voted_for = i,
                !.leader_id = Nil, !.votes_received = {i}] \in NodeState
  BY <1>1 DEF NodeState, Role, t
<1>. QED  BY <1>1, <1>3 DEF StartElection, NodeState, t

LEMMA BecomeLeaderType ==
    ASSUME NEW i \in Node, NEW n \in NodeState
    PROVE  /\ BecomeLeader(i, n) \in NodeState
           /\ BecomeLeader(i, n).current_term = n.current_term
           /\ BecomeLeader(i, n).voted_for = n.voted_for
           /\ BecomeLeader(i, n).role = "Leader"
<1> DEFINE next  == [p \in Node |-> IF p = i THEN 0 ELSE LastLogIndex(n) + 1]
           match == [p \in Node |-> IF p = i THEN LastLogIndex(n)
                                              ELSE n.snapshot_index]
<1>1. next \in [Node -> Nat] /\ match \in [Node -> Nat]
  <2>1. LastLogIndex(n) \in Nat /\ n.snapshot_index \in Nat
    BY LastLogIndexType DEF NodeState
  <2>. QED  BY <2>1
<1>2. BecomeLeader(i, n) = [n EXCEPT !.role = "Leader", !.leader_id = i,
                                     !.next_index = next, !.match_index = match]
  BY DEF BecomeLeader
<1> HIDE DEF next, match
<1>. QED  BY <1>1, <1>2 DEF NodeState, Role

LEMMA MarkAppliedType ==
    ASSUME NEW n \in NodeState
    PROVE  MarkApplied(n) \in NodeState /\ SameBallot(MarkApplied(n), n)
<1>1. AppliedEnd(n) \in Nat
  BY LastLogIndexType DEF AppliedEnd, AppliedFloor, Larger, Smaller, NodeState
<1>. QED  BY <1>1 DEF MarkApplied, NodeState, SameBallot

LEMMA UnappliedType ==
    ASSUME NEW n \in NodeState
    PROVE  UnappliedEntries(n) \in Seq(Entry)
<1>1. /\ AppliedFloor(n) - n.snapshot_index + 1 \in Nat \ {0}
      /\ AppliedEnd(n) - n.snapshot_index \in Int
      /\ \/ AppliedEnd(n) - n.snapshot_index <= Len(n.log)
         \/ AppliedEnd(n) - n.snapshot_index
              < AppliedFloor(n) - n.snapshot_index + 1
  BY LastLogIndexType DEF AppliedEnd, AppliedFloor, Larger, Smaller, NodeState, LastLogIndex
<1>2. n.log \in Seq(Entry)
  BY DEF NodeState
<1>. QED  BY <1>1, <1>2, SliceType DEF UnappliedEntries

LEMMA CompactType ==
    ASSUME NEW n \in NodeState
    PROVE  MaybeCompactLog(n) \in NodeState /\ SameBallot(MaybeCompactLog(n), n)
<1>1. CASE MaybeCompactLog(n) = n
  BY <1>1 DEF SameBallot
<1>2. CASE MaybeCompactLog(n) # n
  <2>1. /\ MaybeCompactLog(n) = CompactCommitted(n)
        /\ n.commit_index > n.snapshot_index
        /\ TermAt(n, n.commit_index) # NoTerm
    BY <1>2 DEF MaybeCompactLog, CompactCommitted, NodeState
  <2>2. n.commit_index \in Nat
    BY DEF NodeState
  <2>3. /\ TermAt(n, n.commit_index) \in Nat
        /\ n.commit_index <= LastLogIndex(n)
    BY <2>1, <2>2, TermAtType
  <2>4. SubSeq(n.log, n.commit_index - n.snapshot_index + 1, Len(n.log))
          \in Seq(Entry)
    BY <2>1, <2>3, SliceType DEF NodeState
  <2>5. Larger(n.last_applied, n.commit_index) \in Nat
    BY DEF Larger, NodeState
  <2>. QED  BY <2>1, <2>2, <2>3, <2>4, <2>5
            DEF CompactCommitted, NodeState, SameBallot
<1>. QED  BY <1>1, <1>2

-----------------------------------------------------------------------------
(* The handlers.                                                           *)

LEMMA SeenTermType ==
    ASSUME NEW n \in NodeState, NEW m, m.term \in Nat
    PROVE  /\ SeenTerm(n, m) \in NodeState
           /\ m.term > n.current_term =>
                 /\ SeenTerm(n, m).current_term = m.term
                 /\ SeenTerm(n, m).voted_for = Nil
                 /\ SeenTerm(n, m).role = "Follower"
                 /\ SeenTerm(n, m).votes_received = {}
           /\ ~(m.term > n.current_term) => SeenTerm(n, m) = n
BY BecomeFollowerType DEF SeenTerm

LEMMA HandleRequestVoteType ==
    ASSUME NEW n \in NodeState, NEW m \in RequestVoteMessage
    PROVE  /\ HandleRequestVote(n, m) \in NodeState
           /\ HandleRequestVote(n, m).current_term
                = SeenTerm(n, m).current_term
           /\ HandleRequestVote(n, m).role = SeenTerm(n, m).role
           /\ HandleRequestVote(n, m).votes_received
                = SeenTerm(n, m).votes_received
           /\ HandleRequestVote(n, m).voted_for
                = IF GrantsVote(n, m) THEN m.from ELSE SeenTerm(n, m).voted_for
<1>1. m.term \in Nat /\ m.from \in Node
  BY DEF RequestVoteMessage
<1>2. SeenTerm(n, m) \in NodeState
  BY <1>1, SeenTermType
<1> DEFINE s == SeenTerm(n, m)
<1>3. [s EXCEPT !.voted_for = m.from] \in NodeState
  BY <1>1, <1>2 DEF NodeState
<1>4. /\ [s EXCEPT !.voted_for = m.from].current_term = s.current_term
      /\ [s EXCEPT !.voted_for = m.from].role = s.role
      /\ [s EXCEPT !.voted_for = m.from].votes_received = s.votes_received
      /\ [s EXCEPT !.voted_for = m.from].voted_for = m.from
  BY <1>2 DEF NodeState
<1>. QED  BY <1>2, <1>3, <1>4 DEF HandleRequestVote

LEMMA RequestVoteReplyType ==
    ASSUME NEW i \in Node, NEW n \in NodeState, NEW m \in RequestVoteMessage
    PROVE  RequestVoteReply(i, n, m) \in RequestVoteResponseMessage
<1>1. m.term \in Nat /\ m.from \in Node
  BY DEF RequestVoteMessage
<1>2. SeenTerm(n, m).current_term \in Nat
  BY <1>1, SeenTermType DEF NodeState
<1>3. GrantsVote(n, m) \in BOOLEAN
  BY Zenon DEF GrantsVote
<1>. QED  BY <1>1, <1>2, <1>3 DEF RequestVoteReply, RequestVoteResponseMessage

LEMMA RequestVotesType ==
    ASSUME NEW i \in Node, NEW n \in NodeState
    PROVE  RequestVotes(i, n) \subseteq RequestVoteMessage
<1>1. LastLogIndex(n) \in Nat /\ LastLogTerm(n) \in Nat
  <2>1. /\ LastLogIndex(n) \in Nat
        /\ LastLogIndex(n) \in n.snapshot_index .. LastLogIndex(n)
    BY LastLogIndexType DEF NodeState
  <2>. QED  BY <2>1, TermAtType DEF LastLogTerm
<1>2. n.current_term \in Nat
  BY DEF NodeState
<1>. QED  BY <1>1, <1>2 DEF RequestVotes, RequestVoteMessage, Peers

\* The tally of a candidate is a set of nodes, and a response of its term is
\* what the candidate's next role depends on.
LEMMA HandleRequestVoteResponseType ==
    ASSUME NEW i \in Node, NEW n \in NodeState,
           NEW m \in RequestVoteResponseMessage
    PROVE  LET after == HandleRequestVoteResponse(i, n, m)
           IN  /\ after \in NodeState
               /\ m.term > n.current_term =>
                     /\ after.current_term = m.term
                     /\ after.voted_for = Nil
                     /\ after.role = "Follower"
               /\ ~(m.term > n.current_term) =>
                     /\ after.current_term = n.current_term
                     /\ after.voted_for = n.voted_for
                     /\ IF n.role = "Candidate" /\ m.term = n.current_term
                        THEN /\ after.role = IF WinsElection(i, n, m)
                                             THEN "Leader" ELSE "Candidate"
                             /\ after.role = "Candidate" =>
                                   after.votes_received = Tally(n, m)
                        ELSE after = n
<1>1. m.term \in Nat /\ m.from \in Node
  BY DEF RequestVoteResponseMessage
<1>2. n.current_term \in Nat
  BY DEF NodeState
<1> DEFINE counted == [n EXCEPT !.votes_received = Tally(n, m)]
<1>3. Tally(n, m) \in SUBSET Node
  BY <1>1 DEF Tally, NodeState
<1>4. /\ counted \in NodeState
      /\ counted.current_term = n.current_term
      /\ counted.voted_for = n.voted_for
      /\ counted.role = n.role
      /\ counted.votes_received = Tally(n, m)
  BY <1>3 DEF NodeState
<1>5. /\ BecomeLeader(i, counted) \in NodeState
      /\ BecomeLeader(i, counted).current_term = n.current_term
      /\ BecomeLeader(i, counted).voted_for = n.voted_for
      /\ BecomeLeader(i, counted).role = "Leader"
  BY <1>4, BecomeLeaderType
<1>6. CASE m.term > n.current_term
  BY <1>1, <1>2, <1>6, BecomeFollowerType DEF HandleRequestVoteResponse
<1>7. CASE ~(m.term > n.current_term) /\ (n.role # "Candidate" \/ m.term # n.current_term)
  BY <1>7 DEF HandleRequestVoteResponse
<1>8. CASE ~(m.term > n.current_term) /\ n.role = "Candidate" /\ m.term = n.current_term
  <2>1. HandleRequestVoteResponse(i, n, m) =
          IF WinsElection(i, n, m) THEN BecomeLeader(i, counted) ELSE counted
    BY <1>8 DEF HandleRequestVoteResponse
  <2>. QED  BY <2>1, <1>4, <1>5, <1>8
<1>. QED  BY <1>6, <1>7, <1>8

-----------------------------------------------------------------------------
(* Replication.                                                            *)

\* The merged log is a log: positions up to the first disagreement come from
\* the receiver, the others from the request.
LEMMA MergeType ==
    ASSUME NEW n \in NodeState, NEW m \in AppendEntriesMessage,
           LogMatches(n, m)
    PROVE  MergeEntries(n, m) \in Seq(Entry)
<1> DEFINE base == m.prev_log_index - n.snapshot_index
           agrees(k) == /\ base + k <= Len(n.log)
                        /\ n.log[base + k].term = m.entries[k].term
           kept(x) == \A k \in 1 .. Len(m.entries) : base + k <= x => agrees(k)
           merged == [x \in 1 .. base + Len(m.entries) |->
                         IF kept(x) THEN n.log[x] ELSE m.entries[x - base]]
<1>1. /\ n.log \in Seq(Entry) /\ m.entries \in Seq(Entry)
      /\ n.snapshot_index \in Nat /\ m.prev_log_index \in Nat
      /\ Len(n.log) \in Nat /\ Len(m.entries) \in Nat
  BY SMTT(30) DEF NodeState, AppendEntriesMessage
<1>2. base \in Nat /\ base <= Len(n.log)
  BY <1>1 DEF LogMatches, LastLogIndex
<1>3. \A x \in 1 .. base + Len(m.entries) :
          (IF kept(x) THEN n.log[x] ELSE m.entries[x - base]) \in Entry
  <2> SUFFICES ASSUME NEW x \in 1 .. base + Len(m.entries)
               PROVE  (IF kept(x) THEN n.log[x] ELSE m.entries[x - base]) \in Entry
    OBVIOUS
  <2>1. CASE x <= base
    <3>1. kept(x) /\ x \in 1 .. Len(n.log)
      BY <1>1, <1>2, <2>1
    <3>. QED  BY <3>1, <1>1
  <2>2. CASE x > base
    <3>1. x - base \in 1 .. Len(m.entries)
      BY <1>1, <1>2, <2>2
    <3>2. ASSUME kept(x) PROVE x \in 1 .. Len(n.log)
      <4>1. agrees(x - base)
        BY <3>1, <3>2, <1>2
      <4>. QED  BY <4>1, <1>2, <3>1
    <3>. QED  BY <3>1, <3>2, <1>1
  <2>. QED  BY <2>1, <2>2, <1>2
<1>4. merged \in Seq(Entry)
  <2>1. base + Len(m.entries) \in Nat
    BY <1>1, <1>2
  <2> HIDE DEF base, kept
  <2>. QED  BY <2>1, <1>3
<1>5. MergeEntries(n, m) \in {n.log, merged}
  BY DEF MergeEntries
<1>. QED  BY <1>1, <1>4, <1>5

LEMMA FollowLeaderType ==
    ASSUME NEW n \in NodeState, NEW m \in AppendEntriesMessage
    PROVE  /\ FollowLeader(n, m) \in NodeState
           /\ FollowLeader(n, m).log = n.log
           /\ FollowLeader(n, m).snapshot_index = n.snapshot_index
           /\ IF m.term > n.current_term \/ n.role # "Follower"
              THEN /\ FollowLeader(n, m).current_term = m.term
                   /\ FollowLeader(n, m).voted_for = Nil
                   /\ FollowLeader(n, m).role = "Follower"
                   /\ FollowLeader(n, m).votes_received = {}
              ELSE SameBallot(FollowLeader(n, m), n)
<1>1. m.term \in Nat /\ m.from \in Node \cup {Nil}
  BY DEF AppendEntriesMessage
<1>2. CASE m.term > n.current_term \/ n.role # "Follower"
  <2>1. FollowLeader(n, m) = BecomeFollower(n, m.term, m.from)
    BY <1>2 DEF FollowLeader
  <2>2. /\ BecomeFollower(n, m.term, m.from).log = n.log
        /\ BecomeFollower(n, m.term, m.from).snapshot_index = n.snapshot_index
    BY DEF BecomeFollower, NodeState
  <2>. QED  BY <1>1, <1>2, <2>1, <2>2, BecomeFollowerType
<1>3. CASE ~(m.term > n.current_term \/ n.role # "Follower")
  <2>1. FollowLeader(n, m) = [n EXCEPT !.leader_id = m.from]
    BY <1>3 DEF FollowLeader
  <2>. QED  BY <1>1, <1>3, <2>1 DEF NodeState, SameBallot
<1>. QED  BY <1>2, <1>3

\* What an AppendEntries request does to the ballot is what FollowLeader does.
LEMMA HandleAppendEntriesType ==
    ASSUME NEW n \in NodeState, NEW m \in AppendEntriesMessage
    PROVE  /\ HandleAppendEntries(n, m) \in NodeState
           /\ m.term < n.current_term => HandleAppendEntries(n, m) = n
           /\ ~(m.term < n.current_term) =>
                 SameBallot(HandleAppendEntries(n, m), FollowLeader(n, m))
<1> DEFINE f == FollowLeader(n, m)
           merged == [f EXCEPT !.log = MergeEntries(f, m)]
           target == Smaller(m.leader_commit, LastLogIndex(merged))
<1>1. f \in NodeState
  BY FollowLeaderType
<1>2. CASE m.term < n.current_term
  BY <1>2 DEF HandleAppendEntries
<1>3. CASE ~(m.term < n.current_term) /\ ~LogMatches(n, m)
  <2>1. HandleAppendEntries(n, m) = f
    BY <1>3 DEF HandleAppendEntries
  <2>. QED  BY <1>1, <1>3, <2>1 DEF SameBallot
<1>4. CASE ~(m.term < n.current_term) /\ LogMatches(n, m)
  <2>1. LogMatches(f, m)
    <3>1. f.log = n.log /\ f.snapshot_index = n.snapshot_index
      BY FollowLeaderType
    <3>2. f.snapshot_term = n.snapshot_term
      BY DEF FollowLeader, BecomeFollower, NodeState
    <3>. QED  BY <1>4, <3>1, <3>2 DEF LogMatches, TermAt, LastLogIndex
  <2>2. MergeEntries(f, m) \in Seq(Entry)
    BY <1>1, <2>1, MergeType
  <2>3. merged \in NodeState /\ SameBallot(merged, f)
    BY <1>1, <2>2 DEF NodeState, SameBallot
  <2>4. target \in Nat
    BY <2>3, LastLogIndexType DEF Smaller, AppendEntriesMessage
  <2>5. CommitTo(merged, target) \in NodeState
        /\ SameBallot(CommitTo(merged, target), merged)
    BY <2>3, <2>4, CommitToType
  <2>6. HandleAppendEntries(n, m) \in {merged, CommitTo(merged, target)}
    BY <1>4 DEF HandleAppendEntries
  <2>. HIDE DEF merged, target
  <2>. QED  BY <1>4, <2>3, <2>5, <2>6 DEF SameBallot
<1>. QED  BY <1>2, <1>3, <1>4

\* A refusal for a term mismatch names a position before prev_log_index, so
\* it does not fall below zero (saturating_sub in the code).
LEMMA AppendEntriesReplyType ==
    ASSUME NEW i \in Node, NEW n \in NodeState, NEW m \in AppendEntriesMessage
    PROVE  AppendEntriesReply(i, n, m) \in AppendEntriesResponseMessage
<1>1. /\ m.term \in Nat /\ m.from \in Node /\ m.prev_log_index \in Nat
      /\ n.current_term \in Nat /\ n.snapshot_index \in Nat
      /\ LastLogIndex(n) \in Nat
  BY LastLogIndexType DEF AppendEntriesMessage, NodeState
<1>2. Larger(m.term, n.current_term) \in Nat
  BY <1>1 DEF Larger
<1>3. AcceptsEntries(n, m) \in BOOLEAN
  BY Zenon DEF AcceptsEntries
<1>4. LastLogIndex(HandleAppendEntries(n, m)) \in Nat
  BY HandleAppendEntriesType, LastLogIndexType
<1>5. ASSUME ~AcceptsEntries(n, m) PROVE RefusalIndex(n, m) \in Nat
  <2>1. CASE m.term < n.current_term
    BY <2>1, <1>1 DEF RefusalIndex
  <2>2. CASE m.term >= n.current_term /\ m.prev_log_index < n.snapshot_index
    BY <2>2, <1>1 DEF RefusalIndex
  <2>3. CASE /\ m.term >= n.current_term /\ m.prev_log_index >= n.snapshot_index
             /\ m.prev_log_index > LastLogIndex(n)
    BY <2>3, <1>1 DEF RefusalIndex
  <2>4. CASE /\ m.term >= n.current_term /\ m.prev_log_index >= n.snapshot_index
             /\ m.prev_log_index <= LastLogIndex(n)
    <3>1. m.prev_log_index > 0
      BY <1>5, <2>4 DEF AcceptsEntries, LogMatches
    <3>2. RefusalIndex(n, m) = m.prev_log_index - 1
      BY <2>4, <1>1 DEF RefusalIndex
    <3>. QED  BY <3>1, <3>2, <1>1
  <2>. QED  BY <2>1, <2>2, <2>3, <2>4, <1>1
<1> DEFINE match == IF AcceptsEntries(n, m)
                    THEN LastLogIndex(HandleAppendEntries(n, m))
                    ELSE RefusalIndex(n, m)
<1>6. match \in Nat
  BY <1>4, <1>5
<1>7. AppendEntriesReply(i, n, m) =
        [type |-> "AppendEntriesResponse", from |-> i, to |-> m.from,
         term |-> Larger(m.term, n.current_term),
         success |-> AcceptsEntries(n, m), match_index |-> match]
  BY DEF AppendEntriesReply
<1> HIDE DEF match
<1>. QED  BY <1>1, <1>2, <1>3, <1>6, <1>7 DEF AppendEntriesResponseMessage

\* A request carries a part of the log and goes to the peer it is built for.
LEMMA BuildAppendEntriesType ==
    ASSUME NEW i \in Node, NEW n \in NodeState, NEW p \in Node
    PROVE  /\ BuildAppendEntries(i, n, p) \subseteq AppendEntriesMessage
           /\ \A m \in BuildAppendEntries(i, n, p) :
                 m.from = i /\ m.to = p /\ m.term = n.current_term
<1> DEFINE next == IF n.next_index[p] = 0 THEN 1 ELSE n.next_index[p]
           prev == next - 1
           entries == SubSeq(n.log, next - n.snapshot_index, Len(n.log))
<1>1. /\ n.next_index[p] \in Nat /\ n.snapshot_index \in Nat
      /\ n.log \in Seq(Entry) /\ n.commit_index \in Nat /\ n.current_term \in Nat
      /\ Len(n.log) \in Nat
  BY DEF NodeState
<1>2. next \in Nat \ {0} /\ prev \in Nat
  BY <1>1
<1>3. CASE next <= n.snapshot_index \/ TermAt(n, prev) = NoTerm
  BY <1>3 DEF BuildAppendEntries
<1>4. CASE ~(next <= n.snapshot_index \/ TermAt(n, prev) = NoTerm)
  <2>1. next - n.snapshot_index \in Nat \ {0}
    BY <1>1, <1>2, <1>4
  <2>2. entries \in Seq(Entry)
    BY <1>1, <2>1, SliceType
  <2>3. TermAt(n, prev) \in Nat
    BY <1>2, <1>4, TermAtType
  <2>4. BuildAppendEntries(i, n, p) =
          {[type |-> "AppendEntries", from |-> i, to |-> p,
            term |-> n.current_term, prev_log_index |-> prev,
            prev_log_term |-> TermAt(n, prev), entries |-> entries,
            leader_commit |-> n.commit_index]}
    BY <1>4 DEF BuildAppendEntries
  <2> HIDE DEF next, prev, entries
  <2>. QED  BY <1>1, <1>2, <2>2, <2>3, <2>4 DEF AppendEntriesMessage
<1>. QED  BY <1>3, <1>4

LEMMA HeartbeatsType ==
    ASSUME NEW i \in Node, NEW n \in NodeState
    PROVE  /\ Heartbeats(i, n) \subseteq AppendEntriesMessage
           /\ \A m \in Heartbeats(i, n) :
                 m.from = i /\ m.to # i /\ m.term = n.current_term
BY BuildAppendEntriesType DEF Heartbeats, Peers

\* The loop of try_advance_commit_index stops at the largest index it may
\* commit: a nonempty set of indices up to the end of the log has a largest.
LEMMA CommittableHasMax ==
    ASSUME NEW i \in Node, NEW n \in NodeState, Committable(i, n) # {}
    PROVE  \E x \in Committable(i, n) : \A y \in Committable(i, n) : x >= y
<1> DEFINE C == Committable(i, n)
           last == LastLogIndex(n)
           T == {last - y : y \in C}
<1>1. last \in Nat /\ n.commit_index \in Nat
  BY LastLogIndexType DEF NodeState
<1>2. C \subseteq n.commit_index + 1 .. last
  BY DEF Committable
<1>3. T \subseteq Nat /\ T # {}
  BY <1>1, <1>2
<1>4. PICK t \in T : \A u \in T : ~(<<u, t>> \in OpToRel(<, Nat))
  <2> HIDE DEF T
  <2>. QED  BY <1>3, NatLessThanWellFounded, WFMin
<1>5. \A u \in T : ~(u < t)
  BY <1>3, <1>4 DEF OpToRel
<1>6. PICK x \in C : t = last - x
  OBVIOUS
<1>7. ASSUME NEW y \in C PROVE x >= y
  <2>1. ~(last - y < last - x)
    BY <1>5, <1>6
  <2>2. x \in Nat /\ y \in Nat
    BY <1>1, <1>2
  <2> HIDE DEF C, last
  <2>. QED  BY <1>1, <2>1, <2>2
<1>. QED  BY <1>6, <1>7

LEMMA TryAdvanceCommitType ==
    ASSUME NEW i \in Node, NEW n \in NodeState
    PROVE  /\ TryAdvanceCommit(i, n) \in NodeState
           /\ SameBallot(TryAdvanceCommit(i, n), n)
<1> DEFINE C == Committable(i, n)
           top == CHOOSE x \in C : \A y \in C : x >= y
<1>1. CASE C = {}
  BY <1>1 DEF TryAdvanceCommit, SameBallot
<1>2. CASE C # {}
  <2>1. top \in C
    <3>1. \E x \in C : \A y \in C : x >= y
      BY <1>2, CommittableHasMax
    <3>. HIDE DEF C
    <3>. QED  BY <3>1
  <2>2. top \in Nat
    <3>1. C \subseteq n.commit_index + 1 .. LastLogIndex(n)
      BY DEF Committable
    <3>2. n.commit_index \in Nat /\ LastLogIndex(n) \in Nat
      BY LastLogIndexType DEF NodeState
    <3>. HIDE DEF C, top
    <3>. QED  BY <2>1, <3>1, <3>2
  <2>3. TryAdvanceCommit(i, n) = CommitTo(n, top)
    BY <1>2 DEF TryAdvanceCommit
  <2>. QED  BY <2>2, <2>3, CommitToType
<1>. QED  BY <1>1, <1>2

LEMMA HandleAppendEntriesResponseType ==
    ASSUME NEW i \in Node, NEW n \in NodeState,
           NEW m \in AppendEntriesResponseMessage
    PROVE  LET after == HandleAppendEntriesResponse(i, n, m)
           IN  /\ after \in NodeState
               /\ m.term > n.current_term =>
                     /\ after.current_term = m.term
                     /\ after.voted_for = Nil
                     /\ after.role = "Follower"
               /\ ~(m.term > n.current_term) => SameBallot(after, n)
<1>1. m.term \in Nat /\ m.from \in Node /\ m.match_index \in Nat
  BY DEF AppendEntriesResponseMessage
<1> DEFINE acked == [n EXCEPT !.match_index[m.from] = m.match_index,
                              !.next_index[m.from] = m.match_index + 1]
           next == Larger((IF n.next_index[m.from] = 0
                           THEN LastLogIndex(n) + 1
                           ELSE n.next_index[m.from]) - 1, 1)
           backed == [n EXCEPT !.next_index[m.from] = next]
<1>2. next \in Nat
  <2>1. n.next_index[m.from] \in Nat /\ LastLogIndex(n) \in Nat
    BY <1>1, LastLogIndexType DEF NodeState
  <2>. QED  BY <2>1 DEF Larger
<1>3. acked \in NodeState /\ SameBallot(acked, n)
  <2> DEFINE match == [n.match_index EXCEPT ![m.from] = m.match_index]
             after == [n.next_index EXCEPT ![m.from] = m.match_index + 1]
  <2>1. match \in [Node -> Nat] /\ after \in [Node -> Nat]
    <3>1. n.match_index \in [Node -> Nat] /\ n.next_index \in [Node -> Nat]
      BY DEF NodeState
    <3>2. match \in [Node -> Nat]
      BY <1>1, <3>1
    <3>3. after \in [Node -> Nat]
      BY <1>1, <3>1
    <3>. QED  BY <3>2, <3>3
  <2>2. acked = [n EXCEPT !.match_index = match, !.next_index = after]
    BY DEF NodeState
  <2> HIDE DEF match, after, acked
  <2>. QED  BY <2>1, <2>2 DEF NodeState, SameBallot
<1>4. backed \in NodeState /\ SameBallot(backed, n)
  <2> HIDE DEF next
  <2>. QED  BY <1>1, <1>2 DEF NodeState, SameBallot
<1>5. /\ TryAdvanceCommit(i, acked) \in NodeState
      /\ SameBallot(TryAdvanceCommit(i, acked), n)
  <2> HIDE DEF acked
  <2>. QED  BY <1>3, TryAdvanceCommitType DEF SameBallot
<1>6. CASE m.term > n.current_term
  BY <1>1, <1>6, BecomeFollowerType DEF HandleAppendEntriesResponse
<1>7. CASE ~(m.term > n.current_term)
  <2>1. HandleAppendEntriesResponse(i, n, m)
          \in {n, TryAdvanceCommit(i, acked), backed}
    BY <1>7 DEF HandleAppendEntriesResponse
  <2> HIDE DEF acked, backed
  <2>. QED  BY <1>4, <1>5, <1>7, <2>1 DEF SameBallot
<1>. QED  BY <1>6, <1>7

\* A retry goes back to the sender of the refusal, in the leader's term.
LEMMA RetryType ==
    ASSUME NEW i \in Node, NEW n \in NodeState,
           NEW m \in AppendEntriesResponseMessage
    PROVE  LET after == HandleAppendEntriesResponse(i, n, m)
           IN  /\ Retry(i, n, after, m) \subseteq AppendEntriesMessage
               /\ \A r \in Retry(i, n, after, m) :
                     /\ n.role = "Leader"
                     /\ r.from = i /\ r.to = m.from /\ r.term = n.current_term
<1> DEFINE after == HandleAppendEntriesResponse(i, n, m)
<1>1. CASE FromCurrentFollower(n, m) /\ ~m.success
  <2>1. ~(m.term > n.current_term) /\ n.role = "Leader"
    BY <1>1 DEF FromCurrentFollower, NodeState
  <2>2. after \in NodeState /\ after.current_term = n.current_term
    BY <2>1, HandleAppendEntriesResponseType DEF SameBallot
  <2>3. m.from \in Node
    BY DEF AppendEntriesResponseMessage
  <2>4. Retry(i, n, after, m) = BuildAppendEntries(i, after, m.from)
    BY <1>1 DEF Retry
  <2> HIDE DEF after
  <2>5. /\ Retry(i, n, after, m) \subseteq AppendEntriesMessage
        /\ \A r \in Retry(i, n, after, m) :
              r.from = i /\ r.to = m.from /\ r.term = n.current_term
    BY <2>2, <2>3, <2>4, BuildAppendEntriesType
  <2>. QED  BY <2>1, <2>5 DEF after
<1>2. CASE ~(FromCurrentFollower(n, m) /\ ~m.success)
  BY <1>2 DEF Retry
<1>. QED  BY <1>1, <1>2

LEMMA ProposeType ==
    ASSUME NEW i \in Node, NEW n \in NodeState, NEW command \in Value
    PROVE  /\ ProposeCommand(i, n, command) \in NodeState
           /\ SameBallot(ProposeCommand(i, n, command), n)
<1> DEFINE entry == [term |-> n.current_term, command |-> command]
           grown == [n EXCEPT !.log = Append(n.log, entry),
                              !.match_index[i] = LastLogIndex(n) + 1]
<1>1. Append(n.log, entry) \in Seq(Entry)
  BY DEF Entry, NodeState
<1>2. LastLogIndex(n) + 1 \in Nat
  BY LastLogIndexType
<1>3. grown \in NodeState /\ SameBallot(grown, n)
  <2> HIDE DEF entry
  <2>. QED  BY <1>1, <1>2 DEF NodeState, SameBallot
<1>4. ProposeCommand(i, n, command) \in {grown, CommitTo(grown, LastLogIndex(grown))}
  BY DEF ProposeCommand
<1> HIDE DEF grown
<1>5. /\ CommitTo(grown, LastLogIndex(grown)) \in NodeState
      /\ SameBallot(CommitTo(grown, LastLogIndex(grown)), grown)
  BY <1>3, LastLogIndexType, CommitToType
<1>. QED  BY <1>3, <1>4, <1>5 DEF SameBallot

-----------------------------------------------------------------------------
(* Induction.                                                              *)

\* A set of numbers with 0, and with the successor of each of its members up
\* to n, has all numbers up to n.
LEMMA UpTo ==
    ASSUME NEW n \in Nat, NEW S, 0 \in S,
           \A k \in 0 .. n - 1 : k \in S => k + 1 \in S
    PROVE  0 .. n \subseteq S
<1> DEFINE T == (0 .. n) \ S
<1> SUFFICES ASSUME T # {} PROVE FALSE
  OBVIOUS
<1>1. T \subseteq Nat
  OBVIOUS
<1>2. PICK t \in T : \A u \in T : ~(<<u, t>> \in OpToRel(<, Nat))
  <2> HIDE DEF T
  <2>. QED  BY <1>1, NatLessThanWellFounded, WFMin
<1>3. t \in 1 .. n /\ t \notin S
  OBVIOUS
<1>4. t - 1 \notin T
  <2>1. \A u \in T : ~(u < t)
    BY <1>1, <1>2 DEF OpToRel
  <2>. QED  BY <1>3, <2>1
<1>5. t - 1 \in S
  BY <1>3, <1>4
<1>. QED  BY <1>3, <1>5
=============================================================================
