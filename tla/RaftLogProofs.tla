---------------------------- MODULE RaftLogProofs ---------------------------
(***************************************************************************)
(* Log matching, for every set of nodes and commands, every threshold and  *)
(* every bound, where saves succeed.                                       *)
(***************************************************************************)
EXTENDS RaftLog, RaftElectionProofs

\* The fields that make up the log.
SameLog(a, b) ==
    /\ a.log = b.log
    /\ a.snapshot_index = b.snapshot_index
    /\ a.snapshot_term = b.snapshot_term

-----------------------------------------------------------------------------
(* Logs from index 1.                                                      *)

LEMMA LogFields ==
    ASSUME NEW n \in NodeState
    PROVE  /\ n.log \in Seq(Entry) /\ Len(n.log) \in Nat
           /\ n.snapshot_index \in Nat /\ n.snapshot_term \in Nat
           /\ n.commit_index \in Nat /\ n.current_term \in Nat
           /\ LastLogIndex(n) = n.snapshot_index + Len(n.log)
BY DEF NodeState, LastLogIndex

\* A log put together from the start of one and another.
LEMMA Spliced ==
    ASSUME NEW full \in Seq(Entry), NEW log \in Seq(Entry),
           NEW s \in Nat, s <= Len(full)
    PROVE  LET f == SubSeq(full, 1, s) \o log
           IN  /\ f \in Seq(Entry)
               /\ Len(f) = s + Len(log)
               /\ \A k \in 1 .. s : f[k] = full[k]
               /\ \A k \in 1 .. Len(log) : f[s + k] = log[k]
<1> DEFINE head == SubSeq(full, 1, s)
           f == head \o log
<1>1. head \in Seq(Entry) /\ Len(head) = s /\ \A k \in 1 .. s : head[k] = full[k]
  <2>1. CASE s = 0
    BY <2>1
  <2>2. CASE s > 0
    BY <2>2
  <2>. QED  BY <2>1, <2>2
<1>2. /\ f \in Seq(Entry) /\ Len(f) = Len(head) + Len(log)
      /\ \A k \in 1 .. Len(head) + Len(log) :
            f[k] = IF k <= Len(head) THEN head[k] ELSE log[k - Len(head)]
  <2> HIDE DEF head
  <2>. QED  BY <1>1, ConcatProperties
<1>3. /\ \A k \in 1 .. s : f[k] = full[k]
      /\ \A k \in 1 .. Len(log) : f[s + k] = log[k]
  <2>1. Len(log) \in Nat
    OBVIOUS
  <2>2. ASSUME NEW k \in 1 .. Len(log) PROVE f[s + k] = log[k]
    <3>1. s + k \in 1 .. s + Len(log) /\ ~(s + k <= s) /\ (s + k) - s = k
      BY <2>1
    <3> HIDE DEF f, head
    <3>. QED  BY <1>1, <1>2, <3>1
  <2>3. ASSUME NEW k \in 1 .. s PROVE f[k] = full[k]
    <3>1. k \in 1 .. s + Len(log) /\ k <= s
      BY <2>1
    <3> HIDE DEF f, head
    <3>. QED  BY <1>1, <1>2, <3>1
  <2>. QED  BY <2>2, <2>3
<1>. QED  BY <1>1, <1>2, <1>3

\* Two logs of the same length with the same entries are equal.
LEMMA LogsEqual ==
    ASSUME NEW a \in Seq(Entry), NEW b \in Seq(Entry), Len(a) = Len(b),
           \A k \in 1 .. Len(a) : a[k] = b[k]
    PROVE  a = b
BY SeqEqual

\* What is left of a log without its first d entries.
LEMMA Rest ==
    ASSUME NEW log \in Seq(Entry), NEW d \in 0 .. Len(log)
    PROVE  LET r == SubSeq(log, d + 1, Len(log))
           IN  /\ r \in Seq(Entry)
               /\ Len(r) = Len(log) - d
               /\ \A k \in 1 .. Len(r) : r[k] = log[d + k]
<1> DEFINE r == SubSeq(log, d + 1, Len(log))
<1>1. Len(log) \in Nat /\ d \in Nat
  OBVIOUS
<1>2. r \in Seq(Entry)
  BY <1>1, SliceType
<1>3. r = [k \in 1 .. Len(log) - d |-> log[k + d]]
  <2>1. /\ Len(log) - (d + 1) + 1 = Len(log) - d
        /\ \A k \in Int : k + (d + 1) - 1 = k + d
    BY <1>1
  <2>. QED  BY <1>1, <2>1
<1>4. Len(r) = Len(log) - d
  <2> HIDE DEF r
  <2>. QED  BY <1>1, <1>2, <1>3
<1>. QED  BY <1>1, <1>2, <1>3, <1>4

\* Where the log of n did not change, neither did the full log.
LEMMA FullLogSame ==
    ASSUME NEW i \in Node, NEW n \in NodeState, full_log[i] \in Seq(Entry),
           Holds(n, full_log[i])
    PROVE  FullLog(i, n) = full_log[i]
<1> DEFINE full == full_log[i]
           s == n.snapshot_index
           f == SubSeq(full, 1, s) \o n.log
<1>1. /\ n.log \in Seq(Entry) /\ s \in Nat /\ Len(n.log) \in Nat
      /\ Len(full) = s + Len(n.log)
      /\ \A k \in 1 .. Len(n.log) : n.log[k] = full[s + k]
  BY LogFields DEF Holds
<1>2. full \in Seq(Entry) /\ s <= Len(full)
  BY <1>1
<1>3. /\ f \in Seq(Entry) /\ Len(f) = s + Len(n.log)
      /\ \A k \in 1 .. s : f[k] = full[k]
      /\ \A k \in 1 .. Len(n.log) : f[s + k] = n.log[k]
  <2> HIDE DEF full, s
  <2>. QED  BY <1>1, <1>2, Spliced
<1>4. \A k \in 1 .. Len(f) : f[k] = full[k]
  <2> SUFFICES ASSUME NEW k \in 1 .. Len(f) PROVE f[k] = full[k]
    OBVIOUS
  <2> HIDE DEF f, full, s
  <2>1. CASE k <= s
    BY <1>1, <1>3, <2>1
  <2>2. CASE k > s
    <3>1. k - s \in 1 .. Len(n.log) /\ s + (k - s) = k
      BY <1>1, <1>3, <2>2
    <3>. QED  BY <1>1, <1>3, <3>1
  <2>. QED  BY <1>1, <1>3, <2>1, <2>2
<1>5. f = full
  <2> HIDE DEF f, full, s
  <2>. QED  BY <1>1, <1>2, <1>3, <1>4, LogsEqual
<1>. QED  BY <1>5 DEF FullLog

\* What term_at answers is the term of the entry of the full log.
LEMMA TermAtFull ==
    ASSUME NEW n \in NodeState, NEW full \in Seq(Entry), Holds(n, full),
           NEW k \in Nat
    PROVE  /\ n.snapshot_index <= Len(full) /\ LastLogIndex(n) = Len(full)
           /\ k \in n.snapshot_index .. Len(full) =>
                 TermAt(n, k) = IF k = 0 THEN 0 ELSE full[k].term
           /\ k \notin n.snapshot_index .. Len(full) => TermAt(n, k) = NoTerm
           /\ Retains(n, k) <=> k \in n.snapshot_index + 1 .. Len(full)
           /\ Retains(n, k) => EntryAt(n, k) = full[k]
<1>1. /\ n.snapshot_index \in Nat /\ Len(n.log) \in Nat
      /\ LastLogIndex(n) = n.snapshot_index + Len(n.log)
      /\ LastLogIndex(n) = Len(full)
  BY LogFields DEF Holds
<1>2. ASSUME k \in n.snapshot_index + 1 .. Len(full)
      PROVE  n.log[k - n.snapshot_index] = full[k]
  <2>1. k - n.snapshot_index \in 1 .. Len(n.log)
        /\ n.snapshot_index + (k - n.snapshot_index) = k
    BY <1>1, <1>2
  <2>. QED  BY <2>1 DEF Holds
<1>3. CASE k = n.snapshot_index
  BY <1>1, <1>3 DEF TermAt, Retains, EntryAt, Holds
<1>4. CASE k \in n.snapshot_index + 1 .. Len(full)
  BY <1>1, <1>2, <1>4 DEF TermAt, Retains, EntryAt
<1>5. CASE k \notin n.snapshot_index .. Len(full)
  BY <1>1, <1>5 DEF TermAt, Retains, EntryAt
<1>. QED  BY <1>1, <1>3, <1>4, <1>5

LEMMA HoldsSame ==
    ASSUME NEW a, NEW b, SameLog(a, b), NEW full, Holds(b, full)
    PROVE  Holds(a, full)
BY DEF SameLog, Holds, LastLogIndex

\* compact_committed drops entries, and keeps the term of the last of them.
LEMMA CompactHolds ==
    ASSUME NEW n \in NodeState, NEW full \in Seq(Entry), Holds(n, full)
    PROVE  Holds(MaybeCompactLog(n), full)
<1>1. CASE MaybeCompactLog(n) = n
  BY <1>1
<1>2. CASE MaybeCompactLog(n) # n
  <2> DEFINE c == n.commit_index
             s == n.snapshot_index
             x == MaybeCompactLog(n)
             cut == SubSeq(n.log, c - s + 1, Len(n.log))
  <2>1. /\ x = CompactCommitted(n)
        /\ c > s /\ TermAt(n, c) # NoTerm
    BY <1>2, LogFields DEF MaybeCompactLog, CompactCommitted
  <2>2. /\ c \in Nat /\ s \in Nat /\ Len(n.log) \in Nat /\ n.log \in Seq(Entry)
        /\ Len(full) = s + Len(n.log) /\ LastLogIndex(n) = Len(full)
        /\ \A k \in 1 .. Len(n.log) : n.log[k] = full[s + k]
    BY LogFields DEF Holds
  <2>3. c \in s + 1 .. Len(full) /\ TermAt(n, c) = full[c].term
    BY <2>1, <2>2, TermAtFull
  <2>4. /\ x.log = cut /\ x.snapshot_index = c
        /\ x.snapshot_term = TermAt(n, c)
    <3>1. x = [n EXCEPT !.log = cut, !.snapshot_index = c,
                        !.snapshot_term = TermAt(n, c),
                        !.last_applied = Larger(@, c)]
      BY <2>1, <2>2 DEF CompactCommitted
    <3> HIDE DEF x, cut, c
    <3>. QED  BY <3>1 DEF NodeState
  <2>5. /\ Len(cut) = Len(n.log) - (c - s)
        /\ \A k \in 1 .. Len(cut) : cut[k] = n.log[c - s + k]
    <3>1. c - s \in 0 .. Len(n.log)
      BY <2>2, <2>3
    <3> HIDE DEF c, s
    <3>. QED  BY <2>2, <3>1, Rest
  <2> HIDE DEF cut, x, c, s
  <2>6. LastLogIndex(x) = Len(full)
    BY <2>2, <2>4, <2>5 DEF LastLogIndex
  <2>7. ASSUME NEW k \in 1 .. Len(x.log) PROVE x.log[k] = full[x.snapshot_index + k]
    <3>1. c - s + k \in 1 .. Len(n.log) /\ s + (c - s + k) = c + k
      BY <2>2, <2>3, <2>4, <2>5
    <3>. QED  BY <2>2, <2>4, <2>5, <3>1
  <2>8. Holds(x, full)
    BY <2>2, <2>3, <2>4, <2>6, <2>7 DEF Holds
  <2>. QED  BY <2>8 DEF x
<1>. QED  BY <1>1, <1>2

-----------------------------------------------------------------------------
(* What the handlers do to the log.                                        *)

LEMMA CommitToLog ==
    ASSUME NEW n \in NodeState, NEW index
    PROVE  SameLog(CommitTo(n, index), n)
BY DEF CommitTo, NodeState, SameLog

LEMMA MarkAppliedLog ==
    ASSUME NEW n \in NodeState
    PROVE  SameLog(MarkApplied(n), n)
BY DEF MarkApplied, NodeState, SameLog

LEMMA BecomeFollowerLog ==
    ASSUME NEW n \in NodeState, NEW term, NEW leader
    PROVE  /\ SameLog(BecomeFollower(n, term, leader), n)
           /\ BecomeFollower(n, term, leader).commit_index = n.commit_index
BY DEF BecomeFollower, NodeState, SameLog

LEMMA StartElectionLog ==
    ASSUME NEW i, NEW n \in NodeState
    PROVE  /\ SameLog(StartElection(i, n), n)
           /\ StartElection(i, n).commit_index = n.commit_index
BY DEF StartElection, NodeState, SameLog

LEMMA HandleRequestVoteLog ==
    ASSUME NEW n \in NodeState, NEW m \in RequestVoteMessage
    PROVE  /\ SameLog(HandleRequestVote(n, m), n)
           /\ HandleRequestVote(n, m).commit_index = n.commit_index
<1> DEFINE x == SeenTerm(n, m)
<1>1. x \in NodeState /\ SameLog(x, n) /\ x.commit_index = n.commit_index
  BY SeenTermType, BecomeFollowerLog DEF SeenTerm, SameLog, RequestVoteMessage
<1>2. HandleRequestVote(n, m) \in {x, [x EXCEPT !.voted_for = m.from]}
  BY DEF HandleRequestVote
<1> HIDE DEF x
<1>. QED  BY <1>1, <1>2 DEF SameLog, NodeState

\* A winner starts with the log of the candidate, and with match indices that
\* its snapshot covers.
LEMMA HandleRequestVoteResponseLog ==
    ASSUME NEW i \in Node, NEW n \in NodeState,
           NEW m \in RequestVoteResponseMessage
    PROVE  LET x == HandleRequestVoteResponse(i, n, m)
           IN  /\ SameLog(x, n) /\ x.commit_index = n.commit_index
               /\ WinsElection(i, n, m) => \A p \in Peers(i) :
                     x.match_index[p] = n.snapshot_index
               /\ (x.role = "Leader" /\ ~WinsElection(i, n, m)) => x = n
<1> DEFINE x == HandleRequestVoteResponse(i, n, m)
           counted == [n EXCEPT !.votes_received = Tally(n, m)]
<1>0. /\ m.term \in Nat /\ n.current_term \in Nat
      /\ n.votes_received \subseteq Node /\ m.from \in Node
  BY DEF RequestVoteResponseMessage, NodeState
<1>1. counted \in NodeState /\ SameLog(counted, n)
      /\ counted.commit_index = n.commit_index
      /\ counted.snapshot_index = n.snapshot_index
      /\ counted.role = n.role
  BY <1>0 DEF NodeState, SameLog, Tally
<1>2. CASE m.term > n.current_term
  <2>1. x = BecomeFollower(n, m.term, Nil)
    BY <1>2 DEF HandleRequestVoteResponse
  <2>2. ~WinsElection(i, n, m)
    BY <1>0, <1>2 DEF WinsElection
  <2>3. x.role = "Follower"
    BY <1>0, <2>1, BecomeFollowerType
  <2>. QED  BY <2>1, <2>2, <2>3, BecomeFollowerLog
<1>3. CASE /\ ~(m.term > n.current_term)
           /\ n.role # "Candidate" \/ m.term # n.current_term
  <2>1. x = n /\ ~WinsElection(i, n, m)
    BY <1>3 DEF HandleRequestVoteResponse, WinsElection
  <2>. QED  BY <2>1 DEF SameLog
<1>4. CASE /\ ~(m.term > n.current_term)
           /\ ~(n.role # "Candidate" \/ m.term # n.current_term)
  <2>1. x = IF WinsElection(i, n, m) THEN BecomeLeader(i, counted) ELSE counted
    BY <1>4 DEF HandleRequestVoteResponse
  <2> HIDE DEF counted
  <2>2. /\ SameLog(BecomeLeader(i, counted), counted)
        /\ BecomeLeader(i, counted).commit_index = counted.commit_index
        /\ \A p \in Peers(i) : BecomeLeader(i, counted).match_index[p]
                                 = counted.snapshot_index
    BY <1>1 DEF BecomeLeader, NodeState, SameLog, Peers
  <2>. QED  BY <1>1, <1>4, <2>1, <2>2 DEF SameLog
<1>. QED  BY <1>2, <1>3, <1>4

LEMMA FollowLeaderLog ==
    ASSUME NEW n \in NodeState, NEW m \in AppendEntriesMessage
    PROVE  /\ SameLog(FollowLeader(n, m), n)
           /\ FollowLeader(n, m).commit_index = n.commit_index
<1>1. CASE m.term > n.current_term \/ n.role # "Follower"
  BY <1>1, BecomeFollowerLog DEF FollowLeader
<1>2. CASE ~(m.term > n.current_term \/ n.role # "Follower")
  <2>1. FollowLeader(n, m) = [n EXCEPT !.leader_id = m.from]
    BY <1>2 DEF FollowLeader
  <2>. QED  BY <2>1 DEF SameLog, NodeState
<1>. QED  BY <1>1, <1>2

\* A request that is refused changes no log, one that is accepted merges.
LEMMA HandleAppendEntriesLog ==
    ASSUME NEW n \in NodeState, NEW m \in AppendEntriesMessage
    PROVE  LET x == HandleAppendEntries(n, m)
           IN  /\ x.snapshot_index = n.snapshot_index
               /\ x.snapshot_term = n.snapshot_term
               /\ x.log = IF AcceptsEntries(n, m) THEN MergeEntries(n, m)
                                                  ELSE n.log
<1> DEFINE x == HandleAppendEntries(n, m)
           f == FollowLeader(n, m)
           merged == [f EXCEPT !.log = MergeEntries(f, m)]
           target == Smaller(m.leader_commit, LastLogIndex(merged))
<1>0. m.term \in Nat /\ n.current_term \in Nat
  BY DEF AppendEntriesMessage, NodeState
<1>1. f \in NodeState /\ SameLog(f, n)
  BY FollowLeaderType, FollowLeaderLog
<1>2. CASE m.term < n.current_term
  BY <1>0, <1>2 DEF HandleAppendEntries, AcceptsEntries
<1>3. CASE ~(m.term < n.current_term) /\ ~LogMatches(n, m)
  <2>1. x = f /\ ~AcceptsEntries(n, m)
    BY <1>3 DEF HandleAppendEntries, AcceptsEntries
  <2>. QED  BY <1>1, <2>1 DEF SameLog
<1>4. CASE ~(m.term < n.current_term) /\ LogMatches(n, m)
  <2>1. AcceptsEntries(n, m)
    BY <1>0, <1>4 DEF AcceptsEntries
  <2>2. MergeEntries(f, m) = MergeEntries(n, m)
    BY <1>1 DEF SameLog, MergeEntries
  <2>3. LogMatches(f, m)
    BY <1>1, <1>4 DEF SameLog, LogMatches, TermAt, LastLogIndex
  <2>4. MergeEntries(f, m) \in Seq(Entry)
    BY <1>1, <2>3, MergeType
  <2>5. /\ merged \in NodeState /\ merged.log = MergeEntries(f, m)
        /\ merged.snapshot_index = f.snapshot_index
        /\ merged.snapshot_term = f.snapshot_term
    BY <1>1, <2>4 DEF NodeState
  <2>6. x \in {merged, CommitTo(merged, target)}
    BY <1>4 DEF HandleAppendEntries
  <2> HIDE DEF x, merged, target, f
  <2>7. SameLog(CommitTo(merged, target), merged)
    BY <2>5, CommitToLog
  <2>8. SameLog(x, merged)
    BY <2>6, <2>7 DEF SameLog
  <2>9. /\ x.snapshot_index = n.snapshot_index
        /\ x.snapshot_term = n.snapshot_term
        /\ x.log = MergeEntries(n, m)
    BY <1>1, <2>2, <2>5, <2>8 DEF SameLog
  <2>. QED  BY <2>1, <2>9 DEF x
<1>. QED  BY <1>2, <1>3, <1>4

LEMMA TryAdvanceLog ==
    ASSUME NEW i \in Node, NEW n \in NodeState
    PROVE  SameLog(TryAdvanceCommit(i, n), n)
BY CommitToLog DEF TryAdvanceCommit, SameLog

LEMMA HandleAppendEntriesResponseLog ==
    ASSUME NEW i \in Node, NEW n \in NodeState,
           NEW m \in AppendEntriesResponseMessage
    PROVE  SameLog(HandleAppendEntriesResponse(i, n, m), n)
<1> DEFINE x == HandleAppendEntriesResponse(i, n, m)
           counted == [n EXCEPT !.match_index[m.from] = m.match_index,
                                !.next_index[m.from] = m.match_index + 1]
           back == [n EXCEPT !.next_index[m.from] =
                     Larger((IF @ = 0 THEN LastLogIndex(n) + 1 ELSE @) - 1, 1)]
<1>1. counted \in NodeState /\ SameLog(counted, n)
  <2>1. m.match_index \in Nat /\ m.match_index + 1 \in Nat /\ m.from \in Node
    BY DEF AppendEntriesResponseMessage
  <2>. QED  BY <2>1 DEF NodeState, SameLog
<1>2. SameLog(back, n)
  BY DEF NodeState, SameLog
<1>3. SameLog(BecomeFollower(n, m.term, Nil), n)
  BY BecomeFollowerLog
<1>4. SameLog(TryAdvanceCommit(i, counted), n)
  <2> HIDE DEF counted
  <2>. QED  BY <1>1, TryAdvanceLog DEF SameLog
<1>5. x \in {BecomeFollower(n, m.term, Nil), n, TryAdvanceCommit(i, counted), back}
  BY DEF HandleAppendEntriesResponse
<1> HIDE DEF x, counted, back
<1>6. SameLog(x, n)
  BY <1>2, <1>3, <1>4, <1>5 DEF SameLog
<1>. QED  BY <1>6 DEF x

LEMMA ProposeLog ==
    ASSUME NEW i \in Node, NEW n \in NodeState, NEW command \in Value
    PROVE  LET x == ProposeCommand(i, n, command)
           IN  /\ x.log = Append(n.log, [term |-> n.current_term,
                                         command |-> command])
               /\ x.snapshot_index = n.snapshot_index
               /\ x.snapshot_term = n.snapshot_term
<1> DEFINE entry == [term |-> n.current_term, command |-> command]
           grown == [n EXCEPT !.log = Append(@, entry),
                              !.match_index[i] = LastLogIndex(n) + 1]
           x == ProposeCommand(i, n, command)
<1>1. entry \in Entry /\ LastLogIndex(n) + 1 \in Nat
  BY LogFields, LastLogIndexType DEF Entry
<1> HIDE DEF entry
<1>2. /\ grown \in NodeState /\ grown.log = Append(n.log, entry)
      /\ grown.snapshot_index = n.snapshot_index
      /\ grown.snapshot_term = n.snapshot_term
  <2>1. n.log \in Seq(Entry)
    BY DEF NodeState
  <2>2. Append(n.log, entry) \in Seq(Entry)
    BY <1>1, <2>1
  <2> HIDE DEF entry
  <2>. QED  BY <1>1, <2>2 DEF NodeState
<1>3. x \in {grown, CommitTo(grown, LastLogIndex(grown))}
  BY DEF ProposeCommand, entry
<1> HIDE DEF grown
<1>4. SameLog(x, grown)
  BY <1>2, <1>3, CommitToLog DEF SameLog
<1> HIDE DEF x
<1>5. /\ x.log = Append(n.log, entry)
      /\ x.snapshot_index = n.snapshot_index
      /\ x.snapshot_term = n.snapshot_term
  BY <1>2, <1>4 DEF SameLog
<1>. QED  BY <1>5 DEF x, entry

LEMMA RestoreLog ==
    ASSUME NEW image \in StorageSnapshot
    PROVE  /\ RestoreFromStorage(image).log = image.log
           /\ RestoreFromStorage(image).snapshot_index = image.last_included_index
           /\ RestoreFromStorage(image).snapshot_term = image.last_included_term
BY DEF RestoreFromStorage, CommitTo, NewNode

-----------------------------------------------------------------------------
(* What a pass of the loop does to the histories.                          *)

\* n is node i after its handler, before compaction.  Its log from index 1 is
\* well formed when the handler kept the snapshot point.
LEMMA FullLogHolds ==
    ASSUME NEW i \in Node, NEW a \in NodeState, NEW n \in NodeState,
           full_log[i] \in Seq(Entry), Holds(a, full_log[i]),
           n.snapshot_index = a.snapshot_index, n.snapshot_term = a.snapshot_term
    PROVE  LET full == FullLog(i, n)
           IN  /\ full \in Seq(Entry) /\ Holds(n, full)
               /\ Len(full) = n.snapshot_index + Len(n.log)
               /\ n.snapshot_index <= Len(full_log[i])
               /\ \A k \in 1 .. n.snapshot_index : full[k] = full_log[i][k]
               /\ \A k \in 1 .. Len(n.log) : full[n.snapshot_index + k] = n.log[k]
<1> DEFINE old == full_log[i]
           s == n.snapshot_index
           full == SubSeq(old, 1, s) \o n.log
<1>1. /\ n.log \in Seq(Entry) /\ s \in Nat /\ Len(n.log) \in Nat
      /\ LastLogIndex(n) = s + Len(n.log)
  BY LogFields
<1>2. old \in Seq(Entry) /\ s <= Len(old)
  BY LogFields DEF Holds
<1>3. /\ full \in Seq(Entry) /\ Len(full) = s + Len(n.log)
      /\ \A k \in 1 .. s : full[k] = old[k]
      /\ \A k \in 1 .. Len(n.log) : full[s + k] = n.log[k]
  <2> HIDE DEF old, s
  <2>. QED  BY <1>1, <1>2, Spliced
<1>4. Holds(n, full)
  <2>1. n.snapshot_term = IF s = 0 THEN 0 ELSE old[s].term
    BY DEF Holds
  <2>2. s # 0 => full[s] = old[s]
    <3>1. s # 0 => s \in 1 .. s
      BY <1>1
    <3> HIDE DEF full, old, s
    <3>. QED  BY <1>3, <3>1
  <2> HIDE DEF full, old
  <2>. QED  BY <1>1, <1>3, <2>1, <2>2 DEF Holds
<1>. QED  BY <1>2, <1>3, <1>4 DEF FullLog

\* Node i now has the log full, in memory and on disk, and n's role and term.
Writes(i, n, full) ==
    /\ full_log' = [full_log EXCEPT ![i] = full]
    /\ term_log' = IF n.role = "Leader"
                   THEN [t \in DOMAIN term_log \cup {n.current_term} |->
                            IF t = n.current_term THEN full ELSE term_log[t]]
                   ELSE term_log
    /\ Holds(node'[i], full)
    /\ node'[i].current_term = n.current_term
    /\ node'[i].role = n.role
    /\ disk'[i].log = node'[i].log
    /\ disk'[i].last_included_index = node'[i].snapshot_index
    /\ disk'[i].last_included_term = node'[i].snapshot_term
    /\ \A j \in Node \ {i} : node'[j] = node[j] /\ disk'[j] = disk[j]

LEMMA PersistWrites ==
    ASSUME TypeOK, SaveSucceeds = {TRUE}, NEW i \in Node, NEW n \in NodeState,
           NEW executed, Persist(i, n, executed),
           FullLog(i, n) \in Seq(Entry), Holds(n, FullLog(i, n))
    PROVE  Writes(i, n, FullLog(i, n))
<1> DEFINE x == MaybeCompactLog(n)
<1>1. /\ node' = [node EXCEPT ![i] = x]
      /\ disk' = [disk EXCEPT ![i] = FromNode(x, executed)]
      /\ RecordLog(i, n)
  BY DEF Persist
<1>2. x \in NodeState /\ SameBallot(x, n) /\ Holds(x, FullLog(i, n))
  BY CompactType, CompactHolds
<1>3. node \in [Node -> NodeState] /\ disk \in [Node -> StorageSnapshot]
  BY DEF TypeOK
<1> HIDE DEF x
<1>4. node'[i] = x /\ disk'[i] = FromNode(x, executed)
      /\ \A j \in Node \ {i} : node'[j] = node[j] /\ disk'[j] = disk[j]
  BY <1>1, <1>3
<1>5. /\ FromNode(x, executed).log = x.log
      /\ FromNode(x, executed).last_included_index = x.snapshot_index
      /\ FromNode(x, executed).last_included_term = x.snapshot_term
  BY DEF FromNode
<1>. QED  BY <1>1, <1>2, <1>4, <1>5 DEF Writes, RecordLog, SameBallot

LEMMA ApplyWrites ==
    ASSUME TypeOK, SaveSucceeds = {TRUE}, NEW i \in Node, NEW n \in NodeState,
           ApplyAndPersist(i, n),
           FullLog(i, n) \in Seq(Entry), Holds(n, FullLog(i, n))
    PROVE  Writes(i, n, FullLog(i, n))
<1> DEFINE a == MarkApplied(n)
<1>1. a \in NodeState /\ SameLog(a, n) /\ SameBallot(a, n)
  BY MarkAppliedType, MarkAppliedLog
<1>2. Persist(i, a, Executed(state_machine[i], n))
  BY DEF ApplyAndPersist
<1> HIDE DEF a
<1>3. FullLog(i, a) = FullLog(i, n)
  BY <1>1 DEF FullLog, SameLog
<1>4. Holds(a, FullLog(i, n))
  BY <1>1, HoldsSame
<1>5. Writes(i, a, FullLog(i, n))
  BY <1>1, <1>2, <1>3, <1>4, PersistWrites
<1>. QED  BY <1>1, <1>5 DEF Writes, SameBallot

\* A handler that leaves the log alone leaves the full log alone.
LEMMA KeepsFullLog ==
    ASSUME HistoryType, LogsAreHeld, NEW i \in Node, NEW n \in NodeState,
           SameLog(n, node[i])
    PROVE  /\ FullLog(i, n) = full_log[i] /\ full_log[i] \in Seq(Entry)
           /\ Holds(n, full_log[i])
<1>1. Holds(node[i], full_log[i]) /\ full_log[i] \in Seq(Entry)
  BY DEF LogsAreHeld, HistoryType
<1>. QED  BY <1>1, HoldsSame, FullLogSame

-----------------------------------------------------------------------------
(* The logs of the leaders only grow, and what follows them still does.    *)

\* b is a, with entries of term t behind it.
Extends(a, b, t) ==
    /\ SamePrefix(a, b, Len(a))
    /\ \A k \in Len(a) + 1 .. Len(b) : b[k].term = t

Grows ==
    \A t \in DOMAIN term_log :
        /\ t \in DOMAIN term_log'
        /\ Extends(term_log[t], term_log'[t], t)

LEMMA GrowsFollows ==
    ASSUME HistoryType, HistoryType', Grows, NEW log \in Seq(Entry),
           FollowsLeaders(log)
    PROVE  FollowsLeaders(log)'
<1> SUFFICES ASSUME NEW k \in DOMAIN log
             PROVE  /\ log[k].term \in DOMAIN term_log'
                    /\ SamePrefix(log, term_log'[log[k].term], k)
  BY DEF FollowsLeaders, SamePrefix
<1> DEFINE t == log[k].term
<1>1. k \in 1 .. Len(log) /\ Len(log) \in Nat
  OBVIOUS
<1>2. t \in DOMAIN term_log /\ SamePrefix(log, term_log[t], k)
  BY DEF FollowsLeaders
<1> HIDE DEF t
<1>3. t \in DOMAIN term_log' /\ SamePrefix(term_log[t], term_log'[t], Len(term_log[t]))
  BY <1>2 DEF Grows, Extends
<1>4. term_log[t] \in Seq(Entry) /\ term_log'[t] \in Seq(Entry)
  BY <1>2, <1>3 DEF HistoryType
<1>5. Len(term_log[t]) \in Nat /\ Len(term_log'[t]) \in Nat
  BY <1>4
<1>6. SamePrefix(log, term_log'[t], k)
  BY <1>1, <1>2, <1>3, <1>5 DEF SamePrefix
<1>. QED  BY <1>3, <1>6 DEF t

LEMMA GrowsCarries ==
    ASSUME HistoryType, HistoryType', Grows, NEW m \in AppendEntriesMessage,
           CarriesLog(m)
    PROVE  CarriesLog(m)'
<1> DEFINE old == term_log[m.term]
           new == term_log'[m.term]
<1>1. /\ m.term \in DOMAIN term_log /\ m.term \in DOMAIN term_log'
      /\ SamePrefix(old, new, Len(old))
  BY DEF CarriesLog, Grows, Extends
<1>2. old \in Seq(Entry) /\ new \in Seq(Entry)
  BY <1>1 DEF HistoryType
<1>3. /\ m.prev_log_index \in Nat /\ m.entries \in Seq(Entry)
  BY DEF AppendEntriesMessage
<1>4. /\ m.prev_log_index + Len(m.entries) <= Len(old)
      /\ \A k \in 1 .. Len(m.entries) : m.entries[k] = old[m.prev_log_index + k]
      /\ m.prev_log_index > 0 => m.prev_log_term = old[m.prev_log_index].term
  BY DEF CarriesLog
<1>5. Len(old) \in Nat /\ Len(new) \in Nat /\ Len(m.entries) \in Nat
  BY <1>2, <1>3
<1> HIDE DEF old, new
<1>6. ASSUME NEW k \in 1 .. Len(m.entries)
      PROVE  m.entries[k] = new[m.prev_log_index + k]
  <2>1. m.prev_log_index + k \in 1 .. Len(old)
    BY <1>3, <1>4, <1>5
  <2>. QED  BY <1>1, <1>4, <2>1 DEF SamePrefix
<1>7. m.prev_log_index > 0 => m.prev_log_term = new[m.prev_log_index].term
  <2>1. m.prev_log_index > 0 => m.prev_log_index \in 1 .. Len(old)
    BY <1>3, <1>4, <1>5
  <2>. QED  BY <1>1, <1>4, <2>1 DEF SamePrefix
<1>8. m.prev_log_index + Len(m.entries) <= Len(new)
  BY <1>1, <1>3, <1>4, <1>5 DEF SamePrefix
<1>. QED  BY <1>1, <1>6, <1>7, <1>8 DEF CarriesLog, new

LEMMA ExtendsItself ==
    ASSUME NEW log \in Seq(Entry), NEW t
    PROVE  Extends(log, log, t)
<1>1. Len(log) \in Nat
  OBVIOUS
<1>2. Len(log) + 1 .. Len(log) = {}
  BY <1>1
<1>. QED  BY <1>1, <1>2 DEF Extends, SamePrefix

LEMMA WritesHistory ==
    ASSUME HistoryType, NEW i \in Node, NEW n \in NodeState,
           NEW full \in Seq(Entry), Writes(i, n, full),
           (n.role = "Leader" /\ n.current_term \in DOMAIN term_log) =>
              Extends(term_log[n.current_term], full, n.current_term)
    PROVE  /\ HistoryType' /\ Grows
           /\ full_log'[i] = full
           /\ \A j \in Node \ {i} : full_log'[j] = full_log[j]
           /\ n.role = "Leader" =>
                 /\ DOMAIN term_log' = DOMAIN term_log \cup {n.current_term}
                 /\ term_log'[n.current_term] = full
           /\ n.role # "Leader" => term_log' = term_log
           /\ \A t \in DOMAIN term_log :
                 \/ term_log'[t] = term_log[t]
                 \/ n.role = "Leader" /\ t = n.current_term
<1> DEFINE u == n.current_term
<1>1. u \in Nat
  BY LogFields
<1>2. /\ full_log \in [Node -> Seq(Entry)] /\ DOMAIN term_log \subseteq Nat
      /\ \A t \in DOMAIN term_log : /\ term_log[t] \in Seq(Entry)
                                    /\ Len(term_log[t]) \in Nat
  BY DEF HistoryType
<1>3. /\ full_log' = [full_log EXCEPT ![i] = full]
      /\ full_log' \in [Node -> Seq(Entry)]
      /\ full_log'[i] = full
      /\ \A j \in Node \ {i} : full_log'[j] = full_log[j]
  BY <1>2 DEF Writes
<1>4. CASE n.role = "Leader"
  <2>1. term_log' = [t \in DOMAIN term_log \cup {u} |->
                        IF t = u THEN full ELSE term_log[t]]
    BY <1>4 DEF Writes
  <2> HIDE DEF u
  <2>2. /\ DOMAIN term_log' = DOMAIN term_log \cup {u} /\ term_log'[u] = full
        /\ \A t \in DOMAIN term_log : t # u => term_log'[t] = term_log[t]
    BY <2>1
  <2>3. \A t \in DOMAIN term_log' : term_log'[t] \in Seq(Entry)
    BY <1>2, <2>2
  <2>4. term_log' \in [DOMAIN term_log' -> Seq(Entry)]
    BY <2>1, <2>2, <2>3
  <2>5. HistoryType'
    BY <1>1, <1>2, <1>3, <2>2, <2>4 DEF HistoryType, u
  <2>6. ASSUME NEW t \in DOMAIN term_log
        PROVE  /\ t \in DOMAIN term_log'
               /\ Extends(term_log[t], term_log'[t], t)
    <3>1. CASE t = u
      BY <1>4, <2>2, <3>1 DEF u
    <3>2. CASE t # u
      BY <1>2, <2>2, <3>2, ExtendsItself
    <3>. QED  BY <3>1, <3>2
  <2>7. Grows
    BY <2>6 DEF Grows
  <2>. QED  BY <1>3, <1>4, <2>2, <2>5, <2>7 DEF u
<1>5. CASE n.role # "Leader"
  <2>1. term_log' = term_log
    BY <1>5 DEF Writes
  <2>2. HistoryType'
    BY <1>2, <1>3, <2>1 DEF HistoryType
  <2>3. Grows
    BY <1>2, <2>1, ExtendsItself DEF Grows
  <2>. QED  BY <1>3, <1>5, <2>1, <2>2, <2>3
<1>. QED  BY <1>4, <1>5

\* The logs of the leaders grow, and terms never go back.
Advances == Grows /\ \A i \in Node :
                       node'[i].current_term >= node[i].current_term

\* What a pass of the loop has to establish for LogInv to stay: its log
\* follows the leaders, its messages carry the log of their term, and the
\* log of a term only grows.
LEMMA PassKeeps ==
    ASSUME TypeOK, LogInv, ElectionInv', TypeOK',
           NEW i \in Node, NEW n \in NodeState,
           NEW full \in Seq(Entry), Writes(i, n, full),
           n.current_term >= node[i].current_term,
           n.role = "Candidate" => \/ n.current_term > node[i].current_term
                                   \/ node[i].role = "Candidate",
           (n.role = "Leader" /\ n.current_term \in DOMAIN term_log) =>
              Extends(term_log[n.current_term], full, n.current_term),
           FollowsLeaders(full)', Sorted(full, n.current_term),
           elected \subseteq elected',
           \A e \in elected' : e \notin elected =>
              e.term = n.current_term /\ e.leader = i /\ n.role = "Leader",
           NEW out, msgs' \subseteq msgs \cup out,
           \A m \in out : m.type = "AppendEntries" => CarriesLog(m)'
    PROVE  LogInv' /\ Advances
<1> DEFINE u == n.current_term
<1>1. /\ HistoryType' /\ Grows
      /\ full_log'[i] = full
      /\ \A j \in Node \ {i} : full_log'[j] = full_log[j]
      /\ n.role = "Leader" => /\ DOMAIN term_log' = DOMAIN term_log \cup {u}
                              /\ term_log'[u] = full
      /\ n.role # "Leader" => term_log' = term_log
      /\ \A t \in DOMAIN term_log :
            term_log'[t] = term_log[t] \/ (n.role = "Leader" /\ t = u)
  BY WritesHistory DEF LogInv
<1>2. /\ node'[i].current_term = u /\ node'[i].role = n.role
      /\ \A j \in Node \ {i} : node'[j] = node[j] /\ disk'[j] = disk[j]
  BY DEF Writes
<1>3. LogsAreHeld'
  BY <1>1, <1>2 DEF LogInv, LogsAreHeld, Writes
<1>4. LogIsSaved'
  BY <1>2 DEF LogInv, LogIsSaved, Writes
<1>5. /\ u \in Nat /\ \A j \in Node : node[j].current_term \in Nat
      /\ \A e \in elected' : e.term \in Nat /\ e.leader \in Node
      /\ \A t \in DOMAIN term_log : t \in Nat /\ term_log[t] \in Seq(Entry)
      /\ \A j \in Node : full_log[j] \in Seq(Entry)
  <2>1. \A j \in Node : node[j].current_term \in Nat
    BY LogFields DEF TypeOK
  <2>2. \A e \in elected' : e.term \in Nat /\ e.leader \in Node
    BY DEF TypeOK, Election
  <2>. QED  BY <2>1, <2>2, LogFields DEF LogInv, HistoryType
<1>6. LeadersHaveLogs'
  <2>1. n.role = "Leader" => \E e \in elected' : e.term = u /\ e.leader = i
    BY <1>2 DEF ElectionInv, RolesAreEarned, Won
  <2>2. \A t \in DOMAIN term_log' : \E e \in elected' : e.term = t
    <3>1. \A t \in DOMAIN term_log' : t \in DOMAIN term_log \/ (n.role = "Leader" /\ t = u)
      BY <1>1
    <3>. QED  BY <2>1, <3>1 DEF LogInv, LeadersHaveLogs
  <2>3. ASSUME NEW e \in elected'
        PROVE  /\ e.term \in DOMAIN term_log'
               /\ e.term <= node'[e.leader].current_term
               /\ e.term = node'[e.leader].current_term =>
                     node'[e.leader].role # "Candidate"
    <3>1. CASE e \notin elected
      <4>1. e.term = u /\ e.leader = i /\ n.role = "Leader"
        BY <3>1
      <4>. QED  BY <1>1, <1>2, <1>5, <4>1
    <3>2. CASE e \in elected
      <4>1. /\ e.term \in DOMAIN term_log
            /\ e.term <= node[e.leader].current_term
            /\ e.term = node[e.leader].current_term =>
                  node[e.leader].role # "Candidate"
        BY <3>2 DEF LogInv, LeadersHaveLogs
      <4>2. e.term \in DOMAIN term_log'
        BY <1>1, <4>1 DEF Grows
      <4>3. CASE e.leader = i
        BY <1>2, <1>5, <4>1, <4>2, <4>3
      <4>4. CASE e.leader # i
        BY <1>2, <1>5, <4>1, <4>2, <4>4
      <4>. QED  BY <4>3, <4>4
    <3>. QED  BY <3>1, <3>2
  <2>4. ASSUME NEW j \in Node, node'[j].role = "Leader"
        PROVE  full_log'[j] = term_log'[node'[j].current_term]
    <3>1. CASE j = i
      BY <1>1, <1>2, <2>4, <3>1
    <3>2. CASE j # i
      <4>1. /\ full_log[j] = term_log[node[j].current_term]
            /\ node[j].current_term \in DOMAIN term_log
        <5>1. \E e \in elected' : /\ e.term = node'[j].current_term
                                  /\ e.leader = j
          BY <2>4 DEF ElectionInv, RolesAreEarned, Won
        <5>2. PICK e \in elected' : e.term = node[j].current_term /\ e.leader = j
          BY <1>2, <3>2, <5>1
        <5>3. e \in elected
          BY <3>2, <5>2
        <5>. QED  BY <1>2, <2>4, <3>2, <5>2, <5>3 DEF LogInv, LeadersHaveLogs
      <4>2. ~(n.role = "Leader" /\ u = node[j].current_term)
        <5> SUFFICES ASSUME n.role = "Leader", u = node[j].current_term
                     PROVE  FALSE
          OBVIOUS
        <5>1. \E e \in elected' : e.term = u /\ e.leader = j
          BY <1>2, <2>4, <3>2 DEF ElectionInv, RolesAreEarned, Won
        <5>. QED  BY <2>1, <3>2, <5>1 DEF ElectionInv, ElectionSafety
      <4>. QED  BY <1>1, <1>2, <3>2, <4>1, <4>2
    <3>. QED  BY <3>1, <3>2
  <2>. QED  BY <2>2, <2>3, <2>4 DEF LeadersHaveLogs
<1>7. LogsFollowLeaders'
  <2>1. ASSUME NEW j \in Node PROVE FollowsLeaders(full_log[j])'
    <3>1. CASE j = i
      BY <1>1, <3>1 DEF FollowsLeaders
    <3>2. CASE j # i
      <4>1. FollowsLeaders(full_log[j])
        BY DEF LogInv, LogsFollowLeaders
      <4>2. \A k \in DOMAIN full_log[j] :
               /\ full_log[j][k].term \in DOMAIN term_log'
               /\ SamePrefix(full_log[j], term_log'[full_log[j][k].term], k)
        BY <1>1, <1>5, <4>1, GrowsFollows DEF LogInv, FollowsLeaders
      <4>. QED  BY <1>1, <3>2, <4>2 DEF FollowsLeaders
    <3>. QED  BY <3>1, <3>2
  <2>2. ASSUME NEW t \in DOMAIN term_log' PROVE FollowsLeaders(term_log[t])'
    <3>1. CASE n.role = "Leader" /\ t = u
      BY <1>1, <3>1 DEF FollowsLeaders
    <3>2. CASE ~(n.role = "Leader" /\ t = u)
      <4>1. t \in DOMAIN term_log /\ term_log'[t] = term_log[t]
        BY <1>1, <3>2
      <4>2. FollowsLeaders(term_log[t])
        BY <4>1 DEF LogInv, LogsFollowLeaders
      <4>3. \A k \in DOMAIN term_log[t] :
               /\ term_log[t][k].term \in DOMAIN term_log'
               /\ SamePrefix(term_log[t], term_log'[term_log[t][k].term], k)
        BY <1>1, <1>5, <4>1, <4>2, GrowsFollows DEF LogInv, FollowsLeaders
      <4>. QED  BY <4>1, <4>3 DEF FollowsLeaders
    <3>. QED  BY <3>1, <3>2
  <2>. QED  BY <2>1, <2>2 DEF LogsFollowLeaders
<1>8. MessagesCarryLogs'
  <2> SUFFICES ASSUME NEW m \in msgs', m.type = "AppendEntries"
               PROVE  CarriesLog(m)'
    BY DEF MessagesCarryLogs
  <2>1. CASE m \in out
    BY <2>1
  <2>2. CASE m \in msgs
    <3>1. m \in AppendEntriesMessage /\ CarriesLog(m)
      BY <2>2, MessageFields DEF TypeOK, LogInv, MessagesCarryLogs
    <3>. QED  BY <1>1, <3>1, GrowsCarries DEF LogInv
  <2>. QED  BY <2>1, <2>2
<1>9. LogsAreSorted'
  <2>1. ASSUME NEW j \in Node
        PROVE  Sorted(full_log'[j], node'[j].current_term)
    BY <1>1, <1>2 DEF LogInv, LogsAreSorted
  <2>2. ASSUME NEW t \in DOMAIN term_log' PROVE Sorted(term_log'[t], t)
    BY <1>1 DEF LogInv, LogsAreSorted
  <2>. QED  BY <2>1, <2>2 DEF LogsAreSorted
<1>10. \A j \in Node : node'[j].current_term >= node[j].current_term
  BY <1>2, <1>5
<1>. QED  BY <1>1, <1>3, <1>4, <1>6, <1>7, <1>8, <1>9, <1>10 DEF LogInv, Advances

-----------------------------------------------------------------------------
(* Requests carry pieces of the leader's log.                              *)

LEMMA BuildCarries ==
    ASSUME NEW i \in Node, NEW n \in NodeState, NEW p \in Node,
           NEW full \in Seq(Entry), Holds(n, full),
           NEW m \in BuildAppendEntries(i, n, p)
    PROVE  /\ m.prev_log_index + Len(m.entries) = Len(full)
           /\ \A k \in 1 .. Len(m.entries) :
                 m.entries[k] = full[m.prev_log_index + k]
           /\ m.prev_log_index > 0 =>
                 m.prev_log_term = full[m.prev_log_index].term
           /\ m.leader_commit = n.commit_index
<1> DEFINE next == IF n.next_index[p] = 0 THEN 1 ELSE n.next_index[p]
           prev == next - 1
           s == n.snapshot_index
           d == prev - s
           entries == SubSeq(n.log, d + 1, Len(n.log))
<1>1. /\ n.next_index[p] \in Nat /\ s \in Nat /\ n.log \in Seq(Entry)
      /\ Len(n.log) \in Nat /\ Len(full) = s + Len(n.log)
      /\ \A k \in 1 .. Len(n.log) : n.log[k] = full[s + k]
  BY LogFields DEF NodeState, Holds
<1>2. next > s /\ TermAt(n, prev) # NoTerm
  BY <1>1 DEF BuildAppendEntries
<1>3. /\ m.prev_log_index = prev /\ m.prev_log_term = TermAt(n, prev)
      /\ m.entries = entries /\ m.leader_commit = n.commit_index
  <2>1. next - s = d + 1
    BY <1>1
  <2>2. BuildAppendEntries(i, n, p) =
          {[type |-> "AppendEntries", from |-> i, to |-> p,
            term |-> n.current_term, prev_log_index |-> prev,
            prev_log_term |-> TermAt(n, prev),
            entries |-> SubSeq(n.log, next - s, Len(n.log)),
            leader_commit |-> n.commit_index]}
    BY <1>1, <1>2 DEF BuildAppendEntries
  <2> HIDE DEF next, prev, s, d
  <2>. QED  BY <2>1, <2>2
<1>4. next \in Nat \ {0} /\ prev \in Nat
  BY <1>1
<1> HIDE DEF next
<1>5. /\ prev \in s .. Len(full)
      /\ prev > 0 => TermAt(n, prev) = full[prev].term
  BY <1>1, <1>2, <1>4, TermAtFull
<1>6. d \in 0 .. Len(n.log) /\ s + d = prev
  BY <1>1, <1>4, <1>5
<1> HIDE DEF prev, d
<1>7. /\ Len(entries) = Len(n.log) - d
      /\ \A k \in 1 .. Len(entries) : entries[k] = n.log[d + k]
  BY <1>1, <1>6, Rest
<1> HIDE DEF entries
<1>8. prev + Len(entries) = Len(full)
  BY <1>1, <1>4, <1>6, <1>7
<1>9. ASSUME NEW k \in 1 .. Len(entries) PROVE entries[k] = full[prev + k]
  <2> HIDE DEF s
  <2>1. d \in Nat /\ k \in Nat /\ 1 <= k /\ k <= Len(n.log) - d
    BY <1>1, <1>6, <1>7
  <2>2. d + k \in 1 .. Len(n.log) /\ s + (d + k) = prev + k
    BY <1>1, <1>4, <1>6, <2>1
  <2>. QED  BY <1>1, <1>7, <2>2
<1>. QED  BY <1>3, <1>5, <1>8, <1>9

\* The requests of a leader carry the log that its term then has.
LEMMA LeaderCarries ==
    ASSUME NEW i \in Node, NEW n \in NodeState, n.role = "Leader",
           NEW full \in Seq(Entry), Holds(n, full), Writes(i, n, full)
    PROVE  \A p \in Node : \A m \in BuildAppendEntries(i, n, p) : CarriesLog(m)'
<1> SUFFICES ASSUME NEW p \in Node, NEW m \in BuildAppendEntries(i, n, p)
             PROVE  CarriesLog(m)'
  OBVIOUS
<1>1. n.current_term \in DOMAIN term_log' /\ term_log'[n.current_term] = full
  BY DEF Writes
<1>2. m.term = n.current_term /\ m \in AppendEntriesMessage
  BY BuildAppendEntriesType
<1>3. /\ m.prev_log_index + Len(m.entries) = Len(full) /\ Len(full) \in Nat
      /\ \A k \in 1 .. Len(m.entries) :
            m.entries[k] = full[m.prev_log_index + k]
      /\ m.prev_log_index > 0 => m.prev_log_term = full[m.prev_log_index].term
  BY BuildCarries
<1>4. m.prev_log_index + Len(m.entries) <= Len(full)
  BY <1>3
<1>. QED  BY <1>1, <1>2, <1>3, <1>4 DEF CarriesLog

-----------------------------------------------------------------------------
(* The merge loop of handle_append_entries.                                *)

\* Two logs that follow the leaders and have an entry of the same term at
\* index k agree up to k.
LEMMA SameTermSamePrefix ==
    ASSUME HistoryType, NEW a \in Seq(Entry), NEW b \in Seq(Entry),
           FollowsLeaders(a), FollowsLeaders(b),
           NEW k \in DOMAIN a, k \in DOMAIN b, a[k].term = b[k].term
    PROVE  SamePrefix(a, b, k)
<1>1. SamePrefix(a, term_log[a[k].term], k) /\ SamePrefix(b, term_log[a[k].term], k)
  BY DEF FollowsLeaders
<1>. QED  BY <1>1 DEF SamePrefix

LEMMA PrefixFollows ==
    ASSUME HistoryType, NEW a \in Seq(Entry), NEW b \in Seq(Entry),
           FollowsLeaders(b), SamePrefix(a, b, Len(a))
    PROVE  FollowsLeaders(a)
<1> SUFFICES ASSUME NEW k \in DOMAIN a
             PROVE  /\ a[k].term \in DOMAIN term_log
                    /\ SamePrefix(a, term_log[a[k].term], k)
  BY DEF FollowsLeaders
<1>1. k \in 1 .. Len(a) /\ Len(a) \in Nat /\ Len(b) \in Nat
  OBVIOUS
<1>2. k \in 1 .. Len(b) /\ a[k] = b[k] /\ \A l \in 1 .. k : a[l] = b[l]
  BY <1>1 DEF SamePrefix
<1>3. b[k].term \in DOMAIN term_log /\ SamePrefix(b, term_log[b[k].term], k)
  BY <1>2 DEF FollowsLeaders
<1>. QED  BY <1>1, <1>2, <1>3 DEF SamePrefix

LEMMA PrefixSorted ==
    ASSUME NEW a \in Seq(Entry), NEW b \in Seq(Entry), NEW t \in Nat,
           Sorted(b, t), SamePrefix(a, b, Len(a))
    PROVE  Sorted(a, t)
<1>1. Len(a) \in Nat /\ Len(b) \in Nat /\ DOMAIN a = 1 .. Len(a)
      /\ DOMAIN b = 1 .. Len(b)
  OBVIOUS
<1>2. \A k \in DOMAIN a : k \in DOMAIN b /\ a[k] = b[k]
  BY <1>1 DEF SamePrefix
<1>. QED  BY <1>2 DEF Sorted

\* An accepted request leaves the log as it is, when it has everything the
\* request carries, or makes it the start of the log of the leader, up to
\* the end of the request.
LEMMA MergeFollows ==
    ASSUME HistoryType, NEW i \in Node, NEW n \in NodeState,
           Holds(n, full_log[i]), FollowsLeaders(full_log[i]),
           NEW m \in AppendEntriesMessage, AcceptsEntries(n, m), CarriesLog(m),
           FollowsLeaders(term_log[m.term])
    PROVE  LET full == FullLog(i, HandleAppendEntries(n, m))
               last == m.prev_log_index + Len(m.entries)
           IN  /\ full \in Seq(Entry)
               /\ Holds(HandleAppendEntries(n, m), full)
               /\ SamePrefix(full, term_log[m.term], last)
               /\ full = full_log[i] \/ Len(full) = last
               /\ SamePrefix(full_log[i], term_log[m.term], last) =>
                     full = full_log[i]
<1> DEFINE x == HandleAppendEntries(n, m)
           old == full_log[i]
           lead == term_log[m.term]
           full == FullLog(i, x)
           s == n.snapshot_index
           prev == m.prev_log_index
           base == prev - s
           e == m.entries
           agrees(k) == /\ base + k <= Len(n.log)
                        /\ n.log[base + k].term = e[k].term
           kept(y) == \A k \in 1 .. Len(e) : base + k <= y => agrees(k)
           merged == [y \in 1 .. base + Len(e) |->
                         IF kept(y) THEN n.log[y] ELSE e[y - base]]
<1>1. /\ old \in Seq(Entry) /\ lead \in Seq(Entry) /\ e \in Seq(Entry)
      /\ n.log \in Seq(Entry)
      /\ Len(old) \in Nat /\ Len(lead) \in Nat /\ Len(e) \in Nat
      /\ Len(n.log) \in Nat /\ s \in Nat /\ prev \in Nat
  BY LogFields DEF HistoryType, CarriesLog, AppendEntriesMessage
<1>2. /\ s <= prev /\ prev <= Len(old) /\ Len(old) = s + Len(n.log)
      /\ prev > 0 => TermAt(n, prev) = m.prev_log_term
      /\ \A k \in 1 .. Len(n.log) : n.log[k] = old[s + k]
  BY LogFields DEF AcceptsEntries, LogMatches, Holds
<1>3. /\ prev + Len(e) <= Len(lead)
      /\ \A k \in 1 .. Len(e) : e[k] = lead[prev + k]
      /\ prev > 0 => m.prev_log_term = lead[prev].term
  BY DEF CarriesLog
<1>4. base \in Nat /\ s + base = prev
  BY <1>1, <1>2
<1>5. x \in NodeState /\ x.snapshot_index = s /\ x.snapshot_term = n.snapshot_term
      /\ x.log = MergeEntries(n, m)
  BY HandleAppendEntriesType, HandleAppendEntriesLog
<1>6. /\ full \in Seq(Entry) /\ Holds(x, full)
      /\ Len(full) = s + Len(x.log)
      /\ \A k \in 1 .. s : full[k] = old[k]
      /\ \A k \in 1 .. Len(x.log) : full[s + k] = x.log[k]
  <2> HIDE DEF x
  <2>. QED  BY <1>1, <1>5, FullLogHolds
\* Before the entries of the request the logs agree.
<1>7. \A l \in 1 .. prev : old[l] = lead[l]
  <2>1. CASE prev = 0
    BY <2>1
  <2>2. CASE prev > 0
    <3>1. prev \in s .. Len(old) /\ prev \in 1 .. Len(old)
          /\ prev \in 1 .. Len(lead)
      BY <1>1, <1>2, <1>3, <2>2
    <3>2. TermAt(n, prev) = old[prev].term
      <4> HIDE DEF prev
      <4>. QED  BY <1>1, <2>2, <3>1, TermAtFull DEF s
    <3>3. old[prev].term = lead[prev].term
      BY <1>2, <1>3, <2>2, <3>2
    <3>4. SamePrefix(old, lead, prev)
      <4> HIDE DEF old, lead, prev
      <4>. QED  BY <1>1, <3>1, <3>3, SameTermSamePrefix DEF old, lead
    <3>. QED  BY <3>4 DEF SamePrefix
  <2>. QED  BY <1>1, <2>1, <2>2
\* And up to an entry that the loop finds in place.
<1>8. ASSUME NEW k \in 1 .. Len(e), agrees(k)
      PROVE  prev + k <= Len(old) /\ \A l \in 1 .. prev + k : old[l] = lead[l]
  <2>1. /\ base + k \in 1 .. Len(n.log) /\ s + (base + k) = prev + k
        /\ prev + k \in 1 .. Len(old) /\ prev + k \in 1 .. Len(lead)
    <3>1. base + k <= Len(n.log) /\ k \in Nat /\ 1 <= k /\ k <= Len(e)
      BY <1>1, <1>8
    <3> HIDE DEF s, prev, base, e, old, lead
    <3>. QED  BY <1>1, <1>2, <1>3, <1>4, <3>1
  <2>2. old[prev + k].term = lead[prev + k].term
    <3>1. n.log[base + k] = old[s + (base + k)]
      BY <1>2, <2>1
    <3>. QED  BY <1>3, <1>8, <2>1, <3>1
  <2>3. SamePrefix(old, lead, prev + k)
    <3> HIDE DEF old, lead, prev, base
    <3>. QED  BY <1>1, <2>1, <2>2, SameTermSamePrefix DEF old, lead
  <2>. QED  BY <2>1, <2>3 DEF SamePrefix
<1>9. CASE \A k \in 1 .. Len(e) : agrees(k)
  <2>1. x.log = n.log
    BY <1>5, <1>9 DEF MergeEntries
  <2>2. full = old
    <3>1. SameLog(x, n) /\ Holds(x, old)
      BY <1>5, <2>1, HoldsSame DEF SameLog
    <3> HIDE DEF x
    <3>. QED  BY <1>1, <1>5, <3>1, FullLogSame
  <2>3. prev + Len(e) <= Len(old) /\ \A l \in 1 .. prev + Len(e) : old[l] = lead[l]
    <3>1. CASE Len(e) = 0
      BY <1>1, <1>2, <1>7, <3>1
    <3>2. CASE Len(e) # 0
      <4>1. Len(e) \in 1 .. Len(e)
        BY <1>1, <3>2
      <4>2. agrees(Len(e))
        BY <1>9, <4>1
      <4> HIDE DEF agrees, old, lead, e, prev
      <4>. QED  BY <1>8, <4>1, <4>2
    <3>. QED  BY <3>1, <3>2
  <2>4. SamePrefix(full, lead, prev + Len(e))
    BY <1>3, <2>2, <2>3 DEF SamePrefix
  <2>. QED  BY <1>6, <2>2, <2>4
<1>10. CASE ~\A k \in 1 .. Len(e) : agrees(k)
  <2>1. x.log = merged
    BY <1>5, <1>10 DEF MergeEntries
  <2>2. Len(x.log) = base + Len(e) /\ DOMAIN x.log = 1 .. base + Len(e)
    <3>1. x.log \in Seq(Entry)
      BY <1>5, LogFields
    <3> HIDE DEF x
    <3>. QED  BY <1>1, <1>4, <2>1, <3>1
  <2>3. Len(full) = prev + Len(e)
    <3> HIDE DEF x, full
    <3>. QED  BY <1>1, <1>4, <1>6, <2>2
  <2>4. ASSUME NEW l \in 1 .. prev + Len(e) PROVE full[l] = lead[l]
    <3>1. CASE l <= s
      <4>1. l \in 1 .. s /\ l \in 1 .. prev
        BY <1>1, <1>2, <3>1
      <4> HIDE DEF full, old, lead, x
      <4>. QED  BY <1>6, <1>7, <4>1
    <3>2. CASE l > s
      <4> DEFINE y == l - s
      <4>1. y \in 1 .. base + Len(e) /\ s + y = l /\ y \in Nat
        <5>1. l \in Nat /\ l <= prev + Len(e)
          BY <1>1
        <5> HIDE DEF s, prev, base, e
        <5>. QED  BY <1>1, <1>4, <3>2, <5>1
      <4>2. full[l] = merged[y]
        <5> HIDE DEF full, x, merged, y
        <5>. QED  BY <1>6, <2>1, <2>2, <4>1
      <4>3. CASE kept(y)
        <5>1. merged[y] = n.log[y]
          BY <4>1, <4>3
        <5>2. l <= Len(old) /\ old[l] = lead[l]
          <6>1. CASE y <= base
            <7>1. l \in 1 .. prev
              BY <1>1, <1>4, <4>1, <6>1
            <7>. QED  BY <1>1, <1>2, <1>7, <7>1
          <6>2. CASE y > base
            <7> DEFINE k == y - base
            <7>1. k \in 1 .. Len(e) /\ base + k <= y /\ prev + k = l
              <8> HIDE DEF s, prev, base, e, y
              <8>. QED  BY <1>1, <1>4, <4>1, <6>2
            <7>2. agrees(k)
              BY <4>3, <7>1
            <7>3. l \in 1 .. prev + k
              BY <1>1, <7>1
            <7> HIDE DEF k, agrees, old, lead, prev, base
            <7>. QED  BY <1>8, <7>1, <7>2, <7>3
          <6>. QED  BY <1>4, <4>1, <6>1, <6>2
        <5>3. y \in 1 .. Len(n.log)
          BY <1>1, <1>2, <4>1, <5>2
        <5>4. n.log[y] = old[s + y]
          BY <1>2, <5>3
        <5> HIDE DEF y
        <5>. QED  BY <4>1, <4>2, <5>1, <5>2, <5>4
      <4>4. CASE ~kept(y)
        <5>1. merged[y] = e[y - base]
          BY <4>1, <4>4
        <5>2. PICK k \in 1 .. Len(e) : base + k <= y
          BY <4>4
        <5>3. y - base \in 1 .. Len(e) /\ prev + (y - base) = l
          <6> HIDE DEF s, prev, base, e, y
          <6>. QED  BY <1>1, <1>4, <4>1, <5>2
        <5>4. e[y - base] = lead[prev + (y - base)]
          BY <1>3, <5>3
        <5> HIDE DEF y, base
        <5>. QED  BY <4>2, <5>1, <5>3, <5>4
      <4>. QED  BY <4>3, <4>4
    <3>. QED  BY <1>1, <3>1, <3>2
  <2>5. SamePrefix(full, lead, prev + Len(e))
    <3> HIDE DEF full, lead
    <3>. QED  BY <1>1, <1>3, <2>3, <2>4 DEF SamePrefix
  <2>6. ~SamePrefix(old, lead, prev + Len(e))
    <3>1. PICK k \in 1 .. Len(e) : ~agrees(k)
      BY <1>10
    <3>2. k \in Nat /\ 1 <= k /\ k <= Len(e)
      BY <1>1
    <3> SUFFICES ASSUME SamePrefix(old, lead, prev + Len(e)) PROVE FALSE
      OBVIOUS
    <3>3. prev + Len(e) <= Len(old) /\ \A l \in 1 .. prev + Len(e) : old[l] = lead[l]
      BY DEF SamePrefix
    <3>4. /\ base + k \in 1 .. Len(n.log) /\ s + (base + k) = prev + k
          /\ prev + k \in 1 .. prev + Len(e)
      <4> HIDE DEF s, prev, base, e, old, lead
      <4>. QED  BY <1>1, <1>2, <1>4, <3>2, <3>3
    <3>5. n.log[base + k] = lead[prev + k]
      BY <1>2, <3>3, <3>4
    <3>6. e[k] = lead[prev + k]
      BY <1>3
    <3>7. base + k <= Len(n.log)
      BY <1>1, <3>4
    <3>. QED  BY <3>1, <3>5, <3>6, <3>7
  <2>. QED  BY <1>6, <2>3, <2>5, <2>6
<1>. QED  BY <1>9, <1>10

-----------------------------------------------------------------------------
(* LogInv, pass by pass.                                                   *)

LEMMA LogInit == Init => LogInv
<1> SUFFICES ASSUME Init PROVE LogInv
  OBVIOUS
<1>1. /\ node = [i \in Node |-> NewNode]
      /\ disk = [i \in Node |-> FromNode(NewNode, << >>)]
      /\ msgs = {} /\ elected = {}
      /\ full_log = [i \in Node |-> << >>] /\ term_log = << >>
  BY DEF Init
<1>2. << >> \in Seq(Entry) /\ Len(<< >>) = 0 /\ DOMAIN << >> = {}
  OBVIOUS
<1>3. DOMAIN term_log = {} /\ \A i \in Node : full_log[i] = << >>
  BY <1>1, <1>2
<1>4. HistoryType
  <2>1. term_log \in [DOMAIN term_log -> Seq(Entry)]
    BY <1>1, <1>2
  <2>. QED  BY <1>1, <1>2, <1>3, <2>1 DEF HistoryType
<1>5. LogsAreHeld
  BY <1>1, <1>2, <1>3 DEF LogsAreHeld, Holds, NewNode, LastLogIndex
<1>6. LogIsSaved
  BY <1>1 DEF LogIsSaved, FromNode
<1>7. \A i \in Node : node[i].role # "Leader"
  BY <1>1 DEF NewNode
<1>8. LeadersHaveLogs
  BY <1>1, <1>3, <1>7 DEF LeadersHaveLogs
<1>9. \A i \in Node : DOMAIN full_log[i] = {}
  BY <1>2, <1>3
<1>10. LogsFollowLeaders
  BY <1>3, <1>9 DEF LogsFollowLeaders, FollowsLeaders
<1>11. LogsAreSorted
  BY <1>3, <1>9 DEF LogsAreSorted, Sorted
<1>. QED  BY <1>1, <1>4, <1>5, <1>6, <1>8, <1>10, <1>11 DEF LogInv, MessagesCarryLogs

\* A pass that leaves the log alone; the node may win an election in it.
LEMMA QuietKeeps ==
    ASSUME TypeOK, LogInv, TypeOK', ElectionInv',
           NEW i \in Node, NEW n \in NodeState, Writes(i, n, full_log[i]),
           n.current_term >= node[i].current_term,
           n.role = "Candidate" => \/ n.current_term > node[i].current_term
                                   \/ node[i].role = "Candidate",
           n.role = "Leader" => /\ n.current_term = node[i].current_term
                                /\ node[i].role # "Follower",
           elected \subseteq elected',
           \A e \in elected' : e \notin elected =>
              e.term = n.current_term /\ e.leader = i /\ n.role = "Leader",
           NEW out, msgs' \subseteq msgs \cup out,
           \A m \in out : m.type = "AppendEntries" => CarriesLog(m)'
    PROVE  LogInv' /\ Advances
<1> DEFINE u == n.current_term
           full == full_log[i]
<1>1. /\ HistoryType /\ full \in Seq(Entry) /\ FollowsLeaders(full)
      /\ Sorted(full, node[i].current_term)
  BY DEF LogInv, HistoryType, LogsFollowLeaders, LogsAreSorted
<1>2. node[i] \in NodeState
  BY DEF TypeOK
<1>3. u \in Nat /\ node[i].current_term \in Nat
  BY <1>2, LogFields
<1>4. ASSUME n.role = "Leader", u \in DOMAIN term_log
      PROVE  Extends(term_log[u], full, u)
  <2>1. term_log[u] = full
    <3>1. node[i].role # "Candidate"
      <4>1. PICK e \in elected : e.term = u
        BY <1>4 DEF LogInv, LeadersHaveLogs
      <4>2. PICK f \in elected' : f.term = u /\ f.leader = i
        BY <1>4 DEF Writes, ElectionInv, RolesAreEarned, Won
      <4>3. e.leader = i
        BY <4>1, <4>2 DEF ElectionInv, ElectionSafety
      <4>. QED  BY <1>4, <4>1, <4>3 DEF LogInv, LeadersHaveLogs
    <3>2. node[i].role = "Leader"
      BY <1>2, <1>4, <3>1 DEF NodeState, Role
    <3>. QED  BY <1>4, <3>2 DEF LogInv, LeadersHaveLogs
  <2>. QED  BY <1>1, <2>1, ExtendsItself
<1>5. HistoryType' /\ Grows
  <2> HIDE DEF full
  <2>. QED  BY <1>1, <1>4, WritesHistory DEF full
<1>6. \A k \in DOMAIN full : /\ full[k].term \in DOMAIN term_log'
                             /\ SamePrefix(full, term_log'[full[k].term], k)
  BY <1>1, <1>5, GrowsFollows DEF FollowsLeaders
<1>7. Sorted(full, u)
  <2> HIDE DEF full
  <2>1. \A k \in DOMAIN full : full[k] \in Entry
    BY <1>1
  <2>2. \A k \in DOMAIN full : full[k].term \in Nat
    BY <2>1 DEF Entry
  <2>. QED  BY <1>1, <1>3, <2>2 DEF Sorted
<1>8. ASSUME NEW log, log = full PROVE FollowsLeaders(log)'
  BY <1>6, <1>8 DEF FollowsLeaders
<1>9. ASSUME NEW log \in Seq(Entry), log = full PROVE LogInv' /\ Advances
  <2>1. FollowsLeaders(log)'
    BY <1>8, <1>9
  <2>2. Writes(i, n, log) /\ Sorted(log, u)
    BY <1>7, <1>9
  <2>3. (n.role = "Leader" /\ u \in DOMAIN term_log) =>
           Extends(term_log[u], log, u)
    BY <1>4, <1>9
  <2>. QED  BY <2>1, <2>2, <2>3, PassKeeps
<1>. QED  BY <1>1, <1>9

\* A tick that sends nothing and one that sends the heartbeats.
LEMMA TickPass ==
    ASSUME SaveSucceeds = {TRUE}, TypeOK, LogInv, NEW i \in Node,
           TickIdle(i) \/ TickHeartbeat(i)
    PROVE  /\ node[i] \in NodeState /\ Writes(i, node[i], full_log[i])
           /\ UNCHANGED <<cast, elected, over_ack, acks>>
           /\ \E out :
                 /\ msgs' \subseteq msgs \cup out
                 /\ \A m \in out : /\ node[i].role = "Leader"
                                   /\ \E p \in Node :
                                         m \in BuildAppendEntries(i, node[i], p)
<1>1. node[i] \in NodeState /\ SameLog(node[i], node[i])
  BY DEF TypeOK, SameLog
<1>2. Persist(i, node[i], state_machine[i])
      /\ UNCHANGED <<cast, elected, over_ack, acks>>
  BY DEF TickIdle, TickHeartbeat
<1>3. Writes(i, node[i], full_log[i])
  BY <1>1, <1>2, KeepsFullLog, PersistWrites DEF LogInv
<1> DEFINE out == IF node[i].role = "Leader" THEN Heartbeats(i, node[i]) ELSE {}
<1>4. msgs' \subseteq msgs \cup out
  <2>1. CASE TickIdle(i)
    BY <2>1 DEF TickIdle
  <2>2. CASE TickHeartbeat(i)
    BY <2>2 DEF TickHeartbeat, Send, Delivered
  <2>. QED  BY <2>1, <2>2
<1>5. \A m \in out : /\ node[i].role = "Leader"
                     /\ \E p \in Node : m \in BuildAppendEntries(i, node[i], p)
  BY DEF Heartbeats, Peers
<1> HIDE DEF out
<1>. QED  BY <1>1, <1>2, <1>3, <1>4, <1>5

\* A candidacy, at the election timeout or forced.
LEMMA StandPass ==
    ASSUME SaveSucceeds = {TRUE}, TypeOK, LogInv, NEW i \in Node,
           TickElection(i) \/ ForceElection(i)
    PROVE  LET n == StartElection(i, node[i])
           IN  /\ n \in NodeState /\ Writes(i, n, full_log[i])
               /\ n.current_term = node[i].current_term + 1
               /\ n.role = "Candidate" /\ SameLog(n, node[i])
               /\ n.commit_index = node[i].commit_index
               /\ UNCHANGED <<elected, over_ack, acks>>
               /\ cast' = cast \cup {<<i, i, n.current_term>>}
               /\ msgs' \subseteq msgs \cup RequestVotes(i, n)
               /\ RequestVotes(i, n) \subseteq RequestVoteMessage
<1> DEFINE n == StartElection(i, node[i])
<1>1. node[i] \in NodeState
  BY DEF TypeOK
<1>2. /\ n \in NodeState /\ n.current_term = node[i].current_term + 1
      /\ n.role = "Candidate" /\ SameLog(n, node[i])
      /\ n.commit_index = node[i].commit_index
  BY <1>1, StartElectionType, StartElectionLog
<1>3. Stand(i) /\ UNCHANGED <<elected, over_ack, acks>>
  BY DEF TickElection, ForceElection
<1>4. /\ cast' = cast \cup {<<i, i, n.current_term>>}
      /\ msgs' \subseteq msgs \cup RequestVotes(i, n)
  BY <1>2, <1>3 DEF Stand, Send, Delivered
<1>5. Persist(i, n, state_machine[i]) \/ ApplyAndPersist(i, n)
  BY DEF TickElection, ForceElection
<1> HIDE DEF n
<1>6. Writes(i, n, full_log[i])
  BY <1>2, <1>5, KeepsFullLog, PersistWrites, ApplyWrites DEF LogInv
<1>7. RequestVotes(i, n) \subseteq RequestVoteMessage
  BY <1>2, RequestVotesType
<1>. QED  BY <1>2, <1>3, <1>4, <1>6, <1>7 DEF n

LEMMA ProposePass ==
    ASSUME SaveSucceeds = {TRUE}, TypeOK, LogInv, NEW i \in Node,
           NEW command \in Value, Propose(i, command)
    PROVE  LET n == ProposeCommand(i, node[i], command)
               entry == [term |-> node[i].current_term, command |-> command]
               full == Append(full_log[i], entry)
           IN  /\ n \in NodeState /\ entry \in Entry
               /\ full \in Seq(Entry) /\ Holds(n, full) /\ Writes(i, n, full)
               /\ SameBallot(n, node[i]) /\ node[i].role = "Leader"
               /\ UNCHANGED <<cast, elected, over_ack, acks>>
               /\ msgs' \subseteq msgs \cup Heartbeats(i, n)
<1> DEFINE b == node[i]
           n == ProposeCommand(i, b, command)
           entry == [term |-> b.current_term, command |-> command]
           full == Append(full_log[i], entry)
<1>1. /\ b \in NodeState /\ full_log[i] \in Seq(Entry) /\ Holds(b, full_log[i])
  BY DEF TypeOK, LogInv, HistoryType, LogsAreHeld
<1>2. entry \in Entry
  BY <1>1, LogFields DEF Entry
<1>3. /\ n \in NodeState /\ SameBallot(n, b) /\ n.log = Append(b.log, entry)
      /\ n.snapshot_index = b.snapshot_index /\ n.snapshot_term = b.snapshot_term
  BY <1>1, ProposeType, ProposeLog
<1>4. /\ b.role = "Leader" /\ ApplyAndPersist(i, n)
      /\ UNCHANGED <<cast, elected, over_ack, acks>>
      /\ msgs' \subseteq msgs \cup Heartbeats(i, n)
  BY DEF Propose, Send, Delivered
<1> HIDE DEF n
<1>5. FullLog(i, n) = full
  <2> DEFINE old == full_log[i]
             s == b.snapshot_index
             f == FullLog(i, n)
  <2>1. /\ f \in Seq(Entry) /\ Len(f) = s + Len(n.log)
        /\ \A k \in 1 .. s : f[k] = old[k]
        /\ \A k \in 1 .. Len(n.log) : f[s + k] = n.log[k]
    <3>1. LET g == FullLog(i, n)
          IN  /\ g \in Seq(Entry) /\ Len(g) = n.snapshot_index + Len(n.log)
              /\ \A k \in 1 .. n.snapshot_index : g[k] = full_log[i][k]
              /\ \A k \in 1 .. Len(n.log) : g[n.snapshot_index + k] = n.log[k]
      <4> HIDE DEF b
      <4>. QED  BY <1>1, <1>3, FullLogHolds
    <3>. QED  BY <1>3, <3>1
  <2>2. /\ s \in Nat /\ b.log \in Seq(Entry) /\ Len(b.log) \in Nat
        /\ Len(old) = s + Len(b.log)
        /\ \A k \in 1 .. Len(b.log) : b.log[k] = old[s + k]
    BY <1>1, LogFields DEF Holds
  <2> HIDE DEF entry
  <2>3. /\ Len(n.log) = Len(b.log) + 1 /\ n.log[Len(b.log) + 1] = entry
        /\ \A k \in 1 .. Len(b.log) : n.log[k] = b.log[k]
    <3> DEFINE log == b.log
    <3>1. log \in Seq(Entry) /\ n.log = Append(log, entry)
      BY <1>3, <2>2
    <3> HIDE DEF log
    <3>2. /\ Len(n.log) = Len(log) + 1 /\ n.log[Len(log) + 1] = entry
          /\ \A k \in 1 .. Len(log) : n.log[k] = log[k]
      BY <1>2, <3>1, AppendProperties
    <3>. QED  BY <3>2 DEF log
  <2>4. /\ full \in Seq(Entry) /\ Len(full) = Len(old) + 1
        /\ full[Len(old) + 1] = entry
        /\ \A k \in 1 .. Len(old) : full[k] = old[k]
    BY <1>1, <1>2, AppendProperties
  <2> HIDE DEF full, f, old, s, b
  <2>5. ASSUME NEW k \in 1 .. Len(f) PROVE f[k] = full[k]
    <3>1. CASE k <= s
      BY <2>1, <2>2, <2>4, <3>1
    <3>2. CASE k > s /\ k <= Len(old)
      <4>1. /\ k - s \in 1 .. Len(b.log) /\ k - s \in 1 .. Len(n.log)
            /\ s + (k - s) = k /\ k \in 1 .. Len(old)
        BY <2>1, <2>2, <2>3, <3>2
      <4>2. f[k] = b.log[k - s] /\ b.log[k - s] = old[k]
        BY <2>1, <2>2, <2>3, <4>1
      <4>. QED  BY <2>4, <4>1, <4>2
    <3>3. CASE k > Len(old)
      <4>1. k = Len(old) + 1 /\ k = s + (Len(b.log) + 1)
            /\ Len(b.log) + 1 \in 1 .. Len(n.log)
        <5> DEFINE c == Len(b.log)
        <5>1. /\ c \in Nat /\ s \in Nat /\ Len(n.log) = c + 1
              /\ Len(old) = s + c /\ Len(f) = s + (c + 1)
          BY <2>1, <2>2, <2>3
        <5> HIDE DEF c
        <5>2. k \in Nat /\ k <= s + (c + 1) /\ k > s + c
          BY <3>3, <5>1
        <5>3. k = s + (c + 1) /\ c + 1 \in 1 .. c + 1
          BY <5>1, <5>2
        <5>. QED  BY <5>1, <5>3 DEF c
      <4>2. f[k] = n.log[Len(b.log) + 1]
        BY <2>1, <4>1
      <4>. QED  BY <2>3, <2>4, <4>1, <4>2
    <3>. QED  BY <2>1, <2>2, <2>3, <3>1, <3>2, <3>3
  <2>6. f = full
    BY <2>1, <2>2, <2>3, <2>4, <2>5, LogsEqual
  <2>. QED  BY <2>6 DEF f
<1>6. full \in Seq(Entry) /\ Holds(n, full)
  <2> HIDE DEF full, entry
  <2>. QED  BY <1>1, <1>3, <1>5, FullLogHolds
<1>7. Writes(i, n, full)
  <2> HIDE DEF full, entry
  <2>. QED  BY <1>3, <1>4, <1>5, <1>6, ApplyWrites
<1>. QED  BY <1>2, <1>3, <1>4, <1>6, <1>7 DEF n

LEMMA RestartPass ==
    ASSUME TypeOK, LogInv, BallotIsSaved, NEW i \in Node, Restart(i)
    PROVE  LET n == RestoreFromStorage(disk[i])
           IN  /\ n \in NodeState /\ Writes(i, n, full_log[i])
               /\ SameLog(n, node[i]) /\ n.role = "Follower"
               /\ n.current_term = node[i].current_term
               /\ UNCHANGED <<msgs, cast, elected, over_ack, acks>>
<1> DEFINE n == RestoreFromStorage(disk[i])
           x == MarkApplied(n)
<1>1. disk[i] \in StorageSnapshot
  BY DEF TypeOK
<1>2. /\ n \in NodeState /\ n.role = "Follower"
      /\ n.current_term = node[i].current_term
  BY <1>1, RestoreType DEF BallotIsSaved
<1>3. SameLog(n, node[i])
  BY <1>1, RestoreLog DEF LogInv, LogIsSaved, SameLog
<1>4. /\ node' = [node EXCEPT ![i] = x] /\ RecordLog(i, n)
      /\ UNCHANGED <<disk, msgs, cast, elected, over_ack, acks>>
  BY DEF Restart
<1> HIDE DEF n
<1>5. x \in NodeState /\ SameBallot(x, n) /\ SameLog(x, n)
  BY <1>2, MarkAppliedType, MarkAppliedLog
<1>6. FullLog(i, n) = full_log[i] /\ Holds(n, full_log[i])
  BY <1>2, <1>3, KeepsFullLog DEF LogInv
<1>7. Holds(x, full_log[i])
  BY <1>5, <1>6, HoldsSame
<1> HIDE DEF x
<1>8. node'[i] = x /\ \A j \in Node \ {i} : node'[j] = node[j]
  BY <1>4 DEF TypeOK
<1>9. /\ disk'[i].log = x.log
      /\ disk'[i].last_included_index = x.snapshot_index
      /\ disk'[i].last_included_term = x.snapshot_term
  BY <1>3, <1>4, <1>5 DEF SameLog, LogInv, LogIsSaved
<1>10. Writes(i, n, full_log[i])
  BY <1>4, <1>5, <1>6, <1>7, <1>8, <1>9 DEF Writes, RecordLog, SameBallot
<1>. QED  BY <1>2, <1>3, <1>4, <1>10 DEF n

LEMMA Received ==
    ASSUME TypeOK, ElectionInv, NEW m \in msgs
    PROVE  /\ m.from \in Node /\ m.to \in Node /\ m.from # m.to
           /\ m.term \in Nat /\ node[m.to] \in NodeState
           /\ node[m.to].current_term \in Nat
           /\ m.type = "RequestVote" => m \in RequestVoteMessage
           /\ m.type = "RequestVoteResponse" => m \in RequestVoteResponseMessage
           /\ m.type = "AppendEntries" => m \in AppendEntriesMessage
           /\ m.type = "AppendEntriesResponse" =>
                 m \in AppendEntriesResponseMessage
<1>1. m \in Message /\ m.from # m.to
  BY DEF TypeOK, ElectionInv, MessagesAreEarned, Earned
<1>2. m.to \in Node
  BY <1>1, MessageFields
<1>3. node[m.to] \in NodeState /\ node[m.to].current_term \in Nat
  BY <1>2, LogFields DEF TypeOK
<1>. QED  BY <1>1, <1>3, MessageFields

LEMMA RequestVotePass ==
    ASSUME SaveSucceeds = {TRUE}, TypeOK, ElectionInv, LogInv,
           NEW m \in msgs, ReceiveRequestVote(m)
    PROVE  LET i == m.to
               b == node[i]
               n == HandleRequestVote(b, m)
               reply == RequestVoteReply(i, b, m)
           IN  /\ n \in NodeState /\ Writes(i, n, full_log[i])
               /\ SameLog(n, b) /\ n.commit_index = b.commit_index
               /\ n.current_term = Larger(m.term, b.current_term)
               /\ n.role = IF m.term > b.current_term THEN "Follower" ELSE b.role
               /\ cast' = IF GrantsVote(b, m)
                          THEN cast \cup {<<i, m.from, m.term>>} ELSE cast
               /\ UNCHANGED <<elected, over_ack, acks>>
               /\ msgs' \subseteq msgs \cup {reply}
               /\ reply.type = "RequestVoteResponse"
<1> DEFINE i == m.to
           b == node[i]
           n == HandleRequestVote(b, m)
           reply == RequestVoteReply(i, b, m)
<1>1. /\ m \in RequestVoteMessage /\ i \in Node /\ b \in NodeState
      /\ m.term \in Nat /\ b.current_term \in Nat
  BY Received DEF ReceiveRequestVote
<1>2. /\ ApplyAndPersist(i, n) /\ Reply(m, {reply})
      /\ cast' = IF GrantsVote(b, m)
                 THEN cast \cup {<<i, m.from, m.term>>} ELSE cast
      /\ UNCHANGED <<elected, over_ack, acks>>
  BY DEF ReceiveRequestVote
<1>3. /\ n \in NodeState /\ n.current_term = SeenTerm(b, m).current_term
      /\ n.role = SeenTerm(b, m).role
      /\ SameLog(n, b) /\ n.commit_index = b.commit_index
  BY <1>1, HandleRequestVoteType, HandleRequestVoteLog
<1>4. /\ n.current_term = Larger(m.term, b.current_term)
      /\ n.role = IF m.term > b.current_term THEN "Follower" ELSE b.role
  <2>1. CASE m.term > b.current_term
    BY <1>1, <1>3, <2>1, SeenTermType DEF Larger
  <2>2. CASE ~(m.term > b.current_term)
    <3>1. SeenTerm(b, m) = b
      BY <1>1, <2>2, SeenTermType
    <3>2. Larger(m.term, b.current_term) = b.current_term
      BY <1>1, <2>2 DEF Larger
    <3>. QED  BY <1>3, <2>2, <3>1, <3>2
  <2>. QED  BY <2>1, <2>2
<1>5. msgs' \subseteq msgs \cup {reply} /\ reply.type = "RequestVoteResponse"
  BY <1>2 DEF Reply, Delivered, RequestVoteReply
<1> HIDE DEF n
<1>6. Writes(i, n, full_log[i])
  BY <1>1, <1>2, <1>3, KeepsFullLog, ApplyWrites DEF LogInv
<1>. QED  BY <1>2, <1>3, <1>4, <1>5, <1>6 DEF n

LEMMA RequestVoteResponsePass ==
    ASSUME SaveSucceeds = {TRUE}, TypeOK, ElectionInv, LogInv,
           NEW m \in msgs, ReceiveRequestVoteResponse(m)
    PROVE  LET i == m.to
               b == node[i]
               n == HandleRequestVoteResponse(i, b, m)
               wins == WinsElection(i, b, m)
           IN  /\ n \in NodeState /\ Writes(i, n, full_log[i])
               /\ SameLog(n, b) /\ n.commit_index = b.commit_index
               /\ n.current_term = Larger(m.term, b.current_term)
               /\ n.role = IF m.term > b.current_term THEN "Follower"
                           ELSE IF wins THEN "Leader" ELSE b.role
               /\ wins => /\ b.role = "Candidate"
                          /\ n.current_term = b.current_term
                          /\ \A p \in Peers(i) :
                                n.match_index[p] = b.snapshot_index
               /\ (n.role = "Leader" /\ ~wins) => n = b
               /\ elected' = IF wins
                             THEN elected \cup {[term   |-> b.current_term,
                                                 leader |-> i,
                                                 votes  |-> Tally(b, m)]}
                             ELSE elected
               /\ UNCHANGED <<cast, over_ack, acks>>
               /\ \E out :
                     /\ msgs' \subseteq msgs \cup out
                     /\ \A r \in out : /\ wins /\ n.role = "Leader"
                                       /\ \E p \in Node :
                                             r \in BuildAppendEntries(i, n, p)
<1> DEFINE i == m.to
           b == node[i]
           n == HandleRequestVoteResponse(i, b, m)
           wins == WinsElection(i, b, m)
           out == IF wins /\ HeartbeatInterval <= 1 THEN Heartbeats(i, n) ELSE {}
<1>1. /\ m \in RequestVoteResponseMessage /\ i \in Node /\ b \in NodeState
      /\ m.term \in Nat /\ b.current_term \in Nat /\ b.role \in Role
  BY Received DEF ReceiveRequestVoteResponse, NodeState
<1>2. /\ ApplyAndPersist(i, n) /\ Reply(m, out)
      /\ elected' = IF wins
                    THEN elected \cup {[term   |-> b.current_term,
                                        leader |-> i,
                                        votes  |-> Tally(b, m)]}
                    ELSE elected
      /\ UNCHANGED <<cast, over_ack, acks>>
  BY DEF ReceiveRequestVoteResponse
<1>3. /\ n \in NodeState
      /\ m.term > b.current_term =>
            n.current_term = m.term /\ n.voted_for = Nil /\ n.role = "Follower"
      /\ ~(m.term > b.current_term) =>
            /\ n.current_term = b.current_term
            /\ IF b.role = "Candidate" /\ m.term = b.current_term
               THEN n.role = IF wins THEN "Leader" ELSE "Candidate"
               ELSE n = b
  BY <1>1, HandleRequestVoteResponseType
<1>4. /\ SameLog(n, b) /\ n.commit_index = b.commit_index
      /\ wins => \A p \in Peers(i) : n.match_index[p] = b.snapshot_index
      /\ (n.role = "Leader" /\ ~wins) => n = b
  BY <1>1, HandleRequestVoteResponseLog
<1>5. wins => b.role = "Candidate" /\ m.term = b.current_term
  BY DEF WinsElection
<1>6. msgs' \subseteq msgs \cup out
  BY <1>2 DEF Reply, Delivered
<1>7. \A r \in out : wins /\ \E p \in Node : r \in BuildAppendEntries(i, n, p)
  BY DEF Heartbeats, Peers
<1> HIDE DEF n, wins, out, b, i
<1>8. /\ n.current_term = Larger(m.term, b.current_term)
      /\ n.role = IF m.term > b.current_term THEN "Follower"
                  ELSE IF wins THEN "Leader" ELSE b.role
      /\ wins => n.role = "Leader" /\ n.current_term = b.current_term
  <2>1. CASE m.term > b.current_term
    BY <1>1, <1>3, <1>5, <2>1 DEF Larger
  <2>2. CASE ~(m.term > b.current_term)
    <3>1. Larger(m.term, b.current_term) = b.current_term
      BY <1>1, <2>2 DEF Larger
    <3>. QED  BY <1>3, <1>5, <2>2, <3>1
  <2>. QED  BY <2>1, <2>2
<1>9. Writes(i, n, full_log[i])
  BY <1>1, <1>2, <1>3, <1>4, KeepsFullLog, ApplyWrites DEF LogInv, b
<1>10. \E o : /\ msgs' \subseteq msgs \cup o
              /\ \A r \in o : /\ wins /\ n.role = "Leader"
                              /\ \E p \in Node : r \in BuildAppendEntries(i, n, p)
  BY <1>6, <1>7, <1>8
<1>. QED  BY <1>2, <1>3, <1>4, <1>5, <1>8, <1>9, <1>10 DEF n, wins, b, i

LEMMA AppendEntriesPass ==
    ASSUME SaveSucceeds = {TRUE}, TypeOK, ElectionInv, LogInv,
           NEW m \in msgs, ReceiveAppendEntries(m)
    PROVE  LET i == m.to
               b == node[i]
               n == HandleAppendEntries(b, m)
               full == FullLog(i, n)
               last == m.prev_log_index + Len(m.entries)
               reply == AppendEntriesReply(i, b, m)
           IN  /\ n \in NodeState /\ full \in Seq(Entry) /\ Holds(n, full)
               /\ Writes(i, n, full)
               /\ n.current_term = Larger(m.term, b.current_term)
               /\ n.role = IF m.term < b.current_term THEN b.role ELSE "Follower"
               /\ m.term < b.current_term => n = b
               /\ AcceptsEntries(b, m) =>
                     /\ SamePrefix(full, term_log[m.term], last)
                     /\ full = full_log[i] \/ Len(full) = last
                     /\ SamePrefix(full_log[i], term_log[m.term], last) =>
                           full = full_log[i]
               /\ ~AcceptsEntries(b, m) => full = full_log[i]
               /\ over_ack' = (over_ack \/ (AcceptsEntries(b, m)
                                              /\ Len(full) > last))
               /\ acks' = IF AcceptsEntries(b, m)
                          THEN acks \cup {<<i, m.term, Len(full)>>} ELSE acks
               /\ UNCHANGED <<cast, elected>>
               /\ msgs' \subseteq msgs \cup {reply}
               /\ reply.type = "AppendEntriesResponse" /\ reply.from = i
               /\ reply.success = AcceptsEntries(b, m)
               /\ reply.success =>
                     reply.term = m.term /\ reply.match_index = Len(full)
<1> DEFINE i == m.to
           b == node[i]
           n == HandleAppendEntries(b, m)
           full == FullLog(i, n)
           last == m.prev_log_index + Len(m.entries)
           reply == AppendEntriesReply(i, b, m)
           ok == AcceptsEntries(b, m)
           f == FollowLeader(b, m)
<1>1. /\ m \in AppendEntriesMessage /\ i \in Node /\ b \in NodeState
      /\ m.term \in Nat /\ b.current_term \in Nat /\ m.type = "AppendEntries"
  BY Received DEF ReceiveAppendEntries
<1>2. /\ ApplyAndPersist(i, n) /\ Reply(m, {reply})
      /\ over_ack' = (over_ack \/ (ok /\ LastLogIndex(n) > last))
      /\ acks' = IF ok THEN acks \cup {<<i, m.term, LastLogIndex(n)>>} ELSE acks
      /\ UNCHANGED <<cast, elected>>
  BY DEF ReceiveAppendEntries
<1>3. /\ n \in NodeState
      /\ m.term < b.current_term => n = b
      /\ ~(m.term < b.current_term) => SameBallot(n, f)
  BY <1>1, HandleAppendEntriesType
<1>4. IF m.term > b.current_term \/ b.role # "Follower"
      THEN f.current_term = m.term /\ f.role = "Follower"
      ELSE SameBallot(f, b)
  BY <1>1, FollowLeaderType
<1>5. /\ HistoryType /\ Holds(b, full_log[i]) /\ full_log[i] \in Seq(Entry)
      /\ FollowsLeaders(full_log[i])
      /\ CarriesLog(m) /\ FollowsLeaders(term_log[m.term])
  <2>1. CarriesLog(m)
    BY <1>1 DEF LogInv, MessagesCarryLogs
  <2>2. m.term \in DOMAIN term_log
    BY <2>1 DEF CarriesLog
  <2>. QED  BY <1>1, <2>1, <2>2
            DEF LogInv, HistoryType, LogsAreHeld, LogsFollowLeaders
<1>6. ok => /\ full \in Seq(Entry) /\ Holds(n, full)
            /\ SamePrefix(full, term_log[m.term], last)
            /\ full = full_log[i] \/ Len(full) = last
            /\ SamePrefix(full_log[i], term_log[m.term], last) =>
                  full = full_log[i]
  BY <1>1, <1>5, MergeFollows
<1>7. ~ok => /\ full \in Seq(Entry) /\ Holds(n, full) /\ full = full_log[i]
  <2> SUFFICES ASSUME ~ok
               PROVE  full \in Seq(Entry) /\ Holds(n, full) /\ full = full_log[i]
    OBVIOUS
  <2>1. SameLog(n, b)
    BY <1>1, HandleAppendEntriesLog DEF SameLog
  <2> HIDE DEF n
  <2>. QED  BY <1>1, <1>3, <2>1, KeepsFullLog DEF LogInv
<1>8. /\ reply.type = "AppendEntriesResponse" /\ reply.from = i
      /\ reply.success = ok
      /\ reply.success =>
            reply.term = Larger(m.term, b.current_term)
              /\ reply.match_index = LastLogIndex(n)
  BY DEF AppendEntriesReply
<1>9. msgs' \subseteq msgs \cup {reply}
  BY <1>2 DEF Reply, Delivered
<1>10. ok => m.term >= b.current_term
  BY DEF AcceptsEntries
<1> HIDE DEF i, b, n, full, last, reply, ok, f
<1>11. LastLogIndex(n) = Len(full)
  BY <1>6, <1>7 DEF Holds
<1>12. Writes(i, n, full)
  BY <1>1, <1>2, <1>3, <1>6, <1>7, ApplyWrites DEF full
<1>13. /\ n.current_term = Larger(m.term, b.current_term)
       /\ n.role = IF m.term < b.current_term THEN b.role ELSE "Follower"
       /\ ok => Larger(m.term, b.current_term) = m.term
  <2>1. CASE m.term < b.current_term
    BY <1>1, <1>3, <1>10, <2>1 DEF Larger
  <2>2. CASE ~(m.term < b.current_term)
    <3>1. Larger(m.term, b.current_term) = m.term
      BY <1>1, <2>2 DEF Larger
    <3>2. ~(m.term > b.current_term) => m.term = b.current_term
      BY <1>1, <2>2
    <3>. QED  BY <1>3, <1>4, <2>2, <3>1, <3>2 DEF SameBallot
  <2>. QED  BY <2>1, <2>2
<1>14. reply.success => reply.term = m.term /\ reply.match_index = Len(full)
  BY <1>8, <1>11, <1>13
<1>15. /\ over_ack' = (over_ack \/ (ok /\ Len(full) > last))
       /\ acks' = IF ok THEN acks \cup {<<i, m.term, Len(full)>>} ELSE acks
  BY <1>2, <1>11
<1>16. full \in Seq(Entry) /\ Holds(n, full)
  BY <1>6, <1>7
<1>. QED  BY <1>2, <1>3, <1>6, <1>7, <1>8, <1>9, <1>12, <1>13, <1>14, <1>15, <1>16
          DEF i, b, n, full, last, reply, ok

LEMMA AppendEntriesResponsePass ==
    ASSUME SaveSucceeds = {TRUE}, TypeOK, ElectionInv, LogInv,
           NEW m \in msgs, ReceiveAppendEntriesResponse(m)
    PROVE  LET i == m.to
               b == node[i]
               n == HandleAppendEntriesResponse(i, b, m)
           IN  /\ n \in NodeState /\ Writes(i, n, full_log[i]) /\ SameLog(n, b)
               /\ m.term > b.current_term =>
                     n.current_term = m.term /\ n.role = "Follower"
               /\ ~(m.term > b.current_term) => SameBallot(n, b)
               /\ UNCHANGED <<cast, elected, over_ack, acks>>
               /\ \E out :
                     /\ msgs' \subseteq msgs \cup out
                     /\ \A r \in out : /\ n.role = "Leader"
                                       /\ \E p \in Node :
                                             r \in BuildAppendEntries(i, n, p)
<1> DEFINE i == m.to
           b == node[i]
           n == HandleAppendEntriesResponse(i, b, m)
           out == Retry(i, b, n, m)
<1>1. /\ m \in AppendEntriesResponseMessage /\ i \in Node /\ b \in NodeState
      /\ m.term \in Nat /\ b.current_term \in Nat /\ m.from \in Node
  BY Received DEF ReceiveAppendEntriesResponse
<1>2. /\ ApplyAndPersist(i, n) /\ Reply(m, out)
      /\ UNCHANGED <<cast, elected, over_ack, acks>>
  BY DEF ReceiveAppendEntriesResponse
<1>3. /\ n \in NodeState /\ SameLog(n, b)
      /\ m.term > b.current_term => n.current_term = m.term /\ n.role = "Follower"
      /\ ~(m.term > b.current_term) => SameBallot(n, b)
  BY <1>1, HandleAppendEntriesResponseType, HandleAppendEntriesResponseLog
<1>4. \A r \in out : /\ b.role = "Leader" /\ m.term = b.current_term
                     /\ r \in BuildAppendEntries(i, n, m.from)
  BY DEF Retry, FromCurrentFollower
<1>5. msgs' \subseteq msgs \cup out
  BY <1>2 DEF Reply, Delivered
<1> HIDE DEF n, out, b, i
<1>6. \A r \in out : /\ n.role = "Leader"
                     /\ \E p \in Node : r \in BuildAppendEntries(i, n, p)
  BY <1>1, <1>3, <1>4 DEF SameBallot
<1>7. Writes(i, n, full_log[i])
  BY <1>1, <1>2, <1>3, KeepsFullLog, ApplyWrites DEF LogInv, b
<1>. QED  BY <1>2, <1>3, <1>5, <1>6, <1>7 DEF n, b, i

LEMMA StaysGrown ==
    ASSUME TypeOK, HistoryType, UNCHANGED <<term_log, node>>
    PROVE  Advances
<1>1. \A t \in DOMAIN term_log : term_log[t] \in Seq(Entry)
  BY DEF HistoryType
<1>2. \A i \in Node : node[i].current_term \in Nat
  BY LogFields DEF TypeOK
<1>. QED  BY <1>1, <1>2, ExtendsItself DEF Advances, Grows

LEMMA LogNext ==
    ASSUME SaveSucceeds = {TRUE}, TypeOK, ElectionInv, LogInv, [Next]_vars
    PROVE  LogInv' /\ Advances
<1>0. /\ TypeOK' /\ ElectionInv' /\ HistoryType
      /\ \A i \in Node : /\ node[i] \in NodeState /\ node[i].current_term \in Nat
                         /\ full_log[i] \in Seq(Entry)
                         /\ Holds(node[i], full_log[i])
  <2>1. TypeOK' /\ ElectionInv'
    BY NextType, ElectionNext
  <2>. QED  BY <2>1, LogFields DEF TypeOK, LogInv, HistoryType, LogsAreHeld
<1>1. ASSUME NEW i \in Node, TickIdle(i) \/ TickHeartbeat(i) PROVE LogInv' /\ Advances
  <2>1. /\ Writes(i, node[i], full_log[i]) /\ UNCHANGED elected
    BY <1>1, TickPass
  <2>2. PICK out : /\ msgs' \subseteq msgs \cup out
                   /\ \A m \in out : /\ node[i].role = "Leader"
                                     /\ \E p \in Node :
                                           m \in BuildAppendEntries(i, node[i], p)
    BY <1>1, TickPass
  <2>3. \A m \in out : CarriesLog(m)'
    BY <1>0, <2>1, <2>2, LeaderCarries
  <2>4. node[i].current_term >= node[i].current_term
    BY <1>0
  <2>. QED  BY <1>0, <2>1, <2>2, <2>3, <2>4, QuietKeeps
<1>2. ASSUME NEW i \in Node, TickElection(i) \/ ForceElection(i) PROVE LogInv' /\ Advances
  <2> DEFINE n == StartElection(i, node[i])
             out == RequestVotes(i, n)
  <2>1. /\ n \in NodeState /\ Writes(i, n, full_log[i])
        /\ n.current_term = node[i].current_term + 1 /\ n.role = "Candidate"
        /\ UNCHANGED elected /\ msgs' \subseteq msgs \cup out
        /\ out \subseteq RequestVoteMessage
    BY <1>2, StandPass
  <2> HIDE DEF n, out
  <2>2. n.current_term > node[i].current_term
    BY <1>0, <2>1
  <2>3. \A m \in out : m.type # "AppendEntries"
    BY <2>1 DEF RequestVoteMessage
  <2>4. n.current_term >= node[i].current_term
    BY <1>0, <2>1
  <2>. QED  BY <1>0, <2>1, <2>2, <2>3, <2>4, QuietKeeps
<1>3. ASSUME NEW i \in Node, NEW command \in Value, Propose(i, command)
      PROVE  LogInv' /\ Advances
  <2> DEFINE b == node[i]
             n == ProposeCommand(i, b, command)
             entry == [term |-> b.current_term, command |-> command]
             old == full_log[i]
             full == Append(old, entry)
             out == Heartbeats(i, n)
             u == b.current_term
  <2>1. /\ n \in NodeState /\ full \in Seq(Entry) /\ Holds(n, full)
        /\ Writes(i, n, full) /\ SameBallot(n, b) /\ b.role = "Leader"
        /\ UNCHANGED elected /\ msgs' \subseteq msgs \cup out
        /\ entry \in Entry
    BY <1>3, ProposePass
  <2>2. /\ Len(full) = Len(old) + 1 /\ full[Len(old) + 1] = entry
        /\ \A k \in 1 .. Len(old) : full[k] = old[k]
        /\ Len(old) \in Nat /\ old \in Seq(Entry)
    <3>1. old \in Seq(Entry) /\ Len(old) \in Nat
      BY <1>0
    <3> HIDE DEF old, entry
    <3>. QED  BY <2>1, <3>1, AppendProperties
  <2>3. /\ n.current_term = u /\ n.role = "Leader" /\ u \in Nat
        /\ entry.term = u
    BY <1>0, <2>1 DEF SameBallot
  <2>4. /\ term_log[u] = old /\ FollowsLeaders(old) /\ Sorted(old, u)
    BY <2>1 DEF LogInv, LeadersHaveLogs, LogsFollowLeaders, LogsAreSorted
  <2>5. \A m \in out : \E p \in Node : m \in BuildAppendEntries(i, n, p)
    BY DEF Heartbeats, Peers
  <2> HIDE DEF n, full, out, entry, old, b, u
  <2>6. Extends(term_log[u], full, u)
    <3>1. \A k \in Len(old) + 1 .. Len(full) : k = Len(old) + 1
      BY <2>2
    <3>. QED  BY <2>2, <2>3, <2>4, <3>1 DEF Extends, SamePrefix
  <2>7. \A m \in out : CarriesLog(m)'
    BY <2>1, <2>3, <2>5, LeaderCarries
  <2>8. /\ HistoryType' /\ Grows /\ u \in DOMAIN term_log' /\ term_log'[u] = full
    <3>1. Extends(term_log[n.current_term], full, n.current_term)
      BY <2>3, <2>6
    <3>2. /\ HistoryType /\ n \in NodeState /\ full \in Seq(Entry)
          /\ Writes(i, n, full)
      BY <1>0, <2>1
    <3>3. HistoryType' /\ Grows
      BY <3>1, <3>2, WritesHistory
    <3>4. /\ term_log' = [t \in DOMAIN term_log \cup {n.current_term} |->
                            IF t = n.current_term THEN full ELSE term_log[t]]
      BY <2>3, <3>2 DEF Writes
    <3>. QED  BY <2>3, <3>3, <3>4
  <2>9. \A k \in DOMAIN old : /\ old[k].term \in DOMAIN term_log'
                              /\ SamePrefix(old, term_log'[old[k].term], k)
    <3>1. FollowsLeaders(old)
      BY <2>4
    <3>. QED  BY <1>0, <2>2, <2>8, <3>1, GrowsFollows DEF FollowsLeaders
  <2>10. DOMAIN full = 1 .. Len(full) /\ DOMAIN old = 1 .. Len(old)
    BY <2>1, <2>2
  <2>11. ASSUME NEW k \in DOMAIN full
         PROVE  /\ full[k].term \in DOMAIN term_log'
                /\ SamePrefix(full, term_log'[full[k].term], k)
    <3>1. CASE k \in DOMAIN old
      <4>1. /\ full[k] = old[k] /\ \A l \in 1 .. k : full[l] = old[l]
            /\ k <= Len(full)
        BY <2>2, <2>10, <3>1
      <4>. QED  BY <2>9, <3>1, <4>1 DEF SamePrefix
    <3>2. CASE k \notin DOMAIN old
      <4>1. k = Len(old) + 1 /\ k \in Nat
        BY <2>2, <2>10, <3>2
      <4>2. full[k].term = u
        BY <2>2, <2>3, <4>1
      <4>. QED  BY <2>2, <2>8, <4>1, <4>2 DEF SamePrefix
    <3>. QED  BY <3>1, <3>2
  <2>12. Sorted(full, u)
    <3>1. \A k \in DOMAIN old : old[k].term \in Nat
      <4>1. \A k \in DOMAIN old : old[k] \in Entry
        BY <2>2
      <4>. QED  BY <4>1 DEF Entry
    <3>2. \A k \in DOMAIN full : \/ k \in DOMAIN old /\ full[k] = old[k]
                                 \/ k = Len(old) + 1 /\ full[k].term = u
      BY <2>2, <2>3, <2>10
    <3>3. \A k \in DOMAIN old, l \in DOMAIN full :
             l = Len(old) + 1 => ~(l <= k)
      BY <2>2, <2>10
    <3>. QED  BY <2>3, <2>4, <3>1, <3>2, <3>3 DEF Sorted
  <2>13. ASSUME NEW log \in Seq(Entry), log = full PROVE LogInv' /\ Advances
    <3>1. FollowsLeaders(log)'
      BY <2>11, <2>13 DEF FollowsLeaders
    <3>2. n.current_term >= b.current_term
      BY <2>3 DEF u
    <3>. QED  BY <1>0, <2>1, <2>3, <2>6, <2>7, <2>12, <2>13, <3>1, <3>2, PassKeeps
              DEF b
  <2>. QED  BY <2>1, <2>13
<1>4. ASSUME NEW i \in Node, Restart(i) PROVE LogInv' /\ Advances
  <2> DEFINE n == RestoreFromStorage(disk[i])
             none == {}
  <2>1. /\ n \in NodeState /\ Writes(i, n, full_log[i]) /\ n.role = "Follower"
        /\ n.current_term = node[i].current_term
        /\ UNCHANGED <<msgs, elected>>
    BY <1>4, RestartPass DEF ElectionInv
  <2>2. /\ n.current_term >= node[i].current_term
        /\ msgs' \subseteq msgs \cup none /\ \A m \in none : FALSE
    BY <1>0, <2>1
  <2> HIDE DEF n, none
  <2>. QED  BY <1>0, <2>1, <2>2, QuietKeeps
<1>5. ASSUME NEW m \in msgs, ReceiveRequestVote(m) PROVE LogInv' /\ Advances
  <2> DEFINE i == m.to
             b == node[i]
             n == HandleRequestVote(b, m)
             out == {RequestVoteReply(i, b, m)}
  <2>1. /\ n \in NodeState /\ Writes(i, n, full_log[i])
        /\ n.current_term = Larger(m.term, b.current_term)
        /\ n.role = IF m.term > b.current_term THEN "Follower" ELSE b.role
        /\ UNCHANGED elected /\ msgs' \subseteq msgs \cup out
        /\ \A r \in out : r.type = "RequestVoteResponse"
    BY <1>5, RequestVotePass
  <2>2. i \in Node /\ m.term \in Nat /\ b = node[i] /\ b.current_term \in Nat
    BY Received
  <2> HIDE DEF i, b, n, out
  <2>3. /\ n.current_term >= b.current_term
        /\ n.role # "Follower" => /\ n.role = b.role
                                  /\ n.current_term = b.current_term
    BY <2>1, <2>2 DEF Larger
  <2>. QED  BY <1>0, <2>1, <2>2, <2>3, QuietKeeps
<1>6. ASSUME NEW m \in msgs, ReceiveRequestVoteResponse(m) PROVE LogInv' /\ Advances
  <2> DEFINE i == m.to
             b == node[i]
             n == HandleRequestVoteResponse(i, b, m)
             wins == WinsElection(i, b, m)
             won == [term |-> b.current_term, leader |-> i, votes |-> Tally(b, m)]
  <2>1. /\ n \in NodeState /\ Writes(i, n, full_log[i]) /\ SameLog(n, b)
        /\ n.current_term = Larger(m.term, b.current_term)
        /\ n.role = IF m.term > b.current_term THEN "Follower"
                    ELSE IF wins THEN "Leader" ELSE b.role
        /\ wins => b.role = "Candidate" /\ n.current_term = b.current_term
        /\ elected' = IF wins THEN elected \cup {won} ELSE elected
    BY <1>6, RequestVoteResponsePass
  <2>2. PICK out : /\ msgs' \subseteq msgs \cup out
                   /\ \A r \in out :
                         /\ n.role = "Leader"
                         /\ \E p \in Node : r \in BuildAppendEntries(i, n, p)
    BY <1>6, RequestVoteResponsePass
  <2>3. i \in Node /\ m.term \in Nat /\ b = node[i] /\ b.current_term \in Nat
    BY Received
  <2>4. won.term = b.current_term /\ won.leader = i
    OBVIOUS
  <2> HIDE DEF i, b, n, wins, won
  <2>5. /\ n.current_term >= b.current_term
        /\ n.role = "Candidate" => b.role = "Candidate"
        /\ n.role = "Leader" => /\ n.current_term = b.current_term
                                /\ b.role # "Follower"
        /\ wins => n.role = "Leader"
    <3>1. wins => ~(m.term > b.current_term)
      BY <2>1, <2>3 DEF Larger
    <3>. QED  BY <2>1, <2>3, <3>1 DEF Larger
  <2>6. Holds(n, full_log[i])
    BY <1>0, <2>1, <2>3, HoldsSame
  <2>7. \A r \in out : CarriesLog(r)'
    BY <1>0, <2>1, <2>2, <2>3, <2>6, LeaderCarries
  <2>8. /\ elected \subseteq elected'
        /\ \A e \in elected' : e \notin elected =>
              e.term = n.current_term /\ e.leader = i /\ n.role = "Leader"
    BY <2>1, <2>4, <2>5
  <2>. QED  BY <1>0, <2>1, <2>2, <2>3, <2>5, <2>7, <2>8, QuietKeeps
<1>7. ASSUME NEW m \in msgs, ReceiveAppendEntries(m) PROVE LogInv' /\ Advances
  <2> DEFINE i == m.to
             b == node[i]
             n == HandleAppendEntries(b, m)
             full == FullLog(i, n)
             last == m.prev_log_index + Len(m.entries)
             out == {AppendEntriesReply(i, b, m)}
             lead == term_log[m.term]
             ok == AcceptsEntries(b, m)
  <2>1. /\ n \in NodeState /\ full \in Seq(Entry) /\ Writes(i, n, full)
        /\ n.current_term = Larger(m.term, b.current_term)
        /\ n.role = IF m.term < b.current_term THEN b.role ELSE "Follower"
        /\ ok => /\ SamePrefix(full, lead, last)
                 /\ full = full_log[i] \/ Len(full) = last
        /\ ~ok => full = full_log[i]
        /\ UNCHANGED elected /\ msgs' \subseteq msgs \cup out
        /\ \A r \in out : r.type = "AppendEntriesResponse"
    BY <1>7, AppendEntriesPass
  <2>2. /\ i \in Node /\ m.term \in Nat /\ b = node[i] /\ b.current_term \in Nat
        /\ m \in AppendEntriesMessage
    BY <1>7, Received DEF ReceiveAppendEntries
  <2>3. ok => m.term >= b.current_term
    BY DEF AcceptsEntries
  <2>4. CarriesLog(m) /\ m.term \in DOMAIN term_log
    BY <1>7 DEF ReceiveAppendEntries, LogInv, MessagesCarryLogs, CarriesLog
  <2>5. /\ FollowsLeaders(full_log[i]) /\ Sorted(full_log[i], b.current_term)
        /\ FollowsLeaders(lead) /\ Sorted(lead, m.term) /\ lead \in Seq(Entry)
        /\ full_log[i] \in Seq(Entry)
        /\ b.role = "Leader" => full_log[i] = term_log[b.current_term]
    BY <2>2, <2>4 DEF LogInv, LogsFollowLeaders, LogsAreSorted, LeadersHaveLogs,
                      HistoryType
  <2> HIDE DEF i, b, n, full, last, out, lead, ok
  <2>6. /\ n.current_term >= b.current_term
        /\ n.role # "Follower" => /\ n.role = b.role
                                  /\ n.current_term = b.current_term /\ ~ok
        /\ ok => n.current_term = m.term
    BY <2>1, <2>2, <2>3 DEF Larger
  <2>7. CASE full = full_log[i]
    BY <1>0, <2>1, <2>2, <2>6, <2>7, QuietKeeps
  <2>8. CASE full # full_log[i]
    <3>1. ok /\ SamePrefix(full, lead, Len(full))
      BY <2>1, <2>8
    <3>2. FollowsLeaders(full)
      BY <1>0, <2>1, <2>5, <3>1, PrefixFollows
    <3>3. Sorted(full, n.current_term)
      BY <2>1, <2>2, <2>5, <2>6, <3>1, PrefixSorted
    <3>4. n.role = "Follower"
      BY <2>6, <3>1
    <3>5. HistoryType' /\ Grows
      BY <1>0, <2>1, <2>2, <3>4, WritesHistory
    <3>6. ASSUME NEW log \in Seq(Entry), log = full PROVE LogInv' /\ Advances
      <4>1. FollowsLeaders(log)
        BY <3>2, <3>6
      <4>2. FollowsLeaders(log)'
        BY <1>0, <3>5, <4>1, GrowsFollows
      <4>. QED  BY <1>0, <2>1, <2>2, <2>6, <3>3, <3>4, <3>6, <4>2, PassKeeps
    <3>. QED  BY <2>1, <3>6
  <2>. QED  BY <2>7, <2>8
<1>8. ASSUME NEW m \in msgs, ReceiveAppendEntriesResponse(m) PROVE LogInv' /\ Advances
  <2> DEFINE i == m.to
             b == node[i]
             n == HandleAppendEntriesResponse(i, b, m)
  <2>1. /\ n \in NodeState /\ Writes(i, n, full_log[i]) /\ SameLog(n, b)
        /\ m.term > b.current_term =>
              n.current_term = m.term /\ n.role = "Follower"
        /\ ~(m.term > b.current_term) => SameBallot(n, b)
        /\ UNCHANGED elected
    BY <1>8, AppendEntriesResponsePass
  <2>2. PICK out : /\ msgs' \subseteq msgs \cup out
                   /\ \A r \in out :
                         /\ n.role = "Leader"
                         /\ \E p \in Node : r \in BuildAppendEntries(i, n, p)
    BY <1>8, AppendEntriesResponsePass
  <2>3. i \in Node /\ m.term \in Nat /\ b = node[i] /\ b.current_term \in Nat
    BY Received
  <2> HIDE DEF i, b, n
  <2>4. /\ n.current_term >= b.current_term
        /\ n.role # "Follower" => /\ n.role = b.role
                                  /\ n.current_term = b.current_term
    BY <2>1, <2>3 DEF SameBallot
  <2>5. Holds(n, full_log[i])
    BY <1>0, <2>1, <2>3, HoldsSame
  <2>6. \A r \in out : CarriesLog(r)'
    BY <1>0, <2>1, <2>2, <2>3, <2>5, LeaderCarries
  <2>. QED  BY <1>0, <2>1, <2>2, <2>3, <2>4, <2>6, QuietKeeps
<1>9. ASSUME NEW m \in msgs, Lose(m) PROVE LogInv' /\ Advances
  <2>1. LogInv'
    BY <1>9 DEF Lose, LogInv, HistoryType, LogsAreHeld, LogIsSaved, LeadersHaveLogs,
       LogsFollowLeaders, FollowsLeaders, MessagesCarryLogs, CarriesLog,
       LogsAreSorted
  <2>. QED  BY <1>0, <1>9, <2>1, StaysGrown DEF Lose
<1>10. CASE UNCHANGED vars
  <2>1. LogInv'
    BY <1>10 DEF vars, LogInv, HistoryType, LogsAreHeld, LogIsSaved,
       LeadersHaveLogs, LogsFollowLeaders, FollowsLeaders, MessagesCarryLogs,
       CarriesLog, LogsAreSorted
  <2>. QED  BY <1>0, <1>10, <2>1, StaysGrown DEF vars
<1>. QED
  BY <1>1, <1>2, <1>3, <1>4, <1>5, <1>6, <1>7, <1>8, <1>9, <1>10 DEF Next

-----------------------------------------------------------------------------

\* When every save succeeds, every log is made of pieces of the logs of the
\* leaders in every reachable state: the inductive invariant behind the two
\* theorems below.
THEOREM LogInvariant ==
    ASSUME SaveSucceeds = {TRUE}
    PROVE  Spec => []LogInv
<1>1. Init => LogInv
  BY LogInit
<1>2. TypeOK /\ ElectionInv /\ LogInv /\ [Next]_vars => LogInv'
  BY LogNext
<1>. QED  BY <1>1, <1>2, TypeCorrect, ElectionInvariant, PTL DEF Spec

\* Two logs, compacted or not, that agree on the term at an index agree on
\* everything before it that both hold: the consistency check and the merge
\* loop of handle_append_entries, with propose_command, compact_committed and
\* restarts, for clusters and logs of any size.
THEOREM LogsMatch ==
    ASSUME SaveSucceeds = {TRUE}
    PROVE  Spec => []LogMatching
<1>1. ASSUME TypeOK, LogInv PROVE LogMatching
  <2> SUFFICES ASSUME NEW i \in Node, NEW j \in Node,
                      NEW k \in 1 .. LastLogIndex(node[i]),
                      TermAt(node[i], k) # NoTerm,
                      TermAt(node[i], k) = TermAt(node[j], k),
                      NEW l \in 1 .. k
               PROVE  /\ (Retains(node[i], l) /\ Retains(node[j], l)) =>
                            EntryAt(node[i], l) = EntryAt(node[j], l)
                      /\ (/\ TermAt(node[i], l) # NoTerm
                          /\ TermAt(node[j], l) # NoTerm) =>
                            TermAt(node[i], l) = TermAt(node[j], l)
    BY DEF LogMatching
  <2> DEFINE a == node[i]
             b == node[j]
             f == full_log[i]
             g == full_log[j]
  <2>1. /\ HistoryType /\ a \in NodeState /\ b \in NodeState
        /\ f \in Seq(Entry) /\ g \in Seq(Entry) /\ Holds(a, f) /\ Holds(b, g)
        /\ FollowsLeaders(f) /\ FollowsLeaders(g)
    BY <1>1 DEF TypeOK, LogInv, HistoryType, LogsAreHeld, LogsFollowLeaders
  <2>2. LastLogIndex(a) \in Nat /\ k \in Nat /\ k > 0 /\ l \in Nat /\ l > 0
    <3>1. LastLogIndex(a) \in Nat
      BY <2>1, LastLogIndexType
    <3>. QED  BY <3>1
  <2>3. /\ k \in a.snapshot_index .. Len(f) /\ TermAt(a, k) = f[k].term
        /\ k \in b.snapshot_index .. Len(g) /\ TermAt(b, k) = g[k].term
    <3> HIDE DEF a, b, f, g
    <3>1. /\ k \in a.snapshot_index .. Len(f) => TermAt(a, k) = f[k].term
          /\ k \notin a.snapshot_index .. Len(f) => TermAt(a, k) = NoTerm
      BY <2>1, <2>2, TermAtFull
    <3>2. /\ k \in b.snapshot_index .. Len(g) => TermAt(b, k) = g[k].term
          /\ k \notin b.snapshot_index .. Len(g) => TermAt(b, k) = NoTerm
      BY <2>1, <2>2, TermAtFull
    <3>. QED  BY <3>1, <3>2 DEF a, b
  <2>4. k \in DOMAIN f /\ k \in DOMAIN g /\ f[k].term = g[k].term
    <3>1. Len(f) \in Nat /\ Len(g) \in Nat /\ k \in 1 .. Len(f) /\ k \in 1 .. Len(g)
      BY <2>1, <2>2, <2>3, LogFields
    <3>2. f[k].term = g[k].term
      BY <2>3
    <3> HIDE DEF f, g
    <3>3. DOMAIN f = 1 .. Len(f) /\ DOMAIN g = 1 .. Len(g)
      BY <2>1
    <3>. QED  BY <3>1, <3>2, <3>3
  <2>5. f[l] = g[l]
    <3> HIDE DEF f, g
    <3>1. SamePrefix(f, g, k)
      BY <2>1, <2>4, SameTermSamePrefix
    <3>. QED  BY <3>1 DEF SamePrefix
  <2>6. /\ Retains(a, l) => EntryAt(a, l) = f[l]
        /\ TermAt(a, l) # NoTerm => TermAt(a, l) = f[l].term
    <3> HIDE DEF a, b, f, g
    <3>. QED  BY <2>1, <2>2, TermAtFull
  <2>7. /\ Retains(b, l) => EntryAt(b, l) = g[l]
        /\ TermAt(b, l) # NoTerm => TermAt(b, l) = g[l].term
    <3> HIDE DEF a, b, f, g
    <3>. QED  BY <2>1, <2>2, TermAtFull
  <2>. QED  BY <2>5, <2>6, <2>7
<1>2. TypeOK /\ LogInv => LogMatching
  BY <1>1
<1>. QED  BY <1>2, TypeCorrect, LogInvariant, PTL

\* No step drops or rewrites an entry of a leader's log, whatever the number
\* of nodes, of elections and of restarts.
THEOREM LeadersOnlyAppend ==
    ASSUME SaveSucceeds = {TRUE}
    PROVE  Spec => LeaderAppendOnly
<1> DEFINE Kept(i) ==
        LET a == node[i]
            b == node'[i]
        IN  (/\ a.role = "Leader" /\ b.role = "Leader"
             /\ a.current_term = b.current_term) =>
                /\ LastLogIndex(b) >= LastLogIndex(a)
                /\ \A k \in 1 .. LastLogIndex(a) :
                      (Retains(a, k) /\ Retains(b, k)) =>
                          EntryAt(a, k) = EntryAt(b, k)
<1>1. ASSUME TypeOK, ElectionInv, LogInv, [Next]_vars, NEW i \in Node
      PROVE  Kept(i)
  <2> SUFFICES ASSUME node[i].role = "Leader", node'[i].role = "Leader",
                      node[i].current_term = node'[i].current_term
               PROVE  /\ LastLogIndex(node'[i]) >= LastLogIndex(node[i])
                      /\ \A k \in 1 .. LastLogIndex(node[i]) :
                            (Retains(node[i], k) /\ Retains(node'[i], k)) =>
                               EntryAt(node[i], k) = EntryAt(node'[i], k)
    OBVIOUS
  <2> DEFINE a == node[i]
             b == node'[i]
             f == full_log[i]
             g == full_log'[i]
             u == node[i].current_term
  <2>1. LogInv' /\ Grows /\ TypeOK'
    BY <1>1, LogNext, NextType DEF Advances
  <2>2. /\ a \in NodeState /\ b \in NodeState
        /\ f \in Seq(Entry) /\ g \in Seq(Entry) /\ Holds(a, f) /\ Holds(b, g)
    BY <1>1, <2>1 DEF TypeOK, LogInv, HistoryType, LogsAreHeld
  <2>3. /\ f = term_log[u] /\ g = term_log'[u] /\ u \in DOMAIN term_log
    <3>1. f = term_log[u] /\ g = term_log'[u]
      BY <1>1, <2>1 DEF LogInv, LeadersHaveLogs
    <3>2. Won(u, i)
      BY <1>1 DEF ElectionInv, RolesAreEarned
    <3>. QED  BY <1>1, <3>1, <3>2 DEF LogInv, LeadersHaveLogs, Won
  <2>4. SamePrefix(f, g, Len(f))
    BY <2>1, <2>3 DEF Grows, Extends
  <2> HIDE DEF a, b, f, g
  <2>5. LastLogIndex(a) = Len(f) /\ LastLogIndex(b) = Len(g)
        /\ Len(f) \in Nat /\ Len(g) \in Nat
    BY <2>2 DEF Holds
  <2>6. ASSUME NEW k \in 1 .. LastLogIndex(a), Retains(a, k), Retains(b, k)
        PROVE  EntryAt(a, k) = EntryAt(b, k)
    <3>1. k \in Nat
      BY <2>5
    <3>2. EntryAt(a, k) = f[k] /\ EntryAt(b, k) = g[k]
      BY <2>2, <2>6, <3>1, TermAtFull
    <3>. QED  BY <2>4, <2>5, <3>2 DEF SamePrefix
  <2>7. LastLogIndex(b) >= LastLogIndex(a)
    BY <2>4, <2>5 DEF SamePrefix
  <2>. QED  BY <2>6, <2>7 DEF a, b
<1>2. TypeOK /\ ElectionInv /\ LogInv /\ [Next]_vars => \A i \in Node : Kept(i)
  BY <1>1
<1>3. TypeOK /\ ElectionInv /\ LogInv /\ [Next]_vars =>
        [\A i \in Node :
            LET a == node[i]
                b == node'[i]
            IN  (/\ a.role = "Leader" /\ b.role = "Leader"
                 /\ a.current_term = b.current_term) =>
                    /\ LastLogIndex(b) >= LastLogIndex(a)
                    /\ \A k \in 1 .. LastLogIndex(a) :
                          (Retains(a, k) /\ Retains(b, k)) =>
                              EntryAt(a, k) = EntryAt(b, k)]_vars
  BY <1>2
<1>. QED  BY <1>3, TypeCorrect, ElectionInvariant, LogInvariant, PTL
          DEF Spec, LeaderAppendOnly

LEMMA HistoriesGrow ==
    ASSUME [Next]_vars
    PROVE  cast \subseteq cast' /\ elected \subseteq elected' /\ acks \subseteq acks'
<1>1. ASSUME NEW i \in Node, TickIdle(i) \/ TickHeartbeat(i) \/ Restart(i)
      PROVE  UNCHANGED <<cast, elected, acks>>
  BY <1>1 DEF TickIdle, TickHeartbeat, Restart
<1>2. ASSUME NEW i \in Node, TickElection(i) \/ ForceElection(i)
      PROVE  cast \subseteq cast' /\ UNCHANGED <<elected, acks>>
  BY <1>2 DEF TickElection, ForceElection, Stand
<1>3. ASSUME NEW i \in Node, NEW command \in Value, Propose(i, command)
      PROVE  UNCHANGED <<cast, elected, acks>>
  BY <1>3 DEF Propose
<1>4. ASSUME NEW m \in msgs, ReceiveRequestVote(m)
      PROVE  cast \subseteq cast' /\ UNCHANGED <<elected, acks>>
  BY <1>4 DEF ReceiveRequestVote
<1>5. ASSUME NEW m \in msgs, ReceiveRequestVoteResponse(m)
      PROVE  elected \subseteq elected' /\ UNCHANGED <<cast, acks>>
  BY <1>5 DEF ReceiveRequestVoteResponse
<1>6. ASSUME NEW m \in msgs, ReceiveAppendEntries(m)
      PROVE  acks \subseteq acks' /\ UNCHANGED <<cast, elected>>
  BY <1>6 DEF ReceiveAppendEntries
<1>7. ASSUME NEW m \in msgs, ReceiveAppendEntriesResponse(m) \/ Lose(m)
      PROVE  UNCHANGED <<cast, elected, acks>>
  BY <1>7 DEF ReceiveAppendEntriesResponse, Lose
<1>8. CASE UNCHANGED vars
  BY <1>8 DEF vars
<1>. QED  BY <1>1, <1>2, <1>3, <1>4, <1>5, <1>6, <1>7, <1>8 DEF Next

\* Terms never go back and a vote for another node is never changed within
\* its term, across restarts: the ledger of votes remembers the vote, and
\* ElectionInv says that a vote the node forgot was one for itself.
THEOREM VotesAreDurable ==
    ASSUME SaveSucceeds = {TRUE}
    PROVE  Spec => VoteIsDurable
<1> DEFINE Durable(i) ==
        /\ node'[i].current_term >= node[i].current_term
        /\ (/\ node'[i].current_term = node[i].current_term
            /\ node[i].voted_for \notin {i, Nil})
           => node'[i].voted_for = node[i].voted_for
<1>1. ASSUME TypeOK, ElectionInv, LogInv, [Next]_vars, NEW i \in Node
      PROVE  Durable(i)
  <2>1. node'[i].current_term >= node[i].current_term
    BY <1>1, LogNext DEF Advances
  <2>2. ASSUME node'[i].current_term = node[i].current_term,
               node[i].voted_for \notin {i, Nil}
        PROVE  node'[i].voted_for = node[i].voted_for
    <3> DEFINE v == <<i, node[i].voted_for, node[i].current_term>>
    <3>1. v \in cast'
      BY <1>1, <2>2, HistoriesGrow DEF ElectionInv, LedgerMatchesBallots
    <3>2. LedgerMatchesBallots'
      BY <1>1, ElectionNext DEF ElectionInv
    <3>3. v[1] = i /\ v[2] = node[i].voted_for /\ v[3] = node'[i].current_term
      BY <2>2
    <3> HIDE DEF v
    <3>4. node'[i].voted_for = v[2] \/ v[2] = v[1]
      BY <3>1, <3>2, <3>3 DEF LedgerMatchesBallots
    <3>. QED  BY <2>2, <3>3, <3>4
  <2>. QED  BY <2>1, <2>2
<1>2. TypeOK /\ ElectionInv /\ LogInv /\ [Next]_vars => \A i \in Node : Durable(i)
  BY <1>1
<1>3. TypeOK /\ ElectionInv /\ LogInv /\ [Next]_vars =>
        [\A i \in Node :
            /\ node'[i].current_term >= node[i].current_term
            /\ (/\ node'[i].current_term = node[i].current_term
                /\ node[i].voted_for \notin {i, Nil})
               => node'[i].voted_for = node[i].voted_for]_vars
  BY <1>2
<1>. QED  BY <1>3, TypeCorrect, ElectionInvariant, LogInvariant, PTL
          DEF Spec, VoteIsDurable

-----------------------------------------------------------------------------
(* The leader a node names.                                                *)

\* n is node i after its handler; what follows it keeps the leader.
Names(i, n) ==
    /\ node'[i].leader_id = n.leader_id
    /\ node'[i].current_term = n.current_term /\ node'[i].role = n.role
    /\ \A j \in Node \ {i} : node'[j] = node[j]

LEMMA PersistNames ==
    ASSUME TypeOK, NEW i \in Node, NEW n \in NodeState,
           ApplyAndPersist(i, n) \/ \E executed : Persist(i, n, executed)
    PROVE  Names(i, n)
<1>1. PICK a, executed : /\ Persist(i, a, executed) /\ a \in NodeState
                         /\ SameBallot(a, n) /\ a.leader_id = n.leader_id
  <2>1. /\ MarkApplied(n) \in NodeState /\ SameBallot(MarkApplied(n), n)
        /\ MarkApplied(n).leader_id = n.leader_id
    BY MarkAppliedType DEF MarkApplied, NodeState
  <2>2. CASE ApplyAndPersist(i, n)
    BY <2>1, <2>2 DEF ApplyAndPersist
  <2>3. CASE \E executed : Persist(i, n, executed)
    BY <2>3 DEF SameBallot
  <2>. QED  BY <2>2, <2>3
<1> DEFINE x == MaybeCompactLog(a)
<1>2. x \in NodeState /\ SameBallot(x, a) /\ x.leader_id = a.leader_id
  BY <1>1, CompactType DEF MaybeCompactLog, CompactCommitted, NodeState
<1>3. node' = [node EXCEPT ![i] = x]
  BY <1>1 DEF Persist
<1> HIDE DEF x
<1>4. node'[i] = x /\ \A j \in Node \ {i} : node'[j] = node[j]
  BY <1>3 DEF TypeOK
<1>. QED  BY <1>1, <1>2, <1>4 DEF Names, SameBallot

LEMMA NamesKeeps ==
    ASSUME TypeOK, LeaderIsElected, NEW i \in Node, NEW n \in NodeState,
           Names(i, n), elected \subseteq elected',
           n.leader_id # Nil =>
              \E e \in elected' : /\ e.term = n.current_term
                                  /\ e.leader = n.leader_id,
           n.role = "Leader" => n.leader_id = i
    PROVE  LeaderIsElected'
BY DEF LeaderIsElected, Names

LEMMA LeaderNext ==
    ASSUME TypeOK, ElectionInv, LeaderIsElected, [Next]_vars
    PROVE  LeaderIsElected'
<1>0. /\ elected \subseteq elected'
      /\ \A i \in Node :
            /\ node[i] \in NodeState
            /\ node[i].leader_id # Nil =>
                  \E e \in elected' : /\ e.term = node[i].current_term
                                      /\ e.leader = node[i].leader_id
            /\ node[i].role = "Leader" => node[i].leader_id = i
  <2>1. elected \subseteq elected'
    BY HistoriesGrow
  <2>. QED  BY <2>1 DEF TypeOK, LeaderIsElected
<1>1. ASSUME NEW i \in Node, NEW n \in NodeState, Names(i, n),
             n.leader_id = node[i].leader_id,
             n.current_term = node[i].current_term, n.role = node[i].role
      PROVE  LeaderIsElected'
  BY <1>0, <1>1, NamesKeeps
<1>2. ASSUME NEW i \in Node, NEW n \in NodeState, Names(i, n),
             n.leader_id = Nil, n.role # "Leader"
      PROVE  LeaderIsElected'
  BY <1>0, <1>2, NamesKeeps
<1>3. ASSUME NEW i \in Node, TickIdle(i) \/ TickHeartbeat(i)
      PROVE  LeaderIsElected'
  <2>1. Names(i, node[i])
    BY <1>0, <1>3, PersistNames DEF TickIdle, TickHeartbeat
  <2>. QED  BY <1>0, <1>1, <2>1
<1>4. ASSUME NEW i \in Node, TickElection(i) \/ ForceElection(i)
      PROVE  LeaderIsElected'
  <2> DEFINE n == StartElection(i, node[i])
  <2>1. n \in NodeState /\ n.role = "Candidate" /\ n.leader_id = Nil
    <3>1. n \in NodeState /\ n.role = "Candidate"
      BY <1>0, StartElectionType
    <3>2. n.leader_id = Nil
      BY <1>0 DEF StartElection, NodeState
    <3>. QED  BY <3>1, <3>2
  <2>2. ApplyAndPersist(i, n) \/ \E executed : Persist(i, n, executed)
    BY <1>4 DEF TickElection, ForceElection
  <2> HIDE DEF n
  <2>3. Names(i, n)
    BY <2>1, <2>2, PersistNames
  <2>. QED  BY <1>2, <2>1, <2>3
<1>5. ASSUME NEW i \in Node, NEW command \in Value, Propose(i, command)
      PROVE  LeaderIsElected'
  <2> DEFINE n == ProposeCommand(i, node[i], command)
  <2>1. n \in NodeState /\ SameBallot(n, node[i])
    BY <1>0, ProposeType
  <2>2. n.leader_id = node[i].leader_id
    BY <1>0 DEF ProposeCommand, CommitTo, NodeState
  <2>3. ApplyAndPersist(i, n)
    BY <1>5 DEF Propose
  <2> HIDE DEF n
  <2>4. Names(i, n)
    BY <2>1, <2>3, PersistNames
  <2>. QED  BY <1>1, <2>1, <2>2, <2>4 DEF SameBallot
<1>6. ASSUME NEW i \in Node, Restart(i) PROVE LeaderIsElected'
  <2> DEFINE n == RestoreFromStorage(disk[i])
             x == MarkApplied(n)
  <2>1. disk[i] \in StorageSnapshot
    BY DEF TypeOK
  <2>2. n \in NodeState /\ n.role = "Follower" /\ n.leader_id = Nil
    BY <2>1, RestoreType DEF RestoreFromStorage, CommitTo, NewNode
  <2>3. node' = [node EXCEPT ![i] = x]
    BY <1>6 DEF Restart
  <2> HIDE DEF n
  <2>4. x \in NodeState /\ x.role = "Follower" /\ x.leader_id = Nil
    BY <2>2, MarkAppliedType DEF MarkApplied, SameBallot, NodeState
  <2> HIDE DEF x
  <2>5. Names(i, x)
    BY <2>3 DEF Names, TypeOK
  <2>. QED  BY <1>2, <2>4, <2>5
<1>7. ASSUME NEW m \in msgs, ReceiveRequestVote(m) PROVE LeaderIsElected'
  <2> DEFINE i == m.to
             b == node[i]
             n == HandleRequestVote(b, m)
             s == SeenTerm(b, m)
  <2>1. /\ m \in RequestVoteMessage /\ i \in Node /\ b \in NodeState
        /\ m.term \in Nat /\ b = node[i]
    BY <1>7, Received DEF ReceiveRequestVote
  <2>2. /\ n \in NodeState /\ n.current_term = s.current_term
        /\ n.role = s.role
    BY <2>1, HandleRequestVoteType
  <2>3. /\ m.term > b.current_term => s.role = "Follower"
        /\ ~(m.term > b.current_term) => s = b
        /\ s \in NodeState
    BY <2>1, SeenTermType
  <2>4. m.term > b.current_term => s.leader_id = Nil
    BY <2>1 DEF SeenTerm, BecomeFollower, NodeState
  <2>5. n.leader_id = s.leader_id
    <3>1. n \in {s, [s EXCEPT !.voted_for = m.from]}
      BY DEF HandleRequestVote
    <3> HIDE DEF s, n
    <3>. QED  BY <2>3, <3>1 DEF NodeState
  <2>6. ApplyAndPersist(i, n)
    BY <1>7 DEF ReceiveRequestVote
  <2> HIDE DEF n, s, b, i
  <2>7. Names(i, n)
    BY <2>1, <2>2, <2>6, PersistNames
  <2>8. CASE m.term > b.current_term
    BY <1>2, <2>1, <2>2, <2>3, <2>4, <2>5, <2>7, <2>8
  <2>9. CASE ~(m.term > b.current_term)
    BY <1>1, <2>1, <2>2, <2>3, <2>5, <2>7, <2>9
  <2>. QED  BY <2>8, <2>9
<1>8. ASSUME NEW m \in msgs, ReceiveRequestVoteResponse(m)
      PROVE  LeaderIsElected'
  <2> DEFINE i == m.to
             b == node[i]
             n == HandleRequestVoteResponse(i, b, m)
             wins == WinsElection(i, b, m)
             counted == [b EXCEPT !.votes_received = Tally(b, m)]
             won == [term |-> b.current_term, leader |-> i, votes |-> Tally(b, m)]
  <2>1. /\ m \in RequestVoteResponseMessage /\ i \in Node /\ b \in NodeState
        /\ m.term \in Nat /\ b = node[i] /\ b.current_term \in Nat
    BY <1>8, Received DEF ReceiveRequestVoteResponse
  <2>2. /\ n \in NodeState
        /\ m.term > b.current_term => n.role = "Follower"
        /\ ~(m.term > b.current_term) =>
              /\ n.current_term = b.current_term
              /\ IF b.role = "Candidate" /\ m.term = b.current_term
                 THEN n.role = IF wins THEN "Leader" ELSE "Candidate"
                 ELSE n = b
    BY <2>1, HandleRequestVoteResponseType
  <2>3. wins => /\ b.role = "Candidate" /\ m.term = b.current_term
                /\ ~(m.term > b.current_term)
    BY <2>1 DEF WinsElection
  <2>4. counted.leader_id = b.leader_id
    BY <2>1 DEF NodeState
  <2>5. /\ m.term > b.current_term => n = BecomeFollower(b, m.term, Nil)
        /\ wins => n = BecomeLeader(i, counted)
        /\ (~(m.term > b.current_term) /\ ~wins) => n \in {b, counted}
    BY <2>3 DEF HandleRequestVoteResponse
  <2>6. /\ m.term > b.current_term => n.leader_id = Nil
        /\ wins => n.leader_id = i
        /\ (~(m.term > b.current_term) /\ ~wins) => n.leader_id = b.leader_id
    <3>1. BecomeFollower(b, m.term, Nil).leader_id = Nil
      BY <2>1 DEF BecomeFollower, NodeState
    <3>2. BecomeLeader(i, counted).leader_id = i
      BY <2>1 DEF BecomeLeader, NodeState
    <3> HIDE DEF n, counted, wins
    <3>. QED  BY <2>4, <2>5, <3>1, <3>2
  <2>7. /\ ApplyAndPersist(i, n)
        /\ wins => won \in elected'
    BY <1>8 DEF ReceiveRequestVoteResponse
  <2>8. won.term = b.current_term /\ won.leader = i
    OBVIOUS
  <2> HIDE DEF n, b, i, wins, counted, won
  <2>9. Names(i, n)
    BY <2>1, <2>2, <2>7, PersistNames
  <2>10. CASE m.term > b.current_term
    BY <1>2, <2>1, <2>2, <2>6, <2>9, <2>10
  <2>11. CASE wins
    <3>1. n.leader_id = i /\ n.current_term = b.current_term
      BY <2>2, <2>3, <2>6, <2>11
    <3>. QED  BY <1>0, <2>1, <2>2, <2>7, <2>8, <2>9, <2>11, <3>1, NamesKeeps
  <2>12. CASE ~(m.term > b.current_term) /\ ~wins
    BY <1>1, <2>1, <2>2, <2>6, <2>9, <2>12
  <2>. QED  BY <2>10, <2>11, <2>12
<1>9. ASSUME NEW m \in msgs, ReceiveAppendEntries(m) PROVE LeaderIsElected'
  <2> DEFINE i == m.to
             b == node[i]
             n == HandleAppendEntries(b, m)
             f == FollowLeader(b, m)
             merged == [f EXCEPT !.log = MergeEntries(f, m)]
             target == Smaller(m.leader_commit, LastLogIndex(merged))
  <2>1. /\ m \in AppendEntriesMessage /\ i \in Node /\ b \in NodeState
        /\ m.term \in Nat /\ b = node[i] /\ b.current_term \in Nat
        /\ m.type = "AppendEntries" /\ m.from \in Node
    BY <1>9, Received DEF ReceiveAppendEntries
  <2>2. /\ n \in NodeState
        /\ m.term < b.current_term => n = b
        /\ ~(m.term < b.current_term) => SameBallot(n, f)
    BY <2>1, HandleAppendEntriesType
  <2>3. /\ f \in NodeState
        /\ IF m.term > b.current_term \/ b.role # "Follower"
           THEN f.current_term = m.term /\ f.role = "Follower"
           ELSE SameBallot(f, b)
    BY <2>1, FollowLeaderType
  <2>4. f.leader_id = m.from
    BY <2>1 DEF FollowLeader, BecomeFollower, NodeState
  <2>5. ~(m.term < b.current_term) => n.leader_id = m.from
    <3>1. ~(m.term < b.current_term) => n \in {f, merged, CommitTo(merged, target)}
      BY DEF HandleAppendEntries
    <3> HIDE DEF f, n
    <3>2. /\ merged.leader_id = f.leader_id
          /\ CommitTo(merged, target).leader_id = f.leader_id
      BY <2>3 DEF CommitTo, NodeState
    <3> HIDE DEF merged, target
    <3>. QED  BY <2>4, <3>1, <3>2
  <2>6. ApplyAndPersist(i, n)
    BY <1>9 DEF ReceiveAppendEntries
  <2>7. \E e \in elected' : e.term = m.term /\ e.leader = m.from
    BY <1>0, <2>1 DEF ElectionInv, MessagesAreEarned, Earned, Won
  <2> HIDE DEF n, b, i, f
  <2>8. Names(i, n)
    BY <2>1, <2>2, <2>6, PersistNames
  <2>9. CASE m.term < b.current_term
    BY <1>1, <2>1, <2>2, <2>8, <2>9
  <2>10. CASE ~(m.term < b.current_term)
    <3>1. ~(m.term > b.current_term) => m.term = b.current_term
      BY <2>1, <2>10
    <3>2. n.current_term = m.term /\ n.role = "Follower" /\ n.leader_id = m.from
      BY <2>2, <2>3, <2>5, <2>10, <3>1 DEF SameBallot
    <3>. QED  BY <1>0, <2>1, <2>2, <2>7, <2>8, <3>2, NamesKeeps
  <2>. QED  BY <2>9, <2>10
<1>10. ASSUME NEW m \in msgs, ReceiveAppendEntriesResponse(m)
       PROVE  LeaderIsElected'
  <2> DEFINE i == m.to
             b == node[i]
             n == HandleAppendEntriesResponse(i, b, m)
             down == BecomeFollower(b, m.term, Nil)
             counted == [b EXCEPT !.match_index[m.from] = m.match_index,
                                  !.next_index[m.from] = m.match_index + 1]
             back == [b EXCEPT !.next_index[m.from] =
                       Larger((IF @ = 0 THEN LastLogIndex(b) + 1 ELSE @) - 1, 1)]
  <2>1. /\ m \in AppendEntriesResponseMessage /\ i \in Node /\ b \in NodeState
        /\ m.term \in Nat /\ b = node[i]
    BY <1>10, Received DEF ReceiveAppendEntriesResponse
  <2>2. /\ n \in NodeState
        /\ m.term > b.current_term => n.role = "Follower"
        /\ ~(m.term > b.current_term) => SameBallot(n, b)
    BY <2>1, HandleAppendEntriesResponseType
  <2>3. /\ m.term > b.current_term => n = down
        /\ ~(m.term > b.current_term) =>
              n \in {b, TryAdvanceCommit(i, counted), back}
    BY DEF HandleAppendEntriesResponse
  <2>4. down.leader_id = Nil
    BY <2>1 DEF BecomeFollower, NodeState
  <2>5. counted.leader_id = b.leader_id /\ back.leader_id = b.leader_id
    BY <2>1 DEF NodeState
  <2>6. TryAdvanceCommit(i, counted).leader_id = counted.leader_id
    BY <2>1 DEF TryAdvanceCommit, CommitTo, NodeState
  <2>7. ApplyAndPersist(i, n)
    BY <1>10 DEF ReceiveAppendEntriesResponse
  <2> HIDE DEF n, b, i, down, counted, back
  <2>8. Names(i, n)
    BY <2>1, <2>2, <2>7, PersistNames
  <2>9. CASE m.term > b.current_term
    BY <1>2, <2>1, <2>2, <2>3, <2>4, <2>8, <2>9
  <2>10. CASE ~(m.term > b.current_term)
    <3>1. n.leader_id = b.leader_id
      BY <2>3, <2>5, <2>6, <2>10
    <3>. QED  BY <1>1, <2>1, <2>2, <2>8, <2>10, <3>1 DEF SameBallot
  <2>. QED  BY <2>9, <2>10
<1>11. CASE (\E m \in msgs : Lose(m)) \/ UNCHANGED vars
  BY <1>11 DEF Lose, vars, LeaderIsElected
<1>. QED
  BY <1>3, <1>4, <1>5, <1>6, <1>7, <1>8, <1>9, <1>10, <1>11 DEF Next

\* The leader a node names, which Command::Status prints, is the winner of
\* the election of the node's own term, and a leader names itself.
THEOREM NamedLeaderIsElected ==
    ASSUME SaveSucceeds = {TRUE}
    PROVE  Spec => []LeaderIsElected
<1>1. Init => LeaderIsElected
  BY DEF Init, LeaderIsElected, NewNode
<1>2. TypeOK /\ ElectionInv /\ LeaderIsElected /\ [Next]_vars => LeaderIsElected'
  BY LeaderNext
<1>. QED  BY <1>1, <1>2, TypeCorrect, ElectionInvariant, PTL DEF Spec
=============================================================================
