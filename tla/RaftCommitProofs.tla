--------------------------- MODULE RaftCommitProofs -------------------------
(***************************************************************************)
(* A committed entry stays: leader completeness and the agreement of the   *)
(* state machines, for every set of nodes and commands, every threshold    *)
(* and every bound, where saves succeed and no acknowledgement exceeds its *)
(* request.                                                                *)
(***************************************************************************)
EXTENDS RaftCommit, RaftLogProofs

\* What a step of the cluster is known to do.
Steps ==
    /\ TypeOK /\ ElectionInv /\ LogInv
    /\ TypeOK' /\ ElectionInv' /\ LogInv'
    /\ Advances
    /\ cast \subseteq cast' /\ elected \subseteq elected' /\ acks \subseteq acks'

LEMMA NextSteps ==
    ASSUME SaveSucceeds = {TRUE}, TypeOK, ElectionInv, LogInv, [Next]_vars
    PROVE  Steps
BY NextType, ElectionNext, LogNext, HistoriesGrow DEF Steps

-----------------------------------------------------------------------------
(* The logs of the leaders.                                                *)

LEMMA TermLogs ==
    ASSUME LogInv, NEW t \in DOMAIN term_log
    PROVE  /\ t \in Nat /\ term_log[t] \in Seq(Entry) /\ Len(term_log[t]) \in Nat
           /\ DOMAIN term_log[t] = 1 .. Len(term_log[t])
           /\ FollowsLeaders(term_log[t])
           /\ \A k \in DOMAIN term_log[t] :
                 /\ k \in Nat /\ k > 0 /\ term_log[t][k].term \in Nat
                 /\ term_log[t][k].term <= t
           /\ \A k, l \in DOMAIN term_log[t] :
                 k <= l => term_log[t][k].term <= term_log[t][l].term
<1>1. t \in Nat /\ term_log[t] \in Seq(Entry)
  BY DEF LogInv, HistoryType
<1>2. FollowsLeaders(term_log[t]) /\ Sorted(term_log[t], t)
  BY DEF LogInv, LogsFollowLeaders, LogsAreSorted
<1> DEFINE log == term_log[t]
<1> HIDE DEF log
<1>3. log \in Seq(Entry) => /\ Len(log) \in Nat /\ DOMAIN log = 1 .. Len(log)
                            /\ \A k \in DOMAIN log : log[k] \in Entry
  OBVIOUS
<1>4. \A k \in DOMAIN log : /\ k \in Nat /\ k > 0 /\ log[k].term \in Nat
  BY <1>1, <1>3 DEF Entry, log
<1>. QED  BY <1>1, <1>2, <1>3, <1>4 DEF Sorted, log

LEMMA NodeLogs ==
    ASSUME LogInv, TypeOK, NEW i \in Node
    PROVE  /\ full_log[i] \in Seq(Entry) /\ Len(full_log[i]) \in Nat
           /\ DOMAIN full_log[i] = 1 .. Len(full_log[i])
           /\ FollowsLeaders(full_log[i]) /\ Holds(node[i], full_log[i])
           /\ node[i] \in NodeState /\ node[i].current_term \in Nat
           /\ node[i].commit_index \in Nat /\ node[i].snapshot_index \in Nat
           /\ LastLogIndex(node[i]) = Len(full_log[i])
           /\ \A k \in DOMAIN full_log[i] :
                 /\ k \in Nat /\ k > 0 /\ full_log[i][k].term \in Nat
                 /\ full_log[i][k].term <= node[i].current_term
           /\ \A k, l \in DOMAIN full_log[i] :
                 k <= l => full_log[i][k].term <= full_log[i][l].term
<1>1. /\ full_log[i] \in Seq(Entry) /\ FollowsLeaders(full_log[i])
      /\ Holds(node[i], full_log[i]) /\ Sorted(full_log[i], node[i].current_term)
      /\ node[i] \in NodeState
  BY DEF LogInv, TypeOK, HistoryType, LogsFollowLeaders, LogsAreHeld, LogsAreSorted
<1>2. /\ node[i].current_term \in Nat /\ node[i].commit_index \in Nat
      /\ node[i].snapshot_index \in Nat
  BY <1>1, LogFields
<1>3. LastLogIndex(node[i]) = Len(full_log[i])
  BY <1>1 DEF Holds
<1> DEFINE log == full_log[i]
<1> HIDE DEF log
<1>4. log \in Seq(Entry) => /\ Len(log) \in Nat /\ DOMAIN log = 1 .. Len(log)
                            /\ \A k \in DOMAIN log : log[k] \in Entry
  OBVIOUS
<1>5. \A k \in DOMAIN log : k \in Nat /\ k > 0 /\ log[k].term \in Nat
  BY <1>1, <1>4 DEF Entry, log
<1>. QED  BY <1>1, <1>2, <1>3, <1>4, <1>5 DEF Sorted, log

\* What a request for a vote says of the log.
LEMMA LastOf ==
    ASSUME NEW n \in NodeState, NEW full \in Seq(Entry), Holds(n, full)
    PROVE  /\ LastLogIndex(n) = Len(full)
           /\ LastLogTerm(n) = IF Len(full) = 0 THEN 0 ELSE full[Len(full)].term
<1>1. Len(full) \in Nat /\ n.snapshot_index <= Len(full) /\ n.snapshot_index \in Nat
      /\ LastLogIndex(n) = Len(full)
  BY TermAtFull, LogFields
<1>2. Len(full) \in n.snapshot_index .. Len(full)
  BY <1>1
<1>. QED  BY <1>1, <1>2, TermAtFull DEF LastLogTerm

\* The log of a term never gets an entry of an earlier term.
LEMMA HasStays ==
    ASSUME Steps, NEW v \in DOMAIN term_log, NEW k, NEW t
    PROVE  /\ v \in DOMAIN term_log'
           /\ Has(term_log[v], k, t) => Has(term_log'[v], k, t)
           /\ t # v => (Has(term_log'[v], k, t) <=> Has(term_log[v], k, t))
<1> DEFINE old == term_log[v]
           new == term_log'[v]
<1>1. /\ old \in Seq(Entry) /\ Len(old) \in Nat /\ DOMAIN old = 1 .. Len(old)
  BY TermLogs DEF Steps
<1>2. v \in DOMAIN term_log' /\ Extends(old, new, v)
  BY DEF Steps, Advances, Grows
<1>3. new \in Seq(Entry)
  BY <1>2 DEF Steps, LogInv, HistoryType
<1> HIDE DEF old, new
<1>4. Len(new) \in Nat /\ DOMAIN new = 1 .. Len(new)
  BY <1>3
<1>5. /\ Len(old) <= Len(new) /\ \A l \in 1 .. Len(old) : old[l] = new[l]
      /\ \A l \in Len(old) + 1 .. Len(new) : new[l].term = v
  BY <1>2 DEF Extends, SamePrefix
<1>6. Has(old, k, t) => Has(new, k, t)
  BY <1>1, <1>4, <1>5 DEF Has
<1>7. ASSUME t # v, Has(new, k, t) PROVE Has(old, k, t)
  <2>1. k \in 1 .. Len(new) /\ new[k].term = t
    BY <1>4, <1>7 DEF Has
  <2>2. k \notin Len(old) + 1 .. Len(new)
    BY <1>5, <1>7, <2>1
  <2>3. k \in 1 .. Len(old)
    BY <1>1, <1>4, <2>1, <2>2
  <2>. QED  BY <1>1, <1>5, <2>1, <2>3 DEF Has
<1>. QED  BY <1>2, <1>6, <1>7 DEF old, new

LEMMA LostStays ==
    ASSUME Steps, NEW t \in Nat, NEW k, NEW u \in Nat, NEW w \in Nat, u <= w,
           LostBetween(t, k, u)
    PROVE  LostBetween(t, k, w)'
<1>1. PICK v \in DOMAIN term_log : t < v /\ v < u /\ ~Has(term_log[v], k, t)
  BY DEF LostBetween
<1>2. v \in Nat
  BY TermLogs DEF Steps
<1>3. v \in DOMAIN term_log' /\ ~Has(term_log'[v], k, t) /\ t < v /\ v < w
  BY <1>1, <1>2, HasStays
<1>. QED  BY <1>3 DEF LostBetween, Has

LEMMA BacksStays ==
    ASSUME Steps, NEW q, NEW t, NEW k, Backs(q, t, k)
    PROVE  Backs(q, t, k)'
BY DEF Steps, Backs

LEMMA ChosenStays ==
    ASSUME Steps, NEW t, NEW k, Chosen(t, k)
    PROVE  Chosen(t, k)'
<1>1. t \in DOMAIN term_log' /\ Has(term_log'[t], k, t)
  BY HasStays DEF Chosen
<1> DEFINE A == {q \in Node : Backs(q, t, k)}
           B == {q \in Node : Backs(q, t, k)'}
<1>2. PICK i \in Node : Cardinality(A) >= Majority(i)
  BY DEF Chosen
<1>3. A \subseteq B /\ B \subseteq Node /\ A \subseteq Node
  BY BacksStays
<1> HIDE DEF A, B
<1>4. IsFiniteSet(B) /\ IsFiniteSet(A)
  BY <1>3, FS_Subset, NodeAssumption
<1>5. /\ Cardinality(A) <= Cardinality(B)
      /\ Cardinality(A) \in Nat /\ Cardinality(B) \in Nat
  BY <1>3, <1>4, FS_Subset, FS_CardinalityType
<1>6. Majority(i) \in Int
  <2>1. Peers(i) \subseteq Node
    BY DEF Peers
  <2>2. Cardinality(Peers(i)) \in Nat
    BY <2>1, FS_Subset, FS_CardinalityType, NodeAssumption
  <2>. QED  BY <2>2 DEF Majority
<1>7. Cardinality(B) >= Majority(i)
  BY <1>2, <1>5, <1>6
<1>8. Cardinality({q \in Node : Backs(q, t, k)'}) >= Majority(i)
  BY <1>7 DEF B
<1>. QED  BY <1>1, <1>8 DEF Chosen, Has, Majority, Peers

LEMMA PrefixType ==
    ASSUME NEW a \in Seq(Entry), NEW b \in Seq(Entry), NEW k \in Nat,
           SamePrefix(a, b, k)
    PROVE  /\ SamePrefix(b, a, k)
           /\ \A c \in Nat : c <= k => SamePrefix(a, b, c)
           /\ \A l \in 1 .. k : l \in DOMAIN a /\ l \in DOMAIN b
BY DEF SamePrefix

LEMMA PrefixTrans ==
    ASSUME NEW a, NEW b, NEW d, NEW k, SamePrefix(a, b, k), SamePrefix(b, d, k)
    PROVE  SamePrefix(a, d, k)
BY DEF SamePrefix

\* A commit stays one when the log, its start and the term stay or grow.
LEMMA CommittedPrefix ==
    ASSUME LogInv, NEW a \in Seq(Entry), NEW b \in Seq(Entry),
           NEW c \in Nat, NEW d \in Nat, d <= c, NEW w \in Nat, NEW x \in Nat,
           w <= x, Committed(a, c, w), SamePrefix(a, b, d)
    PROVE  Committed(b, d, x)
<1>1. CASE c = 0
  BY <1>1 DEF Committed
<1>2. CASE c # 0
  <2>1. PICK t \in DOMAIN term_log :
             /\ t <= w /\ SamePrefix(a, term_log[t], c)
             /\ \E k \in DOMAIN term_log[t] : c <= k /\ Chosen(t, k)
    BY <1>2 DEF Committed
  <2>2. PICK k \in DOMAIN term_log[t] : c <= k /\ Chosen(t, k)
    BY <2>1
  <2>3. t \in Nat /\ term_log[t] \in Seq(Entry) /\ k \in Nat
    BY TermLogs
  <2>4. SamePrefix(b, term_log[t], d)
    BY <2>1, <2>3, PrefixType, PrefixTrans
  <2>5. t <= x /\ d <= k
    BY <2>1, <2>2, <2>3
  <2>. QED  BY <2>2, <2>4, <2>5 DEF Committed
<1>. QED  BY <1>1, <1>2

LEMMA CommittedStays ==
    ASSUME Steps, NEW log \in Seq(Entry), NEW c \in Nat, NEW w \in Nat,
           NEW x \in Nat, w <= x, Committed(log, c, w)
    PROVE  Committed(log, c, x)'
<1>1. CASE c = 0
  BY <1>1 DEF Committed
<1>2. CASE c # 0
  <2>1. PICK t \in DOMAIN term_log :
             /\ t <= w /\ SamePrefix(log, term_log[t], c)
             /\ \E k \in DOMAIN term_log[t] : c <= k /\ Chosen(t, k)
    BY <1>2 DEF Committed
  <2>2. PICK k \in DOMAIN term_log[t] : c <= k /\ Chosen(t, k)
    BY <2>1
  <2> DEFINE old == term_log[t]
             new == term_log'[t]
  <2>3. t \in Nat /\ old \in Seq(Entry) /\ k \in Nat
    BY TermLogs DEF Steps
  <2>4. t \in DOMAIN term_log' /\ Extends(old, new, t)
    BY DEF Steps, Advances, Grows
  <2>5. new \in Seq(Entry)
    BY <2>4 DEF Steps, LogInv, HistoryType
  <2>6. SamePrefix(log, old, c)
    BY <2>1
  <2>7. k \in DOMAIN old
    OBVIOUS
  <2> HIDE DEF old, new
  <2>8. SamePrefix(log, new, c) /\ k \in DOMAIN new
    <3>1. SamePrefix(old, new, Len(old)) /\ Len(old) \in Nat /\ c <= Len(old)
      BY <2>3, <2>4, <2>6 DEF Extends, SamePrefix
    <3>2. SamePrefix(old, new, c)
      BY <3>1, <2>3, <2>5, PrefixType
    <3>. QED  BY <3>1, <3>2, <2>3, <2>5, <2>6, <2>7, PrefixTrans, PrefixType
  <2>9. Chosen(t, k)'
    BY <2>2, ChosenStays
  <2>10. t <= x
    BY <2>1, <2>3
  <2>11. SamePrefix(log, term_log[t], c)'
    BY <2>8 DEF new, SamePrefix
  <2>. QED  BY <2>2, <2>4, <2>8, <2>9, <2>10, <2>11 DEF Committed, new
<1>. QED  BY <1>1, <1>2

\* The log of a leader, which may have grown.
LEMMA TermCommittedStays ==
    ASSUME Steps, NEW t \in DOMAIN term_log, NEW c \in Nat,
           Committed(term_log[t], c, t)
    PROVE  Committed(term_log[t], c, t)'
<1>1. t \in Nat /\ term_log[t] \in Seq(Entry)
  BY TermLogs DEF Steps
<1>2. t \in DOMAIN term_log' /\ Extends(term_log[t], term_log'[t], t)
  BY DEF Steps, Advances, Grows
<1>3. term_log'[t] \in Seq(Entry)
  BY <1>2 DEF Steps, LogInv, HistoryType
<1> SUFFICES ASSUME NEW old \in Seq(Entry), old = term_log[t],
                    NEW new \in Seq(Entry), new = term_log'[t]
             PROVE  Committed(term_log[t], c, t)'
  BY <1>1, <1>3
<1>4. Extends(old, new, t) /\ Committed(old, c, t)
  BY <1>2
<1>5. CASE c = 0
  BY <1>5 DEF Committed
<1>6. CASE c # 0
  <2>1. c <= Len(old) /\ Len(old) \in Nat /\ SamePrefix(old, new, Len(old))
    BY <1>4, <1>6 DEF Committed, SamePrefix, Extends
  <2>2. SamePrefix(old, new, c)
    BY <2>1, PrefixType
  <2>3. Committed(new, c, t)
    BY <1>1, <1>4, <2>2, CommittedPrefix DEF Steps
  <2>4. Committed(new, c, t)'
    BY <1>1, <2>3, CommittedStays DEF Steps
  <2>. QED  BY <2>4 DEF Committed, SamePrefix
<1>. QED  BY <1>5, <1>6

-----------------------------------------------------------------------------
(* Every later leader has a chosen entry.                                  *)

LEMMA BackedPair ==
    ASSUME NEW q, NEW t, NEW k
    PROVE  <<t, k>> \in Backed(q) <=>
              t \in DOMAIN term_log /\ Has(term_log[t], k, t) /\ Backs(q, t, k)
<1> DEFINE S == UNION {{s} \X DOMAIN term_log[s] : s \in DOMAIN term_log}
<1>1. <<t, k>> \in S <=> t \in DOMAIN term_log /\ k \in DOMAIN term_log[t]
  OBVIOUS
<1> HIDE DEF S
<1>2. Backed(q) = {b \in S : term_log[b[1]][b[2]].term = b[1] /\ Backs(q, b[1], b[2])}
  BY DEF Backed, S
<1>. QED  BY <1>1, <1>2 DEF Has

\* The same in the next state, and the shape of what is backed.
LEMMA BackedShape ==
    ASSUME NEW q
    PROVE  /\ \A b \in Backed(q) :
                 /\ b = <<b[1], b[2]>> /\ b[1] \in DOMAIN term_log
                 /\ Has(term_log[b[1]], b[2], b[1]) /\ Backs(q, b[1], b[2])
           /\ \A b \in Backed(q)' :
                 /\ b = <<b[1], b[2]>> /\ b[1] \in DOMAIN term_log'
                 /\ Has(term_log'[b[1]], b[2], b[1]) /\ Backs(q, b[1], b[2])'
<1>1. \A b \in UNION {{s} \X DOMAIN term_log[s] : s \in DOMAIN term_log} :
         b = <<b[1], b[2]>> /\ b[1] \in DOMAIN term_log /\ b[2] \in DOMAIN term_log[b[1]]
  OBVIOUS
<1>2. \A b \in UNION {{s} \X DOMAIN term_log'[s] : s \in DOMAIN term_log'} :
         b = <<b[1], b[2]>> /\ b[1] \in DOMAIN term_log' /\ b[2] \in DOMAIN term_log'[b[1]]
  OBVIOUS
<1>. QED  BY <1>1, <1>2 DEF Backed, Has

\* The votes for the first leader without it and the nodes that back it
\* share a voter, which the winner would have to know.
LEMMA ChosenIsKept ==
    ASSUME TypeOK, ElectionInv, LogInv, VotersKnow, NEW t, NEW k, Chosen(t, k)
    PROVE  \A v \in DOMAIN term_log : v > t => Has(term_log[v], k, t)
<1> DEFINE Bad == {v \in DOMAIN term_log : v > t /\ ~Has(term_log[v], k, t)}
<1> SUFFICES ASSUME Bad # {} PROVE FALSE
  OBVIOUS
<1>1. t \in DOMAIN term_log /\ t \in Nat /\ Has(term_log[t], k, t)
  BY TermLogs DEF Chosen
<1>2. Bad \subseteq Nat
  BY TermLogs
<1>3. PICK u \in Bad : \A v \in Bad : ~(<<v, u>> \in OpToRel(<, Nat))
  BY <1>2, WFMin, NatLessThanWellFounded
<1>4. \A v \in Bad : ~(v < u)
  BY <1>2, <1>3 DEF OpToRel
<1>5. PICK e \in elected : e.term = u
  BY DEF LogInv, LeadersHaveLogs
<1>6. /\ e.leader \in Node /\ e.votes \in SUBSET Node
      /\ Cardinality(e.votes) >= Majority(e.leader)
  BY DEF TypeOK, Election, ElectionInv, ElectionsHaveQuorums
<1> DEFINE A == {q \in Node : Backs(q, t, k)}
<1>7. PICK i \in Node : Cardinality(A) >= Majority(i)
  BY DEF Chosen
<1> HIDE DEF A, Bad
<1>8. A \in SUBSET Node
  BY DEF A
<1>9. PICK q \in Node : q \in e.votes /\ q \in A
  BY <1>6, <1>7, <1>8, MajoritiesMeet
<1>10. <<t, k>> \in Backed(q)
  BY <1>1, <1>9, BackedPair DEF A
<1>11. t < u /\ ~Has(term_log[u], k, t) /\ u \in DOMAIN term_log
  BY <1>1, <1>2, <1>3 DEF Bad
<1>12. LostBetween(t, k, u)
  <2>1. WinnerKnows(e)
    BY DEF VotersKnow
  <2> DEFINE b == <<t, k>>
  <2>2. b[1] = t /\ b[2] = k
    OBVIOUS
  <2>3. b \in Backed(q)
    BY <1>10
  <2> HIDE DEF b
  <2>. QED  BY <1>5, <1>9, <1>11, <2>1, <2>2, <2>3 DEF WinnerKnows
<1>13. PICK v \in DOMAIN term_log : t < v /\ v < u /\ ~Has(term_log[v], k, t)
  BY <1>12 DEF LostBetween
<1>14. v \in Bad
  BY <1>1, <1>13, TermLogs DEF Bad
<1>. QED  BY <1>4, <1>13, <1>14

\* The leader of a term at or after that of a commit has what is committed.
LEMMA LeaderHasCommitted ==
    ASSUME TypeOK, ElectionInv, LogInv, VotersKnow, NEW log \in Seq(Entry),
           NEW c \in Nat, NEW w \in Nat, Committed(log, c, w),
           NEW v \in DOMAIN term_log, w <= v, c # 0
    PROVE  SamePrefix(log, term_log[v], c)
<1>1. PICK t \in DOMAIN term_log :
           /\ t <= w /\ SamePrefix(log, term_log[t], c)
           /\ \E k \in DOMAIN term_log[t] : c <= k /\ Chosen(t, k)
  BY DEF Committed
<1>2. PICK k \in DOMAIN term_log[t] : c <= k /\ Chosen(t, k)
  BY <1>1
<1>3. /\ t \in Nat /\ term_log[t] \in Seq(Entry) /\ k \in Nat
      /\ v \in Nat /\ term_log[v] \in Seq(Entry)
  BY TermLogs
<1>4. CASE t = v
  BY <1>1, <1>4
<1>5. CASE t # v
  <2>1. v > t
    BY <1>1, <1>3, <1>5
  <2>2. Has(term_log[v], k, t)
    BY <1>2, <2>1, ChosenIsKept
  <2>3. SamePrefix(term_log[v], term_log[t], k)
    BY <2>2, TermLogs DEF FollowsLeaders, Has
  <2>4. SamePrefix(term_log[t], term_log[v], c)
    BY <1>2, <1>3, <2>3, PrefixType
  <2>. QED  BY <1>1, <2>4, PrefixTrans
<1>. QED  BY <1>4, <1>5

\* Two logs agree on what is committed in both.
LEMMA CommittedTogether ==
    ASSUME TypeOK, ElectionInv, LogInv, VotersKnow,
           NEW a \in Seq(Entry), NEW b \in Seq(Entry),
           NEW c \in Nat, NEW d \in Nat, c <= d, NEW w \in Nat, NEW x \in Nat,
           Committed(a, c, w), Committed(b, d, x), c # 0
    PROVE  SamePrefix(a, b, c)
<1>1. PICK t \in DOMAIN term_log :
           /\ SamePrefix(a, term_log[t], c)
           /\ \E k \in DOMAIN term_log[t] : c <= k /\ Chosen(t, k)
  BY DEF Committed
<1>2. PICK s \in DOMAIN term_log :
           /\ SamePrefix(b, term_log[s], d)
           /\ \E k \in DOMAIN term_log[s] : d <= k /\ Chosen(s, k)
  BY DEF Committed
<1>3. /\ t \in Nat /\ s \in Nat
      /\ term_log[t] \in Seq(Entry) /\ term_log[s] \in Seq(Entry)
  BY TermLogs
<1>4. SamePrefix(term_log[s], b, c)
  BY <1>2, <1>3, PrefixType
<1>5. SamePrefix(term_log[t], term_log[s], c)
  <2>1. CASE t <= s
    <3>1. c <= Len(term_log[t]) /\ Committed(term_log[t], c, t)
      <4>1. c <= Len(term_log[t])
        BY <1>1 DEF SamePrefix
      <4>2. SamePrefix(term_log[t], term_log[t], c) /\ t <= t
        BY <1>3, <4>1 DEF SamePrefix
      <4>. QED  BY <1>1, <4>1, <4>2 DEF Committed
    <3>. QED  BY <1>3, <2>1, <3>1, LeaderHasCommitted
  <2>2. CASE s <= t
    <3>1. d <= Len(term_log[s]) /\ Committed(term_log[s], d, s)
      <4>1. d <= Len(term_log[s])
        BY <1>2 DEF SamePrefix
      <4>2. SamePrefix(term_log[s], term_log[s], d) /\ s <= s
        BY <1>3, <4>1 DEF SamePrefix
      <4>. QED  BY <1>2, <4>1, <4>2 DEF Committed
    <3>2. SamePrefix(term_log[s], term_log[t], d)
      BY <1>3, <2>2, <3>1, LeaderHasCommitted
    <3>. QED  BY <1>3, <3>2, PrefixType
  <2>. QED  BY <1>3, <2>1, <2>2
<1>. QED  BY <1>1, <1>4, <1>5, PrefixTrans

-----------------------------------------------------------------------------
(* What a pass of node i does to what the nodes back.                      *)

\* Only i backs anything new, in its own term, and i has it.
NewBackings(i) ==
    \A q \in Node : \A b \in Backed(q)' :
        \/ b \in Backed(q)
        \/ /\ q = i /\ b[1] = node'[i].current_term
           /\ Has(full_log'[i], b[2], b[1])

\* Node i keeps what it backs, or knows of a leader without it.
KeepsBacked(i) ==
    \A b \in Backed(i) :
        Has(full_log[i], b[2], b[1]) =>
            \/ Has(full_log'[i], b[2], b[1])
            \/ LostBetween(b[1], b[2], node[i].current_term + 1)'

\* The log of i changes only where i is no candidate of the same term.
CandidateKeeps(i) ==
    /\ \A j \in Node \ {i} : node'[j] = node[j] /\ full_log'[j] = full_log[j]
    /\ node'[i].role = "Candidate" =>
          \/ node'[i].current_term > node[i].current_term
          \/ node[i].role = "Candidate" /\ full_log'[i] = full_log[i]

LEMMA StepTerms ==
    ASSUME Steps, NEW q \in Node
    PROVE  /\ node[q].current_term \in Nat /\ node'[q].current_term \in Nat
           /\ node[q].current_term <= node'[q].current_term
<1>1. node[q] \in NodeState /\ node'[q] \in NodeState
  BY DEF Steps, TypeOK
<1>2. node[q].current_term \in Nat /\ node'[q].current_term \in Nat
  BY <1>1 DEF NodeState
<1>. QED  BY <1>2 DEF Steps, Advances

LEMMA BackersStay ==
    ASSUME Steps, BackersKeep, NEW i \in Node, NewBackings(i), KeepsBacked(i),
           CandidateKeeps(i)
    PROVE  BackersKeep'
<1> SUFFICES ASSUME NEW q \in Node, NEW b \in Backed(q)'
             PROVE  \/ Has(full_log'[q], b[2], b[1])
                    \/ LostBetween(b[1], b[2], node[q].current_term + 1)'
  BY DEF BackersKeep, Has, LostBetween
<1>1. CASE b \notin Backed(q)
  BY <1>1 DEF NewBackings
<1>2. CASE b \in Backed(q)
  <2>1. b[1] \in Nat
    BY <1>2, BackedShape, TermLogs DEF Steps
  <2>2. CASE LostBetween(b[1], b[2], node[q].current_term + 1)
    <3>1. /\ node[q].current_term + 1 \in Nat /\ node'[q].current_term + 1 \in Nat
          /\ node[q].current_term + 1 <= node'[q].current_term + 1
      BY StepTerms
    <3> DEFINE u == node[q].current_term + 1
               w == node'[q].current_term + 1
    <3>2. PICK v \in DOMAIN term_log :
               b[1] < v /\ v < u /\ ~Has(term_log[v], b[2], b[1])
      BY <2>2 DEF LostBetween
    <3>3. v \in Nat /\ u \in Nat /\ w \in Nat /\ u <= w
      BY <3>1, TermLogs DEF Steps
    <3> HIDE DEF u, w
    <3>4. v \in DOMAIN term_log' /\ ~Has(term_log'[v], b[2], b[1]) /\ v < w
      BY <2>1, <3>2, <3>3, HasStays
    <3>. QED  BY <3>2, <3>4 DEF LostBetween, Has, w
  <2>3. CASE Has(full_log[q], b[2], b[1])
    BY <1>2, <2>3 DEF KeepsBacked, CandidateKeeps
  <2>. QED  BY <1>2, <2>2, <2>3 DEF BackersKeep
<1>. QED  BY <1>1, <1>2

\* A vote that was cast stays one for a candidate that knows.
LEMMA VoterStays ==
    ASSUME Steps, NEW i \in Node, NewBackings(i), CandidateKeeps(i),
           NEW v \in cast, VoterKnows(v)
    PROVE  VoterKnows(v)'
<1>1. /\ v[1] \in Node /\ v[2] \in Node /\ v[3] \in Nat
      /\ v[3] <= node[v[1]].current_term
  BY DEF Steps, TypeOK, ElectionInv, LedgerMatchesBallots
<1>2. v[3] <= node[v[2]].current_term
  BY DEF VoterKnows
<1>3. v[3] <= node'[v[2]].current_term
  BY <1>1, <1>2, StepTerms
<1> DEFINE c == v[2]
           u == v[3]
<1>4. ASSUME u \notin DOMAIN term_log', node'[c].role = "Candidate",
             node'[c].current_term = u,
             NEW b \in Backed(v[1])', b[1] < u
      PROVE  Has(full_log'[c], b[2], b[1]) \/ LostBetween(b[1], b[2], u)'
  <2>1. node[c].role = "Candidate" /\ full_log'[c] = full_log[c]
        /\ node[c].current_term = u
    <3>1. node[c].current_term = u
      BY <1>1, <1>2, <1>4, StepTerms
    <3>. QED  BY <1>1, <1>4, <3>1 DEF CandidateKeeps
  <2>2. u \notin DOMAIN term_log
    BY <1>4 DEF Steps, Advances, Grows
  <2>3. b \in Backed(v[1])
    <3>1. v[1] = i => b[1] # node'[i].current_term
      BY <1>1, <1>4, StepTerms
    <3>. QED  BY <1>1, <1>4, <3>1 DEF NewBackings
  <2>4. Has(full_log[c], b[2], b[1]) \/ LostBetween(b[1], b[2], u)
    BY <1>4, <2>1, <2>2, <2>3 DEF VoterKnows
  <2>5. b[1] \in Nat
    BY <2>3, BackedShape, TermLogs DEF Steps
  <2>. QED  BY <1>1, <2>1, <2>4, <2>5, LostStays
<1>. QED  BY <1>3, <1>4 DEF VoterKnows, Has, LostBetween

LEMMA WinnerStays ==
    ASSUME Steps, NEW i \in Node, NewBackings(i),
           NEW e \in elected, WinnerKnows(e)
    PROVE  WinnerKnows(e)'
<1>1. e.term \in Nat /\ e.votes \subseteq Node
  BY DEF Steps, TypeOK, Election
<1>2. e.term \in DOMAIN term_log
  BY DEF Steps, LogInv, LeadersHaveLogs
<1>3. ASSUME NEW q \in e.votes, NEW b \in Backed(q)', b[1] < e.term
      PROVE  \/ Has(term_log'[e.term], b[2], b[1])
             \/ LostBetween(b[1], b[2], e.term)'
  <2>1. q \in Node /\ e.term <= node[q].current_term
    <3> DEFINE v == <<q, e.leader, e.term>>
    <3>1. v \in cast /\ v[1] = q /\ v[3] = e.term
      BY DEF Steps, ElectionInv, ElectionsHaveQuorums
    <3> HIDE DEF v
    <3>. QED  BY <1>1, <3>1 DEF Steps, ElectionInv, LedgerMatchesBallots
  <2>2. b \in Backed(q)
    <3>1. q = i => b[1] # node'[i].current_term
      BY <1>1, <1>3, <2>1, StepTerms
    <3>. QED  BY <2>1, <1>3, <3>1 DEF NewBackings
  <2>3. Has(term_log[e.term], b[2], b[1]) \/ LostBetween(b[1], b[2], e.term)
    BY <1>3, <2>2 DEF WinnerKnows
  <2>4. b[1] \in Nat
    BY <2>2, BackedShape, TermLogs DEF Steps
  <2>. QED  BY <1>1, <1>2, <2>3, <2>4, LostStays, HasStays
<1>. QED  BY <1>3 DEF WinnerKnows, Has, LostBetween

\* A pass that leaves the elections, the acknowledgements and the logs of the
\* leaders alone leaves alone what the nodes back.
LEMMA SameBackings ==
    ASSUME UNCHANGED <<elected, acks, term_log>>
    PROVE  /\ \A q : Backed(q)' = Backed(q)
           /\ \A t, k, u : LostBetween(t, k, u)' <=> LostBetween(t, k, u)
           /\ \A i \in Node : NewBackings(i)
<1>1. \A q, t, k : Backs(q, t, k)' <=> Backs(q, t, k)
  BY DEF Backs
<1>2. \A q : Backed(q)' = Backed(q)
  BY <1>1 DEF Backed
<1>3. \A t, k, u : LostBetween(t, k, u)' <=> LostBetween(t, k, u)
  BY DEF LostBetween, Has
<1>. QED  BY <1>2, <1>3 DEF NewBackings

\* The vote of a candidate for itself.
LEMMA StandKnows ==
    ASSUME Steps, BackersKeep, UNCHANGED <<elected, acks, term_log>>,
           NEW i \in Node, full_log'[i] = full_log[i],
           NEW u, u = node[i].current_term + 1, node'[i].current_term = u
    PROVE  VoterKnows(<<i, i, u>>)'
<1> DEFINE v == <<i, i, u>>
<1>1. v[1] = i /\ v[2] = i /\ v[3] = u
  OBVIOUS
<1> HIDE DEF v
<1>2. u \in Nat /\ u <= node'[i].current_term
  BY StepTerms
<1>3. ASSUME NEW b \in Backed(i)
      PROVE  Has(full_log'[i], b[2], b[1]) \/ LostBetween(b[1], b[2], u)
  BY DEF BackersKeep
<1>4. \A b \in Backed(i)' :
         Has(full_log'[i], b[2], b[1]) \/ LostBetween(b[1], b[2], u)'
  BY <1>3, SameBackings
<1>5. VoterKnows(v)'
  BY <1>1, <1>2, <1>4 DEF VoterKnows, Has, LostBetween
<1>. QED  BY <1>5 DEF v

\* The vote for another node: a log that is up to date against that of the
\* voter has what the voter backs, or one of the leaders it follows lost it.
LEMMA UpToDateHas ==
    ASSUME LogInv, NEW a \in Seq(Entry), NEW c \in Seq(Entry),
           FollowsLeaders(a), FollowsLeaders(c),
           NEW u \in Nat, u \notin DOMAIN term_log, Sorted(a, u), Sorted(c, u),
           NEW k, NEW t \in Nat, Has(a, k, t), a # << >>,
           NEW s, s = (IF Len(c) = 0 THEN 0 ELSE c[Len(c)].term),
           \/ s > a[Len(a)].term
           \/ s = a[Len(a)].term /\ Len(c) >= Len(a)
    PROVE  Has(c, k, t) \/ LostBetween(t, k, u)
<1>1. /\ DOMAIN a = 1 .. Len(a) /\ DOMAIN c = 1 .. Len(c)
      /\ Len(a) \in Nat /\ Len(c) \in Nat
      /\ \A l \in DOMAIN a : a[l].term \in Nat
      /\ \A l \in DOMAIN c : c[l].term \in Nat
  <2>1. \A l \in DOMAIN a : a[l] \in Entry
    OBVIOUS
  <2>2. \A l \in DOMAIN c : c[l] \in Entry
    OBVIOUS
  <2>. QED  BY <2>1, <2>2 DEF Entry
<1>2. k \in 1 .. Len(a) /\ a[k].term = t /\ Len(a) > 0
      /\ Len(a) \in DOMAIN a /\ t <= a[Len(a)].term
  BY <1>1 DEF Has, Sorted
<1>3. Len(c) > 0
  <2> SUFFICES ASSUME Len(c) = 0 PROVE FALSE
    BY <1>1
  <2>1. s = 0
    OBVIOUS
  <2>2. a[Len(a)].term \in Nat
    BY <1>1, <1>2
  <2>3. Len(c) >= Len(a)
    BY <2>1, <2>2
  <2>. QED  BY <1>1, <1>2, <2>3
<1>4. s = c[Len(c)].term /\ Len(c) \in DOMAIN c /\ s \in Nat
  BY <1>1, <1>3
<1> DEFINE lead == term_log[s]
<1>5. s \in DOMAIN term_log /\ SamePrefix(c, lead, Len(c))
  BY <1>4 DEF FollowsLeaders
<1>6. /\ lead \in Seq(Entry) /\ Len(lead) \in Nat
      /\ DOMAIN lead = 1 .. Len(lead)
      /\ \A x, y \in DOMAIN lead : x <= y => lead[x].term <= lead[y].term
      /\ \A x \in DOMAIN lead : lead[x].term \in Nat
  BY <1>5, TermLogs
<1> HIDE DEF lead
<1>7. CASE s = a[Len(a)].term /\ Len(c) >= Len(a)
  <2>1. SamePrefix(a, lead, Len(a))
    BY <1>2, <1>7 DEF FollowsLeaders, lead
  <2>2. c[k] = a[k] /\ k \in DOMAIN c
    BY <1>1, <1>2, <1>5, <1>7, <2>1 DEF SamePrefix
  <2>. QED  BY <1>2, <2>2 DEF Has
<1>8. CASE s > a[Len(a)].term
  <2>1. a[Len(a)].term \in Nat
    BY <1>1, <1>2
  <2>2. t < s
    BY <1>2, <1>4, <1>8, <2>1
  <2>3. s < u
    <3>1. s <= u
      BY <1>4 DEF Sorted
    <3>. QED  BY <1>4, <1>5, <3>1
  <2>4. ASSUME Has(lead, k, t) PROVE Has(c, k, t)
    <3>1. k \in 1 .. Len(lead) /\ lead[k].term = t
      BY <1>6, <2>4 DEF Has
    <3>2. CASE k <= Len(c)
      BY <1>1, <1>2, <1>5, <3>1, <3>2 DEF SamePrefix, Has
    <3>3. CASE k > Len(c)
      <4>1. Len(c) \in DOMAIN lead /\ lead[Len(c)].term = s
        BY <1>1, <1>3, <1>4, <1>5, <1>6 DEF SamePrefix
      <4>2. s <= t
        BY <1>1, <1>6, <3>1, <3>3, <4>1
      <4>. QED  BY <1>4, <2>2, <4>2
    <3>. QED  BY <1>1, <1>2, <3>2, <3>3
  <2>. QED  BY <1>5, <2>2, <2>3, <2>4 DEF LostBetween, lead
<1>. QED  BY <1>7, <1>8

LEMMA GrantKnows ==
    ASSUME Steps, BackersKeep, UNCHANGED <<elected, acks, term_log>>,
           NEW i \in Node, NEW m \in RequestVoteMessage,
           DescribesLog(m), GrantsVote(node[i], m),
           node'[m.from] = node[m.from], full_log'[m.from] = full_log[m.from]
    PROVE  VoterKnows(<<i, m.from, m.term>>)'
<1> DEFINE v == <<i, m.from, m.term>>
           c == m.from
           u == m.term
<1>1. v[1] = i /\ v[2] = c /\ v[3] = u
  OBVIOUS
<1>2. c \in Node /\ u \in Nat /\ m.last_log_index \in Nat /\ m.last_log_term \in Nat
  BY DEF RequestVoteMessage
<1>3. u <= node'[c].current_term
  BY DEF DescribesLog
<1>4. node[i].current_term <= u /\ UpToDate(node[i], m)
  BY <1>2, StepTerms DEF GrantsVote
<1> HIDE DEF v
<1>5. ASSUME u \notin DOMAIN term_log,
             node[c].role = "Candidate", node[c].current_term = u,
             NEW b \in Backed(i), b[1] < u
      PROVE  Has(full_log[c], b[2], b[1]) \/ LostBetween(b[1], b[2], u)
  <2>1. b[1] \in Nat
    BY BackedShape, TermLogs DEF Steps
  <2>2. CASE LostBetween(b[1], b[2], node[i].current_term + 1)
    <3>1. PICK w \in DOMAIN term_log : /\ b[1] < w /\ w < node[i].current_term + 1
                                       /\ ~Has(term_log[w], b[2], b[1])
      BY <2>2 DEF LostBetween
    <3>2. w \in Nat /\ w # u
      BY <1>5, TermLogs DEF Steps
    <3>3. w < u
      BY <1>2, <1>4, <3>1, <3>2, StepTerms
    <3>. QED  BY <3>1, <3>3 DEF LostBetween
  <2>3. CASE Has(full_log[i], b[2], b[1])
    <3>1. /\ full_log[i] \in Seq(Entry) /\ full_log[c] \in Seq(Entry)
          /\ FollowsLeaders(full_log[i]) /\ FollowsLeaders(full_log[c])
          /\ node[i] \in NodeState /\ node[c] \in NodeState
          /\ Holds(node[i], full_log[i]) /\ Holds(node[c], full_log[c])
          /\ Len(full_log[i]) \in Nat /\ DOMAIN full_log[i] = 1 .. Len(full_log[i])
      BY <1>2, NodeLogs DEF Steps
    <3>2. /\ Sorted(full_log[i], node[i].current_term)
          /\ Sorted(full_log[c], node[c].current_term)
      BY <1>2 DEF Steps, LogInv, LogsAreSorted
    <3> SUFFICES ASSUME NEW x, x = full_log[i], NEW y, y = full_log[c]
                 PROVE  Has(y, b[2], b[1]) \/ LostBetween(b[1], b[2], u)
      OBVIOUS
    <3>3. Sorted(y, u)
      BY <1>5, <3>2
    <3>4. Sorted(x, u)
      <4>1. \A l \in DOMAIN x : x[l].term \in Nat /\ x[l].term <= node[i].current_term
        BY NodeLogs DEF Steps
      <4>2. \A l \in DOMAIN x : x[l].term <= u
        BY <1>2, <1>4, <4>1, StepTerms
      <4>. QED  BY <3>2, <4>2 DEF Sorted
    <3>5. Len(x) # 0 /\ x # << >>
      BY <2>3, <3>1 DEF Has
    <3>6. /\ LastLogIndex(node[i]) = Len(x) /\ LastLogTerm(node[i]) = x[Len(x)].term
      BY <3>1, <3>5, LastOf
    <3> DEFINE s == IF Len(y) = 0 THEN 0 ELSE y[Len(y)].term
    <3>7. m.last_log_index = Len(y) /\ m.last_log_term = s
      BY <1>5, <3>1, LastOf DEF DescribesLog
    <3> HIDE DEF s
    <3>8. \/ s > x[Len(x)].term
          \/ s = x[Len(x)].term /\ Len(y) >= Len(x)
      BY <1>4, <3>6, <3>7 DEF UpToDate
    <3>9. s = IF Len(y) = 0 THEN 0 ELSE y[Len(y)].term
      BY DEF s
    <3>10. Has(x, b[2], b[1]) /\ LogInv
      BY <2>3 DEF Steps
    <3>. QED  BY <1>2, <1>5, <2>1, <3>1, <3>3, <3>4, <3>5, <3>8, <3>9, <3>10, UpToDateHas
  <2>. QED  BY <2>2, <2>3 DEF BackersKeep
<1>6. u \notin DOMAIN term_log' /\ node'[c].role = "Candidate"
         /\ node'[c].current_term = u =>
            \A b \in Backed(i)' : b[1] < u =>
               Has(full_log'[c], b[2], b[1]) \/ LostBetween(b[1], b[2], u)'
  BY <1>5, SameBackings
<1>7. VoterKnows(v)'
  BY <1>1, <1>3, <1>6 DEF VoterKnows, Has, LostBetween
<1>. QED  BY <1>7 DEF v

\* The winner of an election has what its voters know of its candidate.
LEMMA WinKnows ==
    ASSUME Steps, VotersKnow, UNCHANGED cast, NEW i \in Node, NewBackings(i),
           node[i].role = "Candidate",
           node'[i].current_term = node[i].current_term,
           node[i].current_term \notin DOMAIN term_log,
           term_log'[node[i].current_term] = full_log[i],
           NEW e \in elected', e.term = node[i].current_term, e.leader = i
    PROVE  WinnerKnows(e)'
<1>1. e.term \in Nat /\ e.votes \subseteq Node
  BY DEF Steps, TypeOK, Election
<1>2. ASSUME NEW q \in e.votes, NEW b \in Backed(q)', b[1] < e.term
      PROVE  \/ Has(term_log'[e.term], b[2], b[1])
             \/ LostBetween(b[1], b[2], e.term)'
  <2> DEFINE v == <<q, i, e.term>>
  <2>1. v \in cast
    BY DEF Steps, ElectionInv, ElectionsHaveQuorums
  <2>2. v[1] = q /\ v[2] = i /\ v[3] = e.term
    OBVIOUS
  <2> HIDE DEF v
  <2>3. b \in Backed(q)
    BY <1>1, <1>2, StepTerms DEF NewBackings
  <2>4. VoterKnows(v)
    BY <2>1 DEF VotersKnow
  <2>5. Has(full_log[i], b[2], b[1]) \/ LostBetween(b[1], b[2], e.term)
    BY <1>2, <2>2, <2>3, <2>4 DEF VoterKnows
  <2>6. b[1] \in Nat
    BY <2>3, BackedShape, TermLogs DEF Steps
  <2>. QED  BY <1>1, <2>5, <2>6, LostStays
<1>. QED  BY <1>2 DEF WinnerKnows, Has, LostBetween

-----------------------------------------------------------------------------
(* What a pass of node i does to commits, match indices and messages.      *)

\* n is node i after its handler; what follows it keeps the indices, and may
\* move the snapshot point to the commit index.
Commits(i, n) ==
    /\ node'[i].commit_index = n.commit_index
    /\ node'[i].match_index = n.match_index
    /\ node'[i].snapshot_index \in {n.snapshot_index, n.commit_index}
    /\ disk'[i].commit_index = n.commit_index

LEMMA PersistCommits ==
    ASSUME TypeOK, SaveSucceeds = {TRUE}, NEW i \in Node, NEW n \in NodeState,
           ApplyAndPersist(i, n) \/ \E executed : Persist(i, n, executed)
    PROVE  Commits(i, n)
<1>1. PICK x, executed : /\ Persist(i, x, executed) /\ x \in NodeState
                         /\ x.commit_index = n.commit_index
                         /\ x.match_index = n.match_index
                         /\ x.snapshot_index = n.snapshot_index
  <2>1. /\ MarkApplied(n) \in NodeState
        /\ MarkApplied(n).commit_index = n.commit_index
        /\ MarkApplied(n).match_index = n.match_index
        /\ MarkApplied(n).snapshot_index = n.snapshot_index
    BY MarkAppliedType DEF MarkApplied, NodeState
  <2>. QED  BY <2>1 DEF ApplyAndPersist
<1> DEFINE y == MaybeCompactLog(x)
<1>2. /\ y.commit_index = x.commit_index /\ y.match_index = x.match_index
      /\ y.snapshot_index \in {x.snapshot_index, x.commit_index}
  BY <1>1 DEF MaybeCompactLog, CompactCommitted, NodeState
<1>3. node' = [node EXCEPT ![i] = y] /\ disk' = [disk EXCEPT ![i] = FromNode(y, executed)]
  BY <1>1 DEF Persist
<1> HIDE DEF y
<1>4. node'[i] = y /\ disk'[i] = FromNode(y, executed)
  BY <1>3 DEF TypeOK
<1>5. FromNode(y, executed).commit_index = y.commit_index
  BY DEF FromNode
<1>. QED  BY <1>1, <1>2, <1>4, <1>5 DEF Commits

LEMMA CommitsStay ==
    ASSUME Steps, CommitsAreChosen, NEW i \in Node, NEW n \in NodeState,
           NEW full \in Seq(Entry), Writes(i, n, full), Commits(i, n),
           n.snapshot_index <= n.commit_index, n.commit_index <= Len(full),
           Committed(full, n.commit_index, n.current_term)'
    PROVE  CommitsAreChosen'
<1> SUFFICES ASSUME NEW j \in Node
             PROVE  /\ node'[j].snapshot_index <= node'[j].commit_index
                    /\ node'[j].commit_index <= LastLogIndex(node[j])'
                    /\ Committed(full_log[j], node[j].commit_index,
                                 node[j].current_term)'
                    /\ disk'[j].commit_index = node'[j].commit_index
  BY DEF CommitsAreChosen, LastLogIndex
<1>1. full_log'[i] = full /\ \A q \in Node \ {i} : full_log'[q] = full_log[q]
  BY DEF Writes, Steps, LogInv, HistoryType
<1>2. LastLogIndex(node[j])' = Len(full_log'[j])
  BY DEF Steps, LogInv, LogsAreHeld, Holds, LastLogIndex
<1>3. CASE j = i
  <2>1. node'[i].commit_index = n.commit_index /\ disk'[i].commit_index = n.commit_index
        /\ node'[i].current_term = n.current_term
    BY DEF Commits, Writes
  <2>2. node'[i].snapshot_index <= n.commit_index
    BY LogFields DEF Commits
  <2>3. Committed(full_log[i], node[i].commit_index, node[i].current_term)'
    BY <1>1, <2>1 DEF Committed, SamePrefix
  <2>. QED  BY <1>1, <1>2, <1>3, <2>1, <2>2, <2>3
<1>4. CASE j # i
  <2>1. node'[j] = node[j] /\ disk'[j] = disk[j] /\ full_log'[j] = full_log[j]
    BY <1>1, <1>4 DEF Writes
  <2>2. /\ node[j].snapshot_index <= node[j].commit_index
        /\ node[j].commit_index <= LastLogIndex(node[j])
        /\ Committed(full_log[j], node[j].commit_index, node[j].current_term)
        /\ disk[j].commit_index = node[j].commit_index
    BY DEF CommitsAreChosen
  <2>3. /\ full_log[j] \in Seq(Entry) /\ node[j].commit_index \in Nat
        /\ node[j].current_term \in Nat /\ LastLogIndex(node[j]) = Len(full_log[j])
    BY NodeLogs DEF Steps
  <2>4. SUFFICES ASSUME NEW log \in Seq(Entry), log = full_log[j],
                        NEW c \in Nat, c = node[j].commit_index,
                        NEW w \in Nat, w = node[j].current_term
                 PROVE  Committed(full_log[j], node[j].commit_index,
                                  node[j].current_term)'
    BY <1>2, <2>1, <2>2, <2>3
  <2>5. Committed(log, c, w)'
    BY <2>2, <2>4, CommittedStays
  <2>. QED  BY <2>1, <2>4, <2>5 DEF Committed, SamePrefix
<1>. QED  BY <1>3, <1>4

LEMMA MatchesStay ==
    ASSUME Steps, MatchesAreAcked, NEW i \in Node, NEW n \in NodeState,
           NEW full, Writes(i, n, full), Commits(i, n),
           n.role = "Leader" => \A p \in Peers(i) :
              \/ n.match_index[p] <= n.commit_index
              \/ \E a \in acks' : /\ a[1] = p /\ a[2] = n.current_term
                                  /\ a[3] = n.match_index[p]
    PROVE  MatchesAreAcked'
<1> SUFFICES ASSUME NEW j \in Node, node'[j].role = "Leader", NEW p \in Peers(j)
             PROVE  \/ node'[j].match_index[p] <= node'[j].commit_index
                    \/ \E a \in acks' : /\ a[1] = p /\ a[2] = node'[j].current_term
                                        /\ a[3] = node'[j].match_index[p]
  BY DEF MatchesAreAcked, Peers
<1>1. CASE j = i
  BY <1>1 DEF Writes, Commits
<1>2. CASE j # i
  <2>1. node'[j] = node[j]
    BY <1>2 DEF Writes
  <2>. QED  BY <2>1 DEF MatchesAreAcked, Steps
<1>. QED  BY <1>1, <1>2

LEMMA MessagesStay ==
    ASSUME Steps, MessagesAreBacked, NEW i \in Node, CandidateKeeps(i),
           NEW out, msgs' \subseteq msgs \cup out, \A m \in out : Backing(m)'
    PROVE  MessagesAreBacked'
<1> SUFFICES ASSUME NEW m \in msgs PROVE Backing(m)'
  BY DEF MessagesAreBacked
<1>1. Backing(m) /\ m.from \in Node /\ m.term \in Nat
  BY Received DEF Steps, MessagesAreBacked
<1>2. ASSUME m.type = "RequestVote" PROVE DescribesLog(m)'
  <2> DEFINE c == m.from
  <2>1. DescribesLog(m)
    BY <1>1, <1>2 DEF Backing
  <2>2. m.term <= node'[c].current_term
    BY <1>1, <2>1, StepTerms DEF DescribesLog
  <2>3. ASSUME node'[c].role = "Candidate", node'[c].current_term = m.term
        PROVE  /\ m.last_log_index = LastLogIndex(node[c])'
               /\ m.last_log_term = LastLogTerm(node[c])'
    <3>1. node[c].current_term = m.term
      BY <1>1, <2>1, <2>3, StepTerms DEF DescribesLog
    <3>2. node[c].role = "Candidate" /\ full_log'[c] = full_log[c]
      BY <1>1, <2>3, <3>1 DEF CandidateKeeps
    <3>3. /\ full_log[c] \in Seq(Entry)
          /\ node[c] \in NodeState /\ Holds(node[c], full_log[c])
      BY <1>1, NodeLogs DEF Steps
    <3>4. node'[c] \in NodeState /\ Holds(node'[c], full_log'[c])
      BY <1>1 DEF Steps, TypeOK, LogInv, LogsAreHeld, Holds, LastLogIndex
    <3>5. /\ LastLogIndex(node'[c]) = LastLogIndex(node[c])
          /\ LastLogTerm(node'[c]) = LastLogTerm(node[c])
      BY <3>2, <3>3, <3>4, LastOf
    <3>. QED  BY <2>1, <3>1, <3>2, <3>5 DEF DescribesLog, LastLogIndex, LastLogTerm, TermAt
  <2>. QED  BY <2>2, <2>3 DEF DescribesLog, LastLogIndex, LastLogTerm, TermAt
<1>3. (m.type = "AppendEntriesResponse" /\ m.success) =>
          <<m.from, m.term, m.match_index>> \in acks'
  BY <1>1 DEF Backing, Steps
<1>4. m.type = "AppendEntries" =>
          Committed(term_log[m.term], m.leader_commit, m.term)'
  <2> SUFFICES ASSUME m.type = "AppendEntries"
               PROVE  Committed(term_log[m.term], m.leader_commit, m.term)'
    OBVIOUS
  <2>1. m.term \in DOMAIN term_log
    BY DEF Steps, LogInv, MessagesCarryLogs, CarriesLog
  <2>2. m.leader_commit \in Nat
    BY Received DEF Steps, AppendEntriesMessage
  <2>. QED  BY <1>1, <2>1, <2>2, TermCommittedStays DEF Backing
<1>. QED  BY <1>2, <1>3, <1>4 DEF Backing

\* The requests of a leader tell of its own commits.
LEMMA LeaderBacks ==
    ASSUME Steps, CommitsAreChosen', NEW i \in Node, NEW n \in NodeState,
           NEW full \in Seq(Entry), Holds(n, full), Writes(i, n, full),
           Commits(i, n), n.role = "Leader",
           NEW p \in Node, NEW m \in BuildAppendEntries(i, n, p)
    PROVE  Backing(m)'
<1>1. /\ m.type = "AppendEntries" /\ m.term = n.current_term
      /\ m.leader_commit = n.commit_index
  BY BuildCarries, BuildAppendEntriesType DEF AppendEntriesMessage
<1>2. /\ term_log'[n.current_term] = full /\ full_log'[i] = full
      /\ node'[i].current_term = n.current_term
      /\ node'[i].commit_index = n.commit_index
  BY DEF Writes, Commits, Steps, LogInv, HistoryType
<1>3. Committed(full_log[i], node[i].commit_index, node[i].current_term)'
  BY DEF CommitsAreChosen
<1>4. Committed(term_log[m.term], m.leader_commit, m.term)'
  BY <1>1, <1>2, <1>3 DEF Committed, SamePrefix
<1>. QED  BY <1>1, <1>4 DEF Backing

LEMMA AcksStay ==
    ASSUME Steps, AcksAreExact,
           \A a \in acks' : a \notin acks =>
              /\ a[2] <= node'[a[1]].current_term
              /\ a[2] \in DOMAIN term_log'
              /\ a[3] <= Len(term_log'[a[2]])
    PROVE  AcksAreExact'
<1> SUFFICES ASSUME NEW a \in acks
             PROVE  /\ a[2] <= node'[a[1]].current_term
                    /\ a[2] \in DOMAIN term_log'
                    /\ a[3] <= Len(term_log'[a[2]])
  BY DEF AcksAreExact
<1>1. a[1] \in Node /\ a[2] \in Nat /\ a[3] \in Nat
  BY DEF Steps, TypeOK
<1>2. /\ a[2] <= node[a[1]].current_term /\ a[2] \in DOMAIN term_log
      /\ a[3] <= Len(term_log[a[2]])
  BY DEF AcksAreExact
<1>3. a[2] \in DOMAIN term_log' /\ Extends(term_log[a[2]], term_log'[a[2]], a[2])
  BY <1>2 DEF Steps, Advances, Grows
<1>4. term_log[a[2]] \in Seq(Entry) /\ term_log'[a[2]] \in Seq(Entry)
  BY <1>2, <1>3 DEF Steps, LogInv, HistoryType
<1>5. a[3] <= Len(term_log'[a[2]])
  <2>1. Len(term_log[a[2]]) <= Len(term_log'[a[2]])
    BY <1>3 DEF Extends, SamePrefix
  <2>2. Len(term_log[a[2]]) \in Nat /\ Len(term_log'[a[2]]) \in Nat
    BY <1>4
  <2>. QED  BY <1>1, <1>2, <2>1, <2>2
<1>. QED  BY <1>1, <1>2, <1>3, <1>5, StepTerms

\* What a pass has to establish for CommitsFit to stay.
LEMMA PassCommits ==
    ASSUME Steps, CommitsFit, AcksAreExact',
           NEW i \in Node, NEW n \in NodeState,
           NEW full \in Seq(Entry), Writes(i, n, full), Commits(i, n), Holds(n, full),
           NewBackings(i), KeepsBacked(i), CandidateKeeps(i),
           \A v \in cast' : v \notin cast => VoterKnows(v)',
           \A e \in elected' : e \notin elected => WinnerKnows(e)',
           n.snapshot_index <= n.commit_index, n.commit_index <= Len(full),
           Committed(full, n.commit_index, n.current_term)',
           n.role = "Leader" => \A p \in Peers(i) :
              \/ n.match_index[p] <= n.commit_index
              \/ \E a \in acks' : /\ a[1] = p /\ a[2] = n.current_term
                                  /\ a[3] = n.match_index[p],
           NEW out, msgs' \subseteq msgs \cup out,
           \A m \in out :
              \/ Backing(m)'
              \/ n.role = "Leader" /\ \E p \in Node : m \in BuildAppendEntries(i, n, p)
    PROVE  CommitsFit'
<1>1. BackersKeep'
  BY BackersStay DEF CommitsFit
<1>2. VotersKnow'
  BY VoterStays, WinnerStays DEF CommitsFit, VotersKnow
<1>3. CommitsAreChosen'
  BY CommitsStay DEF CommitsFit
<1>4. MatchesAreAcked'
  BY MatchesStay DEF CommitsFit
<1>5. \A m \in out : Backing(m)'
  BY <1>3, LeaderBacks
<1>6. MessagesAreBacked'
  BY <1>5, MessagesStay DEF CommitsFit
<1>. QED  BY <1>1, <1>2, <1>3, <1>4, <1>6 DEF CommitsFit

\* A pass that leaves the log and the role of a leader alone leaves the logs
\* of the leaders alone.
LEMMA QuietTermLogs ==
    ASSUME LogInv, NEW i \in Node, NEW n \in NodeState, Writes(i, n, full_log[i]),
           n.role = "Leader" =>
              node[i].role = "Leader" /\ n.current_term = node[i].current_term,
           ElectionInv
    PROVE  UNCHANGED <<term_log, full_log>>
<1>1. full_log' = full_log
  BY DEF Writes, LogInv, HistoryType
<1>2. CASE n.role # "Leader"
  BY <1>1, <1>2 DEF Writes
<1>3. CASE n.role = "Leader"
  <2> DEFINE t == n.current_term
  <2>1. t \in DOMAIN term_log /\ term_log[t] = full_log[i]
    BY <1>3 DEF LogInv, LeadersHaveLogs, ElectionInv, RolesAreEarned, Won
  <2>2. term_log' = [s \in DOMAIN term_log \cup {t} |->
                        IF s = t THEN full_log[i] ELSE term_log[s]]
    BY <1>3 DEF Writes
  <2>3. DOMAIN term_log \cup {t} = DOMAIN term_log
    BY <2>1
  <2>4. term_log \in [DOMAIN term_log -> Seq(Entry)]
    BY DEF LogInv, HistoryType
  <2> HIDE DEF t
  <2>5. term_log' = [s \in DOMAIN term_log |-> term_log[s]]
    BY <2>1, <2>2, <2>3
  <2>. QED  BY <1>1, <2>4, <2>5
<1>. QED  BY <1>2, <1>3

LEMMA QuietCommits ==
    ASSUME Steps, CommitsFit, NEW i \in Node, NEW n \in NodeState,
           Writes(i, n, full_log[i]), Commits(i, n), SameLog(n, node[i]),
           UNCHANGED <<elected, acks>>,
           n.role = "Leader" =>
              node[i].role = "Leader" /\ n.current_term = node[i].current_term,
           n.role = "Candidate" => \/ n.current_term > node[i].current_term
                                   \/ node[i].role = "Candidate",
           \A v \in cast' : v \notin cast => VoterKnows(v)',
           n.commit_index >= node[i].commit_index,
           n.commit_index <= Len(full_log[i]),
           Committed(full_log[i], n.commit_index, n.current_term),
           n.role = "Leader" => \A p \in Peers(i) :
              \/ n.match_index[p] <= n.commit_index
              \/ \E a \in acks : /\ a[1] = p /\ a[2] = n.current_term
                                 /\ a[3] = n.match_index[p],
           NEW out, msgs' \subseteq msgs \cup out,
           \A m \in out :
              \/ Backing(m)'
              \/ n.role = "Leader" /\ \E p \in Node : m \in BuildAppendEntries(i, n, p)
    PROVE  CommitsFit'
<1>1. UNCHANGED <<term_log, full_log>>
  BY QuietTermLogs DEF Steps
<1>2. full_log[i] \in Seq(Entry) /\ Holds(node[i], full_log[i])
  BY NodeLogs DEF Steps
<1>3. Holds(n, full_log[i])
  BY <1>2, HoldsSame
<1>4. NewBackings(i)
  BY <1>1, SameBackings
<1>5. KeepsBacked(i)
  BY <1>1 DEF KeepsBacked
<1>6. CandidateKeeps(i)
  BY <1>1 DEF CandidateKeeps, Writes
<1>7. AcksAreExact'
  BY AcksStay DEF CommitsFit
<1>8. n.snapshot_index <= n.commit_index
  <2>1. /\ n.snapshot_index = node[i].snapshot_index
        /\ node[i].snapshot_index <= node[i].commit_index
    BY DEF SameLog, CommitsFit, CommitsAreChosen
  <2>2. node[i].commit_index \in Nat /\ node[i].snapshot_index \in Nat
    BY NodeLogs DEF Steps
  <2>. QED  BY <2>1, <2>2, LogFields
<1> SUFFICES ASSUME NEW log \in Seq(Entry), log = full_log[i]
             PROVE  CommitsFit'
  BY <1>2
<1>9. Committed(log, n.commit_index, n.current_term)'
  BY LogFields, CommittedStays
<1>10. /\ Writes(i, n, log) /\ Holds(n, log)
       /\ n.commit_index <= Len(log)
       /\ \A e \in elected' : e \notin elected => WinnerKnows(e)'
  BY <1>3
<1>. QED  BY <1>4, <1>5, <1>6, <1>7, <1>8, <1>9, <1>10, PassCommits

-----------------------------------------------------------------------------
(* The passes of the loop.                                                 *)

\* A handler that leaves the commit index alone.
LEMMA KeepsCommit ==
    ASSUME Steps, CommitsAreChosen, NEW i \in Node, NEW n \in NodeState,
           n.commit_index = node[i].commit_index,
           n.current_term >= node[i].current_term
    PROVE  /\ n.commit_index >= node[i].commit_index
           /\ n.commit_index <= Len(full_log[i])
           /\ Committed(full_log[i], n.commit_index, n.current_term)
<1>1. /\ full_log[i] \in Seq(Entry) /\ node[i].commit_index \in Nat
      /\ node[i].current_term \in Nat /\ LastLogIndex(node[i]) = Len(full_log[i])
  BY NodeLogs DEF Steps
<1>2. /\ node[i].commit_index <= Len(full_log[i])
      /\ Committed(full_log[i], node[i].commit_index, node[i].current_term)
  BY <1>1 DEF CommitsAreChosen
<1>3. SamePrefix(full_log[i], full_log[i], node[i].commit_index)
  BY <1>2 DEF SamePrefix
<1>. QED  BY <1>1, <1>2, <1>3, LogFields, CommittedPrefix DEF Steps

LEMMA TickCommits ==
    ASSUME SaveSucceeds = {TRUE}, Steps, CommitsFit, NEW i \in Node,
           TickIdle(i) \/ TickHeartbeat(i)
    PROVE  CommitsFit'
<1> DEFINE n == node[i]
<1>1. /\ n \in NodeState /\ Writes(i, n, full_log[i])
      /\ UNCHANGED <<cast, elected, over_ack, acks>>
  BY TickPass DEF Steps
<1>2. PICK out : /\ msgs' \subseteq msgs \cup out
                 /\ \A m \in out : /\ n.role = "Leader"
                                   /\ \E p \in Node : m \in BuildAppendEntries(i, n, p)
  BY TickPass DEF Steps
<1>3. Commits(i, n)
  BY <1>1, PersistCommits DEF TickIdle, TickHeartbeat, Steps
<1>4. n.current_term \in Nat /\ n.commit_index \in Nat
  BY <1>1, LogFields
<1>5. /\ n.commit_index <= Len(full_log[i])
      /\ Committed(full_log[i], n.commit_index, n.current_term)
  BY <1>1, <1>4, KeepsCommit DEF CommitsFit
<1>6. n.role = "Leader" => \A p \in Peers(i) :
         \/ n.match_index[p] <= n.commit_index
         \/ \E a \in acks : /\ a[1] = p /\ a[2] = n.current_term
                            /\ a[3] = n.match_index[p]
  BY DEF CommitsFit, MatchesAreAcked
<1>7. SameLog(n, node[i]) /\ n.commit_index >= node[i].commit_index
  BY <1>4 DEF SameLog
<1>8. \A v \in cast' : v \notin cast => VoterKnows(v)'
  BY <1>1
<1>9. (n.role = "Leader" => node[i].role = "Leader" /\ n.current_term = node[i].current_term)
      /\ (n.role = "Candidate" => node[i].role = "Candidate")
  OBVIOUS
<1> HIDE DEF n
<1>. QED  BY <1>1, <1>2, <1>3, <1>5, <1>6, <1>7, <1>8, <1>9, QuietCommits

LEMMA StandCommits ==
    ASSUME SaveSucceeds = {TRUE}, Steps, CommitsFit, NEW i \in Node,
           TickElection(i) \/ ForceElection(i)
    PROVE  CommitsFit'
<1> DEFINE n == StartElection(i, node[i])
<1>1. /\ n \in NodeState /\ Writes(i, n, full_log[i])
      /\ n.current_term = node[i].current_term + 1
      /\ n.role = "Candidate" /\ SameLog(n, node[i])
      /\ n.commit_index = node[i].commit_index
      /\ UNCHANGED <<elected, over_ack, acks>>
      /\ cast' = cast \cup {<<i, i, n.current_term>>}
      /\ msgs' \subseteq msgs \cup RequestVotes(i, n)
      /\ RequestVotes(i, n) \subseteq RequestVoteMessage
  BY StandPass DEF Steps
<1>2. Commits(i, n)
  BY <1>1, PersistCommits DEF TickElection, ForceElection, Steps
<1>3. /\ n.current_term > node[i].current_term
      /\ node'[i].current_term = n.current_term /\ node'[i].role = "Candidate"
  BY <1>1, StepTerms DEF Writes
<1>4. \A m \in RequestVotes(i, n) :
         /\ m.type = "RequestVote" /\ m.from = i /\ m.term = n.current_term
         /\ m.last_log_index = LastLogIndex(n) /\ m.last_log_term = LastLogTerm(n)
  BY DEF RequestVotes
<1> HIDE DEF n
<1>5. UNCHANGED <<term_log, full_log>>
  BY <1>1, QuietTermLogs DEF Steps
<1>6. \A v \in cast' : v \notin cast => VoterKnows(v)'
  BY <1>1, <1>3, <1>5, StandKnows DEF CommitsFit
<1>7. ASSUME NEW m \in RequestVotes(i, n) PROVE Backing(m)'
  <2>1. /\ full_log[i] \in Seq(Entry) /\ node[i] \in NodeState
        /\ Holds(node[i], full_log[i])
    BY NodeLogs DEF Steps
  <2>2. Holds(n, full_log[i])
    BY <1>1, <2>1, HoldsSame
  <2>3. node'[i] \in NodeState /\ Holds(node'[i], full_log[i])
    BY <1>1 DEF Writes, Steps, TypeOK
  <2>4. /\ LastLogIndex(node'[i]) = LastLogIndex(n)
        /\ LastLogTerm(node'[i]) = LastLogTerm(n)
    BY <1>1, <2>1, <2>2, <2>3, LastOf
  <2>5. m.term \in Nat /\ m.term <= node'[i].current_term
    BY <1>1, <1>3, <1>4, LogFields
  <2>6. DescribesLog(m)'
    BY <1>4, <2>4, <2>5 DEF DescribesLog, LastLogIndex, LastLogTerm, TermAt
  <2>. QED  BY <1>4, <2>6 DEF Backing
<1>8. n.current_term >= node[i].current_term
  BY <1>1, <1>3, LogFields, StepTerms
<1>9. /\ n.commit_index >= node[i].commit_index
      /\ n.commit_index <= Len(full_log[i])
      /\ Committed(full_log[i], n.commit_index, n.current_term)
  BY <1>1, <1>8, KeepsCommit DEF CommitsFit
<1>. QED  BY <1>1, <1>2, <1>3, <1>6, <1>7, <1>9, QuietCommits

LEMMA RestartCommits ==
    ASSUME Steps, CommitsFit, NEW i \in Node, Restart(i)
    PROVE  CommitsFit'
<1> DEFINE image == disk[i]
           n == RestoreFromStorage(image)
<1>1. /\ n \in NodeState /\ Writes(i, n, full_log[i])
      /\ SameLog(n, node[i]) /\ n.role = "Follower"
      /\ n.current_term = node[i].current_term
      /\ UNCHANGED <<msgs, cast, elected, over_ack, acks>>
  BY RestartPass DEF Steps, ElectionInv
<1>2. /\ disk[i].commit_index = node[i].commit_index
      /\ node[i].snapshot_index <= node[i].commit_index
      /\ node[i].commit_index <= LastLogIndex(node[i])
      /\ disk[i] \in StorageSnapshot
  BY DEF CommitsFit, CommitsAreChosen, Steps, TypeOK
<1>3. n.commit_index = node[i].commit_index
  <2> DEFINE x == [NewNode EXCEPT !.current_term = image.current_term,
                             !.voted_for = image.voted_for,
                             !.log = image.log,
                             !.snapshot_index = image.last_included_index,
                             !.snapshot_term = image.last_included_term,
                             !.last_applied = image.last_included_index]
  <2>1. /\ x.snapshot_index = image.last_included_index /\ x.log = image.log
        /\ "commit_index" \in DOMAIN x
    BY DEF NewNode
  <2>2. n = CommitTo(x, image.commit_index)
    BY DEF RestoreFromStorage
  <2>3. /\ image.last_included_index = node[i].snapshot_index
        /\ image.log = node[i].log
    BY DEF Steps, LogInv, LogIsSaved
  <2> HIDE DEF x
  <2>4. n.commit_index = Smaller(Larger(image.commit_index, x.snapshot_index),
                                 LastLogIndex(x))
    BY <2>1, <2>2 DEF CommitTo
  <2>5. LastLogIndex(x) = LastLogIndex(node[i])
    BY <2>1, <2>3 DEF LastLogIndex
  <2>6. LastLogIndex(node[i]) \in Nat /\ node[i].snapshot_index \in Nat
        /\ node[i].commit_index \in Nat
    BY NodeLogs DEF Steps
  <2>. QED  BY <1>2, <2>1, <2>3, <2>4, <2>5, <2>6 DEF Smaller, Larger
<1>4. Commits(i, n)
  <2>1. node' = [node EXCEPT ![i] = MarkApplied(n)] /\ disk' = disk
    BY DEF Restart
  <2>2. node'[i] = MarkApplied(n)
    BY <2>1 DEF Steps, TypeOK
  <2> HIDE DEF n
  <2>3. /\ MarkApplied(n).commit_index = n.commit_index
        /\ MarkApplied(n).match_index = n.match_index
        /\ MarkApplied(n).snapshot_index = n.snapshot_index
    BY <1>1 DEF MarkApplied, NodeState
  <2>. QED  BY <1>2, <1>3, <2>1, <2>2, <2>3 DEF Commits
<1> HIDE DEF n, image
<1>5. n.current_term >= node[i].current_term
  BY <1>1, LogFields
<1>6. /\ n.commit_index >= node[i].commit_index
      /\ n.commit_index <= Len(full_log[i])
      /\ Committed(full_log[i], n.commit_index, n.current_term)
  BY <1>1, <1>3, <1>5, KeepsCommit DEF CommitsFit
<1> DEFINE out == {}
<1>7. msgs' \subseteq msgs \cup out /\ \A m \in out : Backing(m)'
  BY <1>1
<1> HIDE DEF out
<1>. QED  BY <1>1, <1>4, <1>6, <1>7, QuietCommits

LEMMA RequestVoteCommits ==
    ASSUME SaveSucceeds = {TRUE}, Steps, CommitsFit,
           NEW m \in msgs, ReceiveRequestVote(m)
    PROVE  CommitsFit'
<1> DEFINE i == m.to
           b == node[i]
           n == HandleRequestVote(b, m)
           reply == RequestVoteReply(i, b, m)
<1>1. /\ n \in NodeState /\ Writes(i, n, full_log[i])
      /\ SameLog(n, b) /\ n.commit_index = b.commit_index
      /\ n.current_term = Larger(m.term, b.current_term)
      /\ n.role = IF m.term > b.current_term THEN "Follower" ELSE b.role
      /\ cast' = IF GrantsVote(b, m)
                 THEN cast \cup {<<i, m.from, m.term>>} ELSE cast
      /\ UNCHANGED <<elected, over_ack, acks>>
      /\ msgs' \subseteq msgs \cup {reply}
      /\ reply.type = "RequestVoteResponse"
  BY RequestVotePass DEF Steps
<1>2. /\ i \in Node /\ m.from \in Node /\ m.from # i /\ m.term \in Nat
      /\ b.current_term \in Nat /\ m.type = "RequestVote" /\ m \in RequestVoteMessage
  BY Received DEF Steps, ReceiveRequestVote
<1>3. Commits(i, n)
  BY <1>1, <1>2, PersistCommits DEF ReceiveRequestVote, Steps
<1>5. n.match_index = b.match_index \/ n.role = "Follower"
  <2>1. b \in NodeState
    BY <1>2 DEF Steps, TypeOK
  <2>2. CASE m.term > b.current_term
    BY <1>1, <2>2
  <2>3. CASE ~(m.term > b.current_term)
    <3>1. SeenTerm(b, m) = b
      BY <2>3 DEF SeenTerm
    <3>. QED  BY <2>1, <3>1 DEF HandleRequestVote, NodeState
  <2>. QED  BY <2>2, <2>3
<1>6. m.type # "RequestVote" \/ DescribesLog(m)
  BY DEF CommitsFit, MessagesAreBacked, Backing
<1> HIDE DEF n, reply
<1>7. /\ n.current_term >= b.current_term
      /\ n.role = "Leader" => b.role = "Leader" /\ n.current_term = b.current_term
      /\ n.role = "Candidate" => b.role = "Candidate"
  BY <1>1, <1>2 DEF Larger
<1>8. UNCHANGED <<term_log, full_log>>
  BY <1>1, <1>2, <1>7, QuietTermLogs DEF Steps
<1>9. \A v \in cast' : v \notin cast => VoterKnows(v)'
  <2>1. node'[m.from] = node[m.from]
    BY <1>1, <1>2 DEF Writes
  <2>. QED  BY <1>1, <1>2, <1>6, <1>8, <2>1, GrantKnows DEF CommitsFit
<1>10. /\ n.commit_index >= node[i].commit_index
       /\ n.commit_index <= Len(full_log[i])
       /\ Committed(full_log[i], n.commit_index, n.current_term)
  BY <1>1, <1>2, <1>7, KeepsCommit DEF CommitsFit
<1>11. n.role = "Leader" => \A p \in Peers(i) :
          \/ n.match_index[p] <= n.commit_index
          \/ \E a \in acks : /\ a[1] = p /\ a[2] = n.current_term
                             /\ a[3] = n.match_index[p]
  BY <1>1, <1>2, <1>5, <1>7 DEF CommitsFit, MatchesAreAcked
<1> DEFINE out == {reply}
<1>13. msgs' \subseteq msgs \cup out /\ \A x \in out : Backing(x)'
  BY <1>1 DEF Backing
<1> HIDE DEF out, i
<1>. QED  BY <1>1, <1>2, <1>3, <1>7, <1>9, <1>10, <1>11, <1>13, QuietCommits

\* A term is won once: its log begins with the election.
LEMMA WinIsFirst ==
    ASSUME Steps, NEW i \in Node, node[i].role = "Candidate",
           NEW e \in elected', e.term = node[i].current_term, e.leader = i
    PROVE  node[i].current_term \notin DOMAIN term_log
<1> SUFFICES ASSUME node[i].current_term \in DOMAIN term_log PROVE FALSE
  OBVIOUS
<1>1. PICK f \in elected : f.term = node[i].current_term
  BY DEF Steps, LogInv, LeadersHaveLogs
<1>2. f \in elected'
  BY DEF Steps
<1>3. f.leader = i
  BY <1>1, <1>2 DEF Steps, ElectionInv, ElectionSafety
<1>. QED  BY <1>1, <1>3 DEF Steps, LogInv, LeadersHaveLogs

\* A new leader's log has nothing of its own term.
LEMMA WinBackings ==
    ASSUME Steps, NEW i \in Node, NEW u, u = node[i].current_term,
           u \notin DOMAIN term_log, UNCHANGED acks,
           \A e \in elected' : e \notin elected => e.term = u,
           DOMAIN term_log' = DOMAIN term_log \cup {u},
           term_log'[u] = full_log[i],
           \A t \in DOMAIN term_log : term_log'[t] = term_log[t]
    PROVE  NewBackings(i)
<1> SUFFICES ASSUME NEW q \in Node, NEW b \in Backed(q)'
             PROVE  b \in Backed(q)
  BY DEF NewBackings
<1>1. /\ b = <<b[1], b[2]>> /\ b[1] \in DOMAIN term_log'
      /\ Has(term_log'[b[1]], b[2], b[1]) /\ Backs(q, b[1], b[2])'
  BY BackedShape
<1>2. b[1] # u
  <2> SUFFICES ASSUME b[1] = u PROVE FALSE
    OBVIOUS
  <2>1. Has(full_log[i], b[2], u)
    BY <1>1
  <2>2. FollowsLeaders(full_log[i])
    BY NodeLogs DEF Steps
  <2>. QED  BY <2>1, <2>2 DEF FollowsLeaders, Has
<1>3. Backs(q, b[1], b[2])
  BY <1>1, <1>2 DEF Backs
<1>4. b[1] \in DOMAIN term_log /\ Has(term_log[b[1]], b[2], b[1])
  BY <1>1, <1>2
<1>5. <<b[1], b[2]>> \in Backed(q)
  BY <1>3, <1>4, BackedPair
<1>. QED  BY <1>1, <1>5

LEMMA RequestVoteResponseCommits ==
    ASSUME SaveSucceeds = {TRUE}, Steps, CommitsFit,
           NEW m \in msgs, ReceiveRequestVoteResponse(m)
    PROVE  CommitsFit'
<1> DEFINE i == m.to
           b == node[i]
           n == HandleRequestVoteResponse(i, b, m)
           wins == WinsElection(i, b, m)
<1>1. /\ n \in NodeState /\ Writes(i, n, full_log[i])
      /\ SameLog(n, b) /\ n.commit_index = b.commit_index
      /\ n.current_term = Larger(m.term, b.current_term)
      /\ n.role = IF m.term > b.current_term THEN "Follower"
                  ELSE IF wins THEN "Leader" ELSE b.role
      /\ wins => /\ b.role = "Candidate"
                 /\ n.current_term = b.current_term
                 /\ \A p \in Peers(i) : n.match_index[p] = b.snapshot_index
      /\ (n.role = "Leader" /\ ~wins) => n = b
      /\ elected' = IF wins
                    THEN elected \cup {[term   |-> b.current_term,
                                        leader |-> i,
                                        votes  |-> Tally(b, m)]}
                    ELSE elected
      /\ UNCHANGED <<cast, over_ack, acks>>
  BY RequestVoteResponsePass DEF Steps
<1>2. PICK out : /\ msgs' \subseteq msgs \cup out
                 /\ \A r \in out : /\ wins /\ n.role = "Leader"
                                   /\ \E p \in Node : r \in BuildAppendEntries(i, n, p)
  BY RequestVoteResponsePass DEF Steps
<1>3. /\ i \in Node /\ m.from \in Node /\ m.term \in Nat /\ b.current_term \in Nat
      /\ b \in NodeState
  BY Received DEF Steps
<1>4. Commits(i, n)
  BY <1>1, <1>3, PersistCommits DEF ReceiveRequestVoteResponse, Steps
<1>5. wins => m.term = b.current_term
  BY DEF WinsElection
<1> HIDE DEF n, wins, i
<1>6. /\ n.current_term >= b.current_term
      /\ n.role = "Candidate" => b.role = "Candidate"
      /\ wins => n.role = "Leader"
      /\ ~wins /\ n.role = "Leader" => b.role = "Leader" /\ n.current_term = b.current_term
  BY <1>1, <1>3, <1>5 DEF Larger
<1>7. /\ n.commit_index >= b.commit_index
      /\ n.commit_index <= Len(full_log[i])
      /\ Committed(full_log[i], n.commit_index, n.current_term)
  BY <1>1, <1>3, <1>6, KeepsCommit DEF CommitsFit
<1>8. n.role = "Leader" => \A p \in Peers(i) :
          \/ n.match_index[p] <= n.commit_index
          \/ \E a \in acks : /\ a[1] = p /\ a[2] = n.current_term
                             /\ a[3] = n.match_index[p]
  <2>1. CASE wins
    BY <1>1, <1>3, <2>1 DEF CommitsFit, CommitsAreChosen
  <2>2. CASE ~wins
    BY <1>1, <1>3, <2>2 DEF CommitsFit, MatchesAreAcked
  <2>. QED  BY <2>1, <2>2
<1>9. CASE ~wins
  <2>1. \A v \in cast' : v \notin cast => VoterKnows(v)'
    BY <1>1
  <2>. QED  BY <1>1, <1>2, <1>3, <1>4, <1>6, <1>7, <1>8, <1>9, <2>1, QuietCommits
<1>10. CASE wins
  <2> DEFINE u == b.current_term
             e == [term |-> u, leader |-> i, votes |-> Tally(b, m)]
  <2>1. /\ e.term = u /\ e.leader = i /\ e \in elected'
        /\ elected' = elected \cup {e}
    BY <1>1, <1>10
  <2>2. n.role = "Leader" /\ n.current_term = u /\ b.role = "Candidate"
    BY <1>1, <1>6, <1>10
  <2> HIDE DEF e
  <2>3. u \notin DOMAIN term_log
    BY <1>3, <2>1, <2>2, WinIsFirst
  <2>4. /\ DOMAIN term_log' = DOMAIN term_log \cup {u}
        /\ term_log'[u] = full_log[i]
        /\ \A t \in DOMAIN term_log : term_log'[t] = term_log[t]
        /\ full_log' = full_log
    BY <1>1, <2>2, <2>3 DEF Writes, Steps, LogInv, HistoryType
  <2>5. NewBackings(i)
    BY <1>1, <1>3, <2>1, <2>3, <2>4, WinBackings
  <2>6. node'[i].current_term = u
    BY <1>1, <2>2 DEF Writes
  <2>7. ASSUME NEW f \in elected', f \notin elected PROVE WinnerKnows(f)'
    <3>1. f.term = u /\ f.leader = i
      BY <2>1, <2>7
    <3>. QED
      BY <3>1, <1>1, <1>3, <2>1, <2>2, <2>3, <2>4, <2>5, <2>6, WinKnows DEF CommitsFit
  <2>8. KeepsBacked(i)
    BY <2>4 DEF KeepsBacked
  <2>9. CandidateKeeps(i)
    BY <1>1, <2>2, <2>4 DEF CandidateKeeps, Writes
  <2>10. AcksAreExact'
    BY <1>1, AcksStay DEF CommitsFit
  <2>11. full_log[i] \in Seq(Entry) /\ Holds(n, full_log[i])
    <3>1. full_log[i] \in Seq(Entry) /\ Holds(b, full_log[i])
      BY <1>3, NodeLogs DEF Steps
    <3>. QED  BY <1>1, <3>1, HoldsSame
  <2>12. n.snapshot_index <= n.commit_index
    BY <1>1, <1>3 DEF SameLog, CommitsFit, CommitsAreChosen
  <2>13. /\ \A v \in cast' : v \notin cast => VoterKnows(v)'
         /\ \A f \in elected' : f \notin elected => WinnerKnows(f)'
    BY <1>1, <2>7
  <2> SUFFICES ASSUME NEW log \in Seq(Entry), log = full_log[i],
                      NEW x \in NodeState, x = n
               PROVE  CommitsFit'
    BY <1>1, <2>11
  <2>14. Committed(log, x.commit_index, x.current_term)'
    BY <1>7, LogFields, CommittedStays
  <2>15. /\ Writes(i, x, log) /\ Commits(i, x) /\ Holds(x, log)
         /\ x.commit_index <= Len(log) /\ x.snapshot_index <= x.commit_index
    BY <1>1, <1>4, <1>7, <2>11, <2>12
  <2>16. x.role = "Leader" => \A p \in Peers(i) :
            \/ x.match_index[p] <= x.commit_index
            \/ \E a \in acks' : /\ a[1] = p /\ a[2] = x.current_term
                                /\ a[3] = x.match_index[p]
    BY <1>1, <1>8
  <2>17. \A r \in out : \/ Backing(r)'
                        \/ /\ x.role = "Leader"
                           /\ \E p \in Node : r \in BuildAppendEntries(i, x, p)
    BY <1>2
  <2>. QED  BY <1>2, <1>3, <2>5, <2>8, <2>9, <2>10, <2>13, <2>14, <2>15, <2>16, <2>17, PassCommits
<1>. QED  BY <1>9, <1>10

\* The commit index moves to an index that try_advance_commit_index may
\* commit, or stays.
LEMMA TryAdvanceCommits ==
    ASSUME NEW i \in Node, NEW x \in NodeState,
           x.snapshot_index <= x.commit_index
    PROVE  LET n == TryAdvanceCommit(i, x)
           IN  /\ n.match_index = x.match_index
               /\ \/ n.commit_index = x.commit_index
                  \/ n.commit_index \in Committable(i, x)
<1>1. CASE Committable(i, x) = {}
  BY <1>1 DEF TryAdvanceCommit
<1>2. CASE Committable(i, x) # {}
  <2> DEFINE y == CHOOSE y \in Committable(i, x) :
                     \A z \in Committable(i, x) : y >= z
  <2>1. y \in Committable(i, x)
    BY <1>2, CommittableHasMax
  <2>2. TryAdvanceCommit(i, x) = CommitTo(x, y)
    BY <1>2 DEF TryAdvanceCommit
  <2> HIDE DEF y
  <2>3. y \in x.commit_index + 1 .. LastLogIndex(x)
    BY <2>1 DEF Committable
  <2>4. /\ CommitTo(x, y).commit_index =
              Smaller(Larger(y, x.snapshot_index), LastLogIndex(x))
        /\ CommitTo(x, y).match_index = x.match_index
    BY DEF CommitTo, NodeState
  <2>5. LastLogIndex(x) \in Nat /\ x.commit_index \in Nat /\ x.snapshot_index \in Nat
    BY LogFields, LastLogIndexType
  <2>6. CommitTo(x, y).commit_index = y
    BY <2>3, <2>4, <2>5 DEF Smaller, Larger
  <2>. QED  BY <2>1, <2>2, <2>4, <2>6
<1>. QED  BY <1>1, <1>2

\* What the match indices of a leader cover its followers have acknowledged:
\* an index it may commit is a chosen one.
LEMMA CommittableIsChosen ==
    ASSUME TypeOK, ElectionInv, LogInv, NEW i \in Node, NEW x \in NodeState,
           Holds(x, full_log[i]), x.current_term = node[i].current_term,
           node[i].role = "Leader",
           \A p \in Peers(i) :
              \/ x.match_index[p] <= x.commit_index
              \/ \E a \in acks : /\ a[1] = p /\ a[2] = x.current_term
                                 /\ a[3] = x.match_index[p],
           NEW y \in Committable(i, x)
    PROVE  /\ y \in Nat /\ y > x.commit_index /\ y <= Len(full_log[i])
           /\ Committed(full_log[i], y, x.current_term)
<1> DEFINE t == x.current_term
           full == full_log[i]
<1>1. /\ full \in Seq(Entry) /\ LastLogIndex(x) = Len(full) /\ Len(full) \in Nat
      /\ x.commit_index \in Nat /\ x.snapshot_index \in Nat /\ t \in Nat
      /\ DOMAIN full = 1 .. Len(full)
  BY NodeLogs, LogFields DEF Holds
<1>2. y \in x.commit_index + 1 .. Len(full) /\ TermAt(x, y) = t
  BY <1>1 DEF Committable
<1>3. y \in Nat /\ y > x.commit_index /\ y <= Len(full) /\ y > 0
  BY <1>1, <1>2
<1>4. t \in DOMAIN term_log /\ term_log[t] = full
  BY DEF LogInv, LeadersHaveLogs, ElectionInv, RolesAreEarned, Won
<1>5. Has(term_log[t], y, t)
  <2>1. TermAt(x, y) # NoTerm
    BY <1>1, <1>2 DEF NoTerm
  <2>2. full[y].term = t
    BY <1>1, <1>2, <1>3, <2>1, TermAtFull
  <2>. QED  BY <1>1, <1>3, <1>4, <2>2 DEF Has
<1> DEFINE A == {p \in Node : x.match_index[p] >= y}
           B == {q \in Node : Backs(q, t, y)}
<1>6. ASSUME NEW q \in A PROVE q \in B
  <2>1. CASE q = i
    <3>1. Won(t, i)
      BY DEF ElectionInv, RolesAreEarned
    <3>. QED  BY <2>1, <3>1 DEF Backs, Won
  <2>2. CASE q # i
    <3>1. q \in Peers(i) /\ x.match_index[q] >= y /\ x.match_index[q] \in Nat
      BY <2>2 DEF Peers, NodeState
    <3>2. ~(x.match_index[q] <= x.commit_index)
      BY <1>1, <1>3, <3>1
    <3>3. PICK a \in acks : a[1] = q /\ a[2] = t /\ a[3] = x.match_index[q]
      BY <3>1, <3>2
    <3>4. y <= a[3]
      BY <1>3, <3>1, <3>3
    <3>. QED  BY <3>1, <3>3, <3>4 DEF Backs
  <2>. QED  BY <2>1, <2>2
<1>7. Cardinality(A) >= Majority(i)
  BY DEF Committable
<1> HIDE DEF A, B
<1>8. A \subseteq B /\ B \subseteq Node
  BY <1>6 DEF B
<1>9. Cardinality(B) >= Majority(i)
  <2>1. IsFiniteSet(B) /\ IsFiniteSet(A)
    BY <1>8, FS_Subset, NodeAssumption
  <2>2. /\ Cardinality(A) <= Cardinality(B)
        /\ Cardinality(A) \in Nat /\ Cardinality(B) \in Nat
    BY <1>8, <2>1, FS_Subset, FS_CardinalityType
  <2>3. Cardinality(Peers(i)) \in Nat
    BY FS_Subset, FS_CardinalityType, NodeAssumption DEF Peers
  <2>4. Majority(i) \in Int
    BY <2>3 DEF Majority
  <2>. QED  BY <1>7, <2>2, <2>4
<1>10. Chosen(t, y)
  BY <1>4, <1>5, <1>9 DEF Chosen, B
<1>11. SamePrefix(full, term_log[t], y) /\ y \in DOMAIN term_log[t]
  BY <1>1, <1>3, <1>4 DEF SamePrefix
<1>. QED  BY <1>1, <1>3, <1>4, <1>10, <1>11 DEF Committed

\* A leader with a success counted.
Counted(n, p, k) == [n EXCEPT !.match_index[p] = k, !.next_index[p] = k + 1]

LEMMA CountedNode ==
    ASSUME NEW n \in NodeState, NEW p \in Node, NEW k \in Nat
    PROVE  LET x == Counted(n, p, k)
           IN  /\ x \in NodeState /\ SameLog(x, n)
               /\ x.commit_index = n.commit_index
               /\ x.current_term = n.current_term
               /\ x.match_index = [n.match_index EXCEPT ![p] = k]
<1> DEFINE x == Counted(n, p, k)
           f == [n.match_index EXCEPT ![p] = k]
           g == [n.next_index EXCEPT ![p] = k + 1]
<1>1. f \in [Node -> Nat] /\ g \in [Node -> Nat]
  BY DEF NodeState
<1>2. x = [n EXCEPT !.match_index = f, !.next_index = g]
  BY DEF NodeState, Counted
<1> HIDE DEF x, f, g
<1>3. /\ x \in NodeState /\ SameLog(x, n) /\ x.commit_index = n.commit_index
      /\ x.current_term = n.current_term /\ x.match_index = f
  BY <1>1, <1>2 DEF NodeState, SameLog
<1>. QED  BY <1>3 DEF x, f

LEMMA AppendEntriesResponseCommits ==
    ASSUME SaveSucceeds = {TRUE}, Steps, CommitsFit,
           NEW m \in msgs, ReceiveAppendEntriesResponse(m)
    PROVE  CommitsFit'
<1> DEFINE i == m.to
           b == node[i]
           n == HandleAppendEntriesResponse(i, b, m)
<1>1. /\ n \in NodeState /\ Writes(i, n, full_log[i]) /\ SameLog(n, b)
      /\ m.term > b.current_term => n.current_term = m.term /\ n.role = "Follower"
      /\ ~(m.term > b.current_term) => SameBallot(n, b)
      /\ UNCHANGED <<cast, elected, over_ack, acks>>
  BY AppendEntriesResponsePass DEF Steps
<1>2. PICK out : /\ msgs' \subseteq msgs \cup out
                 /\ \A r \in out : /\ n.role = "Leader"
                                   /\ \E p \in Node : r \in BuildAppendEntries(i, n, p)
  BY AppendEntriesResponsePass DEF Steps
<1>3. /\ i \in Node /\ m.from \in Node /\ m.term \in Nat /\ b.current_term \in Nat
      /\ b \in NodeState /\ m \in AppendEntriesResponseMessage
  BY Received DEF Steps, ReceiveAppendEntriesResponse
<1>4. Commits(i, n)
  BY <1>1, <1>3, PersistCommits DEF ReceiveAppendEntriesResponse, Steps
<1>5. /\ n.current_term >= b.current_term
      /\ n.role = "Candidate" => b.role = "Candidate"
      /\ n.role = "Leader" => b.role = "Leader" /\ n.current_term = b.current_term
  <2> HIDE DEF n
  <2>. QED  BY <1>1, <1>3 DEF SameBallot
<1> DEFINE Acked(x) == \A p \in Peers(i) :
                          \/ x.match_index[p] <= x.commit_index
                          \/ \E a \in acks : /\ a[1] = p /\ a[2] = x.current_term
                                             /\ a[3] = x.match_index[p]
           Fits == /\ n.commit_index >= b.commit_index
                   /\ n.commit_index <= Len(full_log[i])
                   /\ Committed(full_log[i], n.commit_index, n.current_term)
                   /\ n.role = "Leader" => Acked(n)
<1>6. b.role = "Leader" => Acked(b)
  BY <1>3 DEF CommitsFit, MatchesAreAcked
<1>7. Fits
  <2>1. CASE /\ n.commit_index = b.commit_index
             /\ n.role = "Leader" => Acked(n)
    <3> HIDE DEF n, Acked
    <3>. QED  BY <1>1, <1>3, <1>5, <2>1, KeepsCommit DEF CommitsFit
  <2>2. CASE m.term > b.current_term
    <3>1. n = BecomeFollower(b, m.term, Nil)
      BY <2>2 DEF HandleAppendEntriesResponse
    <3>. QED  BY <1>1, <1>3, <2>1, <2>2, <3>1, BecomeFollowerLog
  <2>3. CASE ~(m.term > b.current_term) /\ ~FromCurrentFollower(b, m)
    <3>1. n = b
      BY <2>3 DEF HandleAppendEntriesResponse
    <3>. QED  BY <1>6, <2>1, <3>1
  <2>4. CASE ~(m.term > b.current_term) /\ FromCurrentFollower(b, m) /\ ~m.success
    <3>1. /\ n.match_index = b.match_index /\ n.commit_index = b.commit_index
          /\ n.current_term = b.current_term
      BY <1>3, <2>4 DEF HandleAppendEntriesResponse, NodeState
    <3> HIDE DEF n
    <3>2. n.role = "Leader" => Acked(n)
      BY <1>5, <1>6, <3>1
    <3>. QED  BY <2>1, <3>1, <3>2
  <2>5. CASE ~(m.term > b.current_term) /\ FromCurrentFollower(b, m) /\ m.success
    <3> DEFINE x == Counted(b, m.from, m.match_index)
    <3>1. n = TryAdvanceCommit(i, x)
      BY <2>5 DEF HandleAppendEntriesResponse, Counted
    <3>2. b.role = "Leader" /\ m.term = b.current_term
      BY <2>5 DEF FromCurrentFollower
    <3>3. m.match_index \in Nat
      BY <1>3 DEF AppendEntriesResponseMessage
    <3>4. /\ x \in NodeState /\ SameLog(x, b) /\ x.commit_index = b.commit_index
          /\ x.current_term = b.current_term
          /\ x.match_index = [b.match_index EXCEPT ![m.from] = m.match_index]
      <4> HIDE DEF b
      <4>. QED  BY <1>3, <3>3, CountedNode
    <3> HIDE DEF x
    <3>5. <<m.from, m.term, m.match_index>> \in acks
      BY <2>5 DEF CommitsFit, MessagesAreBacked, Backing, ReceiveAppendEntriesResponse
    <3>6. Acked(x)
      <4> SUFFICES ASSUME NEW p \in Peers(i)
                   PROVE  \/ x.match_index[p] <= x.commit_index
                          \/ \E a \in acks : /\ a[1] = p /\ a[2] = x.current_term
                                             /\ a[3] = x.match_index[p]
        OBVIOUS
      <4>1. b.match_index \in [Node -> Nat] /\ p \in Node
        BY <1>3 DEF NodeState, Peers
      <4>2. CASE p = m.from
        <5> DEFINE a == <<m.from, m.term, m.match_index>>
        <5>1. a[1] = p /\ a[2] = x.current_term /\ a[3] = x.match_index[p]
          BY <3>2, <3>4, <4>1, <4>2
        <5>. QED  BY <3>5, <5>1
      <4>3. CASE p # m.from
        <5>1. x.match_index[p] = b.match_index[p]
          BY <3>4, <4>1, <4>3
        <5>. QED  BY <1>6, <3>2, <3>4, <5>1
      <4>. QED  BY <4>2, <4>3
    <3>7. /\ Holds(x, full_log[i]) /\ x.snapshot_index <= x.commit_index
          /\ x.commit_index \in Nat
      <4>1. Holds(b, full_log[i]) /\ b.commit_index \in Nat
        BY <1>3, NodeLogs DEF Steps
      <4>2. b.snapshot_index <= b.commit_index
        BY <1>3 DEF CommitsFit, CommitsAreChosen
      <4>. QED  BY <3>4, <4>1, <4>2, HoldsSame DEF SameLog
    <3>8. /\ n.match_index = x.match_index /\ n.current_term = x.current_term
          /\ \/ n.commit_index = x.commit_index
             \/ n.commit_index \in Committable(i, x)
      BY <1>1, <1>3, <2>5, <3>1, <3>4, <3>7, TryAdvanceCommits DEF SameBallot
    <3> HIDE DEF n
    <3>9. CASE n.commit_index = x.commit_index
      <4>1. Acked(n)
        BY <3>6, <3>8, <3>9
      <4>. QED  BY <2>1, <3>4, <3>9, <4>1
    <3>10. CASE n.commit_index \in Committable(i, x)
      <4> DEFINE y == n.commit_index
      <4>1. /\ y \in Nat /\ y > x.commit_index /\ y <= Len(full_log[i])
            /\ Committed(full_log[i], y, x.current_term)
        BY <1>3, <3>2, <3>4, <3>6, <3>7, <3>10, CommittableIsChosen DEF Steps
      <4>2. Acked(n)
        <5>1. \A p \in Peers(i) : x.match_index[p] \in Nat
          BY <3>4 DEF NodeState, Peers
        <5>. QED  BY <3>6, <3>7, <3>8, <4>1, <5>1
      <4>. QED  BY <3>4, <3>7, <3>8, <4>1, <4>2
    <3>. QED  BY <3>8, <3>9, <3>10
  <2>. QED  BY <2>2, <2>3, <2>4, <2>5
<1>8. \A v \in cast' : v \notin cast => VoterKnows(v)'
  BY <1>1
<1> HIDE DEF n, i
<1>. QED  BY <1>1, <1>2, <1>3, <1>4, <1>5, <1>7, <1>8, QuietCommits

-----------------------------------------------------------------------------
(* A proposal.                                                             *)

LEMMA ProposeIndices ==
    ASSUME NEW i \in Node, NEW n \in NodeState, NEW command \in Value
    PROVE  LET x == ProposeCommand(i, n, command)
           IN  /\ \A p \in Peers(i) : x.match_index[p] = n.match_index[p]
               /\ x.commit_index = IF Majority(i) = 1 THEN LastLogIndex(n) + 1
                                                      ELSE n.commit_index
<1> DEFINE entry == [term |-> n.current_term, command |-> command]
           log == Append(n.log, entry)
           match == [n.match_index EXCEPT ![i] = LastLogIndex(n) + 1]
           grown == [n EXCEPT !.log = log, !.match_index = match]
<1>1. ProposeCommand(i, n, command) =
         IF Majority(i) = 1 THEN CommitTo(grown, LastLogIndex(grown)) ELSE grown
  BY DEF ProposeCommand, NodeState
<1>2. /\ n.log \in Seq(Entry) /\ Len(n.log) \in Nat /\ n.snapshot_index \in Nat
      /\ LastLogIndex(n) = n.snapshot_index + Len(n.log)
  BY LogFields
<1>3. Len(log) = Len(n.log) + 1
  BY <1>2
<1>4. \A p \in Peers(i) : match[p] = n.match_index[p]
  BY DEF Peers, NodeState
<1> HIDE DEF log, match
<1>5. /\ grown.log = log /\ grown.match_index = match
      /\ grown.snapshot_index = n.snapshot_index
      /\ grown.commit_index = n.commit_index
      /\ CommitTo(grown, LastLogIndex(grown)).match_index = match
      /\ CommitTo(grown, LastLogIndex(grown)).commit_index =
            Smaller(Larger(LastLogIndex(grown), grown.snapshot_index),
                    LastLogIndex(grown))
  BY DEF NodeState, CommitTo
<1> HIDE DEF grown
<1>6. LastLogIndex(grown) = LastLogIndex(n) + 1
  BY <1>2, <1>3, <1>5 DEF LastLogIndex
<1>7. CommitTo(grown, LastLogIndex(grown)).commit_index = LastLogIndex(n) + 1
  BY <1>2, <1>5, <1>6 DEF Smaller, Larger
<1>. QED  BY <1>1, <1>4, <1>5, <1>7

\* Only the leader backs the entry it appends.
LEMMA ProposeBackings ==
    ASSUME Steps, AcksAreExact, UNCHANGED <<elected, acks>>, NEW i \in Node,
           NEW u \in Nat, u = node[i].current_term, node'[i].current_term = u,
           node[i].role = "Leader", u \in DOMAIN term_log,
           NEW old \in Seq(Entry), old = full_log[i], term_log[u] = old,
           NEW entry \in Entry, NEW full, full = Append(old, entry),
           full_log'[i] = full, term_log'[u] = full,
           DOMAIN term_log' = DOMAIN term_log,
           \A t \in DOMAIN term_log : t # u => term_log'[t] = term_log[t]
    PROVE  NewBackings(i) /\ KeepsBacked(i)
<1>1. /\ Len(old) \in Nat /\ DOMAIN old = 1 .. Len(old)
      /\ Len(full) = Len(old) + 1 /\ DOMAIN full = 1 .. Len(old) + 1
      /\ \A l \in 1 .. Len(old) : full[l] = old[l]
  OBVIOUS
<1>2. KeepsBacked(i)
  BY <1>1 DEF KeepsBacked, Has
<1>3. ASSUME NEW q \in Node, NEW b \in Backed(q)', b \notin Backed(q)
      PROVE  /\ q = i /\ b[1] = node'[i].current_term
             /\ Has(full_log'[i], b[2], b[1])
  <2>1. /\ b = <<b[1], b[2]>> /\ b[1] \in DOMAIN term_log
        /\ Has(term_log'[b[1]], b[2], b[1]) /\ Backs(q, b[1], b[2])
    BY <1>3, BackedShape DEF Backs
  <2>2. ~Has(term_log[b[1]], b[2], b[1])
    <3> SUFFICES ASSUME Has(term_log[b[1]], b[2], b[1]) PROVE FALSE
      OBVIOUS
    <3>1. <<b[1], b[2]>> \in Backed(q)
      BY <2>1, BackedPair
    <3>. QED  BY <1>3, <2>1, <3>1
  <2>3. b[1] = u
    BY <2>1, <2>2
  <2>4. Has(full, b[2], u) /\ ~Has(old, b[2], u)
    BY <2>1, <2>2, <2>3
  <2>5. b[2] = Len(old) + 1
    BY <1>1, <2>4 DEF Has
  <2>6. ASSUME NEW a \in acks, a[1] = q, a[2] = u, b[2] <= a[3] PROVE FALSE
    <3>1. a[3] <= Len(old) /\ a[3] \in Nat
      BY <2>6 DEF AcksAreExact, Steps, TypeOK
    <3>. QED  BY <1>1, <2>5, <2>6, <3>1
  <2>7. PICK e \in elected : e.term = u /\ e.leader = q
    BY <2>1, <2>3, <2>6 DEF Backs
  <2>8. PICK f \in elected : f.term = u /\ f.leader = i
    BY DEF Steps, ElectionInv, RolesAreEarned, Won
  <2>9. q = i
    BY <2>7, <2>8 DEF Steps, ElectionInv, ElectionSafety
  <2>. QED  BY <2>3, <2>4, <2>9
<1>. QED  BY <1>2, <1>3 DEF NewBackings

LEMMA OneIsMajority ==
    ASSUME NEW i \in Node, Majority(i) = 1, NEW A \in SUBSET Node, i \in A
    PROVE  Cardinality(A) >= Majority(i)
<1>1. IsFiniteSet(A) /\ Cardinality(A) \in Nat
  BY FS_Subset, FS_CardinalityType, NodeAssumption
<1>2. Cardinality(A) # 0
  BY <1>1, FS_EmptySet
<1>. QED  BY <1>1, <1>2

LEMMA ProposeCommits ==
    ASSUME SaveSucceeds = {TRUE}, Steps, CommitsFit, NEW i \in Node,
           NEW command \in Value, Propose(i, command)
    PROVE  CommitsFit'
<1> DEFINE new == ProposeCommand(i, node[i], command)
           added == [term |-> node[i].current_term, command |-> command]
<1>1. /\ new \in NodeState /\ added \in Entry
      /\ Append(full_log[i], added) \in Seq(Entry)
      /\ Holds(new, Append(full_log[i], added))
      /\ Writes(i, new, Append(full_log[i], added))
      /\ SameBallot(new, node[i]) /\ node[i].role = "Leader"
      /\ UNCHANGED <<cast, elected, over_ack, acks>>
      /\ msgs' \subseteq msgs \cup Heartbeats(i, new)
  BY ProposePass DEF Steps
<1>2. Commits(i, new)
  BY <1>1, PersistCommits DEF Propose, Steps
<1>3. /\ full_log[i] \in Seq(Entry) /\ node[i].current_term \in Nat
      /\ LastLogIndex(node[i]) = Len(full_log[i]) /\ node[i] \in NodeState
      /\ node[i].commit_index \in Nat /\ node[i].snapshot_index \in Nat
  BY NodeLogs DEF Steps
<1>4. /\ \A p \in Peers(i) : new.match_index[p] = node[i].match_index[p]
      /\ new.commit_index = IF Majority(i) = 1 THEN Len(full_log[i]) + 1
                                               ELSE node[i].commit_index
      /\ new.snapshot_index = node[i].snapshot_index
  BY <1>3, ProposeIndices, ProposeLog
<1> HIDE DEF new, added
<1>0. SUFFICES ASSUME NEW n \in NodeState, n = new, NEW entry \in Entry, entry = added,
                    NEW old \in Seq(Entry), old = full_log[i],
                    NEW full \in Seq(Entry), full = Append(old, entry),
                    NEW u \in Nat, u = node[i].current_term
             PROVE  CommitsFit'
  BY <1>1, <1>3
<1>5. /\ n.role = "Leader" /\ n.current_term = u
      /\ Writes(i, n, full) /\ Holds(n, full) /\ Commits(i, n)
  BY <1>0, <1>1, <1>2 DEF SameBallot
<1>6. u \in DOMAIN term_log /\ term_log[u] = old
  BY <1>0, <1>1 DEF Steps, LogInv, LeadersHaveLogs, ElectionInv, RolesAreEarned, Won
<1>7. /\ full_log'[i] = full /\ \A j \in Node \ {i} : full_log'[j] = full_log[j]
      /\ DOMAIN term_log' = DOMAIN term_log /\ term_log'[u] = full
      /\ \A t \in DOMAIN term_log : t # u => term_log'[t] = term_log[t]
      /\ node'[i].current_term = u /\ node'[i].role = "Leader"
      /\ \A j \in Node \ {i} : node'[j] = node[j]
  BY <1>5, <1>6 DEF Writes, Steps, LogInv, HistoryType
<1>8. NewBackings(i) /\ KeepsBacked(i)
  <2>1. UNCHANGED <<elected, acks>> /\ node[i].role = "Leader" /\ AcksAreExact
    BY <1>1 DEF CommitsFit
  <2>2. full = Append(old, entry) /\ u = node[i].current_term /\ old = full_log[i]
    BY <1>0
  <2>. QED  BY <1>6, <1>7, <2>1, <2>2, ProposeBackings, ZenonT(30)
<1>9. CandidateKeeps(i)
  BY <1>7 DEF CandidateKeeps
<1>10. AcksAreExact'
  BY <1>1, AcksStay DEF CommitsFit
<1>11. /\ Len(full) = Len(old) + 1 /\ Len(old) \in Nat /\ full[Len(full)] = entry
       /\ DOMAIN full = 1 .. Len(full) /\ SamePrefix(old, full, Len(old))
  <2>1. /\ Len(full) = Len(old) + 1 /\ Len(old) \in Nat /\ full[Len(old) + 1] = entry
        /\ DOMAIN full = 1 .. Len(full)
        /\ \A l \in 1 .. Len(old) : full[l] = old[l]
    BY <1>0
  <2>. QED  BY <2>1 DEF SamePrefix
<1>12. /\ node[i].snapshot_index <= node[i].commit_index
       /\ node[i].commit_index <= Len(old)
       /\ Committed(old, node[i].commit_index, u)
  BY <1>0, <1>3 DEF CommitsFit, CommitsAreChosen
<1>13. n.snapshot_index <= n.commit_index /\ n.commit_index <= Len(full)
  BY <1>0, <1>3, <1>4, <1>11, <1>12
<1>14. Committed(full, n.commit_index, u)'
  <2>1. CASE Majority(i) # 1
    <3>1. SamePrefix(old, full, n.commit_index) /\ n.commit_index \in Nat
      BY <1>0, <1>3, <1>4, <1>11, <1>12, <2>1, PrefixType
    <3>2. n.commit_index = node[i].commit_index /\ LogInv /\ u <= u
      BY <1>0, <1>4, <2>1 DEF Steps
    <3>3. Committed(old, n.commit_index, u) /\ n.commit_index <= n.commit_index
      BY <1>12, <3>1, <3>2
    <3>4. Committed(full, n.commit_index, u)
      BY <3>1, <3>2, <3>3, CommittedPrefix
    <3>. QED  BY <3>1, <3>2, <3>4, CommittedStays
  <2>2. CASE Majority(i) = 1
    <3> DEFINE k == Len(full)
               B == {q \in Node : Backs(q, u, k)'}
    <3>1. n.commit_index = k /\ k \in DOMAIN full
      BY <1>0, <1>4, <1>11, <2>2
    <3>2. Backs(i, u, k)'
      <4>1. Won(u, i)
        BY <1>0, <1>1 DEF Steps, ElectionInv, RolesAreEarned
      <4>. QED  BY <1>1, <4>1 DEF Won, Backs
    <3>3. Cardinality(B) >= Majority(i)
      BY <2>2, <3>2, OneIsMajority
    <3>4. full[k].term = u
      BY <1>0, <1>11 DEF added
    <3>5. Chosen(u, k)'
      BY <1>6, <1>7, <3>1, <3>3, <3>4 DEF Chosen, Has, Majority, Peers
    <3> HIDE DEF B
    <3>6. /\ u \in DOMAIN term_log' /\ u <= u /\ k \in DOMAIN term_log'[u]
          /\ SamePrefix(full, term_log'[u], k) /\ k <= k
      BY <1>6, <1>7, <1>11, <3>1 DEF SamePrefix
    <3>7. Committed(full, k, u)'
      BY <3>5, <3>6 DEF Committed, SamePrefix
    <3>. QED  BY <3>1, <3>7
  <2>. QED  BY <2>1, <2>2
<1>15. \A p \in Peers(i) :
          \/ n.match_index[p] <= n.commit_index
          \/ \E a \in acks' : /\ a[1] = p /\ a[2] = u
                              /\ a[3] = n.match_index[p]
  <2>1. n.commit_index >= node[i].commit_index /\ n.commit_index \in Nat
    BY <1>0, <1>3, <1>4, <1>11, <1>12
  <2>2. \A p \in Peers(i) : node[i].match_index[p] \in Nat
    BY <1>3 DEF NodeState, Peers
  <2>3. \A p \in Peers(i) :
           \/ node[i].match_index[p] <= node[i].commit_index
           \/ \E a \in acks : /\ a[1] = p /\ a[2] = u
                              /\ a[3] = node[i].match_index[p]
    BY <1>0, <1>1 DEF CommitsFit, MatchesAreAcked
  <2>. QED  BY <1>0, <1>1, <1>3, <1>4, <2>1, <2>2, <2>3
<1> DEFINE out == Heartbeats(i, n)
<1>16. \A m \in out : \E p \in Node : m \in BuildAppendEntries(i, n, p)
  BY DEF Heartbeats, Peers
<1>17. msgs' \subseteq msgs \cup out
  BY <1>0, <1>1
<1> HIDE DEF out
<1>18. /\ \A v \in cast' : v \notin cast => VoterKnows(v)'
       /\ \A e \in elected' : e \notin elected => WinnerKnows(e)'
  BY <1>1
<1>. QED  BY <1>5, <1>8, <1>9, <1>10, <1>13, <1>14, <1>15, <1>16, <1>17, <1>18, PassCommits

-----------------------------------------------------------------------------
(* A request of a leader.                                                  *)

\* The commit index moves only with an accepted request, to the leader's or
\* to the end of the log.
LEMMA HandleAppendEntriesCommit ==
    ASSUME NEW n \in NodeState, NEW m \in AppendEntriesMessage,
           n.snapshot_index <= n.commit_index
    PROVE  LET x == HandleAppendEntries(n, m)
           IN  \/ x.commit_index = n.commit_index
               \/ /\ AcceptsEntries(n, m)
                  /\ m.leader_commit > n.commit_index
                  /\ x.commit_index = Smaller(m.leader_commit, LastLogIndex(x))
<1> DEFINE x == HandleAppendEntries(n, m)
           f == FollowLeader(n, m)
           merged == [f EXCEPT !.log = MergeEntries(f, m)]
           c == Smaller(m.leader_commit, LastLogIndex(merged))
<1>1. f \in NodeState /\ f.commit_index = n.commit_index
      /\ f.snapshot_index = n.snapshot_index /\ SameLog(f, n)
  BY FollowLeaderType, FollowLeaderLog
<1>2. CASE m.term < n.current_term
  BY <1>2 DEF HandleAppendEntries
<1>3. CASE ~(m.term < n.current_term) /\ ~LogMatches(n, m)
  <2>1. x = f
    BY <1>3 DEF HandleAppendEntries
  <2>. QED  BY <1>1, <2>1
<1>4. CASE ~(m.term < n.current_term) /\ LogMatches(n, m)
  <2>1. AcceptsEntries(n, m)
    <3>1. m.term \in Nat /\ n.current_term \in Nat
      BY LogFields DEF AppendEntriesMessage
    <3>. QED  BY <1>4, <3>1 DEF AcceptsEntries
  <2>2. x = IF m.leader_commit > merged.commit_index THEN CommitTo(merged, c) ELSE merged
    BY <1>4 DEF HandleAppendEntries
  <2>3. LogMatches(f, m)
    BY <1>1, <1>4 DEF LogMatches, SameLog, LastLogIndex, TermAt
  <2>4. MergeEntries(f, m) \in Seq(Entry)
    BY <1>1, <2>3, MergeType
  <2> HIDE DEF f
  <2>5. /\ merged \in NodeState /\ merged.commit_index = n.commit_index
        /\ merged.snapshot_index = n.snapshot_index
    BY <1>1, <2>4 DEF NodeState
  <2> HIDE DEF merged
  <2>6. CASE ~(m.leader_commit > merged.commit_index)
    BY <2>2, <2>5, <2>6
  <2>7. CASE m.leader_commit > merged.commit_index
    <3>1. x = CommitTo(merged, c)
      BY <2>2, <2>7
    <3>2. x.commit_index = Smaller(Larger(c, merged.snapshot_index), LastLogIndex(merged))
      BY <2>5, <3>1 DEF CommitTo, NodeState
    <3>3. LastLogIndex(x) = LastLogIndex(merged)
      BY <2>5, <3>1, CommitToLog DEF SameLog, LastLogIndex
    <3>4. /\ LastLogIndex(merged) \in Nat /\ n.commit_index \in Nat
          /\ n.snapshot_index \in Nat /\ m.leader_commit \in Nat
          /\ LastLogIndex(merged) >= merged.snapshot_index
      BY <2>5, LastLogIndexType, LogFields DEF AppendEntriesMessage
    <3> HIDE DEF x
    <3>5. x.commit_index = c
      BY <2>5, <2>7, <3>2, <3>4 DEF Smaller, Larger
    <3>. QED  BY <2>1, <2>5, <2>7, <3>3, <3>5 DEF x
  <2>. QED  BY <2>6, <2>7
<1>. QED  BY <1>2, <1>3, <1>4

\* The follower backs what it acknowledges, and drops only what the leader of
\* the request does not have.
LEMMA MergeBackings ==
    ASSUME Steps, NEW i \in Node, NEW t \in DOMAIN term_log,
           NEW old \in Seq(Entry), old = full_log[i], FollowsLeaders(old),
           NEW full \in Seq(Entry), full = full_log'[i],
           NEW lead \in Seq(Entry), lead = term_log[t], FollowsLeaders(lead),
           SamePrefix(full, lead, Len(full)),
           SamePrefix(old, lead, Len(full)) => full = old,
           node'[i].current_term = t,
           UNCHANGED <<elected, term_log>>,
           acks' = acks \cup {<<i, t, Len(full)>>}
    PROVE  NewBackings(i) /\ KeepsBacked(i)
<1>1. /\ Len(full) \in Nat /\ DOMAIN full = 1 .. Len(full)
      /\ Len(old) \in Nat /\ DOMAIN old = 1 .. Len(old)
      /\ Len(lead) \in Nat /\ DOMAIN lead = 1 .. Len(lead) /\ t \in Nat
  BY TermLogs DEF Steps
<1>2. /\ Len(full) <= Len(lead) /\ \A l \in 1 .. Len(full) : full[l] = lead[l]
  BY DEF SamePrefix
<1>3. ASSUME NEW k \in DOMAIN lead, k <= Len(full), NEW s, Has(lead, k, s)
      PROVE  Has(full, k, s)
  BY <1>1, <1>2, <1>3 DEF Has
<1>4. ASSUME NEW q \in Node, NEW b \in Backed(q)', b \notin Backed(q)
      PROVE  q = i /\ b[1] = t /\ Has(full, b[2], b[1])
  <2>1. /\ b = <<b[1], b[2]>> /\ b[1] \in DOMAIN term_log
        /\ Has(term_log[b[1]], b[2], b[1]) /\ Backs(q, b[1], b[2])'
    BY <1>4, BackedShape
  <2>2. ~Backs(q, b[1], b[2])
    <3> SUFFICES ASSUME Backs(q, b[1], b[2]) PROVE FALSE
      OBVIOUS
    <3>1. <<b[1], b[2]>> \in Backed(q)
      BY <2>1, BackedPair
    <3>. QED  BY <1>4, <2>1, <3>1
  <2>3. PICK a \in acks' : a[1] = q /\ a[2] = b[1] /\ b[2] <= a[3]
    BY <2>1, <2>2 DEF Backs
  <2>4. a \notin acks
    BY <2>2, <2>3 DEF Backs
  <2>5. q = i /\ b[1] = t /\ b[2] <= Len(full)
    BY <2>3, <2>4
  <2>6. b[2] \in DOMAIN lead /\ Has(lead, b[2], b[1])
    BY <2>1, <2>5 DEF Has
  <2>. QED  BY <1>3, <2>5, <2>6
<1>5. ASSUME NEW b \in Backed(i), Has(old, b[2], b[1])
      PROVE  \/ Has(full, b[2], b[1])
             \/ LostBetween(b[1], b[2], node[i].current_term + 1)'
  <2>1. b[1] \in DOMAIN term_log /\ Has(term_log[b[1]], b[2], b[1])
    BY BackedShape
  <2>2. b[2] \in 1 .. Len(old) /\ old[b[2]].term = b[1] /\ b[1] \in Nat
    BY <1>1, <1>5, <2>1, TermLogs DEF Has, Steps
  <2>3. CASE Has(lead, b[2], b[1])
    <3>1. b[2] \in DOMAIN lead /\ lead[b[2]].term = b[1]
      BY <2>3 DEF Has
    <3>2. SamePrefix(old, lead, b[2])
      <4>1. HistoryType
        BY DEF Steps, LogInv
      <4>2. b[2] \in DOMAIN old /\ old[b[2]].term = lead[b[2]].term
        BY <1>1, <2>2, <3>1
      <4>. QED  BY <3>1, <4>1, <4>2, SameTermSamePrefix
    <3>3. CASE b[2] <= Len(full)
      BY <1>3, <2>3, <3>1, <3>3
    <3>4. CASE ~(b[2] <= Len(full))
      <4>1. b[2] \in Nat /\ Len(full) <= b[2]
        BY <1>1, <2>2, <3>4
      <4>2. SamePrefix(old, lead, Len(full))
        BY <1>1, <3>2, <4>1, PrefixType
      <4>. QED  BY <1>5, <4>2
    <3>. QED  BY <3>3, <3>4
  <2>4. CASE ~Has(lead, b[2], b[1])
    <3>1. b[1] # t
      BY <2>1, <2>4
    <3>2. b[1] <= t
      <4>1. b[1] <= node[i].current_term
        BY <1>1, <2>2, NodeLogs DEF Steps
      <4>. QED  BY <1>1, <2>2, <4>1, StepTerms
    <3>3. b[1] < t /\ t < t + 1
      BY <1>1, <2>2, <3>1, <3>2
    <3>4. LostBetween(b[1], b[2], t + 1)'
      BY <2>4, <3>3 DEF LostBetween, Has
    <3>. QED  BY <3>4 DEF LostBetween, Has
  <2>. QED  BY <2>3, <2>4
<1>. QED  BY <1>4, <1>5 DEF NewBackings, KeepsBacked

LEMMA AppendEntriesCommits ==
    ASSUME SaveSucceeds = {TRUE}, Steps, CommitsFit, ~over_ack',
           NEW m \in msgs, ReceiveAppendEntries(m)
    PROVE  CommitsFit'
<1> DEFINE i == m.to
           b == node[i]
           after == HandleAppendEntries(b, m)
           written == FullLog(i, after)
           last == m.prev_log_index + Len(m.entries)
           answer == AppendEntriesReply(i, b, m)
<1>1. /\ after \in NodeState /\ written \in Seq(Entry) /\ Holds(after, written)
      /\ Writes(i, after, written)
      /\ after.current_term = Larger(m.term, b.current_term)
      /\ after.role = IF m.term < b.current_term THEN b.role ELSE "Follower"
      /\ m.term < b.current_term => after = b
      /\ AcceptsEntries(b, m) =>
            /\ SamePrefix(written, term_log[m.term], last)
            /\ written = full_log[i] \/ Len(written) = last
            /\ SamePrefix(full_log[i], term_log[m.term], last) =>
                  written = full_log[i]
      /\ ~AcceptsEntries(b, m) => written = full_log[i]
      /\ over_ack' = (over_ack \/ (AcceptsEntries(b, m) /\ Len(written) > last))
      /\ acks' = IF AcceptsEntries(b, m)
                 THEN acks \cup {<<i, m.term, Len(written)>>} ELSE acks
      /\ UNCHANGED <<cast, elected>>
      /\ msgs' \subseteq msgs \cup {answer}
      /\ answer.type = "AppendEntriesResponse" /\ answer.from = i
      /\ answer.success = AcceptsEntries(b, m)
      /\ answer.success =>
            answer.term = m.term /\ answer.match_index = Len(written)
  BY AppendEntriesPass DEF Steps
<1>2. /\ i \in Node /\ m.from \in Node /\ m.term \in Nat /\ b.current_term \in Nat
      /\ b \in NodeState /\ m \in AppendEntriesMessage /\ m.type = "AppendEntries"
  BY Received DEF Steps, ReceiveAppendEntries
<1>3. Commits(i, after)
  BY <1>1, <1>2, PersistCommits DEF ReceiveAppendEntries, Steps
<1>4. /\ b.snapshot_index <= b.commit_index
      /\ b.commit_index <= LastLogIndex(b)
      /\ Committed(full_log[i], b.commit_index, b.current_term)
  BY <1>2 DEF CommitsFit, CommitsAreChosen
<1>5. \/ after.commit_index = b.commit_index
      \/ /\ AcceptsEntries(b, m)
         /\ m.leader_commit > b.commit_index
         /\ after.commit_index = Smaller(m.leader_commit, LastLogIndex(after))
  <2> HIDE DEF b
  <2>. QED  BY <1>2, <1>4, HandleAppendEntriesCommit
<1>6. /\ after.snapshot_index = b.snapshot_index
      /\ ~AcceptsEntries(b, m) => SameLog(after, b)
  <2> HIDE DEF b
  <2>. QED  BY <1>2, HandleAppendEntriesLog DEF SameLog
<1>7. \A p \in Peers(i) : b.role = "Leader" =>
         \/ b.match_index[p] <= b.commit_index
         \/ \E a \in acks : /\ a[1] = p /\ a[2] = b.current_term
                            /\ a[3] = b.match_index[p]
  BY <1>2 DEF CommitsFit, MatchesAreAcked
<1> HIDE DEF after, answer, written, last
<1>8. after.current_term >= b.current_term
  BY <1>1, <1>2 DEF Larger
<1>9. CASE ~AcceptsEntries(b, m)
  <2>1. /\ after.commit_index >= b.commit_index
        /\ after.commit_index <= Len(full_log[i])
        /\ Committed(full_log[i], after.commit_index, after.current_term)
    BY <1>1, <1>2, <1>5, <1>8, <1>9, KeepsCommit DEF CommitsFit
  <2>2. Writes(i, after, full_log[i]) /\ UNCHANGED <<cast, elected, acks>>
    BY <1>1, <1>9
  <2>3. /\ after.role = "Leader" => b.role = "Leader" /\ after = b
        /\ after.role = "Candidate" => b.role = "Candidate"
    BY <1>1
  <2>4. \A v \in cast' : v \notin cast => VoterKnows(v)'
    BY <1>1
  <2> DEFINE out == {answer}
  <2>5. msgs' \subseteq msgs \cup out /\ \A x \in out : Backing(x)'
    BY <1>1, <1>9 DEF Backing
  <2>6. after.role = "Leader" => \A p \in Peers(i) :
           \/ after.match_index[p] <= after.commit_index
           \/ \E a \in acks : /\ a[1] = p /\ a[2] = after.current_term
                              /\ a[3] = after.match_index[p]
    BY <1>7, <2>3
  <2> HIDE DEF out
  <2>. QED  BY <1>1, <1>2, <1>3, <1>6, <1>9, <2>1, <2>2, <2>3, <2>4, <2>5, <2>6, QuietCommits
<1>10. CASE AcceptsEntries(b, m)
  <2>1. m.term >= b.current_term /\ after.current_term = m.term /\ after.role = "Follower"
    <3>1. m.term >= b.current_term
      BY <1>10 DEF AcceptsEntries
    <3>. QED  BY <1>1, <1>2, <3>1 DEF Larger
  <2>2. CarriesLog(m) /\ m.term \in DOMAIN term_log
    BY <1>2 DEF Steps, LogInv, MessagesCarryLogs, CarriesLog
  <2>3. /\ term_log[m.term] \in Seq(Entry) /\ FollowsLeaders(term_log[m.term])
        /\ full_log[i] \in Seq(Entry) /\ FollowsLeaders(full_log[i])
        /\ LastLogIndex(b) = Len(full_log[i]) /\ b.commit_index \in Nat
    BY <1>2, <2>2, TermLogs, NodeLogs DEF Steps
  <2>4. Committed(term_log[m.term], m.leader_commit, m.term) /\ m.leader_commit \in Nat
    BY <1>2 DEF CommitsFit, MessagesAreBacked, Backing, AppendEntriesMessage
  <2>5. last \in Nat
    BY <1>2 DEF last, AppendEntriesMessage
  <2>6. SUFFICES ASSUME NEW n \in NodeState, n = after,
                        NEW full \in Seq(Entry), full = written,
                        NEW old \in Seq(Entry), old = full_log[i],
                        NEW lead \in Seq(Entry), lead = term_log[m.term]
                 PROVE  CommitsFit'
    BY <1>1, <2>3
  <2>7. Len(full) = last /\ Len(full) \in Nat /\ SamePrefix(full, lead, Len(full))
        /\ (SamePrefix(old, lead, Len(full)) => full = old)
    <3>1. SamePrefix(full, lead, last) /\ ~(Len(full) > last)
      BY <1>1, <1>10, <2>6
    <3>2. Len(full) \in Nat /\ last <= Len(full)
      BY <3>1 DEF SamePrefix
    <3>3. Len(full) = last
      BY <2>5, <3>1, <3>2
    <3>. QED  BY <1>1, <1>10, <2>6, <3>1, <3>2, <3>3
  <2>8. /\ Writes(i, n, full) /\ Holds(n, full) /\ Commits(i, n)
        /\ n.current_term = m.term /\ n.role = "Follower"
        /\ n.snapshot_index = b.snapshot_index
    BY <1>1, <1>3, <1>6, <2>1, <2>6
  <2>9. /\ full_log'[i] = full /\ term_log' = term_log
        /\ \A j \in Node \ {i} : full_log'[j] = full_log[j] /\ node'[j] = node[j]
        /\ node'[i].current_term = m.term /\ node'[i].role = "Follower"
    BY <1>2, <2>8 DEF Writes, Steps, LogInv, HistoryType
  <2>10. acks' = acks \cup {<<i, m.term, Len(full)>>} /\ UNCHANGED elected
    BY <1>1, <1>10, <2>6
  <2>11. NewBackings(i) /\ KeepsBacked(i)
    BY <1>2, <2>2, <2>3, <2>6, <2>7, <2>9, <2>10, MergeBackings
  <2>12. CandidateKeeps(i)
    BY <2>9 DEF CandidateKeeps
  <2>13. AcksAreExact'
    <3>1. Len(full) <= Len(lead)
      BY <2>7 DEF SamePrefix
    <3> DEFINE a == <<i, m.term, Len(full)>>
    <3>2. a[1] = i /\ a[2] = m.term /\ a[3] = Len(full)
      OBVIOUS
    <3>3. acks' = acks \cup {a}
      BY <2>10
    <3> HIDE DEF a
    <3>4. /\ a[2] <= node'[a[1]].current_term
          /\ a[2] \in DOMAIN term_log'
          /\ a[3] <= Len(term_log'[a[2]])
      BY <1>2, <2>2, <2>6, <2>9, <3>1, <3>2
    <3>. QED  BY <3>3, <3>4, AcksStay DEF CommitsFit
  <2>14. /\ n.commit_index \in Nat /\ n.commit_index <= Len(full)
         /\ n.snapshot_index <= n.commit_index
         /\ Committed(full, n.commit_index, m.term)
    <3>1. CASE n.commit_index = b.commit_index
      <4> DEFINE c == b.commit_index
      <4>1. c # 0 => SamePrefix(old, lead, c)
        BY <1>2, <1>4, <2>1, <2>2, <2>3, <2>6, LeaderHasCommitted DEF Steps, CommitsFit
      <4>2. c <= Len(full)
        <5>1. CASE c >= Len(full) /\ c # 0
          <6>1. SamePrefix(old, lead, Len(full))
            BY <2>3, <2>7, <4>1, <5>1, PrefixType
          <6>2. full = old
            BY <2>7, <6>1
          <6>. QED  BY <1>4, <2>3, <2>6, <6>2
        <5>. QED  BY <2>3, <2>7, <5>1
      <4>3. Committed(full, c, m.term)
        <5>1. CASE c = 0
          BY <5>1 DEF Committed
        <5>2. CASE c # 0
          <6>1. SamePrefix(lead, full, c) /\ SamePrefix(old, lead, c)
            BY <2>3, <2>7, <4>1, <4>2, <5>2, PrefixType
          <6>2. SamePrefix(old, full, c)
            BY <6>1, PrefixTrans
          <6>3. c <= c /\ LogInv /\ Committed(old, c, b.current_term)
            BY <1>4, <2>3, <2>6 DEF Steps
          <6>. QED  BY <1>2, <2>1, <2>3, <6>2, <6>3, CommittedPrefix
        <5>. QED  BY <5>1, <5>2
      <4>. QED  BY <1>4, <2>3, <2>8, <3>1, <4>2, <4>3
    <3>2. CASE n.commit_index # b.commit_index
      <4>1. /\ m.leader_commit > b.commit_index
            /\ n.commit_index = Smaller(m.leader_commit, Len(full))
        BY <1>5, <2>6, <2>8, <3>2 DEF Holds
      <4>2. LastLogIndex(n) >= n.snapshot_index /\ LastLogIndex(n) = Len(full)
            /\ n.snapshot_index \in Nat
        BY <2>8, LastLogIndexType, LogFields DEF Holds
      <4>3. /\ n.commit_index \in Nat /\ n.commit_index <= Len(full)
            /\ n.commit_index <= m.leader_commit /\ n.snapshot_index <= n.commit_index
        BY <1>4, <2>3, <2>4, <2>7, <2>8, <4>1, <4>2 DEF Smaller
      <4>4. SamePrefix(lead, full, n.commit_index)
        BY <2>7, <4>3, PrefixType
      <4>5. Committed(full, n.commit_index, m.term)
        <5>1. LogInv /\ Committed(lead, m.leader_commit, m.term) /\ m.term <= m.term
          BY <1>2, <2>4, <2>6 DEF Steps
        <5>. QED  BY <1>2, <2>4, <4>3, <4>4, <5>1, CommittedPrefix
      <4>. QED  BY <4>3, <4>5
    <3>. QED  BY <3>1, <3>2
  <2>15. Committed(full, n.commit_index, n.current_term)'
    <3>1. m.term <= m.term
      BY <1>2
    <3>. QED  BY <1>2, <2>8, <2>14, <3>1, CommittedStays
  <2>16. /\ \A v \in cast' : v \notin cast => VoterKnows(v)'
         /\ \A e \in elected' : e \notin elected => WinnerKnows(e)'
    BY <1>1
  <2> DEFINE out == {answer}
  <2>17. msgs' \subseteq msgs \cup out /\ \A x \in out : Backing(x)'
    BY <1>1, <2>6, <2>10 DEF Backing
  <2> HIDE DEF out
  <2>. QED  BY <1>2, <2>8, <2>11, <2>12, <2>13, <2>14, <2>15, <2>16, <2>17, PassCommits
<1>. QED  BY <1>9, <1>10

-----------------------------------------------------------------------------

LEMMA CommitInit == Init => CommitInv
<1> SUFFICES ASSUME Init PROVE CommitsFit
  BY DEF CommitInv
<1>1. /\ node = [i \in Node |-> NewNode]
      /\ disk = [i \in Node |-> FromNode(NewNode, << >>)]
      /\ msgs = {} /\ elected = {} /\ acks = {} /\ cast = {}
  BY DEF Init
<1>2. \A i \in Node : /\ node[i].role = "Follower" /\ node[i].commit_index = 0
                      /\ node[i].snapshot_index = 0 /\ node[i].log = << >>
                      /\ disk[i].commit_index = 0
  BY <1>1 DEF NewNode, FromNode
<1>3. \A q : Backed(q) = {}
  BY <1>1 DEF Backed, Backs
<1>4. CommitsAreChosen
  BY <1>2 DEF CommitsAreChosen, Committed, LastLogIndex
<1>. QED  BY <1>1, <1>2, <1>3, <1>4
          DEF CommitsFit, AcksAreExact, BackersKeep, VotersKnow, MatchesAreAcked,
              MessagesAreBacked

\* Nothing happens, or a message is lost.
LEMMA IdleCommits ==
    ASSUME Steps, CommitsFit, msgs' \subseteq msgs,
           UNCHANGED <<node, disk, cast, elected, acks, full_log, term_log>>
    PROVE  CommitsFit'
<1>1. PICK i \in Node : TRUE
  BY NodeAssumption
<1>2. NewBackings(i)
  BY SameBackings
<1>3. KeepsBacked(i) /\ CandidateKeeps(i)
  BY DEF KeepsBacked, CandidateKeeps
<1>4. BackersKeep'
  BY <1>2, <1>3, BackersStay DEF CommitsFit
<1>5. VotersKnow'
  BY <1>2, <1>3, VoterStays, WinnerStays DEF CommitsFit, VotersKnow
<1>6. AcksAreExact' /\ MatchesAreAcked'
  BY DEF CommitsFit, AcksAreExact, MatchesAreAcked, Peers
<1>7. CommitsAreChosen'
  <2> SUFFICES ASSUME NEW j \in Node
               PROVE  Committed(full_log[j], node[j].commit_index,
                                node[j].current_term)'
    BY DEF CommitsFit, CommitsAreChosen, LastLogIndex
  <2>1. /\ full_log[j] \in Seq(Entry) /\ node[j].commit_index \in Nat
        /\ node[j].current_term \in Nat
        /\ Committed(full_log[j], node[j].commit_index, node[j].current_term)
    BY NodeLogs DEF Steps, CommitsFit, CommitsAreChosen
  <2> SUFFICES ASSUME NEW log \in Seq(Entry), log = full_log[j],
                      NEW c \in Nat, c = node[j].commit_index,
                      NEW w \in Nat, w = node[j].current_term
               PROVE  Committed(full_log[j], node[j].commit_index,
                                node[j].current_term)'
    BY <2>1
  <2>2. Committed(log, c, w)'
    BY <2>1, CommittedStays
  <2>. QED  BY <2>2 DEF Committed, SamePrefix
<1> DEFINE out == {}
<1>8. msgs' \subseteq msgs \cup out /\ \A m \in out : Backing(m)'
  OBVIOUS
<1> HIDE DEF out
<1>9. MessagesAreBacked'
  BY <1>3, <1>8, MessagesStay DEF CommitsFit
<1>. QED  BY <1>4, <1>5, <1>6, <1>7, <1>9 DEF CommitsFit

LEMMA CommitNext ==
    ASSUME SaveSucceeds = {TRUE}, TypeOK, ElectionInv, LogInv, CommitInv, [Next]_vars
    PROVE  CommitInv'
<1> SUFFICES ASSUME ~over_ack' PROVE CommitsFit'
  BY DEF CommitInv
<1>1. Steps
  BY NextSteps
<1>2. ~over_ack
  BY DEF Next, vars, TickIdle, TickHeartbeat, TickElection, ForceElection,
         Propose, Restart, ReceiveRequestVote, ReceiveRequestVoteResponse,
         ReceiveAppendEntries, ReceiveAppendEntriesResponse, Lose
<1>3. CommitsFit
  BY <1>2 DEF CommitInv
<1>4. ASSUME NEW i \in Node, TickIdle(i) \/ TickHeartbeat(i)
      PROVE  CommitsFit'
  BY <1>1, <1>3, <1>4, TickCommits
<1>5. ASSUME NEW i \in Node, TickElection(i) \/ ForceElection(i)
      PROVE  CommitsFit'
  BY <1>1, <1>3, <1>5, StandCommits
<1>6. ASSUME NEW i \in Node, NEW command \in Value, Propose(i, command)
      PROVE  CommitsFit'
  BY <1>1, <1>3, <1>6, ProposeCommits
<1>7. ASSUME NEW i \in Node, Restart(i) PROVE CommitsFit'
  BY <1>1, <1>3, <1>7, RestartCommits
<1>8. ASSUME NEW m \in msgs, ReceiveRequestVote(m) PROVE CommitsFit'
  BY <1>1, <1>3, <1>8, RequestVoteCommits
<1>9. ASSUME NEW m \in msgs, ReceiveRequestVoteResponse(m) PROVE CommitsFit'
  BY <1>1, <1>3, <1>9, RequestVoteResponseCommits
<1>10. ASSUME NEW m \in msgs, ReceiveAppendEntries(m) PROVE CommitsFit'
  BY <1>1, <1>3, <1>10, AppendEntriesCommits
<1>11. ASSUME NEW m \in msgs, ReceiveAppendEntriesResponse(m) PROVE CommitsFit'
  BY <1>1, <1>3, <1>11, AppendEntriesResponseCommits
<1>12. ASSUME NEW m \in msgs, Lose(m) PROVE CommitsFit'
  BY <1>1, <1>3, <1>12, IdleCommits DEF Lose
<1>13. CASE UNCHANGED vars
  BY <1>1, <1>3, <1>13, IdleCommits DEF vars
<1>. QED  BY <1>4, <1>5, <1>6, <1>7, <1>8, <1>9, <1>10, <1>11, <1>12, <1>13 DEF Next

\* When every save succeeds, acknowledgements, votes, match indices and commit
\* indices fit the logs of the leaders in every reachable state in which no
\* follower has acknowledged more than a request carried: the inductive
\* invariant behind the theorems below.
THEOREM CommitInvariant ==
    ASSUME SaveSucceeds = {TRUE}
    PROVE  Spec => []CommitInv
<1>1. Init => CommitInv
  BY CommitInit
<1>2. TypeOK /\ ElectionInv /\ LogInv /\ CommitInv /\ [Next]_vars => CommitInv'
  BY CommitNext
<1>. QED  BY <1>1, <1>2, TypeCorrect, ElectionInvariant, LogInvariant, PTL DEF Spec

\* A leader has every entry that a node of its term or an earlier one holds
\* committed, for clusters and logs of any size and any number of restarts,
\* lost, repeated and reordered messages, as long as no follower has
\* acknowledged more than a request carried: the vote restriction of
\* handle_request_vote and the counting of try_advance_commit_index meet in a
\* voter that had acknowledged the entry.
THEOREM LeadersAreComplete ==
    ASSUME SaveSucceeds = {TRUE}
    PROVE  Spec => []LeaderCompleteness
<1>1. ASSUME TypeOK, ElectionInv, LogInv, CommitInv, ~over_ack,
             NEW i \in Node, NEW j \in Node, node[i].role = "Leader",
             node[i].current_term >= node[j].current_term
      PROVE  /\ LastLogIndex(node[i]) >= node[j].commit_index
             /\ \A k \in 1 .. node[j].commit_index :
                   (TermAt(node[i], k) # NoTerm /\ TermAt(node[j], k) # NoTerm) =>
                       TermAt(node[i], k) = TermAt(node[j], k)
  <2> DEFINE a == node[i]
             b == node[j]
             f == full_log[i]
             g == full_log[j]
             c == b.commit_index
             t == a.current_term
  <2>1. CommitsFit
    BY <1>1 DEF CommitInv
  <2>2. /\ a \in NodeState /\ b \in NodeState
        /\ f \in Seq(Entry) /\ g \in Seq(Entry) /\ Holds(a, f) /\ Holds(b, g)
        /\ c \in Nat /\ t \in Nat /\ b.current_term \in Nat
        /\ LastLogIndex(a) = Len(f) /\ Len(f) \in Nat /\ LastLogIndex(b) = Len(g)
    BY <1>1, NodeLogs
  <2>3. t \in DOMAIN term_log /\ term_log[t] = f
    BY <1>1 DEF LogInv, LeadersHaveLogs, ElectionInv, RolesAreEarned, Won
  <2>4. Committed(g, c, b.current_term) /\ VotersKnow
    BY <2>1 DEF CommitsFit, CommitsAreChosen
  <2>5. c # 0 => SamePrefix(g, f, c)
    BY <1>1, <2>2, <2>3, <2>4, LeaderHasCommitted
  <2> HIDE DEF a, b, f, g, c
  <2>6. c <= Len(f)
    BY <2>2, <2>5 DEF SamePrefix
  <2>7. ASSUME NEW k \in 1 .. c, TermAt(a, k) # NoTerm, TermAt(b, k) # NoTerm
        PROVE  TermAt(a, k) = TermAt(b, k)
    <3>1. k \in Nat /\ k # 0 /\ c # 0
      BY <2>2
    <3>2. TermAt(a, k) = f[k].term
      BY <2>2, <2>7, <3>1, TermAtFull
    <3>3. TermAt(b, k) = g[k].term
      BY <2>2, <2>7, <3>1, TermAtFull
    <3>4. g[k] = f[k]
      BY <2>5, <3>1 DEF SamePrefix
    <3>. QED  BY <3>2, <3>3, <3>4
  <2>. QED  BY <2>2, <2>6, <2>7 DEF a, b, c
<1>2. TypeOK /\ ElectionInv /\ LogInv /\ CommitInv => LeaderCompleteness
  BY <1>1 DEF LeaderCompleteness
<1>. QED  BY <1>2, TypeCorrect, ElectionInvariant, LogInvariant, CommitInvariant, PTL

-----------------------------------------------------------------------------
(* The state machines of processes that do not restart.                    *)

\* What take_unapplied_entries returns is what is committed and not yet
\* executed.
LEMMA RunsCommitted ==
    ASSUME NEW n \in NodeState, NEW full \in Seq(Entry), Holds(n, full),
           n.snapshot_index <= n.last_applied,
           n.last_applied <= n.commit_index, n.commit_index <= Len(full),
           NEW executed \in Seq(Value), Ran(executed, full, n.last_applied)
    PROVE  /\ Ran(Executed(executed, n), full, n.commit_index)
           /\ MarkApplied(n).last_applied = n.commit_index
<1> DEFINE s == n.snapshot_index
           a == n.last_applied
           c == n.commit_index
           log == n.log
           part == SubSeq(log, a - s + 1, c - s)
<1>1. /\ log \in Seq(Entry) /\ Len(log) \in Nat /\ s \in Nat /\ c \in Nat /\ a \in Nat
      /\ LastLogIndex(n) = s + Len(log)
  BY LogFields DEF NodeState
<1>2. /\ s + Len(log) = Len(full)
      /\ \A k \in 1 .. Len(log) : log[k] = full[s + k]
  BY <1>1 DEF Holds
<1>3. AppliedFloor(n) = a /\ AppliedEnd(n) = c
  BY <1>1, <1>2 DEF AppliedFloor, AppliedEnd, Larger, Smaller
<1>4. UnappliedEntries(n) = part
  BY <1>3 DEF UnappliedEntries
<1>5. MarkApplied(n).last_applied = c
  BY <1>3 DEF MarkApplied, NodeState
<1>6. a - s + 1 \in 1 .. Len(log) + 1 /\ c - s \in 0 .. Len(log)
  <2>1. s <= a /\ a <= c /\ c <= s + Len(log)
    BY <1>2
  <2> HIDE DEF s, a, c, log
  <2>. QED  BY <1>1, <2>1
<1> HIDE DEF s, a, c, log
<1>7. /\ part \in Seq(Entry) /\ Len(part) = c - a
      /\ \A k \in 1 .. c - a : part[k] = log[a - s + k]
  <2>1. a <= c
    BY DEF a, c
  <2>2. CASE a = c
    BY <1>1, <1>6, <2>2
  <2>3. CASE a < c
    <3> DEFINE x == a - s + 1
               y == c - s
    <3>1. x \in 1 .. Len(log) /\ y \in x .. Len(log) /\ y - x + 1 = c - a
      BY <1>1, <1>6, <2>3
    <3>2. \A k \in 1 .. c - a : x + k - 1 = a - s + k
      BY <1>1
    <3> HIDE DEF x, y
    <3>3. /\ SubSeq(log, x, y) \in Seq(Entry) /\ Len(SubSeq(log, x, y)) = y - x + 1
          /\ \A k \in 1 .. y - x + 1 : SubSeq(log, x, y)[k] = log[x + k - 1]
      <4>1. \A k \in x .. y : log[k] \in Entry
        BY <1>1, <3>1
      <4>2. x \in Int /\ y \in Int /\ x <= y
        BY <3>1
      <4>. QED  BY <4>1, <4>2, SubSeqProperties
    <3>. QED  BY <3>1, <3>2, <3>3 DEF x, y
  <2>. QED  BY <1>1, <2>1, <2>2, <2>3, SMTT(30)
<1> HIDE DEF part
<1> DEFINE new == Commands(part)
<1>8. /\ new \in Seq(Value) /\ Len(new) = c - a
      /\ \A k \in 1 .. c - a : new[k] = part[k].command
  <2>1. \A k \in 1 .. Len(part) : part[k].command \in Value
    <3>1. \A k \in 1 .. Len(part) : part[k] \in Entry
      BY <1>7
    <3>. QED  BY <3>1 DEF Entry
  <2>2. new = [k \in 1 .. Len(part) |-> part[k].command] /\ Len(part) \in Nat
    BY <1>7 DEF Commands
  <2> HIDE DEF new
  <2>3. new \in Seq(Value)
    BY <2>1, <2>2
  <2>4. DOMAIN new = 1 .. Len(part)
    BY <2>2
  <2>5. Len(new) = Len(part)
    BY <2>2, <2>3, <2>4
  <2>. QED  BY <1>7, <2>2, <2>3, <2>5
<1> HIDE DEF new
<1>9. Executed(executed, n) = executed \o new
  BY <1>4 DEF Executed, new
<1>10. Len(executed) = a /\ \A k \in 1 .. a : executed[k] = full[k].command
  BY DEF Ran, a
<1>11. c - a \in Nat
  BY <1>1 DEF a, c
<1> DEFINE all == executed \o new
<1>12. Len(all) = c
  <2>1. Len(all) = Len(executed) + Len(new)
    BY <1>8, ConcatProperties, Zenon
  <2> HIDE DEF all
  <2>. QED  BY <1>1, <1>8, <1>10, <2>1
<1>13. ASSUME NEW k \in 1 .. c PROVE all[k] = full[k].command
  <2>1. CASE k <= a
    BY <1>1, <1>8, <1>10, <1>13, <2>1
  <2>2. CASE k > a
    <3>1. k - a \in 1 .. c - a
      BY <1>1, <2>2
    <3>2. all[k] = new[k - a]
      BY <1>1, <1>8, <1>10, <1>13, <2>2
    <3>3. new[k - a] = log[k - s].command
      <4>1. a - s + (k - a) = k - s
        BY <1>1
      <4>2. new[k - a] = part[k - a].command
        BY <1>8, <3>1
      <4>3. part[k - a] = log[a - s + (k - a)]
        BY <1>7, <3>1
      <4>. QED  BY <4>1, <4>2, <4>3
    <3>4. k - s \in 1 .. Len(log) /\ s + (k - s) = k
      BY <1>1, <1>6, <2>2
    <3>5. log[k - s] = full[k]
      BY <1>2, <3>4 DEF s, log
    <3>. QED  BY <3>2, <3>3, <3>5
  <2>3. k <= a \/ k > a
    BY <1>1
  <2>. QED  BY <2>1, <2>2, <2>3
<1>14. Ran(all, full, c)
  BY <1>12, <1>13 DEF Ran
<1>. QED  BY <1>5, <1>9, <1>14 DEF c

\* No handler executes anything: last_applied moves in the tail of a pass.
LEMMA VotesApplyNothing ==
    ASSUME NEW i \in Node, NEW n \in NodeState
    PROVE  /\ StartElection(i, n).last_applied = n.last_applied
           /\ \A term, leader :
                 BecomeFollower(n, term, leader).last_applied = n.last_applied
           /\ \A m \in RequestVoteMessage :
                 HandleRequestVote(n, m).last_applied = n.last_applied
           /\ \A m \in RequestVoteResponseMessage :
                 HandleRequestVoteResponse(i, n, m).last_applied = n.last_applied
<1>1. StartElection(i, n).last_applied = n.last_applied
  BY DEF StartElection, NodeState
<1>2. \A term, leader : BecomeFollower(n, term, leader).last_applied = n.last_applied
  BY DEF BecomeFollower, NodeState
<1>3. ASSUME NEW m \in RequestVoteMessage
      PROVE  HandleRequestVote(n, m).last_applied = n.last_applied
  <2> DEFINE x == SeenTerm(n, m)
  <2>1. x \in NodeState /\ x.last_applied = n.last_applied
    BY <1>2, SeenTermType DEF SeenTerm, RequestVoteMessage
  <2>2. HandleRequestVote(n, m) \in {x, [x EXCEPT !.voted_for = m.from]}
    BY DEF HandleRequestVote
  <2> HIDE DEF x
  <2>. QED  BY <2>1, <2>2 DEF NodeState
<1>4. ASSUME NEW m \in RequestVoteResponseMessage
      PROVE  HandleRequestVoteResponse(i, n, m).last_applied = n.last_applied
  <2> DEFINE counted == [n EXCEPT !.votes_received = Tally(n, m)]
  <2>1. counted.last_applied = n.last_applied
    BY DEF NodeState
  <2>2. BecomeLeader(i, counted).last_applied = n.last_applied
    BY DEF NodeState, BecomeLeader
  <2>3. HandleRequestVoteResponse(i, n, m) \in
           {BecomeFollower(n, m.term, Nil), n, BecomeLeader(i, counted), counted}
    BY DEF HandleRequestVoteResponse
  <2> HIDE DEF counted
  <2>. QED  BY <1>2, <2>1, <2>2, <2>3
<1>. QED  BY <1>1, <1>2, <1>3, <1>4

LEMMA ReplicationAppliesNothing ==
    ASSUME NEW i \in Node, NEW n \in NodeState
    PROVE  /\ \A m \in AppendEntriesMessage :
                 HandleAppendEntries(n, m).last_applied = n.last_applied
           /\ \A m \in AppendEntriesResponseMessage :
                 HandleAppendEntriesResponse(i, n, m).last_applied = n.last_applied
           /\ \A command \in Value :
                 ProposeCommand(i, n, command).last_applied = n.last_applied
<1>1. ASSUME NEW m \in AppendEntriesMessage
      PROVE  HandleAppendEntries(n, m).last_applied = n.last_applied
  <2> DEFINE f == FollowLeader(n, m)
             merged == [f EXCEPT !.log = MergeEntries(f, m)]
             c == Smaller(m.leader_commit, LastLogIndex(merged))
  <2>1. f \in NodeState
    BY FollowLeaderType
  <2>2. f.last_applied = n.last_applied
    <3>1. [n EXCEPT !.leader_id = m.from].last_applied = n.last_applied
      BY DEF NodeState
    <3>2. BecomeFollower(n, m.term, m.from).last_applied = n.last_applied
      BY VotesApplyNothing
    <3>. QED  BY <3>1, <3>2 DEF FollowLeader
  <2>3. HandleAppendEntries(n, m) \in {n, f, CommitTo(merged, c), merged}
    BY DEF HandleAppendEntries
  <2> HIDE DEF f, c
  <2>4. /\ merged.last_applied = f.last_applied
        /\ CommitTo(merged, c).last_applied = f.last_applied
    BY <2>1 DEF NodeState, CommitTo
  <2>. QED  BY <2>2, <2>3, <2>4
<1>2. ASSUME NEW m \in AppendEntriesResponseMessage
      PROVE  HandleAppendEntriesResponse(i, n, m).last_applied = n.last_applied
  <2> DEFINE counted == [n EXCEPT !.match_index[m.from] = m.match_index,
                                  !.next_index[m.from] = m.match_index + 1]
             back == [n EXCEPT !.next_index[m.from] =
                       Larger((IF @ = 0 THEN LastLogIndex(n) + 1 ELSE @) - 1, 1)]
  <2>1. /\ counted.last_applied = n.last_applied /\ back.last_applied = n.last_applied
        /\ \A c : CommitTo(counted, c).last_applied = n.last_applied
    BY DEF NodeState, CommitTo
  <2>2. HandleAppendEntriesResponse(i, n, m) \in
           {BecomeFollower(n, m.term, Nil), n, TryAdvanceCommit(i, counted), back}
    BY DEF HandleAppendEntriesResponse
  <2> HIDE DEF counted, back
  <2>3. TryAdvanceCommit(i, counted).last_applied = n.last_applied
    BY <2>1 DEF TryAdvanceCommit
  <2>. QED  BY <2>1, <2>2, <2>3, VotesApplyNothing
<1>3. ASSUME NEW command \in Value
      PROVE  ProposeCommand(i, n, command).last_applied = n.last_applied
  BY DEF ProposeCommand, NodeState, CommitTo
<1>. QED  BY <1>1, <1>2, <1>3

-----------------------------------------------------------------------------
(* What is committed in a log stays there.                                 *)

LEMMA CommitsAgree ==
    (TypeOK /\ ElectionInv /\ LogInv /\ VotersKnow) =>
        \A a, b \in Seq(Entry) : \A c, d, w, x \in Nat :
            (c # 0 /\ c <= d /\ Committed(a, c, w) /\ Committed(b, d, x)) =>
                SamePrefix(a, b, c)
BY CommittedTogether

\* The handler of a pass leaves what is executed and the snapshot point alone,
\* and the commit index does not go back.
Forward(i, n) ==
    /\ n.last_applied = node[i].last_applied
    /\ n.snapshot_index = node[i].snapshot_index
    /\ n.snapshot_term = node[i].snapshot_term
    /\ n.commit_index >= node[i].commit_index

\* A pass of node i with n left by the handler.
Pass(i, n) ==
    /\ n \in NodeState
    /\ Forward(i, n)
    /\ \/ ApplyAndPersist(i, n)
       \/ /\ Persist(i, n, state_machine[i])
          /\ n.commit_index = node[i].commit_index

LEMMA VotePasses ==
    ASSUME Steps, NEW i \in Node
    PROVE  /\ TickIdle(i) \/ TickHeartbeat(i) => \E n : Pass(i, n)
           /\ TickElection(i) \/ ForceElection(i) => \E n : Pass(i, n)
           /\ \A m \in msgs : (m.to = i /\ ReceiveRequestVote(m)) =>
                 \E n : Pass(i, n)
           /\ \A m \in msgs : (m.to = i /\ ReceiveRequestVoteResponse(m)) =>
                 \E n : Pass(i, n)
<1> DEFINE b == node[i]
<1>1. b \in NodeState /\ b.commit_index \in Nat
  BY NodeLogs DEF Steps
<1>2. ASSUME TickIdle(i) \/ TickHeartbeat(i) PROVE Pass(i, b)
  BY <1>1, <1>2 DEF TickIdle, TickHeartbeat, Pass, Forward
<1>3. ASSUME TickElection(i) \/ ForceElection(i) PROVE Pass(i, StartElection(i, b))
  <2>1. /\ StartElection(i, b) \in NodeState /\ SameLog(StartElection(i, b), b)
        /\ StartElection(i, b).commit_index = b.commit_index
        /\ StartElection(i, b).last_applied = b.last_applied
    BY <1>1, StartElectionType, StartElectionLog, VotesApplyNothing
  <2>. QED  BY <1>1, <1>3, <2>1 DEF TickElection, ForceElection, Pass, Forward, SameLog
<1>4. ASSUME NEW m \in msgs, m.to = i, ReceiveRequestVote(m)
      PROVE  Pass(i, HandleRequestVote(b, m))
  <2>1. m \in RequestVoteMessage
    BY <1>4, Received DEF Steps, ReceiveRequestVote
  <2>2. /\ HandleRequestVote(b, m) \in NodeState /\ SameLog(HandleRequestVote(b, m), b)
        /\ HandleRequestVote(b, m).commit_index = b.commit_index
        /\ HandleRequestVote(b, m).last_applied = b.last_applied
    BY <1>1, <2>1, HandleRequestVoteType, HandleRequestVoteLog, VotesApplyNothing
  <2>3. ApplyAndPersist(i, HandleRequestVote(b, m))
    BY <1>4 DEF ReceiveRequestVote
  <2>. QED  BY <1>1, <2>2, <2>3 DEF Pass, Forward, SameLog
<1>5. ASSUME NEW m \in msgs, m.to = i, ReceiveRequestVoteResponse(m)
      PROVE  Pass(i, HandleRequestVoteResponse(i, b, m))
  <2> DEFINE n == HandleRequestVoteResponse(i, b, m)
  <2>1. m \in RequestVoteResponseMessage
    BY <1>5, Received DEF Steps, ReceiveRequestVoteResponse
  <2>2. /\ n \in NodeState /\ SameLog(n, b)
        /\ n.commit_index = b.commit_index /\ n.last_applied = b.last_applied
    BY <1>1, <2>1, HandleRequestVoteResponseType, HandleRequestVoteResponseLog,
       VotesApplyNothing
  <2>3. ApplyAndPersist(i, n)
    BY <1>5 DEF ReceiveRequestVoteResponse
  <2> HIDE DEF n
  <2>. QED  BY <1>1, <2>2, <2>3 DEF Pass, Forward, SameLog, n
<1>. QED  BY <1>2, <1>3, <1>4, <1>5

\* A leader does not lower its commit index, and the merge of a follower
\* never drops what the follower holds committed.
LEMMA ReplicationPasses ==
    ASSUME SaveSucceeds = {TRUE}, Steps, CommitsFit, NEW i \in Node
    PROVE  /\ \A command \in Value : Propose(i, command) => \E n : Pass(i, n)
           /\ \A m \in msgs : (m.to = i /\ ReceiveAppendEntries(m)) =>
                 \E n : Pass(i, n)
           /\ \A m \in msgs : (m.to = i /\ ReceiveAppendEntriesResponse(m)) =>
                 \E n : Pass(i, n)
<1> DEFINE b == node[i]
<1>1. /\ b \in NodeState /\ b.commit_index \in Nat /\ b.current_term \in Nat
      /\ LastLogIndex(b) = Len(full_log[i]) /\ full_log[i] \in Seq(Entry)
      /\ LastLogIndex(b) \in Nat
  BY NodeLogs DEF Steps
<1>2. /\ b.snapshot_index <= b.commit_index /\ b.commit_index <= LastLogIndex(b)
      /\ Committed(full_log[i], b.commit_index, b.current_term)
  BY DEF CommitsFit, CommitsAreChosen
<1>3. ASSUME NEW command \in Value, Propose(i, command)
      PROVE  Pass(i, ProposeCommand(i, b, command))
  <2> DEFINE n == ProposeCommand(i, b, command)
  <2>1. /\ n \in NodeState /\ n.snapshot_index = b.snapshot_index
        /\ n.snapshot_term = b.snapshot_term
        /\ n.commit_index \in {b.commit_index, LastLogIndex(b) + 1}
        /\ n.last_applied = b.last_applied
    BY <1>1, ProposeType, ProposeLog, ProposeIndices, ReplicationAppliesNothing
  <2>2. ApplyAndPersist(i, n)
    BY <1>3 DEF Propose
  <2> HIDE DEF n
  <2>3. n.commit_index >= b.commit_index
    BY <1>1, <1>2, <2>1
  <2>. QED  BY <2>1, <2>2, <2>3 DEF Pass, Forward, n
<1>4. ASSUME NEW m \in msgs, m.to = i, ReceiveAppendEntriesResponse(m)
      PROVE  Pass(i, HandleAppendEntriesResponse(i, b, m))
  <2> DEFINE n == HandleAppendEntriesResponse(i, b, m)
             x == Counted(b, m.from, m.match_index)
             back == [b EXCEPT !.next_index[m.from] =
                       Larger((IF @ = 0 THEN LastLogIndex(b) + 1 ELSE @) - 1, 1)]
  <2>1. m \in AppendEntriesResponseMessage /\ m.from \in Node /\ m.match_index \in Nat
    BY <1>4, Received DEF Steps, ReceiveAppendEntriesResponse,
       AppendEntriesResponseMessage
  <2>2. /\ n \in NodeState /\ SameLog(n, b) /\ n.last_applied = b.last_applied
    BY <1>1, <2>1, HandleAppendEntriesResponseType, HandleAppendEntriesResponseLog,
       ReplicationAppliesNothing
  <2>3. ApplyAndPersist(i, n)
    BY <1>4 DEF ReceiveAppendEntriesResponse
  <2>4. n \in {BecomeFollower(b, m.term, Nil), b, TryAdvanceCommit(i, x), back}
    BY DEF HandleAppendEntriesResponse, Counted
  <2>5. back.commit_index = b.commit_index
    BY <1>1 DEF NodeState
  <2>6. BecomeFollower(b, m.term, Nil).commit_index = b.commit_index
    BY <1>1, BecomeFollowerLog
  <2>7. TryAdvanceCommit(i, x).commit_index >= b.commit_index
    <3>1. x \in NodeState /\ x.commit_index = b.commit_index
          /\ x.snapshot_index = b.snapshot_index
      <4>1. x \in NodeState /\ x.commit_index = b.commit_index /\ SameLog(x, b)
        <5> HIDE DEF b
        <5>. QED  BY <1>1, <2>1, CountedNode, ZenonT(30) DEF x
      <4> HIDE DEF x
      <4>. QED  BY <4>1 DEF SameLog
    <3> HIDE DEF x
    <3>2. \/ TryAdvanceCommit(i, x).commit_index = x.commit_index
          \/ TryAdvanceCommit(i, x).commit_index \in Committable(i, x)
      BY <1>2, <3>1, TryAdvanceCommits
    <3>3. Committable(i, x) \subseteq x.commit_index + 1 .. LastLogIndex(x)
      BY DEF Committable
    <3>. QED  BY <1>1, <3>1, <3>2, <3>3
  <2> HIDE DEF n, x, back
  <2>8. n.commit_index >= b.commit_index
    BY <1>1, <2>4, <2>5, <2>6, <2>7
  <2>. QED  BY <2>2, <2>3, <2>8 DEF Pass, Forward, SameLog, n
<1>5. ASSUME NEW m \in msgs, m.to = i, ReceiveAppendEntries(m)
      PROVE  Pass(i, HandleAppendEntries(b, m))
  <2> DEFINE n == HandleAppendEntries(b, m)
             full == FullLog(i, n)
             last == m.prev_log_index + Len(m.entries)
             lead == term_log[m.term]
  <2>1. /\ n \in NodeState /\ full \in Seq(Entry) /\ Holds(n, full)
        /\ AcceptsEntries(b, m) =>
              /\ full = full_log[i] \/ Len(full) = last
              /\ SamePrefix(full_log[i], lead, last) => full = full_log[i]
    BY <1>5, AppendEntriesPass DEF Steps
  <2>2. /\ m \in AppendEntriesMessage /\ m.type = "AppendEntries" /\ m.term \in Nat
        /\ m.leader_commit \in Nat /\ last \in Nat
    BY <1>5, Received DEF Steps, ReceiveAppendEntries, AppendEntriesMessage
  <2>3. /\ n.snapshot_index = b.snapshot_index /\ n.last_applied = b.last_applied
        /\ n.snapshot_term = b.snapshot_term
    <3> HIDE DEF b
    <3>. QED  BY <1>1, <2>2, HandleAppendEntriesLog, ReplicationAppliesNothing
  <2>4. \/ n.commit_index = b.commit_index
        \/ /\ AcceptsEntries(b, m)
           /\ m.leader_commit > b.commit_index
           /\ n.commit_index = Smaller(m.leader_commit, LastLogIndex(n))
    <3> HIDE DEF b
    <3>. QED  BY <1>1, <1>2, <2>2, HandleAppendEntriesCommit
  <2>5. ApplyAndPersist(i, n)
    BY <1>5 DEF ReceiveAppendEntries
  <2>6. LastLogIndex(n) = Len(full) /\ Len(full) \in Nat
    BY <2>1 DEF Holds
  <2>7. m.term \in DOMAIN term_log
    BY <1>5, <2>2 DEF Steps, LogInv, MessagesCarryLogs, CarriesLog
  <2>8. lead \in Seq(Entry)
    BY <2>7, TermLogs DEF Steps
  <2>9. ASSUME AcceptsEntries(b, m), b.commit_index # 0
        PROVE  SamePrefix(full_log[i], lead, b.commit_index)
    <3>1. m.term >= b.current_term
      BY <2>9 DEF AcceptsEntries
    <3>. QED  BY <1>1, <1>2, <2>7, <2>9, <3>1, LeaderHasCommitted DEF Steps, CommitsFit
  <2> HIDE DEF n, full, last, lead, b
  <2>10. ASSUME AcceptsEntries(b, m) PROVE b.commit_index <= Len(full)
    <3>1. CASE full = full_log[i]
      BY <1>1, <1>2, <3>1
    <3>2. CASE full # full_log[i]
      <4>1. Len(full) = last /\ ~SamePrefix(full_log[i], lead, last)
        BY <2>1, <2>10, <3>2
      <4>2. ASSUME last < b.commit_index PROVE FALSE
        <5>1. SamePrefix(full_log[i], lead, b.commit_index)
          BY <1>1, <2>2, <2>9, <2>10, <4>2
        <5>2. SamePrefix(full_log[i], lead, last)
          BY <1>1, <2>2, <2>8, <4>2, <5>1 DEF SamePrefix
        <5>. QED  BY <4>1, <5>2
      <4>. QED  BY <1>1, <2>2, <4>1, <4>2
    <3>. QED  BY <3>1, <3>2
  <2>11. n.commit_index >= b.commit_index
    BY <1>1, <2>2, <2>4, <2>6, <2>10 DEF Smaller
  <2>. QED  BY <2>1, <2>3, <2>5, <2>11 DEF Pass, Forward, n, b
<1>. QED  BY <1>3, <1>4, <1>5

\* What a node holds committed is in its log at the next boundary too.
LEMMA CommittedIsNotRewritten ==
    ASSUME Steps, CommitsFit, CommitsFit', NEW i \in Node,
           node'[i].commit_index >= node[i].commit_index
    PROVE  /\ full_log'[i] \in Seq(Entry)
           /\ node'[i].commit_index <= Len(full_log'[i])
           /\ node[i].commit_index # 0 =>
                 SamePrefix(full_log[i], full_log'[i], node[i].commit_index)
<1>1. /\ full_log[i] \in Seq(Entry) /\ node[i].commit_index \in Nat
      /\ node[i].current_term \in Nat
  BY NodeLogs DEF Steps
<1>2. /\ full_log'[i] \in Seq(Entry) /\ node'[i] \in NodeState
      /\ LastLogIndex(node'[i]) = Len(full_log'[i])
  BY DEF Steps, LogInv, HistoryType, LogsAreHeld, Holds, TypeOK
<1>3. node'[i].commit_index \in Nat /\ node'[i].current_term \in Nat
  BY <1>2, LogFields
<1>4. Committed(full_log[i], node[i].commit_index, node[i].current_term)
  BY DEF CommitsFit, CommitsAreChosen
<1>5. (Committed(full_log[i], node[i].commit_index, node[i].current_term))'
  BY DEF CommitsFit, CommitsAreChosen
<1>6. node'[i].commit_index <= Len(full_log'[i])
  <2>1. (node[i].commit_index <= LastLogIndex(node[i]))'
    BY DEF CommitsFit, CommitsAreChosen
  <2>. QED  BY <1>2, <2>1 DEF LastLogIndex
<1>7. (TypeOK /\ ElectionInv /\ LogInv /\ VotersKnow)'
  BY DEF Steps, CommitsFit
<1>8. (\A a, b \in Seq(Entry) : \A c, d, w, x \in Nat :
            (c # 0 /\ c <= d /\ Committed(a, c, w) /\ Committed(b, d, x)) =>
                SamePrefix(a, b, c))'
  BY <1>7, CommitsAgree, PTL
<1>9. SUFFICES ASSUME NEW a \in Seq(Entry), a = full_log[i],
                      NEW b \in Seq(Entry), b = full_log'[i],
                      NEW c \in Nat, c = node[i].commit_index, c # 0,
                      NEW d \in Nat, d = node'[i].commit_index,
                      NEW w \in Nat, w = node[i].current_term,
                      NEW x \in Nat, x = node'[i].current_term
               PROVE  SamePrefix(a, b, c)
  BY <1>1, <1>2, <1>3, <1>6
<1>10. Committed(a, c, w)'
  BY <1>4, <1>9, CommittedStays
<1>11. Committed(b, d, x)'
  BY <1>5, <1>9 DEF Committed, SamePrefix
<1>12. c <= d
  BY <1>9
<1>13. SamePrefix(a, b, c)'
  BY <1>8, <1>9, <1>10, <1>11, <1>12
<1>. QED  BY <1>13 DEF SamePrefix

\* A pass executes exactly what became committed.
LEMMA PassRuns ==
    ASSUME SaveSucceeds = {TRUE}, Steps, CommitsFit, CommitsFit',
           NEW i \in Node, FollowsLog(i), NEW n, Pass(i, n)
    PROVE  /\ FollowsLog(i)'
           /\ \A j \in Node \ {i} : /\ node'[j] = node[j]
                                    /\ state_machine'[j] = state_machine[j]
                                    /\ full_log'[j] = full_log[j]
<1>1. /\ node[i] \in NodeState /\ full_log[i] \in Seq(Entry)
      /\ Holds(node[i], full_log[i]) /\ node[i].commit_index \in Nat
  BY NodeLogs DEF Steps
<1>2. /\ state_machine[i] \in Seq(Value) /\ node \in [Node -> NodeState]
      /\ state_machine \in [Node -> Seq(Value)] /\ full_log \in [Node -> Seq(Entry)]
  BY DEF Steps, TypeOK, LogInv, HistoryType
<1>3. n \in NodeState /\ Forward(i, n)
  BY DEF Pass
<1>4. node[i].snapshot_index <= node[i].commit_index
  BY DEF CommitsFit, CommitsAreChosen
<1>5. PICK x, executed :
         /\ Persist(i, x, executed)
         /\ \/ x = MarkApplied(n) /\ executed = Executed(state_machine[i], n)
            \/ /\ x = n /\ executed = state_machine[i]
               /\ n.commit_index = node[i].commit_index
  BY DEF Pass, ApplyAndPersist
<1>6. /\ MarkApplied(n) \in NodeState /\ SameLog(MarkApplied(n), n)
      /\ MarkApplied(n).commit_index = n.commit_index
  BY <1>3, MarkAppliedType, MarkAppliedLog DEF MarkApplied, NodeState
<1>7. /\ x \in NodeState /\ SameLog(x, n) /\ x.commit_index = n.commit_index
  BY <1>3, <1>5, <1>6 DEF SameLog
<1> DEFINE y == MaybeCompactLog(x)
<1>8. /\ y.commit_index = x.commit_index
      /\ y.last_applied \in {x.last_applied, Larger(x.last_applied, x.commit_index)}
  BY <1>7 DEF MaybeCompactLog, CompactCommitted, NodeState
<1>9. /\ node' = [node EXCEPT ![i] = y]
      /\ state_machine' = [state_machine EXCEPT ![i] = executed]
      /\ full_log' = [full_log EXCEPT ![i] = FullLog(i, x)]
  BY <1>5 DEF Persist, RecordLog
<1> HIDE DEF y
<1>10. /\ node'[i] = y /\ state_machine'[i] = executed /\ full_log'[i] = FullLog(i, x)
       /\ \A j \in Node \ {i} : /\ node'[j] = node[j]
                                /\ state_machine'[j] = state_machine[j]
                                /\ full_log'[j] = full_log[j]
  BY <1>2, <1>9
<1>11. SUFFICES ASSUME NEW full \in Seq(Entry), full = full_log'[i]
                PROVE  y.last_applied = y.commit_index /\ Ran(executed, full, y.commit_index)
  <2>1. full_log'[i] \in Seq(Entry)
    BY DEF Steps, LogInv, HistoryType
  <2>. QED  BY <1>10, <2>1 DEF FollowsLog, Ran
<1>12. /\ n.commit_index \in Nat /\ n.commit_index >= node[i].commit_index
       /\ n.commit_index = y.commit_index
  BY <1>3, <1>7, <1>8, LogFields DEF Forward
<1>13. /\ n.commit_index <= Len(full)
       /\ node[i].commit_index # 0 => SamePrefix(full_log[i], full, node[i].commit_index)
  BY <1>10, <1>11, <1>12, CommittedIsNotRewritten
<1>14. Holds(n, full)
  <2>1. FullLog(i, n) = full
    BY <1>7, <1>10, <1>11 DEF FullLog, SameLog
  <2>2. /\ n.snapshot_index = node[i].snapshot_index
        /\ n.snapshot_term = node[i].snapshot_term
    BY <1>3 DEF Forward
  <2>. QED  BY <1>1, <1>3, <2>1, <2>2, FullLogHolds
<1>15. Ran(state_machine[i], full, n.last_applied)
  <2>1. /\ n.last_applied = node[i].commit_index
        /\ Ran(state_machine[i], full_log[i], node[i].commit_index)
    BY <1>3 DEF Forward, FollowsLog
  <2>. QED  BY <1>1, <1>13, <2>1 DEF Ran, SamePrefix
<1>16. /\ n.snapshot_index <= n.last_applied /\ n.last_applied <= n.commit_index
       /\ n.last_applied = node[i].commit_index
  BY <1>1, <1>3, <1>4, <1>12 DEF Forward, FollowsLog
<1>17. /\ Ran(Executed(state_machine[i], n), full, n.commit_index)
       /\ MarkApplied(n).last_applied = n.commit_index
  BY <1>2, <1>3, <1>13, <1>14, <1>15, <1>16, RunsCommitted
<1>18. x.last_applied = n.commit_index /\ Ran(executed, full, n.commit_index)
  BY <1>5, <1>15, <1>16, <1>17
<1>19. y.last_applied = n.commit_index
  BY <1>7, <1>8, <1>12, <1>18 DEF Larger
<1>. QED  BY <1>12, <1>18, <1>19

\* A step is a pass of some node, a restart, or leaves the nodes alone.
LEMMA StepIsPass ==
    ASSUME SaveSucceeds = {TRUE}, Steps, CommitsFit, [Next]_vars
    PROVE  \/ \E i \in Node : \E n : Pass(i, n)
           \/ \E i \in Node : Restart(i)
           \/ UNCHANGED <<node, state_machine, full_log>>
<1>1. ASSUME NEW m \in msgs PROVE m.to \in Node
  BY Received DEF Steps
<1>2. ASSUME NEW i \in Node,
             TickIdle(i) \/ TickHeartbeat(i) \/ TickElection(i) \/ ForceElection(i)
      PROVE  \E n : Pass(i, n)
  BY <1>2, VotePasses
<1>3. ASSUME NEW m \in msgs, ReceiveRequestVote(m) \/ ReceiveRequestVoteResponse(m)
      PROVE  \E n : Pass(m.to, n)
  BY <1>1, <1>3, VotePasses
<1>4. ASSUME NEW i \in Node, NEW command \in Value, Propose(i, command)
      PROVE  \E n : Pass(i, n)
  BY <1>4, ReplicationPasses
<1>5. ASSUME NEW m \in msgs, ReceiveAppendEntries(m) \/ ReceiveAppendEntriesResponse(m)
      PROVE  \E n : Pass(m.to, n)
  BY <1>1, <1>5, ReplicationPasses
<1>6. ASSUME UNCHANGED vars PROVE UNCHANGED <<node, state_machine, full_log>>
  BY <1>6 DEF vars
<1>7. ASSUME NEW m \in msgs, Lose(m) PROVE UNCHANGED <<node, state_machine, full_log>>
  BY <1>7 DEF Lose
<1>. QED  BY <1>1, <1>2, <1>3, <1>4, <1>5, <1>6, <1>7 DEF Next

\* over_ack is never taken back.
LEMMA OverAckStays == [Next]_vars => (over_ack => over_ack')
BY DEF Next, vars, TickIdle, TickHeartbeat, TickElection, ForceElection,
       Propose, Restart, ReceiveRequestVote, ReceiveRequestVoteResponse,
       ReceiveAppendEntries, ReceiveAppendEntriesResponse, Lose

\* A restart is never forgotten.
LEMMA RestartsStay ==
    /\ TypeOK /\ [Next]_vars => (restarts' = 0 => restarts = 0)
    /\ TypeOK => \A i : Restart(i) => restarts' # 0
<1> SUFFICES ASSUME TypeOK PROVE /\ [Next]_vars => (restarts' = 0 => restarts = 0)
                                /\ \A i : Restart(i) => restarts' # 0
  OBVIOUS
<1>1. restarts \in Nat
  BY RunnerAssumption DEF TypeOK
<1>2. \A i : Restart(i) => restarts' # 0
  BY <1>1 DEF Restart
<1>3. ASSUME [Next]_vars, ~\E i : Restart(i) PROVE restarts' = restarts
  BY <1>3 DEF Next, vars, TickIdle, TickHeartbeat, TickElection, ForceElection,
       Propose, ReceiveRequestVote, ReceiveRequestVoteResponse,
       ReceiveAppendEntries, ReceiveAppendEntriesResponse, Lose
<1>. QED  BY <1>2, <1>3

LEMMA MachinesNext ==
    ASSUME SaveSucceeds = {TRUE}, TypeOK, ElectionInv, LogInv,
           CommitInv, CommitInv', MachinesFollowLogs, [Next]_vars
    PROVE  MachinesFollowLogs'
<1> SUFFICES ASSUME ~over_ack', restarts' = 0, NEW j \in Node PROVE FollowsLog(j)'
  BY DEF MachinesFollowLogs
<1>1. ~over_ack /\ restarts = 0
  BY OverAckStays, RestartsStay
<1>2. Steps /\ CommitsFit /\ CommitsFit' /\ \A i \in Node : FollowsLog(i)
  BY <1>1, NextSteps DEF CommitInv, MachinesFollowLogs
<1>3. ASSUME NEW i \in Node, NEW n, Pass(i, n) PROVE FollowsLog(j)'
  <2>1. /\ FollowsLog(i)'
        /\ \A k \in Node \ {i} : /\ node'[k] = node[k]
                                 /\ state_machine'[k] = state_machine[k]
                                 /\ full_log'[k] = full_log[k]
    BY <1>2, <1>3, PassRuns
  <2>2. CASE j = i
    BY <2>1, <2>2
  <2>3. CASE j # i
    BY <1>2, <2>1, <2>3 DEF FollowsLog, Ran
  <2>. QED  BY <2>2, <2>3
<1>4. ASSUME NEW i \in Node, Restart(i) PROVE FALSE
  BY <1>4, RestartsStay
<1>5. ASSUME UNCHANGED <<node, state_machine, full_log>> PROVE FollowsLog(j)'
  BY <1>2, <1>5 DEF FollowsLog, Ran
<1>. QED  BY <1>2, <1>3, <1>4, <1>5, StepIsPass

\* Before the first restart every machine has executed what is committed in
\* its log, in the order of the log: take_unapplied_entries,
\* compact_committed and the merge of handle_append_entries together.
THEOREM MachinesExecuteTheLog ==
    ASSUME SaveSucceeds = {TRUE}
    PROVE  Spec => []MachinesFollowLogs
<1>1. Init => MachinesFollowLogs
  BY DEF Init, MachinesFollowLogs, FollowsLog, Ran, NewNode
<1>2. TypeOK /\ ElectionInv /\ LogInv /\ CommitInv /\ CommitInv'
        /\ MachinesFollowLogs /\ [Next]_vars => MachinesFollowLogs'
  BY MachinesNext
<1>. QED  BY <1>1, <1>2, TypeCorrect, ElectionInvariant, LogInvariant,
             CommitInvariant, PTL DEF Spec

\* Every committed entry is executed, once (apply_committed_entries), as long
\* as the process does not restart.
THEOREM CommittedIsApplied ==
    ASSUME SaveSucceeds = {TRUE}, MaxRestarts = 0
    PROVE  Spec => []AppliedUpToCommit
<1>1. TypeOK /\ MachinesFollowLogs => AppliedUpToCommit
  BY DEF MachinesFollowLogs, FollowsLog, AppliedUpToCommit, Ran, TypeOK
<1>. QED  BY <1>1, TypeCorrect, MachinesExecuteTheLog, PTL

LEMMA SameCommands ==
    /\ TypeOK /\ ElectionInv /\ LogInv /\ CommitInv /\ MachinesFollowLogs
    /\ ~over_ack /\ restarts = 0
    => StateMachineSafety
<1> SUFFICES ASSUME TypeOK, ElectionInv, LogInv, CommitInv, MachinesFollowLogs,
                    ~over_ack, restarts = 0, NEW i \in Node, NEW j \in Node,
                    NEW k \in 1 .. Len(state_machine[i]), k <= Len(state_machine[j])
             PROVE  state_machine[i][k] = state_machine[j][k]
  BY DEF StateMachineSafety
<1> DEFINE a == full_log[i]
           b == full_log[j]
           c == node[i].commit_index
           d == node[j].commit_index
<1>1. /\ a \in Seq(Entry) /\ b \in Seq(Entry) /\ c \in Nat /\ d \in Nat
      /\ node[i].current_term \in Nat /\ node[j].current_term \in Nat
  BY NodeLogs
<1>2. VotersKnow /\ Committed(a, c, node[i].current_term)
      /\ Committed(b, d, node[j].current_term)
  BY DEF CommitInv, CommitsFit, CommitsAreChosen
<1>3. Ran(state_machine[i], a, c) /\ Ran(state_machine[j], b, d)
  BY DEF MachinesFollowLogs, FollowsLog
<1> HIDE DEF a, b, c, d
<1>4. k \in 1 .. c /\ k \in 1 .. d /\ c # 0 /\ d # 0
  BY <1>1, <1>3 DEF Ran
<1>5. state_machine[i][k] = a[k].command /\ state_machine[j][k] = b[k].command
  BY <1>3, <1>4 DEF Ran
<1>6. c <= d => SamePrefix(a, b, c)
  BY <1>1, <1>2, <1>4, CommittedTogether
<1>7. d <= c => SamePrefix(b, a, d)
  BY <1>1, <1>2, <1>4, CommittedTogether
<1>8. a[k] = b[k]
  BY <1>1, <1>4, <1>6, <1>7 DEF SamePrefix
<1>. QED  BY <1>5, <1>8

\* The state machines of processes that do not restart execute the same
\* commands in the same order, as long as no follower acknowledges more than
\* a request carried (runner.rs, apply_committed_entries).
THEOREM MachinesAgree ==
    ASSUME SaveSucceeds = {TRUE}, MaxRestarts = 0
    PROVE  Spec => []StateMachineSafetyWithExactAcks
<1>1. TypeOK /\ ElectionInv /\ LogInv /\ CommitInv /\ MachinesFollowLogs
        => StateMachineSafetyWithExactAcks
  <2>1. TypeOK => restarts = 0
    BY DEF TypeOK
  <2>. QED  BY <2>1, SameCommands DEF StateMachineSafetyWithExactAcks
<1>. QED  BY <1>1, TypeCorrect, ElectionInvariant, LogInvariant, CommitInvariant,
             MachinesExecuteTheLog, PTL

-----------------------------------------------------------------------------
(* The machines implement one log of commands.                             *)

\* Some node has executed as much as any other.
LEMMA SomeIsLongest ==
    ASSUME state_machine \in [Node -> Seq(Value)]
    PROVE  \E i \in Node : \A j \in Node :
               Len(state_machine[j]) <= Len(state_machine[i])
<1> DEFINE length(i) == Len(state_machine[i])
<1>1. \A i \in Node : length(i) \in Nat
  OBVIOUS
<1> HIDE DEF length
<1>2. PICK n \in Nat : ExistsSurjection(1 .. n, Node)
  BY NodeAssumption, FS_NatSurjection
<1>f. PICK f \in [1 .. n -> Node] : \A i \in Node : \E k \in 1 .. n : f[k] = i
  BY <1>2 DEF ExistsSurjection, Surjection
<1> DEFINE S == {k \in 0 .. n : k = 0 \/ \E h \in 1 .. k : \A g \in 1 .. k :
                                                 length(f[g]) <= length(f[h])}
<1>3. ASSUME NEW k \in 0 .. n - 1, k \in S PROVE k + 1 \in S
  <2>1. CASE k = 0
    <3>1. k + 1 \in 0 .. n /\ 1 .. k + 1 = {1}
      BY <1>2, <2>1
    <3>2. length(f[1]) <= length(f[1])
      BY <1>1, <1>2, <1>f, <2>1
    <3>. QED  BY <3>1, <3>2
  <2>2. CASE k # 0
    <3>1. PICK h \in 1 .. k : \A g \in 1 .. k : length(f[g]) <= length(f[h])
      BY <1>3, <2>2
    <3>2. length(f[h]) \in Nat /\ length(f[k + 1]) \in Nat
          /\ \A g \in 1 .. k : length(f[g]) \in Nat
      BY <1>1, <1>2, <1>f
    <3>3. k + 1 \in 0 .. n /\ \A g \in 1 .. k + 1 : g \in 1 .. k \/ g = k + 1
      BY <1>2
    <3>4. CASE length(f[k + 1]) <= length(f[h])
      <4>1. \A g \in 1 .. k + 1 : length(f[g]) <= length(f[h])
        BY <3>1, <3>3, <3>4
      <4>. QED  BY <3>3, <4>1
    <3>5. CASE length(f[h]) <= length(f[k + 1])
      <4>1. ASSUME NEW g \in 1 .. k + 1 PROVE length(f[g]) <= length(f[k + 1])
        <5>1. CASE g \in 1 .. k
          <6>1. length(f[g]) <= length(f[h]) /\ length(f[g]) \in Nat
            BY <3>1, <3>2, <5>1
          <6>. QED  BY <3>2, <3>5, <6>1
        <5>2. CASE g = k + 1
          BY <3>2, <5>2
        <5>. QED  BY <3>3, <5>1, <5>2
      <4>. QED  BY <3>3, <4>1
    <3>. QED  BY <3>2, <3>4, <3>5
  <2>. QED  BY <2>1, <2>2
<1>4. 0 \in S
  BY <1>2
<1>5. 0 .. n \subseteq S
  <2> HIDE DEF S
  <2>. QED  BY <1>2, <1>3, <1>4, UpTo
<1>6. n # 0
  BY <1>2, <1>f, NodeAssumption
<1>7. PICK h \in 1 .. n : \A g \in 1 .. n : length(f[g]) <= length(f[h])
  <2>1. n \in S
    <3> HIDE DEF S
    <3>1. n \in 0 .. n
      BY <1>2
    <3>. QED  BY <1>5, <3>1
  <2>. QED  BY <1>6, <2>1
<1>8. \A j \in Node : length(j) <= length(f[h])
  BY <1>2, <1>f, <1>7
<1>. QED  BY <1>2, <1>f, <1>7, <1>8 DEF length

LEMMA LongestIsSome ==
    ASSUME state_machine \in [Node -> Seq(Value)]
    PROVE  /\ \E i \in Node : Longest = state_machine[i]
           /\ \A j \in Node : Len(state_machine[j]) <= Len(Longest)
<1>1. PICK i \in Node : \A j \in Node : Len(state_machine[j]) <= Len(state_machine[i])
  BY SomeIsLongest
<1>2. \E s \in {state_machine[k] : k \in Node} :
         \A j \in Node : Len(state_machine[j]) <= Len(s)
  BY <1>1
<1>. QED  BY <1>2 DEF Longest

\* Of two machines that agree the shorter is a prefix of the longest.
HavePrefixes ==
    \A i \in Node :
        /\ Longest \in Seq(Value) /\ Len(state_machine[i]) <= Len(Longest)
        /\ state_machine[i] = SubSeq(Longest, 1, Len(state_machine[i]))

LEMMA PrefixOfLongest == TypeOK /\ StateMachineSafety => HavePrefixes
<1> SUFFICES ASSUME TypeOK, StateMachineSafety, NEW i \in Node
             PROVE  /\ Longest \in Seq(Value) /\ Len(state_machine[i]) <= Len(Longest)
                    /\ state_machine[i] = SubSeq(Longest, 1, Len(state_machine[i]))
  BY DEF HavePrefixes
<1>a. state_machine \in [Node -> Seq(Value)]
  BY DEF TypeOK
<1>1. PICK l \in Node : Longest = state_machine[l]
  BY <1>a, LongestIsSome
<1>2. Len(state_machine[i]) <= Len(Longest)
  BY <1>a, LongestIsSome
<1> DEFINE s == state_machine[i]
           t == state_machine[l]
<1>3. s \in Seq(Value) /\ t \in Seq(Value)
  BY <1>a
<1>4. \A k \in 1 .. Len(s) : s[k] = t[k]
  BY <1>1, <1>2, <1>3 DEF StateMachineSafety
<1> HIDE DEF s, t
<1>5. s = SubSeq(t, 1, Len(s))
  BY <1>1, <1>2, <1>3, <1>4 DEF t
<1>. QED  BY <1>1, <1>2, <1>3, <1>5 DEF s, t

\* A pass only adds to what a machine has executed.
LEMMA PassExecutes ==
    ASSUME Steps, NEW i \in Node, NEW n, Pass(i, n)
    PROVE  \E more \in Seq(Value) :
               state_machine' = [state_machine EXCEPT ![i] = @ \o more]
<1>1. state_machine \in [Node -> Seq(Value)] /\ n \in NodeState
  BY DEF Steps, TypeOK, Pass
<1>2. CASE ApplyAndPersist(i, n)
  <2>1. Commands(UnappliedEntries(n)) \in Seq(Value)
    BY <1>1, CommandsType
  <2>. QED  BY <1>1, <1>2, <2>1 DEF ApplyAndPersist, Persist, Executed
<1>3. CASE Persist(i, n, state_machine[i])
  <2>1. state_machine[i] \o << >> = state_machine[i]
    BY <1>1
  <2>2. state_machine' = [state_machine EXCEPT ![i] = @ \o << >>]
    BY <1>3, <2>1 DEF Persist
  <2>3. << >> \in Seq(Value)
    OBVIOUS
  <2>. QED  BY <2>2, <2>3
<1>. QED  BY <1>2, <1>3 DEF Pass

\* A pass is a step of the log of commands.
LEMMA PassIsExecute ==
    ASSUME Steps, StateMachineSafety, StateMachineSafety', NEW i \in Node,
           NEW n, Pass(i, n)
    PROVE  Log!Next
<1> DEFINE s == Longest
           t == Longest'
<1>1. /\ state_machine \in [Node -> Seq(Value)]
      /\ state_machine' \in [Node -> Seq(Value)]
  BY DEF Steps, TypeOK
<1>2. PICK more \in Seq(Value) :
        state_machine' = [state_machine EXCEPT ![i] = @ \o more]
  BY PassExecutes
<1>3. PICK l \in Node : s = state_machine[l]
  BY <1>1, LongestIsSome
<1>4. \A j \in Node :
         /\ Len(state_machine[j]) <= Len(state_machine'[j])
         /\ state_machine[j] = SubSeq(state_machine'[j], 1, Len(state_machine[j]))
  BY <1>1, <1>2
<1>5. \A j \in Node :
         /\ t \in Seq(Value) /\ Len(state_machine'[j]) <= Len(t)
         /\ state_machine'[j] = SubSeq(t, 1, Len(state_machine'[j]))
  <2>1. HavePrefixes'
    <3>1. TypeOK'
      BY DEF Steps
    <3>. QED  BY <3>1, PrefixOfLongest, PTL
  <2>. QED  BY <2>1 DEF HavePrefixes
<1> HIDE DEF s, t
<1>6. s \in Seq(Value) /\ Len(s) <= Len(t) /\ SubSeq(t, 1, Len(s)) = s
  <2>1. Len(s) <= Len(state_machine'[l]) /\ s = SubSeq(state_machine'[l], 1, Len(s))
    BY <1>3, <1>4
  <2>2. /\ t \in Seq(Value) /\ Len(state_machine'[l]) <= Len(t)
        /\ state_machine'[l] = SubSeq(t, 1, Len(state_machine'[l]))
    BY <1>5
  <2>3. s \in Seq(Value) /\ state_machine'[l] \in Seq(Value)
    BY <1>1, <1>3
  <2>. QED  BY <2>1, <2>2, <2>3
<1> DEFINE k == Len(state_machine'[i])
<1>7. k \in Len(state_machine[i]) .. Len(t)
  BY <1>1, <1>4, <1>5
<1>8. state_machine' = [state_machine EXCEPT ![i] = SubSeq(t, 1, k)]
  BY <1>1, <1>2, <1>5
<1>9. t \in Seq(Value)
  BY <1>5
<1>. QED  BY <1>6, <1>7, <1>8, <1>9 DEF Log!Next, Log!Execute, s, t

\* From a proposal to its execution, the cluster implements one log of
\* commands that only grows and that every machine executes in order
\* (runner.rs, apply_committed_entries), for any number of nodes and any
\* network.
THEOREM ClusterImplementsCommandLog ==
    ASSUME SaveSucceeds = {TRUE}
    PROVE  Spec => ImplementsCommandLog
<1>1. Init => Log!Init
  <2> SUFFICES ASSUME Init PROVE Log!Init
    OBVIOUS
  <2>1. state_machine = [i \in Node |-> << >>]
    BY DEF Init
  <2>2. \E i \in Node : Longest = state_machine[i]
    BY <2>1, LongestIsSome
  <2>. QED  BY <2>1, <2>2 DEF Log!Init
<1>2. ASSUME TypeOK, ElectionInv, LogInv, CommitInv, MachinesFollowLogs,
             CommitInv', MachinesFollowLogs', [Next]_vars,
             ~over_ack', restarts' = 0
      PROVE  Log!Next \/ UNCHANGED <<Longest, state_machine>>
  <2>1. ~over_ack /\ restarts = 0
    BY <1>2, OverAckStays, RestartsStay
  <2>2. Steps /\ CommitsFit
    BY <1>2, <2>1, NextSteps DEF CommitInv
  <2>3. StateMachineSafety
    BY <1>2, <2>1, SameCommands
  <2>4. StateMachineSafety'
    <3>1. TypeOK' /\ ElectionInv' /\ LogInv'
      BY <2>2 DEF Steps
    <3>2. (CommitInv /\ MachinesFollowLogs /\ ~over_ack /\ restarts = 0)'
      BY <1>2
    <3>. QED  BY <3>1, <3>2, SameCommands, PTL
  <2>5. ASSUME NEW i \in Node, NEW n, Pass(i, n) PROVE Log!Next
    BY <2>2, <2>3, <2>4, <2>5, PassIsExecute
  <2>6. ASSUME NEW i \in Node, Restart(i) PROVE FALSE
    BY <1>2, <2>6, RestartsStay
  <2>7. ASSUME UNCHANGED <<node, state_machine, full_log>>
        PROVE  UNCHANGED <<Longest, state_machine>>
    BY <2>7 DEF Longest
  <2>. QED  BY <1>2, <2>2, <2>5, <2>6, <2>7, StepIsPass
<1>3. TypeOK /\ ElectionInv /\ LogInv /\ CommitInv /\ MachinesFollowLogs
        /\ CommitInv' /\ MachinesFollowLogs' /\ [Next]_vars =>
        [(~over_ack' /\ restarts' = 0) => Log!Next]_<<Longest, state_machine>>
  BY <1>2
<1>. QED  BY <1>1, <1>3, TypeCorrect, ElectionInvariant, LogInvariant,
             CommitInvariant, MachinesExecuteTheLog, PTL
             DEF Spec, ImplementsCommandLog

-----------------------------------------------------------------------------
(* Commit indices do not go back, also at a restart.                       *)

LEMMA CommitAdvances ==
    ASSUME SaveSucceeds = {TRUE}, Steps, CommitsFit, CommitsFit', [Next]_vars,
           NEW j \in Node
    PROVE  node'[j].commit_index >= node[j].commit_index
<1>1. node[j].commit_index \in Nat /\ node \in [Node -> NodeState]
  BY NodeLogs DEF Steps, TypeOK
<1>2. ASSUME NEW i \in Node, NEW n, Pass(i, n)
      PROVE  node'[j].commit_index >= node[j].commit_index
  <2>1. /\ n \in NodeState /\ n.commit_index >= node[i].commit_index
        /\ ApplyAndPersist(i, n) \/ \E executed : Persist(i, n, executed)
    BY <1>2 DEF Pass, Forward
  <2>2. node'[i].commit_index = n.commit_index
    BY <2>1, PersistCommits DEF Steps, Commits
  <2>3. \A k \in Node \ {i} : node'[k] = node[k]
    BY <1>1, <2>1 DEF ApplyAndPersist, Persist
  <2>. QED  BY <1>1, <2>1, <2>2, <2>3
<1>3. ASSUME NEW i \in Node, Restart(i)
      PROVE  node'[j].commit_index = node[j].commit_index
  <2>1. disk[j].commit_index = node[j].commit_index
    BY DEF CommitsFit, CommitsAreChosen
  <2>2. disk'[j].commit_index = node'[j].commit_index
    BY DEF CommitsFit, CommitsAreChosen
  <2>3. disk' = disk
    BY <1>3 DEF Restart
  <2>. QED  BY <2>1, <2>2, <2>3
<1>4. ASSUME UNCHANGED node PROVE node'[j].commit_index = node[j].commit_index
  BY <1>4
<1>. QED  BY <1>1, <1>2, <1>3, <1>4, StepIsPass

\* What a node holds committed stays, whatever the number of nodes, elections
\* and restarts (handle_append_entries, restore_from_snapshot).
THEOREM CommitsAreKept ==
    ASSUME SaveSucceeds = {TRUE}
    PROVE  Spec => CommittedIsKept
<1>1. ASSUME TypeOK, ElectionInv, LogInv, CommitInv, CommitInv', [Next]_vars,
             ~over_ack', NEW i \in Node
      PROVE  KeepsCommitted(node[i], node'[i])
  <2> DEFINE a == node[i]
             b == node'[i]
             f == full_log[i]
             g == full_log'[i]
             c == a.commit_index
  <2>1. ~over_ack
    BY <1>1, OverAckStays
  <2>2. Steps /\ CommitsFit /\ CommitsFit'
    BY <1>1, <2>1, NextSteps DEF CommitInv
  <2>3. b.commit_index >= a.commit_index
    BY <1>1, <2>2, CommitAdvances
  <2>4. c # 0 => SamePrefix(f, g, c)
    BY <2>2, <2>3, CommittedIsNotRewritten
  <2>5. /\ a \in NodeState /\ b \in NodeState
        /\ f \in Seq(Entry) /\ g \in Seq(Entry) /\ Holds(a, f) /\ Holds(b, g)
    BY <2>2 DEF Steps, TypeOK, LogInv, HistoryType, LogsAreHeld
  <2>6. c \in Nat
    BY <2>5, LogFields
  <2> HIDE DEF a, b, f, g, c
  <2>7. ASSUME NEW k \in 1 .. c, Retains(a, k), Retains(b, k)
        PROVE  EntryAt(a, k) = EntryAt(b, k)
    <3>1. k \in Nat /\ c # 0
      BY <2>6
    <3>2. EntryAt(a, k) = f[k] /\ EntryAt(b, k) = g[k]
      BY <2>5, <2>7, <3>1, TermAtFull
    <3>. QED  BY <2>4, <3>1, <3>2 DEF SamePrefix
  <2>. QED  BY <2>3, <2>7 DEF KeepsCommitted, a, b, c
<1>2. TypeOK /\ ElectionInv /\ LogInv /\ CommitInv /\ CommitInv' /\ [Next]_vars =>
        [~over_ack' => \A i \in Node : KeepsCommitted(node[i], node'[i])]_vars
  BY <1>1
<1>. QED  BY <1>2, TypeCorrect, ElectionInvariant, LogInvariant, CommitInvariant,
             PTL DEF Spec, CommittedIsKept
=============================================================================
