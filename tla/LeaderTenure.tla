---------------------------- MODULE LeaderTenure ----------------------------
(***************************************************************************)
(* The time in which one leader leads, with the tick counters: from the    *)
(* election it has just won to the moment some other node stands.  Some of *)
(* the other processes may be down.  The engine is RaftNode; what is added *)
(* are election_elapsed, current_election_timeout and heartbeat_elapsed,   *)
(* the order in which the processes tick, and the inbound queues with the  *)
(* order of their messages.                                                *)
(*                                                                         *)
(* Time.  Every process ticks once per round, in any order (the phases of  *)
(* the processes are arbitrary).  The loop polls every 5 ms and ticks      *)
(* every tick_ms, so a process handles what was in its queue at the start  *)
(* of a round before it ticks: a message takes less than one round.        *)
(***************************************************************************)
EXTENDS RaftNode, Configuration

LOCAL INSTANCE SequencesExt

CONSTANTS
    Leader,        \* the node that was elected
    Up,            \* the processes that are running
    Timeouts,      \* values given for the two election timeouts
    Intervals,     \* values given for the heartbeat interval
    QueueSize,     \* capacity of an inbound queue (256 in both transports)
    MaxProposals,  \* bound: commands proposed during the tenure
    MaxLosses      \* bound: sends that fail

ASSUME TenureAssumption ==
    /\ Leader \in Up /\ Up \subseteq Node
    /\ Timeouts \subseteq Nat /\ Intervals \subseteq Nat
    /\ QueueSize \in Nat \ {0}
    /\ MaxProposals \in Nat /\ MaxLosses \in Nat

VARIABLES
    config,     \* the settings all processes were started with
    node,       \* node[i] : the RaftNode of process i
    clock,      \* clock[i] : its tick counters
    inbox,      \* inbox[i] : its inbound queue
    waiting,    \* waiting[i] : the messages it will handle before it ticks
    ticked,     \* the processes that have ticked in this round
    proposals,  \* commands proposed so far (bound only)
    losses,     \* sends that failed so far
    skipped,    \* history: peers the leader once sent no request on a tick
    stood       \* the node whose candidacy ended the tenure, or Nil

vars == <<config, node, clock, inbox, waiting, ticked, proposals, losses,
          skipped, stood>>

Followers == Up \ {Leader}

Term == 3

-----------------------------------------------------------------------------
(* The tick counters.                                                      *)

\* sample_election_timeout
Sample == config.election_timeout_min .. config.election_timeout_max

\* What become_follower leaves; t is the timeout it samples.
FollowerClock(t) ==
    [election_elapsed |-> 0, election_timeout |-> t, heartbeat_elapsed |-> 0]

\* Mutant: only a request that fits the log puts the timer back.
AppendClockIfAccepted(n, c, m, t) ==
    IF ~AcceptsEntries(n, m)
    THEN c
    ELSE IF m.term > n.current_term \/ n.role # "Follower"
         THEN FollowerClock(t)
         ELSE [c EXCEPT !.election_elapsed = 0]

\* handle_append_entries: every request of the leader puts the timer back, a
\* refused one too, and a node that was not its follower samples again.
AppendClock(n, c, m, t) ==
    IF m.term < n.current_term
    THEN c
    ELSE IF m.term > n.current_term \/ n.role # "Follower"
         THEN FollowerClock(t)
         ELSE [c EXCEPT !.election_elapsed = 0]

ResponseClock(n, c, m, t) ==
    IF m.term > n.current_term THEN FollowerClock(t) ELSE c

HeartbeatDue(c) == c.heartbeat_elapsed + 1 >= config.heartbeat_interval

HeartbeatClock(c) ==
    [c EXCEPT !.heartbeat_elapsed = IF HeartbeatDue(c) THEN 0 ELSE @ + 1]

ElectionDue(c) == c.election_elapsed + 1 >= c.election_timeout

-----------------------------------------------------------------------------
(* The state after the election.                                           *)

Line(min, max, interval) ==
    << [option |-> "id", value |-> Leader] >>
    \o SetToSeq({[option |-> "peer", value |-> p] : p \in Peers(Leader)})
    \o << [option |-> "heartbeat_interval", value |-> interval],
          [option |-> "election_timeout_min", value |-> min],
          [option |-> "election_timeout_max", value |-> max],
          [option |-> "log_compaction_threshold",
           value  |-> CompactionThreshold] >>

\* Logs as sequences of terms.  The leader of term 1 wrote one entry; the
\* leader of term 2 wrote one too, and had the first entry or not.
Histories == {<< <<1>>, <<1, 2>> >>, << <<1>>, <<2>> >>}

\* The entries up to c may be committed where some node has these logs: a
\* majority has them, the new leader has, and the leader of term 2 had.
MayBeCommitted(history, terms, c) ==
    LET holders(e) == {i \in Node : e \in Prefixes(terms[i])}
    IN  \E e \in Prefixes(terms[Leader]) \cap Prefixes(history[2]) :
            Len(e) = c /\ Cardinality(holders(e)) >= Majority(Leader)

\* A node with such a log.  A threshold of one entry leaves nothing committed
\* in the log.
Stored(terms, commit) ==
    MaybeCompactLog(MarkApplied(
        [NewNode EXCEPT
            !.current_term = Term - 1,
            !.log = [k \in 1 .. Len(terms) |->
                        [term    |-> terms[k],
                         command |-> CHOOSE v \in Value : TRUE]],
            !.commit_index = commit]))

\* The nodes after the election: voter gave its vote, rivals stood in the same
\* term and lost, the others have not heard of it.
Electorate(terms, commit, voter, rivals) ==
    [i \in Node |->
        LET n == Stored(terms[i], commit[i])
            stands == StartElection(i, n)
        IN  CASE i = Leader -> BecomeLeader(i,
                                 [stands EXCEPT !.votes_received = {i, voter}])
              [] i = voter  -> [n EXCEPT !.current_term = Term,
                                         !.voted_for = Leader]
              [] OTHER      -> IF i \in rivals THEN stands ELSE n]

\* The tick that the runner gives a new leader has been taken: with an
\* interval of 1 its first requests are sent.
Init ==
    /\ \E min, max \in Timeouts, interval \in Intervals :
          /\ Accepts(Line(min, max, interval))
          /\ config = Settings(Line(min, max, interval))
    /\ \E history \in Histories, voter \in Peers(Leader) :
       \E rivals \in SUBSET (Peers(Leader) \ {voter}),
          terms \in [Node -> Prefixes(history[1]) \cup Prefixes(history[2])],
          commit \in [Node -> 0 .. 2] :
          /\ \A i \in Node :
                /\ MayBeCommitted(history, terms, commit[i])
                /\ SubSeq(terms[Leader], 1, commit[i]) \in Prefixes(terms[i])
          /\ LET n == Electorate(terms, commit, voter, rivals)
             IN  /\ node = [i \in Up |-> n[i]]
                 /\ \A m \in RequestVotes(Leader, n[Leader]) :
                       m.to = voter => UpToDate(n[voter], m)
    /\ \E timeout \in [Followers -> Sample] :
          clock = [i \in Up |->
                      IF i = Leader
                      THEN [FollowerClock(0) EXCEPT !.heartbeat_elapsed =
                              IF config.heartbeat_interval > 1 THEN 1 ELSE 0]
                      ELSE FollowerClock(timeout[i])]
    /\ inbox = [i \in Up |-> SetToSeq(
                  {m \in Heartbeats(Leader, node[Leader]) :
                      config.heartbeat_interval <= 1 /\ m.to = i})]
    /\ waiting = [i \in Up |-> 0]
    /\ ticked = {}
    /\ proposals = 0
    /\ losses = 0
    /\ skipped = {}
    /\ stood = Nil

-----------------------------------------------------------------------------
(* The loop of one process.                                                *)

\* Send out; queue is the inbox without the message being answered.  A send
\* to a process that is down or whose queue is full fails, and others may.
Post(queue, out) ==
    \E lost \in SUBSET {m \in out : m.to \in Up} :
        /\ losses + Cardinality(lost) <= MaxLosses
        /\ losses' = losses + Cardinality(lost)
        /\ inbox' = [i \in Up |->
              queue[i] \o SetToSeq({m \in out \ lost :
                                       m.to = i /\ Len(queue[i]) < QueueSize})]

\* persist, and apply_committed_entries before it.  (The singleton sets name a
\* value, which TLC then computes once, also where it evaluates ENABLED.)
Keep(i, n) == node' = [node EXCEPT ![i] = MaybeCompactLog(n)]

ApplyAndKeep(i, n) == \E applied \in {MarkApplied(n)} : Keep(i, applied)

TickAllowed(i) ==
    /\ stood = Nil
    /\ i \notin ticked
    /\ waiting[i] = 0
    /\ ticked' = ticked \cup {i}

LeaderTick ==
    \E out \in {IF HeartbeatDue(clock[Leader])
               THEN Heartbeats(Leader, node[Leader]) ELSE {}} :
        /\ TickAllowed(Leader)
        /\ clock' = [clock EXCEPT ![Leader] = HeartbeatClock(@)]
        /\ skipped' = IF HeartbeatDue(clock[Leader])
                      THEN skipped \cup (Followers \ {m.to : m \in out})
                      ELSE skipped
        /\ Post(inbox, out)
        /\ Keep(Leader, node[Leader])
        /\ UNCHANGED <<config, waiting, proposals, stood>>

FollowerTick(i) ==
    /\ TickAllowed(i)
    /\ ~ElectionDue(clock[i])
    /\ clock' = [clock EXCEPT ![i].election_elapsed = @ + 1]
    /\ Keep(i, node[i])
    /\ UNCHANGED <<config, inbox, waiting, proposals, losses, skipped, stood>>

\* The tick that ends the tenure.
Stand(i) ==
    /\ TickAllowed(i)
    /\ ElectionDue(clock[i])
    /\ \E t \in Sample :
          clock' = [clock EXCEPT ![i].election_elapsed = 0,
                                 ![i].election_timeout = t]
    /\ Post(inbox, RequestVotes(i, StartElection(i, node[i])))
    /\ Keep(i, StartElection(i, node[i]))
    /\ stood' = i
    /\ UNCHANGED <<config, waiting, proposals, skipped>>

\* poll takes the message at the head of the queue.
Poll(i) ==
    /\ stood = Nil
    /\ inbox[i] # << >>
    /\ waiting' = [waiting EXCEPT ![i] = Larger(@ - 1, 0)]

Polled(i) == [inbox EXCEPT ![i] = Tail(@)]

FollowerReceive(i) ==
    LET m == Head(inbox[i])
        n == node[i]
    IN  /\ Poll(i)
        /\ \E t \in Sample :
              clock' = [clock EXCEPT ![i] = AppendClock(n, @, m, t)]
        /\ \E reply \in {AppendEntriesReply(i, n, m)} :
              Post(Polled(i), {reply})
        /\ \E after \in {HandleAppendEntries(n, m)} : ApplyAndKeep(i, after)
        /\ UNCHANGED <<config, ticked, proposals, skipped, stood>>

LeaderReceive ==
    LET m == Head(inbox[Leader])
        n == node[Leader]
    IN  /\ Poll(Leader)
        /\ \E t \in Sample :
              clock' = [clock EXCEPT ![Leader] = ResponseClock(n, @, m, t)]
        /\ \E after \in {HandleAppendEntriesResponse(Leader, n, m)} :
              /\ \E out \in {Retry(Leader, n, after, m)} :
                    Post(Polled(Leader), out)
              /\ ApplyAndKeep(Leader, after)
        /\ UNCHANGED <<config, ticked, proposals, skipped, stood>>

Propose(command) ==
    LET after == ProposeCommand(Leader, node[Leader], command)
    IN  /\ stood = Nil
        /\ proposals < MaxProposals
        /\ proposals' = proposals + 1
        /\ Post(inbox, Heartbeats(Leader, after))
        /\ ApplyAndKeep(Leader, after)
        /\ UNCHANGED <<config, clock, waiting, ticked, skipped, stood>>

\* What is in the queues now is handled before the next tick.
NewRound ==
    /\ stood = Nil
    /\ ticked = Up
    /\ ticked' = {}
    /\ waiting' = [i \in Up |-> Len(inbox[i])]
    /\ UNCHANGED <<config, node, clock, inbox, proposals, losses, skipped,
                   stood>>

Next ==
    \/ LeaderTick
    \/ LeaderReceive
    \/ \E command \in Value : Propose(command)
    \/ \E i \in Followers :
          \/ FollowerTick(i)
          \/ Stand(i)
          \/ FollowerReceive(i)
    \/ NewRound

\* Every process keeps running its loop, and time passes.
Fairness ==
    /\ WF_vars(LeaderTick)
    /\ WF_vars(LeaderReceive)
    /\ \A i \in Followers : /\ WF_vars(FollowerTick(i) \/ Stand(i))
                            /\ WF_vars(FollowerReceive(i))
    /\ WF_vars(NewRound)

Spec == Init /\ [][Next]_vars /\ Fairness

-----------------------------------------------------------------------------
(* Properties.                                                             *)

\* A follower that the leader does not skip stands only when heartbeats were
\* lost, or when its timeout is the shortest that parse_config allows, one
\* tick more than the heartbeat interval: the phases of the two processes
\* alone then make up the difference.  Every request puts the timer back, a
\* refused one too (node.rs, line 216), and the voter was reset by its vote.
QuietFollowers ==
    [][\A i \in Followers :
          (/\ stood = Nil /\ stood' = i
           /\ i \notin skipped
           /\ Leader \in {node[i].leader_id, node[i].voted_for}) =>
              LET interval == Larger(config.heartbeat_interval, 1)
                  timeout == clock[i].election_timeout
              IN  /\ timeout <= (losses + 1) * interval + 1
                  /\ losses = 0 => timeout = interval + 1]_vars

\* The follower has what the leader has.
Settled(i) ==
    /\ LastLogIndex(node[i]) = LastLogIndex(node[Leader])
    /\ LastLogTerm(node[i]) = LastLogTerm(node[Leader])
    /\ node[i].commit_index >= node[Leader].commit_index

\* The leader asks about an index before the follower's snapshot.
Refusing(i) == node[Leader].next_index[i] - 1 < node[i].snapshot_index

\* As long as the leader leads, every follower gets its log and its commit
\* index, and what was proposed is committed; the follower that cannot be
\* served from the leader's log (its next index is in the snapshot, or after
\* the end: node.rs, lines 518 and 523) ends the tenure by standing.  The one
\* exception takes a lost message or an interval of one tick, where requests
\* overtake their answers: late refusals have stepped next_index below the
\* follower's own snapshot, and every retry is refused for ever (node.rs,
\* lines 219 and 331).
CatchUp ==
    <>[](\/ stood # Nil
         \/ /\ losses > 0 \/ config.heartbeat_interval <= 1
            /\ \E i \in Followers : Refusing(i)
         \/ /\ \A i \in Followers : Settled(i)
            /\ proposals > 0 => node[Leader].commit_index
                                  = LastLogIndex(node[Leader]))
=============================================================================
