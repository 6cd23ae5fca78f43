---------------------------- MODULE RaftCluster -----------------------------
(***************************************************************************)
(* A cluster of runners (raftust-core/src/runner.rs) around the RaftNode   *)
(* engine: the event loop of each process, its storage, its state machine  *)
(* and the messages between the processes.                                 *)
(*                                                                         *)
(* One action is one pass of the single-threaded loop through one branch:  *)
(* the engine's handler, the messages it sends, apply_committed_entries,   *)
(* and persist with its compaction.  The state machine is represented by   *)
(* the sequence of commands it has executed, so snapshot() is that         *)
(* sequence and restore() puts it back.                                    *)
(*                                                                         *)
(* msgs is the network: a message may stay in it for ever (loss) and be    *)
(* received in any order.  Each send is attempted once, so with            *)
(* Redelivery = FALSE a message is received at most once; TRUE also lets   *)
(* it be received again, which covers equal messages sent several times.   *)
(***************************************************************************)
EXTENDS RaftNode

CONSTANTS
    HeartbeatInterval,   \* config.heartbeat_interval_ticks
    SaveSucceeds,        \* the outcomes of StorageStrategy::save, a subset of
                         \* BOOLEAN: FALSE is a write error, which save only
                         \* logs, or a process that dies before the save
    InboxSize,           \* capacity of the transport's inbound queue
    Redelivery,          \* may a message be received more than once?
    MaxElections,        \* bound: number of candidacies, in the whole cluster
    MaxLogIndex,         \* bound: no proposal extends a log beyond this index
    MaxRestarts          \* bound: number of process restarts

ASSUME RunnerAssumption ==
    /\ HeartbeatInterval \in Nat
    /\ SaveSucceeds \in (SUBSET BOOLEAN) \ {{}}
    /\ InboxSize \in Nat
    /\ Redelivery \in BOOLEAN
    /\ MaxElections \in Nat /\ MaxLogIndex \in Nat /\ MaxRestarts \in Nat

VARIABLES
    node,           \* node[i] : the RaftNode of process i
    state_machine,  \* state_machine[i] : the commands it has executed
    disk,           \* disk[i] : the StorageSnapshot last saved
    msgs,           \* messages sent
    restarts,       \* number of restarts so far (bound only)
    cast,           \* history: <<voter, candidate, term>> of every vote given
    elected,        \* history: every election won, with the winner's tally
    over_ack,       \* history: some success acknowledged log entries that
                    \* the request did not carry
    acks,           \* history: <<follower, term, index>> of every success
    full_log,       \* history: full_log[i] is the log of i from index 1, with
                    \* what compaction has dropped
    term_log        \* history: term_log[t] is the full log that the leader
                    \* of term t had when it last led

vars == <<node, state_machine, disk, msgs, restarts, cast, elected, over_ack,
          acks, full_log, term_log>>

StorageSnapshot ==
    [current_term : Nat, voted_for : Node \cup {Nil}, log : Seq(Entry),
     commit_index : Nat, last_included_index : Nat, last_included_term : Nat,
     state_machine_snapshot : Seq(Value)]

Election == [term : Nat, leader : Node, votes : SUBSET Node]

\* Before the first save load() answers None and the new node stays as it
\* is, which is what restoring the image of a new node gives.
Init ==
    /\ node = [i \in Node |-> NewNode]
    /\ state_machine = [i \in Node |-> << >>]
    /\ disk = [i \in Node |-> FromNode(NewNode, << >>)]
    /\ msgs = {}
    /\ restarts = 0
    /\ cast = {}
    /\ elected = {}
    /\ over_ack = FALSE
    /\ acks = {}
    /\ full_log = [i \in Node |-> << >>]
    /\ term_log = << >>

-----------------------------------------------------------------------------
(* The tail every branch of the loop shares.                               *)

Commands(entries) == [k \in 1 .. Len(entries) |-> entries[k].command]

\* The log of i from index 1, when n is the node before its compaction.
FullLog(i, n) == SubSeq(full_log[i], 1, n.snapshot_index) \o n.log

\* The histories of the logs after a pass of the loop.
RecordLog(i, n) ==
    /\ full_log' = [full_log EXCEPT ![i] = FullLog(i, n)]
    /\ term_log' =
          IF n.role = "Leader"
          THEN [t \in DOMAIN term_log \cup {n.current_term} |->
                   IF t = n.current_term THEN FullLog(i, n) ELSE term_log[t]]
          ELSE term_log

\* Runner::persist: compaction, then a save whose failure is only logged.
Persist(i, n, executed) ==
    LET compacted == MaybeCompactLog(n)
    IN  /\ node' = [node EXCEPT ![i] = compacted]
        /\ state_machine' = [state_machine EXCEPT ![i] = executed]
        /\ \E saved \in SaveSucceeds :
              disk' = IF saved
                      THEN [disk EXCEPT ![i] = FromNode(compacted, executed)]
                      ELSE disk
        /\ RecordLog(i, n)

\* Runner::apply_committed_entries
Executed(executed, n) == executed \o Commands(UnappliedEntries(n))

\* Mutant: the log is compacted before its entries are applied.
ApplyAfterCompaction(i, n) ==
    LET compacted == MaybeCompactLog(n)
    IN  Persist(i, MarkApplied(compacted), Executed(state_machine[i], compacted))

ApplyAndPersist(i, n) ==
    Persist(i, MarkApplied(n), Executed(state_machine[i], n))

\* The messages of out that find room in their receiver's inbox; the others
\* are dropped, which the sender at most logs.
Delivered(pool, out) ==
    {m \in out : Cardinality({k \in pool : k.to = m.to}) < InboxSize}

Send(out) == msgs' = msgs \cup Delivered(msgs, out)

\* Consume m and send out.
Reply(m, out) ==
    LET pool == IF Redelivery THEN msgs ELSE msgs \ {m}
    IN  msgs' = pool \cup Delivered(pool, out)

-----------------------------------------------------------------------------
(* The loop: ticks and commands.                                           *)

\* A node votes for itself in start_election only, once per term.
Candidacies == {v \in cast : v[1] = v[2]}

\* A candidacy: the bound, the messages, and the vote for itself.
Stand(i) ==
    /\ Cardinality(Candidacies) < MaxElections
    /\ Send(RequestVotes(i, StartElection(i, node[i])))
    /\ cast' = cast \cup {<<i, i, node[i].current_term + 1>>}

\* A tick at which neither timer is due still persists.
TickIdle(i) ==
    /\ Persist(i, node[i], state_machine[i])
    /\ UNCHANGED <<msgs, restarts, cast, elected, over_ack, acks>>

TickHeartbeat(i) ==
    /\ node[i].role = "Leader"
    /\ Send(Heartbeats(i, node[i]))
    /\ Persist(i, node[i], state_machine[i])
    /\ UNCHANGED <<restarts, cast, elected, over_ack, acks>>

TickElection(i) ==
    /\ node[i].role # "Leader"
    /\ Stand(i)
    /\ Persist(i, StartElection(i, node[i]), state_machine[i])
    /\ UNCHANGED <<restarts, elected, over_ack, acks>>

\* Command::ForceElection, taken in any role.
ForceElection(i) ==
    /\ Stand(i)
    /\ ApplyAndPersist(i, StartElection(i, node[i]))
    /\ UNCHANGED <<restarts, elected, over_ack, acks>>

\* Command::Propose; a node that is not the leader only logs the refusal.
Propose(i, command) ==
    /\ node[i].role = "Leader"
    /\ LastLogIndex(node[i]) < MaxLogIndex
    /\ LET after == ProposeCommand(i, node[i], command)
       IN  /\ Send(Heartbeats(i, after))
           /\ ApplyAndPersist(i, after)
    /\ UNCHANGED <<restarts, cast, elected, over_ack, acks>>

\* The process ends between two passes of the loop (Command::Shutdown, a
\* kill) and starts again: the saved image is restored and the committed
\* entries after its snapshot point are applied.  Nothing is saved.
Restart(i) ==
    /\ restarts < MaxRestarts
    /\ LET restored == RestoreFromStorage(disk[i])
       IN  /\ node' = [node EXCEPT ![i] = MarkApplied(restored)]
           /\ state_machine' = [state_machine EXCEPT ![i] =
                 Executed(disk[i].state_machine_snapshot, restored)]
           /\ RecordLog(i, restored)
    /\ restarts' = restarts + 1
    /\ UNCHANGED <<disk, msgs, cast, elected, over_ack, acks>>

-----------------------------------------------------------------------------
(* The loop: messages (Runner::process_communication).                     *)

ReceiveRequestVote(m) ==
    LET i == m.to
        n == node[i]
    IN  /\ m.type = "RequestVote"
        /\ Reply(m, {RequestVoteReply(i, n, m)})
        /\ cast' = IF GrantsVote(n, m)
                   THEN cast \cup {<<i, m.from, m.term>>}
                   ELSE cast
        /\ ApplyAndPersist(i, HandleRequestVote(n, m))
        /\ UNCHANGED <<restarts, elected, over_ack, acks>>

\* A new leader is ticked once at once.  Its heartbeat counter was just
\* reset, so that tick announces the leader only if the interval is 1 or 0.
ReceiveRequestVoteResponse(m) ==
    LET i == m.to
        n == node[i]
        after == HandleRequestVoteResponse(i, n, m)
    IN  /\ m.type = "RequestVoteResponse"
        /\ Reply(m, IF WinsElection(i, n, m) /\ HeartbeatInterval <= 1
                    THEN Heartbeats(i, after) ELSE {})
        /\ elected' = IF WinsElection(i, n, m)
                      THEN elected \cup {[term   |-> n.current_term,
                                          leader |-> i,
                                          votes  |-> Tally(n, m)]}
                      ELSE elected
        /\ ApplyAndPersist(i, after)
        /\ UNCHANGED <<restarts, cast, over_ack, acks>>

ReceiveAppendEntries(m) ==
    LET i == m.to
        n == node[i]
        after == HandleAppendEntries(n, m)
    IN  /\ m.type = "AppendEntries"
        /\ Reply(m, {AppendEntriesReply(i, n, m)})
        /\ over_ack' = \/ over_ack
                       \/ /\ AcceptsEntries(n, m)
                          /\ LastLogIndex(after)
                               > m.prev_log_index + Len(m.entries)
        /\ acks' = IF AcceptsEntries(n, m)
                   THEN acks \cup {<<i, m.term, LastLogIndex(after)>>}
                   ELSE acks
        /\ ApplyAndPersist(i, after)
        /\ UNCHANGED <<restarts, cast, elected>>

ReceiveAppendEntriesResponse(m) ==
    LET i == m.to
        n == node[i]
        after == HandleAppendEntriesResponse(i, n, m)
    IN  /\ m.type = "AppendEntriesResponse"
        /\ Reply(m, Retry(i, n, after, m))
        /\ ApplyAndPersist(i, after)
        /\ UNCHANGED <<restarts, cast, elected, over_ack, acks>>

\* A send that failed or a message lost with its connection.  Without it a
\* delayed message would hold its place in the inbox for ever; where messages
\* may be received again a lost one is one that is never received.
Lose(m) ==
    /\ ~Redelivery
    /\ msgs' = msgs \ {m}
    /\ UNCHANGED <<node, state_machine, disk, restarts, cast, elected, over_ack,
                   acks, full_log, term_log>>

Next ==
    \/ \E i \in Node :
          \/ TickIdle(i)
          \/ TickHeartbeat(i)
          \/ TickElection(i)
          \/ ForceElection(i)
          \/ \E command \in Value : Propose(i, command)
          \/ Restart(i)
    \/ \E m \in msgs :
          \/ ReceiveRequestVote(m)
          \/ ReceiveRequestVoteResponse(m)
          \/ ReceiveAppendEntries(m)
          \/ ReceiveAppendEntriesResponse(m)
          \/ Lose(m)

Spec == Init /\ [][Next]_vars

-----------------------------------------------------------------------------
(* Properties.                                                             *)

\* Every variable has the type of the struct it models; votes and elections
\* are records of the history of start_election, handle_request_vote and
\* handle_request_vote_response.  (The histories of the logs are typed in
\* HistoryType of RaftLog: they are logs only where saves succeed.)
TypeOK ==
    /\ node \in [Node -> NodeState]
    /\ state_machine \in [Node -> Seq(Value)]
    /\ disk \in [Node -> StorageSnapshot]
    /\ msgs \subseteq Message
    /\ restarts \in 0 .. MaxRestarts
    /\ cast \subseteq Node \X Node \X Nat
    /\ elected \subseteq Election
    /\ over_ack \in BOOLEAN
    /\ acks \subseteq Node \X Nat \X Nat

\* At most one node ever becomes leader in a term, whatever the order of
\* votes, responses and forced elections, and although become_follower
\* clears voted_for on a step down within the term (node.rs, lines 212, 458).
ElectionSafety ==
    \A e, f \in elected : e.term = f.term => e.leader = f.leader

\* A node gives two different votes in a term only after it stood itself and
\* then stepped down to the winner of that term: become_follower forgets the
\* vote for itself, and that vote can no longer elect it.
VotesOnlyTwiceAfterLoss ==
    \A u, v \in cast :
        (u[1] = v[1] /\ u[3] = v[3] /\ u[2] # v[2]) =>
            /\ v[1] \in {u[2], v[2]}
            /\ \E e \in elected : e.term = v[3] /\ e.leader # v[1]

\* The leader a node names (leader_id, printed by Command::Status) won the
\* election of the node's current term, and a node in role Leader did too.
LeaderIsElected ==
    \A i \in Node :
        /\ node[i].leader_id # Nil =>
              \E e \in elected : /\ e.term = node[i].current_term
                                 /\ e.leader = node[i].leader_id
        /\ node[i].role = "Leader" => node[i].leader_id = i

\* No step of the loop and no restart lowers a node's term, and within a
\* term a vote for another node is never changed: what persist saved is what
\* restore_from_snapshot brings back.
VoteIsDurable ==
    [][\A i \in Node :
          /\ node'[i].current_term >= node[i].current_term
          /\ (/\ node'[i].current_term = node[i].current_term
              /\ node[i].voted_for \notin {i, Nil})
             => node'[i].voted_for = node[i].voted_for]_vars

EntryAt(n, index) == n.log[index - n.snapshot_index]

Retains(n, index) == index \in n.snapshot_index + 1 .. LastLogIndex(n)

\* Two nodes that have an entry of the same term at the same index have the
\* same entries at every smaller index both still hold, and their compacted
\* logs agree on the term at the snapshot point: the consistency check and
\* the merge loop of handle_append_entries, with compaction.
LogMatching ==
    \A i, j \in Node :
        LET a == node[i]
            b == node[j]
        IN  \A k \in 1 .. LastLogIndex(a) :
                (TermAt(a, k) # NoTerm /\ TermAt(a, k) = TermAt(b, k)) =>
                    \A l \in 1 .. k :
                        /\ (Retains(a, l) /\ Retains(b, l)) =>
                               EntryAt(a, l) = EntryAt(b, l)
                        /\ (TermAt(a, l) # NoTerm /\ TermAt(b, l) # NoTerm) =>
                               TermAt(a, l) = TermAt(b, l)

\* A leader never drops or rewrites an entry of its log: it only appends
\* (propose_command) and compacts what is committed.
LeaderAppendOnly ==
    [][\A i \in Node :
          LET a == node[i]
              b == node'[i]
          IN  (/\ a.role = "Leader" /\ b.role = "Leader"
               /\ a.current_term = b.current_term) =>
                  /\ LastLogIndex(b) >= LastLogIndex(a)
                  /\ \A k \in 1 .. LastLogIndex(a) :
                        (Retains(a, k) /\ Retains(b, k)) =>
                            EntryAt(a, k) = EntryAt(b, k)]_vars

\* As long as no follower has acknowledged more than a request carried, a
\* leader has every entry that a node of its term or of an earlier one holds
\* committed: try_advance_commit_index, the vote restriction of
\* handle_request_vote and compaction together.
LeaderCompleteness ==
    ~over_ack =>
        \A i, j \in Node :
            LET a == node[i]
                b == node[j]
            IN  (a.role = "Leader" /\ a.current_term >= b.current_term) =>
                    /\ LastLogIndex(a) >= b.commit_index
                    /\ \A k \in 1 .. b.commit_index :
                          (TermAt(a, k) # NoTerm /\ TermAt(b, k) # NoTerm) =>
                              TermAt(a, k) = TermAt(b, k)

\* b has what a holds committed, except for what was compacted.
KeepsCommitted(a, b) ==
    /\ b.commit_index >= a.commit_index
    /\ \A k \in 1 .. a.commit_index :
          (Retains(a, k) /\ Retains(b, k)) => EntryAt(a, k) = EntryAt(b, k)

\* As long as no follower has acknowledged more than a request carried, no
\* step of the loop and no restart lowers a node's commit index, and none
\* rewrites an entry the node holds committed: the truncation in
\* handle_append_entries, the recount of try_advance_commit_index and
\* restore_from_snapshot.
CommittedIsKept ==
    [][~over_ack' => \A i \in Node : KeepsCommitted(node[i], node'[i])]_vars

\* The state machines of any two nodes have executed the same commands in
\* the same order, up to the length of the shorter history.
StateMachineSafety ==
    \A i, j \in Node :
        \A k \in 1 .. Len(state_machine[i]) :
            k <= Len(state_machine[j]) =>
                state_machine[i][k] = state_machine[j][k]

\* The same, for the executions in which no follower has acknowledged more
\* than a request carried.
StateMachineSafetyWithExactAcks == ~over_ack => StateMachineSafety

\* Between two passes of the loop a process that never restarted has executed
\* every command up to its commit index, once: compact_committed, which
\* moves last_applied past what it drops, never runs ahead of
\* take_unapplied_entries, although a tick persists without applying.
AppliedUpToCommit ==
    ~over_ack =>
        \A i \in Node : /\ node[i].last_applied = node[i].commit_index
                        /\ Len(state_machine[i]) = node[i].commit_index

\* An entry that some node holds committed is in the logs of a majority, or
\* covered by their snapshots: what try_advance_commit_index counts is what
\* the followers store.
CommittedOnMajority ==
    \A i \in Node :
        LET a == node[i]
        IN  \A k \in 1 .. a.commit_index :
                Cardinality({j \in Node :
                    /\ LastLogIndex(node[j]) >= k
                    /\ \/ TermAt(a, k) = NoTerm
                       \/ TermAt(node[j], k) \in {NoTerm, TermAt(a, k)}})
                  >= Majority(i)

\* A committed entry is executed once: the number of commands a state machine
\* has executed is the index applied last, also after a restart.
AppliedOnce ==
    \A i \in Node : Len(state_machine[i]) = node[i].last_applied
=============================================================================
