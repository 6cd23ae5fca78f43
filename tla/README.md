# Verification of raftust

TLA+ models of the Raft implementation in this repository: the consensus engine
(`raftust-core/src/node.rs`), the event loop that drives it
(`raftust-core/src/runner.rs`), and as much of storage, state machines and
transports as their interaction with these two needs. TLC checks the models on
small clusters, TLAPS proves the central theorems for clusters of every size.
`PROJECT.json` lists components, runs, mutants, the source lines behind every
definition, findings, hazards and theorems.

## 1. The system

| component | state | operations | hard about it |
|---|---|---|---|
| `RaftNode` (`node.rs`) | term, vote, log after the snapshot point, snapshot point, commit index, applied index, role, leader, per-peer next and match index, votes, tick counters | `tick`, `start_election`, four message handlers, `propose_command`, `commit_to`, `take_unapplied_entries`, `compact_committed`, `restore_from_storage` | index arithmetic with compaction; stale and repeated messages; a step down within a term clears the vote |
| `Runner` (`runner.rs`) | owns one node, one transport, one storage, one state machine | the loop: tick, poll messages, one command; each branch sends, applies, compacts and saves | the reply is sent before the save; ticks save (and compact) without applying; save errors are only logged |
| `StorageStrategy`, `FileStorage`, `InMemoryStorage` | one image per node | `load`, `save` | crash between steps; an unreadable image loads as "nothing saved" |
| `StateMachineStrategy`, counter, key-value | the application's value | `apply`, `snapshot`, `restore` | replay after a restart; commands that are not idempotent |
| gRPC and HTTPS transports | inbound queue of 256 messages | `start`, `poll`, `send` | full queue drops; HTTPS answers 200 all the same; an undecodable message ends `run` |
| `config.rs`, example binaries | none after start-up | argument parsing, reading commands | heartbeat interval < election timeout, threshold > 0; every process has its own peer list |

Each process is one thread around one `Runner`. Processes interact only by
messages; listeners run in threads of their own, but only push into the inbound
queue. A send is a remote call that the runner waits for: meanwhile it neither
ticks nor polls. Within a process the runner calls engine, transport, storage and state
machine one after the other, so the branches of the loop are the atomic steps,
with two exceptions that matter: a process may die between them, and a save may
fail.

What makes the parts correct:

* engine and loop together: one leader per term, log matching, leader
  completeness, and state machines that execute the same commands in the same
  order;
* storage: what was saved is what a restart finds, terms and votes above all;
* state machine: each committed command is executed once;
* compaction: nothing is dropped that was not applied or not committed;
* transports: messages arrive as they were sent, at most once, and a send never
  keeps the loop from going on;
* progress: a follower that the leader keeps catches up, and none stands against a
  leader it hears.

## 2. Modules

| module | models | kind |
|---|---|---|
| `RaftNode` | `node.rs`, `types.rs`: a record per `RaftNode`, an operator per method, a second one for what the method returns; also the mutated forms used to test the properties | constant operators |
| `RaftCluster` | `runner.rs`, `storage.rs`, the queue of the transports: one action per branch of the loop | specification |
| `RaftElection` | the inductive invariant of the election argument | invariants |
| `RaftLog` | the inductive invariant of the logs: every log is made of pieces of the leaders' logs | invariants |
| `RaftCommit` | the inductive invariant of commits, what the state machines have executed, and the refinement of `CommandLog` | invariants |
| `CommandLog` | what the cluster promises its clients: one log of commands that only grows, executed in order by every machine | abstract specification |
| `MergeLoop` | the loop of `handle_append_entries`, lines 266 to 282, one iteration per step | specification |
| `FileStorage` | `raftust-core-storage-file/src/lib.rs`: `save` as its file system calls, `load` | specification |
| `ImageStore` | what such a storage promises: a register of whole images | abstract specification |
| `LeaderTenure` | the tick counters of `node.rs`, the order of ticks and messages, FIFO queues, from an election won to the next candidacy; uses `RaftNode` and `Configuration` | specification with fairness |
| `Configuration` | `parse_config`: defaults, the last of several values, refusals | constant operators |
| `Transport` | both transports: runner and listener threads, the queue, calls, `poll` | specification with fairness |
| `StateMachines` | counter and key-value store: `parse_command`, `apply`, `snapshot`, `restore` | constant operators |
| `SnapshotInstall` | the `InstallSnapshot` handler between the other branches of the loop, with a real state machine and the image on disk; uses `RaftNode` and `StateMachines` | specification |
| `MCRaftCluster` | symmetry, view and a later starting point for TLC | model |
| `MCSnapshotInstall` | fewer leaders' logs for TLC | model |
| `RaftNodeProofs`, `RaftElectionProofs` | lemmas about the operators; type correctness; election safety | proofs |
| `RaftLogProofs` | log matching, leaders only append, durable votes | proofs |
| `RaftCommitProofs` | leader completeness, commits are kept, state machine safety, the refinement of `CommandLog` | proofs |
| `MergeLoopProofs` | the loop of `handle_append_entries` computes the closed form | proofs |
| `FileStorageProofs` | the file invariant and the refinement | proofs |
| `TransportProofs` | what arrives is what was sent, in order and at most once | proofs |
| `SnapshotInstallProofs` | node, machine and disk stay on one history when snapshots are installed | proofs |

### How actions correspond to the code

Every action of `RaftCluster` is one pass through one branch: handler, messages,
`apply_committed_entries`, `persist` (compaction, then save). `ApplyAndPersist`
and `Persist` are that tail, the second alone on a tick, because a tick does not
apply.

| action | code |
|---|---|
| `TickIdle`, `TickHeartbeat`, `TickElection` | `run` lines 106-111 with the two arms of `tick` |
| `ForceElection`, `Propose` | `process_command` |
| `ReceiveRequestVote`, `ReceiveRequestVoteResponse`, `ReceiveAppendEntries`, `ReceiveAppendEntriesResponse` | `process_communication` |
| `Restart` | end of the process, then `run` lines 88-102 and `restore_from_snapshot` |
| `Lose` | a message that is lost with its connection |

State: `node[i]`, `state_machine[i]` (the commands executed so far: `snapshot`
is this sequence and `restore` puts it back, which is exact for any
deterministic machine), `disk[i]` (the last `StorageSnapshot`), `msgs`.
`restarts` only bounds. History variables record what properties and proofs speak
about and no guard of the protocol reads: `cast` (votes given), `elected`
(elections won, with the votes), `over_ack` (some success acknowledged more than
its request carried), `acks` (acknowledgements sent), `full_log[i]` (the log of `i`
with the part that compaction dropped) and `term_log[t]` (the log of the leader of
term `t`, as far as it got). The bound on candidacies counts the self-votes in `cast`.

Abstractions. Tick counters and sampled timeouts are left out: any tick may find
a timer due. This only adds behaviours, so safety results carry over. The one
place where a counter decides something is kept: the tick right after an election
announces the leader only when the heartbeat interval is at most 1
(`become_leader` has just reset `heartbeat_elapsed`); `HeartbeatInterval`
decides it. A missing key of the two index maps is 0, which the code can never
store as a next index and which counts for no log index. `u64`/`usize` do not
overflow in any run that could happen.

The network. A message waits in `msgs`, may be received in any order, or never.
`Redelivery = TRUE` also lets it be received again: the transports send each
message once, but the code sends equal messages again and again (heartbeats,
retries), and a set does not count them. `Redelivery = FALSE` with a small
`InboxSize` models the bounded queue: a message for a full inbox is dropped at
once, as `try_send` does.

Failed saves. `SaveSucceeds = {TRUE}` is a storage that never fails and a process
that only dies between two passes of the loop. `{TRUE, FALSE}` covers a write
error (only logged) and a process that dies after sending and before saving.

### File storage

`FileStorage` takes `save_snapshot_file` apart: create the temporary file, write it
in chunks, sync it, rename it. Any call may fail (`save` logs and returns, whatever
is in the temporary file stays there), the process may be killed between any two,
and the power may fail. The read at a start may fail too: `load_snapshot_file` makes
`None` of every error, so a node that could not read its file starts as a new one
(`unread`). The file system is external: a synced file survives, of any
other a beginning may be left, and a rename is atomic but reaches the medium only
some time later (`Flush`), because the code does not sync the directory.

`ImageStore` is the promise: a save takes effect at one instant or not at all, a
new image becomes durable later, a power failure brings back the durable one. The
mapping is `stored <- Load(final)`, `durable <- Load(flushed)` and `pending` the
image being saved. `RaftCluster` uses this register with each save as one step and
without power failures; one that loses a completed save leads to the same states as
`SaveSucceeds = {TRUE, FALSE}`: a process that restarts from an older image. A restart of
`RaftCluster` and of `SnapshotInstall` can read its file.

### A leader's tenure

`LeaderTenure` starts with the state in which the runner leaves a new leader: it has
been elected over any logs that two earlier leaders can have left (an entry of the
first, an entry of the second, in either order of knowledge), any part of which may be
committed, and one of three processes may be down. `clock[i]` holds the counters that
`RaftNode` leaves out. Every process ticks once per round, the rounds' order is free,
and a message that is in a queue when a round begins is handled before its receiver
ticks in that round: the loop polls every 5 ms and ticks every `tick_ms` (100). The
tenure ends when some node stands (`stood`), which only fixes where the model stops.
The settings are what `parse_config` accepts of a command line with a timeout of 4
ticks and an interval of 1, 3 or 4.

### Transports

In `Transport` the runner's send is three steps: the call is made, the listener of the
process at that address handles it, the answer comes back. A call may end without an
answer, and its request may then still arrive (`stray`). A link may go silent: an HTTPS
call then ends by the 30 seconds of the client, a gRPC call has no limit. Peer tables
may have a missing or a wrong entry. Messages are requests (which carry their sender in
the body) or responses (whose sender is taken from the envelope). The queues, drops and
delays seen here are the network of `RaftCluster`, which drops, delays and reorders at
least as much. `start` and `spawn_listener` are the initial state and `Bind`.

### Installing a snapshot

`SnapshotInstall` is one node with a counter or a key-value store. Nothing in the
repository sends `InstallSnapshot`; the sender assumed sends the machine's image of a
prefix of the committed log with the right index and term, at any time and in any
term, or an image of the other machine. `logs` has for every term the log its leader ends
with. These logs agree up to what a leader of an earlier term may call committed
(`Committed`) and may conflict after it, so a request can be refused because the terms
differ, or find another entry in its place and truncate the node's log. The handler is one action: refusal of an
earlier term, refusal of an unreadable image, otherwise restore, reset of the engine,
save of the received bytes, answer. Around it the node receives entries, votes, stands,
compacts and restarts.

## 3. Runs

Three nodes in every cluster run: the smallest cluster in which majorities overlap in one
node. Bounds: `MaxElections` candidacies in the whole cluster, `MaxLogIndex` on
proposals, `MaxRestarts`.

| run | bounds | shows |
|---|---|---|
| `restarts` | from an elected leader: 2 candidacies, 1 entry, 1 restart, inbox of 1, heartbeat interval 1, compaction at once | `TypeOK`, the inductive `ElectionInv`, `LogInv`, `CommitInv` and `MachinesFollowLogs`, `LeaderCompleteness`, `VoteIsDurable`, `CommittedIsKept` |
| `reordering` | from an elected leader: 2 candidacies, 1 entry, two commands, redelivery | `ElectionSafety`, `VotesOnlyTwiceAfterLoss`, `LeaderIsElected`, `StateMachineSafetyWithExactAcks`, and that the cluster implements `CommandLog` (`ImplementsCommandLog`). The first leader's request to the third node is still under way, so the rival of the second election can stand, lose, forget its vote and be asked again in the same term. |
| `three_leaders` | from an elected leader: 3 candidacies, 1 entry, inbox of 1, compaction at once | `LeaderCompleteness`, `AppliedUpToCommit` |
| `long_logs` | from an elected leader: 2 candidacies, 2 entries, threshold 2, inbox of 1 | `LogMatching`, `LeaderAppendOnly`, `CommittedIsKept` |
| `merge_loop` | logs and requests of up to 3 entries, terms up to 2, snapshot point 0 or 1 (`MaxSnapshot`) | `LoopComputesMerge`, `PushesAreContiguous` |
| `file_storage` | two images, two writes per image; crashes unbounded | `FileInv`, `NoAmnesia`, and that `FileStorage` implements `ImageStore` |
| `tenure` | leader and one follower up, the third down; 1 proposal, 1 lost message, queues of 3, timeout 4, intervals 1, 3 and 4, threshold 1 | `QuietFollowers`, `CatchUp` |
| `transport` | 3 processes, 2 of them sending 2 messages each, queues of 1, one fault (wrong or missing peer entry, port not bound, exit, silent link or broken call), both transports | the inductive `TransportInv`, `HandedAsSent`, `InOrderAtMostOnce`, `SentIsNotLost`, `SendReturns`, `UnreachableEnds` |
| `snapshots` | two leaders' logs of 3 entries, conflicting ones included, terms up to 2, threshold 2, 1 restart, counter that saturates at 2 and key-value store; the first leader proposes one command again and again (`MCInit`) | the inductive `InstallInv`, `MachineMatchesIndex`, `ImageIsRestorable`, `OnlyInstallUncommits`, `SecondVoteOnlyAfterInstall` |
| `over_acknowledgement`, `lost_save`, `replayed_entries` | small | the three findings below |

The runs "from an elected leader" start in the state after a first election whose
other messages were lost (`InitLed`; with redelivery the request to the third node
is still there). It is computed with the engine's own
operators, and its candidacy counts towards `MaxElections`. Without redelivery it is
reachable from `Init`. With redelivery every message stays receivable for ever, so what
`InitLed` starts are the behaviours in which the first request to the voter and its
answer are not received a second time: the only two messages a real run could repeat
there and these runs do not.

Reductions. Nothing compares the ids of nodes or looks into commands. The runs from
`Init` use the symmetry of the nodes and `reordering` that of the commands; in
`InitLed` the three nodes have different parts (the leader, its voter, the one that
has not heard), so the run fixes which is which instead. `View` hides the content, not the number, of responses that
every later handler ignores: those of a term the receiver has left, those to a
receiver that has lost the role they are for, and refused votes. A node never
returns to a term in the same role, so two states with the same view have the
same future. (With redelivery the number does not matter either, since the
inbox of 256 is never full.) `LogView`, for the runs about logs, leaves out the
history of votes and elections as well: their properties do not read it, and of
its content a step reads only the number of candidacies, which is kept.
`HistoryView`, for `restarts`, adds the histories of the logs and acknowledgements to
`View`, because the invariants of the proofs read them, except for acknowledgements of
index 0: they back no entry, and only the response sent in the same step is compared
with one.

`merge_loop` stops when the loop is through, `tenure` when a node stands, and
`transport` when the bounded sends are made, so deadlock is not checked there.
In the cluster runs a tick is always possible, and the storage process can always be
killed or started.

The properties about commits hold only without over-acknowledgement (next section)
and say so: they start with `~over_ack`. Executions with an over-acknowledgement are in the
runs too; every other property is checked on them as well.

Why the bounds of the other runs are enough. In `tenure` two entries of two terms
give every relation of two logs that the protocol tells apart (shorter, longer,
conflicting, compacted on either side), a threshold of 1 puts the snapshot point
wherever the commit index is, one lost message is what the exception of `CatchUp`
takes. An interval of 3 is the boundary case of a timeout of 4, the interval 4 is there
to be refused, and with an interval of 1 a timeout of 4 is more than one lost message
explains, so that there `QuietFollowers` says that no follower that hears the leader
stands at all. In `transport` queues of one place
and two sends per runner are what it takes for both runners to wait for each other
with both queues full. In `snapshots` three entries put a snapshot before, at and
after the commit index and the end of the log, and leave room for a conflict after a
committed entry; two terms are enough for a conflict. The first leader's commands are
all the same: what the machines hold depends on the committed log, which is the last
leader's and can be any.

Fairness. `tenure` assumes weak fairness of ticks, of handling the head of each queue
and of the rounds: the loop of `run` never blocks other than in a send (`transport`
says when that ends), polls until the queue is empty and ticks whenever `tick_ms` is
over. While refusals circulate without end the queue may never be empty and a real
loop does not come to its tick; that is inside the exception of `CatchUp`. There is no
fairness of proposals, and none against lost messages. `transport` assumes that
threads run and that packets arrive on a link that is not silent; nothing makes a
silent link recover, a connection break or a late request arrive.

## 4. What the runs found

1. **Over-acknowledgement** (`node.rs:301`). A successful `AppendEntriesResponse`
   carries the follower's whole log length. A heartbeat of a new leader with an
   empty log (`prev_log_index` 0, no entries) is accepted by a follower that still
   has an entry of the old leader; its answer claims index 1. When the new leader
   then proposes, the next such answer commits an entry that no other node has.
   `over_acknowledgement` shows it in ten states. The leader also sets
   `next_index` beyond its own log and then sends nothing to that follower
   (`term_at` answers `None`).
2. **Reply before save** (`runner.rs:139` and `148`). With a save that fails, or a
   crash after the reply, `lost_save` elects two leaders of one term.
3. **Replay** (`node.rs:450`). The saved state machine includes everything up to
   the commit index, but `last_applied` restarts at the snapshot point:
   `replayed_entries` executes a command twice.

What the runs of the other modules say is in the
exceptions their properties need; each is reached in the run:

* `NoAmnesia`: an image on the medium is not forgotten, unless the read at the start
  fails. `load` answers `None` then, too (`raftust-core-storage-file/src/lib.rs:35`), and
  the node starts with term 0 and no vote.
* `CatchUp`: a lost message can leave a follower for ever without new entries. Two
  refusals in flight, the retry to the first one lost: the second steps `next_index`
  below the follower's snapshot point, whose refusals name the right index
  (`node.rs:219`), which the leader does not read (`node.rs:331`). Every retry is
  refused at once and retried at once, each heartbeat adds one more such exchange, and
  the follower hears so much from its leader that it never stands. With an interval of
  one tick the same happens without any loss, because heartbeats overtake the refusals
  of earlier ones.
* `CatchUp` also says what becomes of the follower the leader cannot serve
  (`node.rs:518`, `523`): the leader is silent towards it, so it ends the tenure.
* `QuietFollowers`: `parse_config` accepts an interval one tick below the election
  timeout, and there the phases of two processes alone make a follower stand.
* `SendReturns`: over gRPC a peer whose packets vanish stops the sender's whole loop.
* `InOrderAtMostOnce`: what was reported as dropped may arrive later.
* `SecondVoteOnlyAfterInstall`: an `InstallSnapshot` of the current term clears the
  vote (`runner.rs:219`).
* `OnlyInstallUncommits`: a snapshot older than the log is installed, and entries the
  node has acknowledged are gone, committed ones too. Otherwise a log only gets shorter
  where `handle_append_entries` replaces an uncommitted entry (`node.rs:274`).

On the other side, two things that look wrong are not: `become_follower` forgets a
vote within a term (`VotesOnlyTwiceAfterLoss` says when, and that it is harmless),
and a tick compacts without applying (`AppliedUpToCommit`).

## 5. Proofs

All for any finite non-empty set of nodes, any threshold, any network setting and
any bounds. Assumptions on constants: `NodeAssumption`, `ThresholdAssumption`,
`RunnerAssumption`; `LoopAssumption`, `StorageAssumption`, `FileAssumption`,
`TransportAssumption`, `CallAssumption`, `I64Assumption` and `InstallAssumption` for the
other components. TLC evaluates
them in the runs of the modules that state them.

* `TypeCorrect`: `Spec => []TypeOK`, also with failing saves. `TypeOK` is
  inductive as it stands. `RaftNodeProofs` has one lemma per operator of the
  engine (what it returns is a `NodeState`, a message, a sequence of entries), so
  the step for an action is a chain of citations. The delicate ones are
  `MergeType` (the closed form is a sequence), `CommittableHasMax` (a finite
  non-empty set of indices has a largest) and `RequestVotesType` (the last index
  always has a term).
* `OneLeaderPerTerm`, `ForgottenVotesAreHarmless`, from `ElectionInvariant`, for
  `SaveSucceeds = {TRUE}`. `lost_save` shows that the assumption is needed.

* `SavedFileIsWhole`, `RestartRemembers` and `FilesImplementStore` for the file
  storage, from `StorageAssumption` and `FileAssumption`. `FileInv` is inductive:
  what is under the final name is complete and synced, and the temporary file is
  both when the save comes to the rename. That makes `Rename` the step that commits
  in `ImageStore`, and a power failure a step back to `durable`, since nothing of a
  synced file is lost.

### Elections

`ElectionSafety` speaks of elections only, so it is far from
inductive. Textbook Raft uses "a node votes once per term"; here that is false,
because a node that stood and lost forgets its vote. `ElectionInv` replaces it:

* `BallotIsSaved`: what a restart would restore is what the node has;
* `LedgerMatchesBallots`: the votes given in a node's current term are its current
  vote, or a vote for itself in a term that another node has won;
* `RolesAreEarned`, `MessagesAreEarned`: tallies, leaders, granted votes and
  AppendEntries are backed by votes and elections that took place;
* `ElectionsHaveQuorums`: each election has a majority of votes;
* `VotesOnlyTwiceAfterLoss` and `ElectionSafety` themselves.

If a node wins a term that was won before, the two majorities share a node
(`MajoritiesMeet`), which voted for both. By `VotesOnlyTwiceAfterLoss` it is one of
the two; the new winner cannot be it, since it still holds its own vote as a
candidate, and the old winner cannot have lost to anybody, by `ElectionSafety`
before the step. `KeepsBallot`, `SeesLaterTerm`, `FollowsWinner`, `GivesVote`,
`Wins` and `StandKeeps` are the ways in which a step changes a ballot;
`ElectionNext` sorts the actions into them.

### Logs

`LogMatching` compares two logs in memory; a step may change one of them through a
message that was sent long ago, after a compaction or a restart of either side.
`LogInv` therefore relates every log to the logs of the leaders, with the history
variables `full_log` and `term_log`:

* `LogsAreHeld`, `LogIsSaved`: a node retains the end of its full log, with the right
  term at its snapshot point, and so does its disk;
* `LeadersHaveLogs`: a leader's full log is the log of its term, and each term with a
  log has an election;
* `LogsFollowLeaders`: up to any entry of term `t`, a log is a prefix of the log of the
  leader of `t`;
* `MessagesCarryLogs`: each AppendEntries is a piece of the log of its term's leader;
* `LogsAreSorted`: terms never decrease along a log.

`LogsMatch` follows at once: two logs with an entry of term `t` at the same index have
the prefix of `t`'s leader. That a term has one leader is `ElectionInv`, which the
induction uses at every step where a leader appends. The step for
`handle_append_entries` (`MergeFollows` and its lemmas) shows that the merged log
is a follower's log up to the previous index and a piece of the leader's after it.
`LeadersOnlyAppend`, `VotesAreDurable` and `NamedLeaderIsElected` come from the same
case analysis. All for `SaveSucceeds = {TRUE}` and any number of restarts.

### Commits and state machines

`LeaderCompleteness` is false of the code as it is (finding 1), so it and `CommitInv`
are about executions in which no success acknowledged more than its request carried.
That is a condition on the execution so far, not on the constants; `reordering`,
`three_leaders` and `restarts` reach states on both sides of it. Within it the
argument is the one of Raft, with acknowledgements in place of stored entries:

* `Chosen(t, k)`: entry `k` of the leader of `t` is of that term and a majority backs
  it, the leader or an acknowledgement of `t` up to `k` or beyond;
* `BackersKeep`: who backed an entry still has it, unless a leader in between did not;
* `VotersKnow`: what a voter backed the candidate has, by the comparison in
  `handle_request_vote`, again unless a leader in between did not;
* `CommitsAreChosen`, `MatchesAreAcked`, `MessagesAreBacked`: commit indices of nodes,
  disks and messages end at a chosen entry, and what a leader counts was acknowledged.

"Unless a leader in between did not" (`LostBetween`) is what makes it inductive: the
first leader after `t` without a chosen entry would have a voter among its backers, who
can name no earlier leader without it. So there is none (`ChosenIsKept`), and
`LeadersAreComplete` and `CommitsAreKept` follow. `CommitsAreKept` covers restarts, as
the commit index is part of the image.

`MachinesExecuteTheLog`: before the first restart each machine has executed the
committed commands of its full log. After a restart that is false (finding 3), hence
`restarts = 0` in `MachinesFollowLogs`; `MachinesAgree` and `CommittedIsApplied` state
it for `MaxRestarts = 0`, the setting of the runs that check these two.

`ClusterImplementsCommandLog` puts it together in terms a client understands. The
mapping takes `executed` from the state machines and `chosen` from the longest of them
(`Longest`): commit and execution are one step of the loop, so this is all that is
committed anywhere. A pass of the loop appends to one machine (`PassExecutes`); after it
all machines agree (`SameCommands`), so every machine is a prefix of the longest
(`PrefixOfLongest`), the old longest included, and the step is `Execute` of the abstract
specification (`PassIsExecute`). That a longest machine exists is an induction over the
finite set of nodes (`SomeIsLongest`). The refinement is stated step by step, for the
steps up to which no acknowledgement was too long and no process has restarted: findings
1 and 3 are exactly the two ways out of it.

### The merge loop

`LoopIsMerge` and `PushesLeaveNoGap` hold for logs, requests and snapshot points of any
size. `LoopInv` says that after `n` iterations the log is the closed form applied to the
first `n` entries of the request, so the induction is over the steps of the
specification, not over data.

### Transports

`TransportInv` says of every send where it is: under way as the call of its sender and
not arrived, given up and not arrived (`GivenUp`), or arrived once at the process at
its address (`ArrivedAsSent`, `ArrivedInOrder`, over polled messages and queue
together). An envelope names its send by sender and number (`CarriesNames`), and
decoding undoes encoding (`DecodeUndoesEncode`), which gives `LoopGetsWhatWasSent`. The
order holds because a call that arrives is the latest of its sender, and a request that
arrives after it was given up counts as dropped. `CallAssumption` says that "no call" is
not a call. Fairness plays no part in these theorems.

### Installing snapshots

`InstallInv` says that node, machine and disk stand at points of one committed history:
the log is made of pieces of the leaders' logs, begins at the snapshot point, and is the
history up to the commit index (`OnHistory`), everything committed is
applied at the end of a pass, the disk has the node's fields (`DiskIsCurrent`), and the
machine and its image are what the first `commit_index` commands make of a new machine.
`MachineMatchesIndex` alone is not inductive: a restart replays the commands after the
snapshot point on top of the image, so the invariant has to say at which index the image
was taken, and the merge must not move a committed entry, so it has to say which log the
entries are from. `VotesAreRemembered` does the same for `SecondVoteOnlyAfterInstall`.

The theorems hold for every history, any number of terms and restarts, any saturation
bound and both machines. They rest on lemmas about the machines:

* `ApplyAll` is a function defined by recursion on the number of commands. That the
  function exists (`PassesExist`) and that applying the commands one after the other, or
  in two parts, gives the same (`ApplyNext`, `EffectsAreListed`) are inductions over
  data. They are done by hand: the set of numbers for which the claim fails would have
  a smallest member, and the number before it leads to a contradiction (`UpTo`, from
  the well-foundedness of the order on the naturals).
* `ReplayIsHarmless`: a key-value store that has executed a sequence of commands does
  not change when it executes the end of that sequence again, wherever the end begins.
  For a counter this is false; `Exact` leaves out counters that a restart made replay
  (finding 3) until a snapshot is installed over them.
* `RestoreUndoesSnapshot`, `OthersAreUnreadable`: a machine reads back its own snapshots,
  and not those of the other kind.

`NothingElseUncommits` and `OnlyInstallTakesVotes` are what a reviewer would ask of the
handler: it is the only place where a commit index goes back or a vote is forgotten. The
former takes the merge apart: either the request agrees with the log as far as both
reach, and nothing gets shorter, or there is a first conflict, which lies after the
commit index because logs of leaders agree up to there, and the new last entry has the
term of the request's leader.

### What stays with TLC

* `QuietFollowers`, like everything about `LeaderTenure`: it depends on which messages
  share a round and on what a full queue drops, for which the model has no invariant
  beyond the sizes of the run.
* The liveness properties `CatchUp`, `SendReturns` and `UnreachableEnds`: the prover has
  no rule for fairness.
* `StateMachineSafetyWithExactAcks` and `AppliedUpToCommit` are proved without restarts
  only, and `ImplementsCommandLog` up to the first restart, which is where they hold.
* The violations of section 4.

## 6. Not modelled

* Several terms with tick counters: whether the cluster gets a leader at all depends on
  random timeouts, and the models are not probabilistic. `LeaderTenure` therefore ends
  with the first candidacy.
* Restarts of the cluster after a read error: nothing can be stated of them.
* Clusters whose members have different peer lists: every cluster model has one set of
  nodes. `Transport` covers wrong addresses only.
* The JSON format beyond "complete or not" (the `serde` defaults of older files
  included); the in-memory storage across a restart (it forgets everything).
* Of the command languages everything but a few representative commands; a state
  machine with the trait's default `snapshot` and `restore`.
* Certificates, TLS, HTTP and gRPC themselves; conversions between `u64` and `usize`
  that fail on 32-bit machines, and envelopes without a payload, which no sender here
  makes (either would end `run`).
* `Status`, `describe` and metrics, which change nothing; addresses, `tick_ms` and the
  help text of the command line; the example binaries.

## 7. Plan

In order of importance; the modules so far are the first item of each list.

1. Models: done. What could be added is a second fault in `transport` and a third
   process in `tenure`, both beyond a run of five minutes.
2. Abstract specifications: `ImageStore`, `CommandLog` (done).
3. Proofs: types, elections, logs, commits, state machines, the merge loop, file
   storage, transports, installed snapshots and both refinements (done). What could be
   added is `QuietFollowers`, once the model says what a full queue drops.
