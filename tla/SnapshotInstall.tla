--------------------------- MODULE SnapshotInstall --------------------------
(***************************************************************************)
(* One node with its state machine and its storage: the handler of         *)
(* InstallSnapshot between appended entries, elections and restarts.  No   *)
(* code of this repository sends an InstallSnapshot (build_append_entries  *)
(* sends nothing to a follower that needs one); the sender here does what  *)
(* the message says: it sends the image of committed entries.  Peers with  *)
(* another state machine send images this one cannot read.                 *)
(*                                                                         *)
(* Every term has the log its leader ends with.  These logs agree on what  *)
(* is committed and may conflict after it, so a request can find another   *)
(* entry in its place and truncate the node's log.                         *)
(***************************************************************************)
EXTENDS RaftNode, StateMachines

CONSTANTS
    Self,           \* the node
    Leader,         \* the peer that leads, in every term
    CounterRaw,     \* the commands proposed to a counter
    KeyValueRaw,    \* the commands proposed to a key-value store
    MaxIndex,       \* bound: length of the leaders' logs
    MaxTerm,        \* bound: terms of messages
    MaxRestarts     \* bound

ASSUME InstallAssumption ==
    /\ Self \in Node /\ Leader \in Node \ {Self}
    /\ CounterRaw \cup KeyValueRaw \subseteq Value
    /\ MaxIndex \in Nat /\ MaxTerm \in Nat \ {0} /\ MaxRestarts \in Nat

VARIABLES
    machine,        \* the state machine the node runs
    logs,           \* the log the leader of each term ends with, from index 1
    node,           \* the RaftNode
    state_machine,  \* the state of its machine
    disk,           \* the last image saved
    reply,          \* the answer to the InstallSnapshot just handled, or Nil
    granted,        \* history: <<term, candidate>>, votes for other nodes
    cleared,        \* history: terms in which an InstallSnapshot took a vote
    replayed,       \* history: a restart applied entries the image had already
    restarts        \* restarts so far (bound only)

vars == <<machine, logs, node, state_machine, disk, reply, granted,
          cleared, replayed, restarts>>

Commands(entries) == [k \in 1 .. Len(entries) |-> entries[k].command]

TermOf(log, k) == IF k = 0 THEN 0 ELSE log[k].term

SameUpTo(a, b, k) == \A j \in 1 .. k : a[j] = b[j]

\* A log comes from the leaders of the terms up to t: up to an entry of term
\* v it is what the leader of v had there.
FromLeaders(log, t) ==
    \A k \in DOMAIN log : /\ log[k].term \in 1 .. t
                          /\ SameUpTo(log, logs[log[k].term], k)

\* The last leader's log: it has everything that is ever committed.
history == logs[MaxTerm]

\* Entries that the leader of term t may call committed: every later leader
\* has them too.
Committed(t, k) ==
    \A u \in 1 .. MaxTerm : u >= t => SameUpTo(logs[u], history, k)

\* What a machine holds that has applied the first k entries.
Effect(k) ==
    ApplyAll(machine, NewMachine(machine), Commands(SubSeq(history, 1, k)))

\* What persist saves, and what a new process loads before the first save.
Image(n, state) == FromNode(n, Snapshot(machine, state))

Init ==
    /\ machine \in Machines
    /\ \E terms \in [1 .. MaxTerm -> [1 .. MaxIndex -> 1 .. MaxTerm]],
          raw \in [1 .. MaxTerm -> [1 .. MaxIndex ->
                     IF machine = "counter" THEN CounterRaw ELSE KeyValueRaw]] :
          logs = [t \in 1 .. MaxTerm |-> [k \in 1 .. MaxIndex |->
                     [term |-> terms[t][k], command |-> raw[t][k]]]]
    /\ \A t \in 1 .. MaxTerm : FromLeaders(logs[t], t)
    /\ node = NewNode
    /\ state_machine = NewMachine(machine)
    /\ disk = Image(NewNode, NewMachine(machine))
    /\ reply = Nil
    /\ granted = {}
    /\ cleared = {}
    /\ replayed = FALSE
    /\ restarts = 0

-----------------------------------------------------------------------------
(* What the node does otherwise.                                           *)

Persist(n, state) ==
    /\ node' = MaybeCompactLog(n)
    /\ state_machine' = state
    /\ disk' = Image(MaybeCompactLog(n), state)

ApplyAndPersist(n) ==
    Persist(MarkApplied(n),
            ApplyAll(machine, state_machine, Commands(UnappliedEntries(n))))

\* Where the log of the leader of term t ends while it leads: it begins with
\* entries of earlier terms and appends its own.  It sends it to the end.
LeaderLog(t) ==
    {k \in 0 .. MaxIndex : k = MaxIndex \/ logs[t][k + 1].term = t}

AppendEntriesOf(t, prev, last, commit) ==
    [type |-> "AppendEntries", from |-> Leader, to |-> Self, term |-> t,
     prev_log_index |-> prev, prev_log_term |-> TermOf(logs[t], prev),
     entries |-> SubSeq(logs[t], prev + 1, last), leader_commit |-> commit]

ReceiveAppendEntries(t) ==
    /\ \E last \in LeaderLog(t) : \E prev, commit \in 0 .. last :
          /\ Committed(t, commit)
          /\ ApplyAndPersist(HandleAppendEntries(node,
                AppendEntriesOf(t, prev, last, commit)))
    /\ reply' = Nil
    /\ UNCHANGED <<machine, logs, granted, cleared, replayed, restarts>>

\* How the log of a candidate of term t may end: with an entry of an earlier
\* term.
CandidateEnds(t) ==
    {end \in UNION {{<<k, TermOf(logs[u], k)>> : k \in 0 .. MaxIndex} :
                      u \in 1 .. t} : end[2] < t}

ReceiveRequestVote(candidate, t) ==
    \E end \in CandidateEnds(t) :
        LET m == [type |-> "RequestVote", from |-> candidate, to |-> Self,
                  term |-> t, last_log_index |-> end[1],
                  last_log_term |-> end[2]]
        IN  /\ ApplyAndPersist(HandleRequestVote(node, m))
            /\ granted' = IF GrantsVote(node, m)
                          THEN granted \cup {<<t, candidate>>}
                          ELSE granted
            /\ reply' = Nil
            /\ UNCHANGED <<machine, logs, cleared, replayed, restarts>>

TickElection ==
    /\ node.current_term < MaxTerm
    /\ Persist(StartElection(Self, node), state_machine)
    /\ reply' = Nil
    /\ UNCHANGED <<machine, logs, granted, cleared, replayed, restarts>>

TickIdle ==
    /\ Persist(node, state_machine)
    /\ reply' = Nil
    /\ UNCHANGED <<machine, logs, granted, cleared, replayed, restarts>>

\* A new process: restore_from_snapshot logs an image the machine cannot read
\* and goes on, then the committed entries after the snapshot are applied.
Restart ==
    LET restored == RestoreFromStorage(disk)
        again == Commands(UnappliedEntries(restored))
    IN  /\ restarts < MaxRestarts
        /\ restarts' = restarts + 1
        /\ node' = MarkApplied(restored)
        /\ state_machine' = ApplyAll(machine,
              Restore(machine, NewMachine(machine),
                      disk.state_machine_snapshot), again)
        /\ replayed' = (replayed \/ again # << >>)
        /\ reply' = Nil
        /\ UNCHANGED <<machine, logs, disk, granted, cleared>>

-----------------------------------------------------------------------------
(* InstallSnapshot.                                                        *)

\* Mutant: what was applied stays applied.
InstallKeepsApplied(n, m) ==
    [RestoreFromStorage(
        [current_term        |-> m.term,
         voted_for           |-> Nil,
         log                 |-> << >>,
         commit_index        |-> m.last_included_index,
         last_included_index |-> m.last_included_index,
         last_included_term  |-> m.last_included_term])
     EXCEPT !.leader_id = m.from,
            !.last_applied = Larger(@, n.last_applied)]

\* restore_from_storage with the fields of the request: the whole log, the
\* vote and the role go, also when the node is ahead of the snapshot.
Install(n, m) ==
    [RestoreFromStorage(
        [current_term        |-> m.term,
         voted_for           |-> Nil,
         log                 |-> << >>,
         commit_index        |-> m.last_included_index,
         last_included_index |-> m.last_included_index,
         last_included_term  |-> m.last_included_term])
     EXCEPT !.leader_id = m.from]

\* Mutant: an image that the machine cannot read is installed.
RefusesStale(m) == m.term < node.current_term

Refuses(m) == m.term < node.current_term \/ ~Restorable(machine, m.data)

\* The image is saved with the data as received.  Nothing else is applied.
HandleInstallSnapshot(m) ==
    /\ reply' = [term    |-> IF Refuses(m) THEN node.current_term ELSE m.term,
                 success |-> ~Refuses(m)]
    /\ IF Refuses(m)
       THEN UNCHANGED <<node, state_machine, disk, cleared, replayed>>
       ELSE /\ state_machine' = Restore(machine, state_machine, m.data)
            /\ node' = Install(node, m)
            /\ disk' = FromNode(Install(node, m), m.data)
            /\ cleared' = IF node.current_term = m.term
                             /\ node.voted_for # Nil
                          THEN cleared \cup {m.term}
                          ELSE cleared
            /\ replayed' = FALSE
    /\ UNCHANGED <<machine, logs, granted, restarts>>

\* The sender runs the same machine, or another.
ReceiveInstallSnapshot(t) ==
    \E last \in 1 .. MaxIndex, theirs \in Machines :
        /\ Committed(t, last)
        /\ HandleInstallSnapshot(
              [from |-> Leader, to |-> Self, term |-> t,
               last_included_index |-> last,
               last_included_term  |-> TermOf(history, last),
               data |-> Snapshot(theirs, IF theirs = machine
                                         THEN Effect(last)
                                         ELSE NewMachine(theirs))])

Next ==
    \/ \E t \in 1 .. MaxTerm :
          \/ ReceiveAppendEntries(t)
          \/ ReceiveInstallSnapshot(t)
          \/ \E candidate \in Peers(Self) : ReceiveRequestVote(candidate, t)
    \/ TickElection
    \/ TickIdle
    \/ Restart

Spec == Init /\ [][Next]_vars

-----------------------------------------------------------------------------
(* Properties.                                                             *)

\* The counter counts twice what a restart replays (AppliedOnce in
\* RaftCluster); the key-value store does not notice.
Exact == machine = "key_value" \/ ~replayed

\* The state machine holds the effect of exactly the entries up to
\* last_applied, whatever snapshots are installed over what is already there,
\* older ones too, and through restarts that replay committed entries.
MachineMatchesIndex == Exact => state_machine = Effect(node.last_applied)

\* The image on disk can be read by the machine that will have to read it,
\* since a restart only logs when it cannot (runner.rs, line 396), and its
\* machine part covers the snapshot point and no more than the commit index,
\* which makes the replay after a restart end where the machine was.
ImageIsRestorable ==
    LET data == disk.state_machine_snapshot
    IN  /\ Restorable(machine, data)
        /\ Exact => \E k \in disk.last_included_index .. disk.commit_index :
                       Restore(machine, NewMachine(machine), data) = Effect(k)

\* Another entry took the place of an uncommitted one: the log now ends with
\* an entry of a term the node did not have there.
Truncated ==
    /\ LastLogIndex(node') > node.commit_index
    /\ LastLogTerm(node') # TermAt(node, LastLogIndex(node'))

\* The node stands exactly on a snapshot, in memory and on disk, before it
\* says so.
OnSnapshot ==
    /\ reply' = [term |-> node'.current_term, success |-> TRUE]
    /\ node'.log = << >>
    /\ RestoreFromStorage(disk') = [node' EXCEPT !.leader_id = Nil]

\* The term never goes back, not through a late InstallSnapshot and not
\* through a restart, and the commit index only when a snapshot older than it
\* is installed.  The end of the log goes back then too, and when
\* handle_append_entries finds an uncommitted entry in conflict; a late or
\* repeated request that agrees with the log shortens nothing.
OnlyInstallUncommits ==
    [][/\ node'.current_term >= node.current_term
       /\ node'.commit_index < node.commit_index => OnSnapshot
       /\ LastLogIndex(node') < LastLogIndex(node) => Truncated \/ OnSnapshot
      ]_vars

\* Two other nodes get the vote of one term only if an InstallSnapshot of
\* that term came in between: its handler clears voted_for also when the
\* term does not change (runner.rs, line 219).  Restarts forget no vote.
SecondVoteOnlyAfterInstall ==
    \A u, v \in granted : (u[1] = v[1] /\ u[2] # v[2]) => u[1] \in cleared

\* The log of the node with what compaction took from it.
FullLog(n) ==
    [k \in 1 .. LastLogIndex(n) |->
        IF k <= n.snapshot_index THEN history[k]
                                 ELSE n.log[k - n.snapshot_index]]

\* The log comes from the leaders, and is the history where it is committed.
OnHistory(n) ==
    /\ n.snapshot_index <= n.last_applied
    /\ n.last_applied <= n.commit_index
    /\ n.commit_index <= LastLogIndex(n)
    /\ LastLogIndex(n) <= MaxIndex
    /\ n.snapshot_term = TermOf(history, n.snapshot_index)
    /\ FromLeaders(FullLog(n), n.current_term)
    /\ SameUpTo(FullLog(n), history, n.commit_index)
    /\ Committed(n.current_term, n.commit_index)

\* The image on disk has what restore_from_storage will need of the node.
DiskIsCurrent ==
    /\ disk.current_term = node.current_term
    /\ disk.voted_for = node.voted_for
    /\ disk.log = node.log
    /\ disk.commit_index = node.commit_index
    /\ disk.last_included_index = node.snapshot_index
    /\ disk.last_included_term = node.snapshot_term

\* And the machine part is what the machine holds at the commit index.
DiskHasMachine ==
    LET data == disk.state_machine_snapshot
    IN  /\ Restorable(machine, data)
        /\ Exact => Restore(machine, NewMachine(machine), data)
                       = Effect(node.commit_index)

\* The vote of the current term is the one the node remembers, unless an
\* InstallSnapshot took it; a candidate has voted for itself only.
VotesAreRemembered ==
    /\ granted \subseteq (0 .. node.current_term) \X Peers(Self)
    /\ \A v \in granted : v[1] = node.current_term =>
          /\ node.role = "Follower"
          /\ node.voted_for = v[2] \/ v[1] \in cleared
    /\ node.role # "Follower" => node.voted_for = Self

LeadersLogs ==
    /\ logs \in [1 .. MaxTerm -> Seq(Entry)]
    /\ \A t \in 1 .. MaxTerm : Len(logs[t]) = MaxIndex /\ FromLeaders(logs[t], t)

\* At every boundary of the loop the node, its machine and its disk stand at
\* points of one committed history, whatever tails conflict after it
\* (handle_append_entries, compact_committed, persist, restore_from_snapshot
\* and the branch for InstallSnapshot together): the inductive invariant
\* behind the properties above.
InstallInv ==
    /\ machine \in Machines
    /\ LeadersLogs
    /\ node \in NodeState /\ node.current_term <= MaxTerm
    /\ OnHistory(node) /\ node.last_applied = node.commit_index
    /\ DiskIsCurrent
    /\ DiskHasMachine
    /\ MachineMatchesIndex
    /\ VotesAreRemembered
    /\ SecondVoteOnlyAfterInstall
=============================================================================
