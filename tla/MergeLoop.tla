------------------------------ MODULE MergeLoop -----------------------------
(***************************************************************************)
(* The loop of RaftNode::handle_append_entries that merges the entries of  *)
(* an accepted request into the log, one iteration per step, against the   *)
(* closed form MergeEntries that the cluster model uses.                   *)
(***************************************************************************)
EXTENDS RaftNode

CONSTANTS MaxEntryTerm,  \* bound: the terms of the entries
          MaxEntries,    \* bound: the length of the log and of the request
          MaxSnapshot    \* bound: the snapshot index of the follower

ASSUME LoopAssumption ==
    MaxEntryTerm \in Nat /\ MaxEntries \in Nat /\ MaxSnapshot \in Nat

VARIABLES
    follower,    \* the node before the loop
    request,     \* the request, accepted by the checks before the loop
    log,         \* self.log, as the loop changes it
    insert_at,   \* the index of the next entry
    remaining    \* the entries the loop has not come to

vars == <<follower, request, log, insert_at, remaining>>

\* Logs as they come about: terms never decrease along a log.
Logs(first_term) ==
    UNION {{s \in [1 .. len -> [term : first_term .. MaxEntryTerm,
                                command : Value]] :
               \A k \in 1 .. len - 1 : s[k].term <= s[k + 1].term} :
           len \in 0 .. MaxEntries}

\* What LogMatching says of the follower's log l and the entries e of a
\* request that starts after position base of it.
Matching(l, e, base) ==
    \A k \in 1 .. Len(e) :
        (base + k <= Len(l) /\ l[base + k].term = e[k].term) =>
            \A j \in 1 .. k : l[base + j] = e[j]

Init ==
    \E index \in 0 .. MaxSnapshot, prev \in 0 .. MaxSnapshot + MaxEntries,
       t, p \in 0 .. MaxEntryTerm :
        \E l \in Logs(Larger(t, 1)), e \in Logs(Larger(p, 1)) :
            /\ index = 0 <=> t = 0
            /\ prev = 0 <=> p = 0
            /\ follower = [NewNode EXCEPT !.log = l,
                                          !.snapshot_index = index,
                                          !.snapshot_term = t]
            /\ request = [prev_log_index |-> prev,
                          prev_log_term  |-> p,
                          entries        |-> e]
            /\ LogMatches(follower, request)
            /\ Matching(l, e, prev - index)
            /\ log = l
            /\ insert_at = prev + 1
            /\ remaining = e

\* Mutant: the position counted from zero, as the code counts it.
OffsetFromZero ==
    LET offset == insert_at - follower.snapshot_index - 1
    IN  IF offset \in 1 .. Len(log) THEN offset ELSE 0

\* offset_for_index(insert_at), as a position of log that starts at 1; the
\* code counts from 0.  0 stands for None.
Offset ==
    LET offset == insert_at - follower.snapshot_index
    IN  IF offset \in 1 .. Len(log) THEN offset ELSE 0

\* An iteration that finds an entry of another term at insert_at drops it
\* and everything after it; one that finds an entry of the same term keeps
\* it; one past the end of the log pushes.
Iterate ==
    /\ remaining # << >>
    /\ insert_at' = insert_at + 1
    /\ remaining' = Tail(remaining)
    /\ log' = CASE insert_at <= follower.snapshot_index -> log
                [] insert_at > follower.snapshot_index /\ Offset = 0
                      -> Append(log, Head(remaining))
                [] insert_at > follower.snapshot_index /\ Offset # 0 ->
                      IF log[Offset].term # Head(remaining).term
                      THEN Append(SubSeq(log, 1, Offset - 1), Head(remaining))
                      ELSE log
    /\ UNCHANGED <<follower, request>>

Next == Iterate

Spec == Init /\ [][Next]_vars

\* When the loop of handle_append_entries is through, the log is the one
\* MergeEntries gives in a single expression.
LoopComputesMerge == remaining = << >> => log = MergeEntries(follower, request)

\* The loop never passes the end of the log: an entry is pushed only at the
\* position right after the last one, so indices stay contiguous whatever
\* was truncated before (offset_for_index answers None for any index past
\* the end, not only for the next one).
PushesAreContiguous ==
    remaining # << >> => insert_at <= follower.snapshot_index + Len(log) + 1
=============================================================================
