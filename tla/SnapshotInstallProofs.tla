------------------------ MODULE SnapshotInstallProofs -----------------------
(***************************************************************************)
(* Proofs about SnapshotInstall: the node, its machine and its disk stand  *)
(* at points of one history, through snapshots installed over what is      *)
(* there, appended entries, elections and restarts.                        *)
(*   - lemmas about state machines: what ApplyAll computes, command after  *)
(*     command; what restore makes of a snapshot; a key-value store that   *)
(*     applies again what it holds does not change;                        *)
(*   - lemmas about OnHistory: what the handlers of the node keep of it;   *)
(*   - one lemma per action, then the theorems.                            *)
(* Induction over the commands goes by the smallest counterexample: the    *)
(* numbers up to n at which a formula fails have no least element (UpTo).  *)
(***************************************************************************)
EXTENDS SnapshotInstall, RaftNodeProofs

\* The states a machine goes through while it applies the commands.
Passes(f, mach, state, commands) ==
    f = [k \in 0 .. Len(commands) |->
            IF k = 0 THEN state ELSE Apply(mach, f[k - 1], commands[k])]

LEMMA PassesExist ==
    ASSUME NEW mach, NEW state, NEW commands, Len(commands) \in Nat
    PROVE  \E f : Passes(f, mach, state, commands)
<1> DEFINE P(f, n) == f = [k \in 0 .. n |->
            IF k = 0 THEN state ELSE Apply(mach, f[k - 1], commands[k])]
           S == {n \in Nat : \E f : P(f, n)}
<1>1. 0 \in S
  <2> DEFINE f == [k \in 0 .. 0 |-> state]
  <2>1. P(f, 0)
    OBVIOUS
  <2>. QED  BY <2>1
<1>2. ASSUME NEW n \in Nat, n \in S PROVE n + 1 \in S
  <2>1. PICK f : P(f, n)
    BY <1>2
  <2> DEFINE g == [k \in 0 .. n + 1 |->
        IF k <= n THEN f[k] ELSE Apply(mach, f[n], commands[n + 1])]
  <2>2. P(g, n + 1)
    BY <2>1
  <2> HIDE DEF P, g
  <2>. QED  BY <2>2
<1>3. 0 .. Len(commands) \subseteq S
  <2> HIDE DEF S
  <2>. QED  BY <1>1, <1>2, UpTo
<1>. QED  BY <1>3 DEF Passes

\* f lists the states a machine goes through.
Lists(f, mach, state, commands) ==
    /\ f[0] = state
    /\ \A k \in 1 .. Len(commands) : f[k] = Apply(mach, f[k - 1], commands[k])

LEMMA ApplyAllPasses ==
    ASSUME NEW mach, NEW state, NEW commands, Len(commands) \in Nat
    PROVE  \E f : /\ Lists(f, mach, state, commands)
                  /\ ApplyAll(mach, state, commands) = f[Len(commands)]
<1> DEFINE f == CHOOSE g : Passes(g, mach, state, commands)
<1>1. Passes(f, mach, state, commands)
  BY PassesExist
<1>2. ApplyAll(mach, state, commands) = f[Len(commands)]
  BY Zenon DEF ApplyAll, Passes
<1> HIDE DEF f
<1>3. Lists(f, mach, state, commands)
  BY <1>1 DEF Passes, Lists
<1>. QED  BY <1>2, <1>3

LEMMA ApplyAllIsLast ==
    ASSUME NEW mach, NEW state, NEW commands, Len(commands) \in Nat,
           NEW f, Lists(f, mach, state, commands)
    PROVE  ApplyAll(mach, state, commands) = f[Len(commands)]
<1>1. PICK g : /\ Lists(g, mach, state, commands)
               /\ ApplyAll(mach, state, commands) = g[Len(commands)]
  BY ApplyAllPasses
<1> DEFINE n == Len(commands)
           S == {k \in 0 .. n : f[k] = g[k]}
<1>2. g[0] = state /\ \A k \in 1 .. n : g[k] = Apply(mach, g[k - 1], commands[k])
  BY <1>1 DEF Lists
<1>3. 0 \in S
  BY <1>2 DEF Lists
<1>4. ASSUME NEW k \in 0 .. n - 1, k \in S PROVE k + 1 \in S
  <2>1. k + 1 \in 1 .. n /\ (k + 1) - 1 = k
    OBVIOUS
  <2>2. f[k + 1] = Apply(mach, f[k], commands[k + 1])
    BY <2>1 DEF Lists
  <2>3. g[k + 1] = Apply(mach, g[k], commands[k + 1])
    BY <1>2, <2>1
  <2>. QED  BY <1>4, <2>1, <2>2, <2>3
<1>5. 0 .. n \subseteq S
  <2> HIDE DEF S
  <2>. QED  BY <1>3, <1>4, UpTo
<1>. QED  BY <1>1, <1>5

\* What the machine holds after each entry of the history.
LEMMA EffectsAreListed ==
    ASSUME history \in Seq(Entry)
    PROVE  /\ Effect(0) = NewMachine(machine)
           /\ \A k \in 1 .. Len(history) :
                 Effect(k) = Apply(machine, Effect(k - 1), history[k].command)
<1> DEFINE c == Commands(history)
           n == Len(history)
           new == NewMachine(machine)
<1>1. Len(history) \in Nat /\ Len(c) = n /\ \A k \in 1 .. n : c[k] = history[k].command
  BY DEF Commands
<1>2. PICK f : Lists(f, machine, new, c)
  <2> HIDE DEF c, new
  <2>. QED  BY <1>1, ApplyAllPasses
<1>3. f[0] = new /\ \A k \in 1 .. n : f[k] = Apply(machine, f[k - 1], c[k])
  BY <1>1, <1>2 DEF Lists
<1>4. ASSUME NEW k \in 0 .. n PROVE Effect(k) = f[k]
  <2> DEFINE d == Commands(SubSeq(history, 1, k))
  <2>1. Len(d) = k /\ \A l \in 1 .. k : d[l] = history[l].command
    BY <1>1 DEF Commands
  <2>2. Lists(f, machine, new, d)
    BY <1>1, <1>3, <2>1 DEF Lists
  <2> HIDE DEF d, new
  <2>3. ApplyAll(machine, new, d) = f[k]
    BY <2>1, <2>2, ApplyAllIsLast
  <2>. QED  BY <2>3 DEF Effect, d, new
<1> HIDE DEF new, c
<1>. QED  BY <1>1, <1>3, <1>4 DEF new

\* A machine that has the effect of the entries up to a and applies the
\* entries up to b has the effect of these.
LEMMA ApplyNext ==
    ASSUME history \in Seq(Entry), NEW a \in Nat, NEW b \in Nat,
           a <= b, b <= Len(history)
    PROVE  ApplyAll(machine, Effect(a), Commands(SubSeq(history, a + 1, b)))
             = Effect(b)
<1> DEFINE d == Commands(SubSeq(history, a + 1, b))
           f == [k \in 0 .. b - a |-> Effect(a + k)]
<1>1. Len(d) = b - a /\ \A l \in 1 .. b - a : d[l] = history[a + l].command
  BY DEF Commands
<1>2. ASSUME NEW k \in 1 .. b - a
      PROVE  f[k] = Apply(machine, f[k - 1], d[k])
  <2>1. a + k \in 1 .. Len(history) /\ (a + k) - 1 = a + (k - 1)
    OBVIOUS
  <2>2. Effect(a + k) = Apply(machine, Effect((a + k) - 1), history[a + k].command)
    BY <2>1, EffectsAreListed
  <2>. QED  BY <1>1, <2>1, <2>2
<1>3. f[0] = Effect(a) /\ f[b - a] = Effect(b)
  OBVIOUS
<1>4. Lists(f, machine, Effect(a), d)
  <2> HIDE DEF f, d
  <2>. QED  BY <1>1, <1>2, <1>3 DEF Lists
<1> HIDE DEF d, f
<1>5. ApplyAll(machine, Effect(a), d) = f[b - a]
  BY <1>1, <1>4, ApplyAllIsLast
<1>. QED  BY <1>3, <1>5 DEF d

-----------------------------------------------------------------------------
(* The key-value store does not notice a replay.                           *)

\* The two maps do not differ at key x.
Agree(s, t, x) ==
    /\ x \in DOMAIN s <=> x \in DOMAIN t
    /\ x \in DOMAIN s => s[x] = t[x]

IsMap(s) == s = [x \in DOMAIN s |-> s[x]]

Writes(raw, x) ==
    /\ KeyValueCommand(raw).op \in {"Set", "Delete"}
    /\ KeyValueCommand(raw).key = x

LEMMA KeyValueApplyKeys ==
    ASSUME NEW s, NEW t, NEW raw, NEW x
    PROVE  /\ Writes(raw, x) =>
                 Agree(KeyValueApply(s, raw), KeyValueApply(t, raw), x)
           /\ ~Writes(raw, x) => Agree(KeyValueApply(s, raw), s, x)
           /\ IsMap(s) => IsMap(KeyValueApply(s, raw))
<1> DEFINE c == KeyValueCommand(raw)
<1> HIDE DEF c
<1>1. CASE c.op = "Set"
  <2> DEFINE set(u) == [k \in DOMAIN u \cup {c.key} |->
                           IF k = c.key THEN c.value ELSE u[k]]
  <2>1. ASSUME NEW u PROVE KeyValueApply(u, raw) = set(u)
    BY <1>1 DEF KeyValueApply, c
  <2>2. Writes(raw, x) <=> c.key = x
    BY <1>1 DEF Writes, c
  <2>3. /\ c.key = x => Agree(set(s), set(t), x)
        /\ c.key # x => Agree(set(s), s, x)
        /\ IsMap(set(s))
    BY DEF Agree, IsMap
  <2> HIDE DEF set
  <2>. QED  BY <2>1, <2>2, <2>3
<1>2. CASE c.op = "Delete"
  <2> DEFINE del(u) == [k \in DOMAIN u \ {c.key} |-> u[k]]
  <2>1. ASSUME NEW u PROVE KeyValueApply(u, raw) = del(u)
    BY <1>2 DEF KeyValueApply, c
  <2>2. Writes(raw, x) <=> c.key = x
    BY <1>2 DEF Writes, c
  <2>3. /\ c.key = x => Agree(del(s), del(t), x)
        /\ c.key # x => Agree(del(s), s, x)
        /\ IsMap(del(s))
    BY DEF Agree, IsMap
  <2> HIDE DEF del
  <2>. QED  BY <2>1, <2>2, <2>3
<1>3. CASE c.op \notin {"Set", "Delete"}
  <2>1. KeyValueApply(s, raw) = s
    BY <1>3 DEF KeyValueApply, c
  <2>2. ~Writes(raw, x)
    BY <1>3 DEF Writes, c
  <2>. QED  BY <2>1, <2>2 DEF Agree
<1>. QED  BY <1>1, <1>2, <1>3

\* x is a key that one of the entries after a and up to b writes.
Written(a, b, x) ==
    \E k \in a + 1 .. b : Writes(history[k].command, x)

\* What is not written between a and b is the same at both.
LEMMA UnwrittenStays ==
    ASSUME history \in Seq(Entry), machine = "key_value",
           NEW a \in Nat, NEW b \in Nat, a <= b, b <= Len(history),
           NEW x, ~Written(a, b, x)
    PROVE  Agree(Effect(b), Effect(a), x)
<1> DEFINE S == {k \in 0 .. b - a : Agree(Effect(a + k), Effect(a), x)}
<1>1. 0 \in S
  BY DEF Agree
<1>2. ASSUME NEW k \in 0 .. (b - a) - 1, k \in S PROVE k + 1 \in S
  <2> DEFINE j == a + (k + 1)
  <2>1. /\ j \in 1 .. Len(history) /\ j - 1 = a + k
        /\ j \in a + 1 .. b /\ k + 1 \in 0 .. b - a
    OBVIOUS
  <2>2. Effect(j) = KeyValueApply(Effect(j - 1), history[j].command)
    BY <2>1, EffectsAreListed DEF Apply
  <2>3. ~Writes(history[j].command, x)
    BY <2>1 DEF Written
  <2> HIDE DEF j
  <2>4. Agree(Effect(j), Effect(j - 1), x)
    BY <2>2, <2>3, KeyValueApplyKeys
  <2>5. Agree(Effect(j - 1), Effect(a), x)
    BY <1>2, <2>1
  <2>6. Agree(Effect(j), Effect(a), x)
    BY <2>4, <2>5 DEF Agree
  <2>. QED  BY <2>1, <2>6 DEF j
<1>3. 0 .. b - a \subseteq S
  <2> b - a \in Nat
    OBVIOUS
  <2> HIDE DEF S
  <2>. QED  BY <1>1, <1>2, UpTo
<1>4. b - a \in S /\ a + (b - a) = b
  <2>1. b - a \in 0 .. b - a /\ a + (b - a) = b
    OBVIOUS
  <2> HIDE DEF S
  <2>. QED  BY <1>3, <2>1
<1>. QED  BY <1>4

LEMMA EffectIsMap ==
    ASSUME history \in Seq(Entry), machine = "key_value",
           NEW b \in 0 .. Len(history)
    PROVE  IsMap(Effect(b))
<1> DEFINE S == {k \in 0 .. b : IsMap(Effect(k))}
<1>1. 0 \in S
  <2>1. Effect(0) = << >>
    BY EffectsAreListed DEF NewMachine
  <2>2. IsMap(<< >>)
    BY DEF IsMap
  <2>. QED  BY <2>1, <2>2
<1>2. ASSUME NEW k \in 0 .. b - 1, k \in S PROVE k + 1 \in S
  <2>1. k + 1 \in 1 .. Len(history) /\ (k + 1) - 1 = k
    OBVIOUS
  <2>2. Effect(k + 1) = KeyValueApply(Effect(k), history[k + 1].command)
    BY <2>1, EffectsAreListed DEF Apply
  <2>. QED  BY <1>2, <2>2, KeyValueApplyKeys
<1>3. 0 .. b \subseteq S
  <2> HIDE DEF S
  <2>. QED  BY <1>1, <1>2, UpTo
<1>. QED  BY <1>3

\* Applied once more, the entries up to b leave the store as it is.
LEMMA ReplayIsHarmless ==
    ASSUME history \in Seq(Entry), machine = "key_value",
           NEW a \in Nat, NEW b \in Nat, a <= b, b <= Len(history)
    PROVE  ApplyAll(machine, Effect(b), Commands(SubSeq(history, a + 1, b)))
             = Effect(b)
<1> DEFINE d == Commands(SubSeq(history, a + 1, b))
<1>1. Len(d) = b - a /\ \A l \in 1 .. b - a : d[l] = history[a + l].command
  BY SMTT(30) DEF Commands
<1>2. PICK f : /\ Lists(f, machine, Effect(b), d)
               /\ ApplyAll(machine, Effect(b), d) = f[b - a]
  <2> HIDE DEF d
  <2>. QED  BY <1>1, ApplyAllPasses
<1> DEFINE S == {k \in 0 .. b - a :
                    /\ IsMap(f[k])
                    /\ \A x : Written(a + k, b, x)
                              \/ Agree(f[k], Effect(a + k), x)}
<1>3. 0 \in S
  <2>1. f[0] = Effect(b)
    BY <1>2 DEF Lists
  <2>2. IsMap(Effect(b))
    BY EffectIsMap
  <2>. QED  BY <2>1, <2>2, UnwrittenStays
<1>4. ASSUME NEW k \in 0 .. (b - a) - 1, k \in S PROVE k + 1 \in S
  <2> DEFINE j == a + (k + 1)
             raw == history[j].command
  <2>1. /\ j \in 1 .. Len(history) /\ j - 1 = a + k
        /\ k + 1 \in 1 .. b - a /\ (k + 1) - 1 = k
    OBVIOUS
  <2>2. Effect(j) = KeyValueApply(Effect(j - 1), raw)
    BY <2>1, EffectsAreListed DEF Apply
  <2>3. f[k + 1] = KeyValueApply(f[k], raw)
    BY <1>1, <1>2, <2>1 DEF Lists, Apply
  <2>4. ASSUME NEW x, ~Written(j, b, x)
        PROVE  Agree(f[k + 1], Effect(j), x)
    <3>1. CASE Writes(raw, x)
      <4> HIDE DEF j, raw
      <4>. QED  BY <2>2, <2>3, <3>1, KeyValueApplyKeys
    <3>2. CASE ~Writes(raw, x)
      <4>1. ~Written(j - 1, b, x)
        <5>1. ASSUME NEW l \in (j - 1) + 1 .. b PROVE ~Writes(history[l].command, x)
          <6>1. l = j \/ l \in j + 1 .. b
            BY <2>1
          <6> HIDE DEF j
          <6>. QED  BY <2>4, <3>2, <6>1 DEF Written, raw
        <5>. QED  BY <5>1 DEF Written
      <4>2. Agree(f[k], Effect(j - 1), x)
        BY <1>4, <2>1, <4>1
      <4> HIDE DEF j, raw
      <4>3. Agree(f[k + 1], f[k], x) /\ Agree(Effect(j), Effect(j - 1), x)
        BY <2>2, <2>3, <3>2, KeyValueApplyKeys
      <4>. QED  BY <4>2, <4>3 DEF Agree
    <3>. QED  BY <3>1, <3>2
  <2>5. IsMap(f[k + 1])
    <3> HIDE DEF raw
    <3>. QED  BY <1>4, <2>3, KeyValueApplyKeys
  <2>. QED  BY <2>1, <2>4, <2>5
<1>5. 0 .. b - a \subseteq S
  <2> b - a \in Nat
    OBVIOUS
  <2> HIDE DEF S
  <2>. QED  BY <1>3, <1>4, UpTo
<1>6. b - a \in S /\ a + (b - a) = b
  <2>1. b - a \in 0 .. b - a /\ a + (b - a) = b
    OBVIOUS
  <2> HIDE DEF S
  <2>. QED  BY <1>5, <2>1
<1>7. IsMap(f[b - a]) /\ \A x : Agree(f[b - a], Effect(b), x)
  BY <1>6 DEF Written
<1>8. IsMap(Effect(b))
  BY EffectIsMap
<1>9. f[b - a] = Effect(b)
  BY <1>7, <1>8 DEF IsMap, Agree
<1>. QED  BY <1>2, <1>9

-----------------------------------------------------------------------------
(* The machines: what is written can be read back, by the same machine.    *)

LEMMA RestoreUndoesSnapshot ==
    ASSUME NEW mach \in Machines, NEW state, NEW other
    PROVE  /\ Restorable(mach, Snapshot(mach, state))
           /\ Restore(mach, other, Snapshot(mach, state)) = state
<1>1. CASE mach = "counter"
  <2> DEFINE data == [format |-> "digits", state |-> state]
  <2>1. Snapshot(mach, state) = data
    BY <1>1 DEF Snapshot, CounterSnapshot
  <2>2. data.format = "digits" /\ data.state = state
    OBVIOUS
  <2>3. data # EmptySnapshot
    BY <2>2 DEF EmptySnapshot
  <2> HIDE DEF data
  <2>. QED  BY <1>1, <2>1, <2>2, <2>3
            DEF Restorable, Restore, CounterReads, CounterRestore
<1>2. CASE mach = "key_value"
  <2> DEFINE data == [format |-> "object", state |-> state]
  <2>1. Snapshot(mach, state) = data
    BY <1>2 DEF Snapshot, KeyValueSnapshot
  <2>2. data.format = "object" /\ data.state = state
    OBVIOUS
  <2>3. data # EmptySnapshot
    BY <2>2 DEF EmptySnapshot
  <2> HIDE DEF data
  <2>. QED  BY <1>2, <2>1, <2>2, <2>3
            DEF Restorable, Restore, KeyValueReads, KeyValueRestore
<1>. QED  BY <1>1, <1>2 DEF Machines

LEMMA OthersAreUnreadable ==
    ASSUME NEW mach \in Machines, NEW theirs \in Machines, theirs # mach, NEW state
    PROVE  ~Restorable(mach, Snapshot(theirs, state))
BY DEF Machines, Restorable, Snapshot, CounterReads, KeyValueReads,
       CounterSnapshot, KeyValueSnapshot

-----------------------------------------------------------------------------
(* The leaders' logs.                                                      *)

LEMMA HistoryIsALog ==
    ASSUME LeadersLogs
    PROVE  /\ history \in Seq(Entry) /\ Len(history) = MaxIndex
           /\ FromLeaders(history, MaxTerm)
BY InstallAssumption DEF LeadersLogs, history

LEMMA LeaderIsALog ==
    ASSUME LeadersLogs, NEW t \in 1 .. MaxTerm
    PROVE  /\ logs[t] \in Seq(Entry) /\ Len(logs[t]) = MaxIndex
           /\ DOMAIN logs[t] = 1 .. MaxIndex /\ FromLeaders(logs[t], t)
BY InstallAssumption DEF LeadersLogs

\* What is committed stays committed.
LEMMA CommittedLater ==
    ASSUME NEW t \in Nat, NEW u \in Nat, t <= u,
           NEW k \in Nat, NEW j \in Nat, j <= k, Committed(t, k)
    PROVE  Committed(u, j)
BY InstallAssumption DEF Committed, SameUpTo

LEMMA FromLeadersLater ==
    ASSUME NEW log, NEW t \in Nat, NEW u \in Nat, t <= u, FromLeaders(log, t)
    PROVE  FromLeaders(log, u)
BY DEF FromLeaders

\* Two logs from the leaders that have an entry of one term at one index are
\* the same up to there.
LEMMA SameTermSameLog ==
    ASSUME NEW a, NEW b, NEW t, NEW u, FromLeaders(a, t), FromLeaders(b, u),
           NEW k \in DOMAIN a, k \in DOMAIN b, a[k].term = b[k].term
    PROVE  SameUpTo(a, b, k)
BY DEF FromLeaders, SameUpTo

LEMMA PrefixFromLeaders ==
    ASSUME NEW a, NEW b, NEW t, NEW k \in Nat, FromLeaders(b, t),
           DOMAIN a = 1 .. k, 1 .. k \subseteq DOMAIN b, SameUpTo(a, b, k)
    PROVE  FromLeaders(a, t)
<1> SUFFICES ASSUME NEW j \in 1 .. k
             PROVE  /\ a[j].term \in 1 .. t
                    /\ SameUpTo(a, logs[a[j].term], j)
  BY DEF FromLeaders
<1>1. a[j] = b[j] /\ \A i \in 1 .. j : a[i] = b[i]
  BY DEF SameUpTo
<1>2. b[j].term \in 1 .. t /\ SameUpTo(b, logs[b[j].term], j)
  BY DEF FromLeaders
<1>. QED  BY <1>1, <1>2 DEF SameUpTo

-----------------------------------------------------------------------------
(* The engine's operators keep a node on the history.                      *)

LEMMA CommitToFields ==
    ASSUME NEW n \in NodeState, NEW index \in Nat
    PROVE  LET c == CommitTo(n, index)
           IN  /\ c.log = n.log /\ c.snapshot_index = n.snapshot_index
               /\ c.snapshot_term = n.snapshot_term
               /\ c.last_applied = n.last_applied
               /\ c.commit_index
                    = Smaller(Larger(index, n.snapshot_index), LastLogIndex(n))
BY DEF CommitTo, NodeState

LEMMA FullLogEntries ==
    ASSUME NEW n \in NodeState
    PROVE  /\ DOMAIN FullLog(n) = 1 .. LastLogIndex(n)
           /\ \A k \in 1 .. n.snapshot_index : FullLog(n)[k] = history[k]
           /\ \A k \in 1 .. Len(n.log) :
                 FullLog(n)[n.snapshot_index + k] = n.log[k]
<1>1. /\ n.log \in Seq(Entry) /\ Len(n.log) \in Nat /\ n.snapshot_index \in Nat
      /\ LastLogIndex(n) = n.snapshot_index + Len(n.log)
  BY DEF NodeState, LastLogIndex
<1>. QED  BY <1>1 DEF FullLog

LEMMA SameFullLog ==
    ASSUME NEW n, NEW c, c.log = n.log, c.snapshot_index = n.snapshot_index
    PROVE  FullLog(c) = FullLog(n) /\ LastLogIndex(c) = LastLogIndex(n)
BY DEF FullLog, LastLogIndex

LEMMA TermOnHistory ==
    ASSUME NEW n \in NodeState, OnHistory(n),
           NEW index \in n.snapshot_index .. LastLogIndex(n)
    PROVE  TermAt(n, index) = TermOf(FullLog(n), index) /\ TermAt(n, index) # NoTerm
<1>1. /\ n.log \in Seq(Entry) /\ Len(n.log) \in Nat /\ n.snapshot_index \in Nat
      /\ LastLogIndex(n) = n.snapshot_index + Len(n.log)
  BY DEF NodeState, LastLogIndex
<1>2. TermAt(n, index) # NoTerm
  BY <1>1, TermAtType DEF NoTerm
<1>3. CASE index = n.snapshot_index
  <2>1. TermAt(n, index) = TermOf(history, index)
    BY <1>3 DEF TermAt, OnHistory
  <2>2. index # 0 => FullLog(n)[index] = history[index]
    BY <1>1, <1>3, FullLogEntries
  <2>. QED  BY <1>2, <2>1, <2>2 DEF TermOf
<1>4. CASE index # n.snapshot_index
  <2> DEFINE k == index - n.snapshot_index
  <2>1. k \in 1 .. Len(n.log) /\ n.snapshot_index + k = index /\ index # 0
    BY <1>1, <1>4
  <2>2. FullLog(n)[index] = n.log[k]
    BY <2>1, FullLogEntries
  <2>3. TermAt(n, index) = n.log[k].term
    BY <1>1, <1>4 DEF TermAt
  <2>. QED  BY <1>2, <2>1, <2>2, <2>3 DEF TermOf
<1>. QED  BY <1>3, <1>4

LEMMA OnHistoryIndices ==
    ASSUME LeadersLogs, NEW n \in NodeState, OnHistory(n)
    PROVE  /\ n.log \in Seq(Entry) /\ Len(n.log) \in Nat /\ n.snapshot_index \in Nat
           /\ n.last_applied \in Nat /\ n.commit_index \in Nat
           /\ n.current_term \in Nat
           /\ LastLogIndex(n) = n.snapshot_index + Len(n.log)
           /\ LastLogIndex(n) \in Nat
           /\ n.snapshot_index <= n.last_applied
           /\ n.last_applied <= n.commit_index
           /\ n.commit_index <= LastLogIndex(n)
           /\ LastLogIndex(n) <= Len(history) /\ Len(history) = MaxIndex
           /\ MaxIndex \in Nat
<1>1. /\ n.log \in Seq(Entry) /\ n.snapshot_index \in Nat
      /\ n.last_applied \in Nat /\ n.commit_index \in Nat /\ n.current_term \in Nat
      /\ LastLogIndex(n) = n.snapshot_index + Len(n.log)
  BY DEF NodeState, LastLogIndex
<1>2. Len(n.log) \in Nat /\ LastLogIndex(n) \in Nat
  BY <1>1
<1>. QED  BY <1>1, <1>2, HistoryIsALog, InstallAssumption DEF OnHistory

\* What changes no index and no log, and lowers no term, changes nothing here.
LEMMA SameIndices ==
    ASSUME NEW n \in NodeState, NEW c \in NodeState, OnHistory(n),
           c.log = n.log, c.snapshot_index = n.snapshot_index,
           c.snapshot_term = n.snapshot_term,
           c.last_applied = n.last_applied, c.commit_index = n.commit_index,
           c.current_term >= n.current_term
    PROVE  /\ OnHistory(c) /\ LastLogIndex(c) = LastLogIndex(n)
           /\ FullLog(c) = FullLog(n)
<1>1. FullLog(c) = FullLog(n) /\ LastLogIndex(c) = LastLogIndex(n)
  BY SameFullLog
<1>2. /\ n.current_term \in Nat /\ c.current_term \in Nat /\ n.commit_index \in Nat
  BY DEF NodeState
<1>3. FromLeaders(FullLog(c), c.current_term)
  BY <1>1, <1>2, FromLeadersLater DEF OnHistory
<1>4. Committed(c.current_term, c.commit_index)
  BY <1>2, CommittedLater DEF OnHistory
<1>. QED  BY <1>1, <1>3, <1>4 DEF OnHistory

\* take_unapplied_entries returns the entries of the history up to the commit
\* index.
LEMMA UnappliedOnHistory ==
    ASSUME LeadersLogs, NEW n \in NodeState, OnHistory(n)
    PROVE  /\ AppliedEnd(n) = n.commit_index
           /\ Commands(UnappliedEntries(n))
                = Commands(SubSeq(history, n.last_applied + 1, n.commit_index))
<1>1. /\ n.log \in Seq(Entry) /\ Len(n.log) \in Nat /\ n.snapshot_index \in Nat
      /\ n.last_applied \in Nat /\ n.commit_index \in Nat
      /\ LastLogIndex(n) = n.snapshot_index + Len(n.log)
      /\ n.snapshot_index <= n.last_applied /\ n.last_applied <= n.commit_index
      /\ n.commit_index <= LastLogIndex(n) /\ LastLogIndex(n) <= Len(history)
      /\ history \in Seq(Entry)
  BY OnHistoryIndices, HistoryIsALog
<1>2. AppliedFloor(n) = n.last_applied /\ AppliedEnd(n) = n.commit_index
  BY <1>1 DEF AppliedFloor, AppliedEnd, Larger, Smaller
<1> DEFINE from == n.last_applied - n.snapshot_index + 1
           upto == n.commit_index - n.snapshot_index
           a == SubSeq(n.log, from, upto)
           b == SubSeq(history, n.last_applied + 1, n.commit_index)
<1>3. UnappliedEntries(n) = a
  BY <1>2 DEF UnappliedEntries
<1>4. /\ Len(a) = n.commit_index - n.last_applied
      /\ Len(b) = n.commit_index - n.last_applied
  <2>1. ASSUME NEW s \in Seq(Entry), NEW g \in Nat, NEW h \in Nat,
               g <= h, h <= Len(s)
        PROVE  Len(SubSeq(s, g + 1, h)) = h - g
    BY <2>1
  <2> DEFINE g == n.last_applied - n.snapshot_index
  <2>2. /\ g \in Nat /\ upto \in Nat /\ g <= upto /\ upto <= Len(n.log)
        /\ upto - g = n.commit_index - n.last_applied /\ from = g + 1
    BY <1>1
  <2>3. Len(b) = n.commit_index - n.last_applied
    <3>1. n.commit_index <= Len(history)
      BY <1>1
    <3>. QED  BY <1>1, <2>1, <3>1
  <2> HIDE DEF g, upto, from
  <2>4. Len(SubSeq(n.log, g + 1, upto)) = upto - g
    BY <1>1, <2>1, <2>2
  <2>. QED  BY <2>2, <2>3, <2>4
<1>5. ASSUME NEW k \in 1 .. n.commit_index - n.last_applied PROVE a[k] = b[k]
  <2> DEFINE x == n.last_applied - n.snapshot_index + k
  <2>1. x \in DOMAIN n.log /\ n.snapshot_index + x = n.last_applied + k
    BY SMTT(30), <1>1
  <2>2. a[k] = n.log[x] /\ b[k] = history[n.last_applied + k]
    <3>1. ASSUME NEW s \in Seq(Entry), NEW g \in Nat, NEW h \in Nat,
                 g <= h, h <= Len(s), NEW j \in 1 .. h - g
          PROVE  SubSeq(s, g + 1, h)[j] = s[g + j]
      BY <3>1
    <3>2. b[k] = history[n.last_applied + k]
      BY <1>1, <3>1
    <3> DEFINE g == n.last_applied - n.snapshot_index
    <3>3. /\ g \in Nat /\ upto \in Nat /\ g <= upto /\ upto <= Len(n.log)
          /\ k \in 1 .. upto - g /\ from = g + 1 /\ x = g + k
      BY <1>1
    <3> HIDE DEF g, upto, from, x
    <3>4. SubSeq(n.log, g + 1, upto)[k] = n.log[g + k]
      BY <1>1, <3>1, <3>3
    <3>. QED  BY <3>2, <3>3, <3>4
  <2>3. n.log[x] = history[n.snapshot_index + x]
    <3>1. /\ x \in 1 .. Len(n.log)
          /\ n.snapshot_index + x \in 1 .. n.commit_index
      BY SMTT(30), <1>1
    <3> HIDE DEF x
    <3>2. FullLog(n)[n.snapshot_index + x] = n.log[x]
      BY <3>1, FullLogEntries
    <3>. QED  BY <3>1, <3>2 DEF OnHistory, SameUpTo
  <2>. QED  BY <2>1, <2>2, <2>3
<1>6. Commands(a) = Commands(b)
  <2> HIDE DEF a, b
  <2>. QED  BY <1>4, <1>5 DEF Commands
<1>. QED  BY <1>2, <1>3, <1>6

\* compact_committed moves the snapshot point along the history.
LEMMA CompactOnHistory ==
    ASSUME LeadersLogs, NEW n \in NodeState, OnHistory(n),
           n.last_applied = n.commit_index
    PROVE  LET c == MaybeCompactLog(n)
           IN  /\ OnHistory(c)
               /\ c.commit_index = n.commit_index
               /\ c.last_applied = n.commit_index
               /\ LastLogIndex(c) = LastLogIndex(n)
               /\ FullLog(c) = FullLog(n)
<1>1. /\ n.log \in Seq(Entry) /\ Len(n.log) \in Nat /\ n.snapshot_index \in Nat
      /\ n.last_applied \in Nat /\ n.commit_index \in Nat
      /\ LastLogIndex(n) = n.snapshot_index + Len(n.log)
      /\ n.commit_index <= LastLogIndex(n) /\ LastLogIndex(n) <= Len(history)
      /\ LastLogIndex(n) \in Nat
  BY OnHistoryIndices
<1>2. CASE MaybeCompactLog(n) = n
  BY <1>2
<1>3. CASE /\ MaybeCompactLog(n) # n
  <2>1. n.commit_index > n.snapshot_index
        /\ MaybeCompactLog(n) = CompactCommitted(n)
    BY <1>1, <1>3 DEF MaybeCompactLog, CompactCommitted
  <2>2. TermAt(n, n.commit_index) = TermOf(history, n.commit_index)
        /\ TermAt(n, n.commit_index) # NoTerm
    <3>1. /\ TermAt(n, n.commit_index) = TermOf(FullLog(n), n.commit_index)
          /\ TermAt(n, n.commit_index) # NoTerm
      BY <1>1, <2>1, TermOnHistory
    <3>. QED  BY <1>1, <3>1 DEF OnHistory, SameUpTo, TermOf
  <2> DEFINE rest == SubSeq(n.log, n.commit_index - n.snapshot_index + 1, Len(n.log))
             c == [n EXCEPT !.log = rest,
                            !.snapshot_index = n.commit_index,
                            !.snapshot_term = TermOf(history, n.commit_index),
                            !.last_applied = n.commit_index]
  <2>3. MaybeCompactLog(n) = c
    BY <1>1, <2>1, <2>2 DEF CompactCommitted, Larger
  <2>4. /\ Len(rest) = LastLogIndex(n) - n.commit_index
        /\ DOMAIN rest = 1 .. Len(rest)
        /\ \A k \in 1 .. Len(rest) :
              rest[k] = n.log[n.commit_index - n.snapshot_index + k]
    <3> DEFINE d == n.commit_index - n.snapshot_index
    <3>1. d \in 1 .. Len(n.log) /\ LastLogIndex(n) - n.commit_index = Len(n.log) - d
      BY <1>1, <2>1
    <3> HIDE DEF d
    <3>2. ASSUME NEW log \in Seq(Entry), NEW e \in 1 .. Len(log)
          PROVE  LET r == SubSeq(log, e + 1, Len(log))
                 IN  /\ Len(r) = Len(log) - e /\ DOMAIN r = 1 .. Len(r)
                     /\ \A k \in 1 .. Len(r) : r[k] = log[e + k]
      OBVIOUS
    <3>3. rest = SubSeq(n.log, d + 1, Len(n.log))
      BY DEF d
    <3> HIDE DEF rest
    <3>. QED  BY <1>1, <3>1, <3>2, <3>3 DEF d
  <2>5. /\ c.log = rest /\ c.snapshot_index = n.commit_index
        /\ c.snapshot_term = TermOf(history, n.commit_index)
        /\ c.last_applied = n.commit_index /\ c.commit_index = n.commit_index
        /\ c.current_term = n.current_term
    BY DEF NodeState
  <2> HIDE DEF c, rest
  <2>6. LastLogIndex(c) = LastLogIndex(n)
    BY <1>1, <2>4, <2>5 DEF LastLogIndex
  <2>7. ASSUME NEW k \in 1 .. LastLogIndex(n)
        PROVE  FullLog(c)[k] = FullLog(n)[k]
    <3>1. CASE k <= n.commit_index
      <4>1. FullLog(c)[k] = history[k]
        BY <2>5, <2>6, <3>1 DEF FullLog
      <4>2. FullLog(n)[k] = history[k]
        BY <1>1, <3>1 DEF OnHistory, SameUpTo
      <4>. QED  BY <4>1, <4>2
    <3>2. CASE k > n.commit_index
      <4> DEFINE j == k - n.commit_index
      <4>1. /\ j \in 1 .. Len(rest)
            /\ n.commit_index - n.snapshot_index + j = k - n.snapshot_index
            /\ ~(k <= n.commit_index) /\ ~(k <= n.snapshot_index)
        BY SMTT(30), <1>1, <2>1, <2>4, <3>2
      <4>2. rest[j] = n.log[k - n.snapshot_index]
        BY <2>4, <4>1
      <4>. QED  BY <2>5, <2>6, <4>1, <4>2 DEF FullLog
    <3>. QED  BY <1>1, <3>1, <3>2
  <2>8. FullLog(c) = FullLog(n)
    <3>1. /\ FullLog(c) = [k \in 1 .. LastLogIndex(n) |-> FullLog(c)[k]]
          /\ FullLog(n) = [k \in 1 .. LastLogIndex(n) |-> FullLog(n)[k]]
      BY <2>6 DEF FullLog
    <3>. QED  BY <2>7, <3>1
  <2>9. OnHistory(c)
    BY <1>1, <2>5, <2>6, <2>8 DEF OnHistory
  <2>. QED  BY <2>3, <2>5, <2>6, <2>8, <2>9
<1>. QED  BY <1>2, <1>3

\* An offset into the log and the index it stands for: s is the snapshot
\* index, b and p are offset and index of the entry before the request.
LEMMA OffsetAfter ==
    ASSUME NEW s \in Nat, NEW b \in Nat, NEW p \in Nat, p = s + b,
           NEW len \in Nat, NEW end \in Nat, end = s + len,
           NEW k \in Nat, k >= 1
    PROVE  /\ b + k <= len <=> p + k <= end
           /\ b + k <= len => b + k \in 1 .. len /\ p + k \in 1 .. end
           /\ s + (b + k) = p + k
OBVIOUS

\* m has the leader of term t send its log, which ends at last.
SentBy(t, last, m) ==
    /\ m.term = t
    /\ last = m.prev_log_index + Len(m.entries)
    /\ m.prev_log_term = TermOf(logs[t], m.prev_log_index)
    /\ \A k \in 1 .. Len(m.entries) :
          m.entries[k] = logs[t][m.prev_log_index + k]

\* The merge loop leaves the log alone, or makes it the leader's log up to the
\* end of the request; nothing committed goes, and the end moves back only if
\* the entry that is there now is another one.
LEMMA MergeOnHistory ==
    ASSUME LeadersLogs, NEW n \in NodeState, OnHistory(n),
           NEW t \in 1 .. MaxTerm, t >= n.current_term,
           NEW last \in 0 .. MaxIndex,
           NEW m \in AppendEntriesMessage, SentBy(t, last, m), LogMatches(n, m),
           NEW c, c.log = MergeEntries(n, m), c.snapshot_index = n.snapshot_index
    PROVE  /\ LastLogIndex(c) \in last .. MaxIndex
           /\ LastLogIndex(c) >= n.commit_index
           /\ FromLeaders(FullLog(c), t)
           /\ SameUpTo(FullLog(c), logs[t], last)
           /\ SameUpTo(FullLog(c), history, n.commit_index)
           /\ LastLogIndex(c) < LastLogIndex(n) =>
                 /\ LastLogIndex(c) > n.commit_index
                 /\ TermOf(FullLog(c), LastLogIndex(c))
                      # TermOf(FullLog(n), LastLogIndex(c))
<1> DEFINE base == m.prev_log_index - n.snapshot_index
           agrees(k) == /\ base + k <= Len(n.log)
                        /\ n.log[base + k].term = m.entries[k].term
           kept(x) == \A k \in 1 .. Len(m.entries) : base + k <= x => agrees(k)
           merged == [x \in 1 .. base + Len(m.entries) |->
                         IF kept(x) THEN n.log[x] ELSE m.entries[x - base]]
           prev == m.prev_log_index
           L == FullLog(n)
           M == logs[t]
<1>1. /\ n.log \in Seq(Entry) /\ Len(n.log) \in Nat /\ n.snapshot_index \in Nat
      /\ n.commit_index \in Nat /\ n.current_term \in Nat /\ t \in Nat
      /\ LastLogIndex(n) = n.snapshot_index + Len(n.log)
      /\ LastLogIndex(n) \in Nat
      /\ n.snapshot_index <= n.commit_index
      /\ n.commit_index <= LastLogIndex(n)
      /\ LastLogIndex(n) <= MaxIndex /\ MaxIndex \in Nat
  BY OnHistoryIndices
<1>2. /\ m.entries \in Seq(Entry) /\ Len(m.entries) \in Nat /\ prev \in Nat
      /\ last = prev + Len(m.entries) /\ last \in Nat
      /\ m.prev_log_term = TermOf(M, prev)
  BY <1>1 DEF AppendEntriesMessage, SentBy
<1>3. /\ base \in 0 .. Len(n.log) /\ prev = n.snapshot_index + base
      /\ base \in Nat /\ prev >= n.snapshot_index /\ prev <= LastLogIndex(n)
      /\ prev > 0 => TermAt(n, prev) = m.prev_log_term
  BY <1>1, <1>2 DEF LogMatches
<1>4. /\ DOMAIN L = 1 .. LastLogIndex(n)
      /\ \A k \in 1 .. n.snapshot_index : L[k] = history[k]
      /\ \A k \in 1 .. Len(n.log) : L[n.snapshot_index + k] = n.log[k]
  BY FullLogEntries
<1>5. DOMAIN M = 1 .. MaxIndex /\ FromLeaders(M, t) /\ FromLeaders(L, n.current_term)
  BY LeaderIsALog DEF OnHistory
<1>6. SameUpTo(L, M, n.commit_index) /\ SameUpTo(M, history, n.commit_index)
  <2>1. Committed(t, n.commit_index)
    BY <1>1, CommittedLater DEF OnHistory
  <2>2. SameUpTo(M, history, n.commit_index)
    BY <1>1, <2>1 DEF Committed
  <2>. QED  BY <2>2 DEF OnHistory, SameUpTo
<1>7. ASSUME NEW x \in 1 .. LastLogIndex(n), L[x].term = M[x].term
      PROVE  SameUpTo(L, M, x)
  <2>1. x \in DOMAIN L /\ x \in DOMAIN M
    BY <1>1, <1>4, <1>5
  <2> HIDE DEF L, M
  <2>. QED  BY <1>5, <1>7, <2>1, SameTermSameLog
<1>8. SameUpTo(L, M, prev)
  <2>1. CASE prev = 0
    BY <2>1 DEF SameUpTo
  <2>2. CASE prev # 0
    <3>1. prev \in 1 .. LastLogIndex(n) /\ prev \in n.snapshot_index .. LastLogIndex(n)
      BY <1>1, <1>2, <1>3, <2>2
    <3>2. TermAt(n, prev) = L[prev].term
      BY <3>1, <2>2, TermOnHistory DEF TermOf
    <3>3. TermAt(n, prev) = M[prev].term
      BY <1>2, <1>3, <2>2 DEF TermOf
    <3> HIDE DEF L, M, prev
    <3>. QED  BY <1>7, <3>1, <3>2, <3>3
  <2>. QED  BY <2>1, <2>2
\* Where the log agrees with the request it is the leader's.
<1>9. ASSUME NEW k \in 1 .. Len(m.entries)
      PROVE  /\ agrees(k) => /\ prev + k \in 1 .. LastLogIndex(n)
                             /\ SameUpTo(L, M, prev + k)
             /\ (prev + k <= LastLogIndex(n) /\ L[prev + k] = M[prev + k])
                  => agrees(k)
  <2>1. k \in Nat /\ k >= 1 /\ m.entries[k] = M[prev + k]
    BY <1>2 DEF SentBy
  <2>2. /\ base + k <= Len(n.log) <=> prev + k <= LastLogIndex(n)
        /\ base + k <= Len(n.log) => /\ base + k \in 1 .. Len(n.log)
                                     /\ prev + k \in 1 .. LastLogIndex(n)
        /\ n.snapshot_index + (base + k) = prev + k
    <3> HIDE DEF base, prev, L, M
    <3>1. /\ n.snapshot_index \in Nat /\ base \in Nat /\ prev \in Nat
          /\ Len(n.log) \in Nat /\ LastLogIndex(n) \in Nat /\ k \in Nat
          /\ prev = n.snapshot_index + base
          /\ LastLogIndex(n) = n.snapshot_index + Len(n.log) /\ k >= 1
      BY <1>1, <1>2, <1>3, <2>1
    <3>. QED  BY SMTT(30), <3>1, OffsetAfter
  <2>3. ASSUME base + k <= Len(n.log)
        PROVE  n.log[base + k] = L[prev + k] /\ prev + k \in 1 .. LastLogIndex(n)
    <3> HIDE DEF base, prev, L, M
    <3>. QED  BY <1>4, <2>2, <2>3
  <2>4. agrees(k) => L[prev + k].term = M[prev + k].term
    BY <2>1, <2>3
  <2> HIDE DEF L, M, prev, base
  <2>. QED  BY <1>7, <2>1, <2>2, <2>3, <2>4
<1>10. CASE \A k \in 1 .. Len(m.entries) : agrees(k)
  <2>1. c.log = n.log
    BY <1>10 DEF MergeEntries
  <2>2. FullLog(c) = L /\ LastLogIndex(c) = LastLogIndex(n)
    BY <2>1, SameFullLog
  <2>3. SameUpTo(L, M, last) /\ last <= LastLogIndex(n)
    <3>1. CASE Len(m.entries) = 0
      <4>1. last = prev
        BY <1>2, <3>1
      <4>. QED  BY <1>3, <1>8, <4>1
    <3>2. CASE Len(m.entries) # 0
      <4>1. Len(m.entries) \in 1 .. Len(m.entries)
        BY <1>2, <3>2
      <4>2. agrees(Len(m.entries))
        BY <1>10, <4>1
      <4> HIDE DEF agrees, L, M
      <4>3. /\ prev + Len(m.entries) \in 1 .. LastLogIndex(n)
            /\ SameUpTo(L, M, prev + Len(m.entries))
        BY <1>9, <4>1, <4>2
      <4>. QED  BY <1>2, <4>3
    <3>. QED  BY <3>1, <3>2
  <2>4. FromLeaders(L, t)
    <3> HIDE DEF L
    <3>. QED  BY <1>1, <1>5, FromLeadersLater
  <2>5. SameUpTo(L, history, n.commit_index)
    BY DEF OnHistory
  <2> HIDE DEF L
  <2>. QED  BY <1>1, <2>2, <2>3, <2>4, <2>5
<1>11. CASE ~(\A k \in 1 .. Len(m.entries) : agrees(k))
  <2>1. PICK k \in 1 .. Len(m.entries) : ~agrees(k)
    BY <1>11
  <2>2. c.log = merged
    BY <1>11 DEF MergeEntries
  <2>3. /\ DOMAIN merged = 1 .. base + Len(m.entries)
        /\ \A x \in 1 .. base + Len(m.entries) :
              merged[x] = IF kept(x) THEN n.log[x] ELSE m.entries[x - base]
    OBVIOUS
  <2> HIDE DEF merged
  <2>4. merged \in Seq(Entry)
    BY <2>2, MergeType
  <2>5. Len(merged) = base + Len(m.entries)
    BY <1>2, <1>3, <2>3, <2>4
  <2>6. LastLogIndex(c) = last
    BY SMTT(30), <1>1, <1>2, <1>3, <2>2, <2>5 DEF LastLogIndex
  <2>7. ASSUME NEW x \in 1 .. last, x <= LastLogIndex(n) => ~SameUpTo(L, M, x)
        PROVE  x > n.commit_index
    <3> SUFFICES ASSUME x <= n.commit_index PROVE FALSE
      BY <1>1
    <3>1. x <= LastLogIndex(n) /\ SameUpTo(L, M, x)
      BY <1>1, <1>6 DEF SameUpTo
    <3>. QED  BY <2>7, <3>1
  \* A position that does not agree lies after the commit index.
  <2>8. prev + k > n.commit_index /\ prev + k <= last
        /\ (LastLogIndex(n) >= prev + k => L[prev + k] # M[prev + k])
    <3>1. prev + k \in 1 .. last /\ prev + k \in Nat
      BY <1>2
    <3>2. prev + k <= LastLogIndex(n) => L[prev + k] # M[prev + k]
      <4> HIDE DEF agrees, L, M, prev
      <4>. QED  BY <1>9, <2>1
    <3>3. prev + k <= LastLogIndex(n) => ~SameUpTo(L, M, prev + k)
      BY <3>1, <3>2 DEF SameUpTo
    <3> HIDE DEF prev, L, M
    <3>. QED  BY <1>1, <2>7, <3>1, <3>2, <3>3
  <2>9. SameUpTo(FullLog(c), M, last)
    <3> SUFFICES ASSUME NEW x \in 1 .. last PROVE FullLog(c)[x] = M[x]
      BY DEF SameUpTo
    <3>1. CASE x <= n.snapshot_index
      <4>1. FullLog(c)[x] = history[x]
        BY <2>6, <3>1 DEF FullLog
      <4>2. x \in 1 .. n.commit_index
        BY <1>1, <3>1
      <4>. QED  BY <1>6, <4>1, <4>2 DEF SameUpTo
    <3>2. CASE x > n.snapshot_index
      <4> DEFINE y == x - n.snapshot_index
      <4>1. /\ y \in 1 .. base + Len(m.entries) /\ n.snapshot_index + y = x
            /\ y - base = x - prev
            /\ x <= prev => y \in 1 .. base /\ x \in 1 .. prev
            /\ x > prev => /\ x - prev \in 1 .. Len(m.entries)
                           /\ base + (x - prev) = y /\ prev + (x - prev) = x
            /\ x <= prev \/ x > prev
            /\ \A j \in 1 .. Len(m.entries) : base + j <= y => x > prev
        <5> HIDE DEF base, prev, L, M, kept
        <5>1. x \in Nat /\ x >= 1 /\ x <= prev + Len(m.entries) /\ prev \in Nat
          BY <1>2
        <5>2. y \in Nat /\ y >= 1 /\ x = n.snapshot_index + y
          BY SMTT(30), <1>1, <3>2, <5>1
        <5>3. /\ n.snapshot_index \in Nat /\ base \in Nat /\ Len(m.entries) \in Nat
              /\ prev = n.snapshot_index + base
          BY <1>1, <1>2, <1>3
        <5> HIDE DEF y
        <5>4. ASSUME NEW j \in 1 .. Len(m.entries), base + j <= y
              PROVE  x > prev
          BY <5>1, <5>2, <5>3, <5>4
        <5>5. y \in 1 .. base + Len(m.entries) /\ y - base = x - prev
              /\ (x <= prev \/ x > prev)
          BY SMTT(30), <5>1, <5>2, <5>3
        <5>6. x <= prev => y \in 1 .. base /\ x \in 1 .. prev
          BY <5>1, <5>2, <5>3
        <5>7. ASSUME x > prev PROVE x - prev \in 1 .. Len(m.entries)
          <6> DEFINE len == Len(m.entries)
          <6>1. len \in Nat /\ x <= prev + len /\ prev \in Nat /\ x \in Nat
            BY <5>1, <5>3
          <6> HIDE DEF len
          <6>2. x - prev \in 1 .. len
            BY <5>7, <6>1
          <6>. QED  BY <6>2 DEF len
        <5>8. base + (x - prev) = y /\ prev + (x - prev) = x
          BY SMTT(30), <5>1, <5>2, <5>3
        <5>. QED  BY <5>2, <5>4, <5>5, <5>6, <5>7, <5>8
      <4>2. FullLog(c)[x] = merged[y]
        BY <1>1, <2>2, <2>6, <3>2 DEF FullLog
      <4>3. merged[y] = IF kept(y) THEN n.log[y] ELSE m.entries[y - base]
        BY <2>3, <4>1
      <4> HIDE DEF y, base, prev
      <4>4. CASE kept(y)
        <5>1. y \in 1 .. Len(n.log) /\ L[x] = M[x]
          <6>1. CASE x <= prev
            <7>1. y \in 1 .. Len(n.log) /\ x \in 1 .. prev
              BY SMTT(30), <1>1, <1>3, <4>1, <6>1
            <7>. QED  BY <1>8, <7>1 DEF SameUpTo
          <6>2. CASE x > prev
            <7>1. x - prev \in 1 .. Len(m.entries) /\ base + (x - prev) = y
                  /\ prev + (x - prev) = x
              BY <4>1, <6>2
            <7>2. base + (x - prev) <= y
              BY <4>1, <7>1
            <7>3. agrees(x - prev)
              BY <4>4, <7>1, <7>2
            <7>4. x \in 1 .. LastLogIndex(n) /\ SameUpTo(L, M, x)
              <8> HIDE DEF agrees, L, M
              <8>. QED  BY <1>9, <7>1, <7>3
            <7>5. y <= Len(n.log)
              BY <7>1, <7>3
            <7>6. y \in 1 .. Len(n.log)
              BY <1>1, <4>1, <7>5
            <7>7. x \in 1 .. x
              BY <7>4
            <7> HIDE DEF L, M, y
            <7>. QED  BY <7>4, <7>6, <7>7 DEF SameUpTo
          <6>. QED  BY <4>1, <6>1, <6>2
        <5>2. L[x] = n.log[y]
          <6> HIDE DEF L, M
          <6>. QED  BY <1>4, <4>1, <5>1
        <5>. QED  BY <4>2, <4>3, <4>4, <5>1, <5>2
      <4>5. CASE ~kept(y)
        <5>1. PICK j \in 1 .. Len(m.entries) : base + j <= y
          BY <4>5
        <5>2. y - base \in 1 .. Len(m.entries) /\ prev + (y - base) = x
          BY <4>1, <5>1
        <5>3. m.entries[y - base] = M[prev + (y - base)]
          BY <5>2 DEF prev, SentBy
        <5>. QED  BY <4>2, <4>3, <4>5, <5>2, <5>3
      <4>. QED  BY <4>4, <4>5
    <3>. QED  BY <1>1, <3>1, <3>2
  <2>10. DOMAIN FullLog(c) = 1 .. last
    BY <2>6 DEF FullLog
  <2>11. FromLeaders(FullLog(c), t)
    <3>1. last \in Nat /\ 1 .. last \subseteq DOMAIN M
      BY <1>1, <1>5
    <3> HIDE DEF M
    <3>. QED  BY <1>5, <2>9, <2>10, <3>1, PrefixFromLeaders
  <2>12. n.commit_index < last
    BY <1>1, <1>2, <2>8
  <2>13. SameUpTo(FullLog(c), history, n.commit_index)
    BY SMTT(30), <1>1, <1>6, <2>9, <2>12 DEF SameUpTo
  <2>14. ASSUME last < LastLogIndex(n)
         PROVE  TermOf(FullLog(c), last) # TermOf(L, last)
    <3> SUFFICES ASSUME TermOf(FullLog(c), last) = TermOf(L, last) PROVE FALSE
      OBVIOUS
    <3>1. last \in 1 .. LastLogIndex(n) /\ last # 0 /\ last \in 1 .. last
      BY <1>1, <2>12, <2>14
    <3>2. FullLog(c)[last] = M[last]
      BY <2>9, <3>1 DEF SameUpTo
    <3>3. L[last].term = M[last].term
      BY <3>1, <3>2 DEF TermOf
    <3>4. SameUpTo(L, M, last)
      <4> HIDE DEF L, M
      <4>. QED  BY <1>7, <3>1, <3>3
    <3>5. prev + k \in 1 .. last /\ LastLogIndex(n) >= prev + k
      BY SMTT(30), <1>1, <1>2, <2>8, <2>14
    <3>. QED  BY <2>8, <3>4, <3>5 DEF SameUpTo
  <2> HIDE DEF L, M
  <2>. QED  BY <1>1, <2>6, <2>9, <2>11, <2>12, <2>13, <2>14 DEF L, M
<1>. QED  BY <1>10, <1>11

\* What a step of the node but InstallSnapshot keeps: its term and commit
\* index, and the end of its log unless the log is truncated.
Keeps(n, c) ==
    /\ c.current_term >= n.current_term
    /\ c.commit_index >= n.commit_index
    /\ LastLogIndex(c) < LastLogIndex(n) =>
          /\ LastLogIndex(c) > n.commit_index
          /\ TermOf(FullLog(c), LastLogIndex(c))
               # TermOf(FullLog(n), LastLogIndex(c))

LEMMA SameKeeps ==
    ASSUME NEW n \in NodeState, NEW c \in NodeState,
           c.current_term >= n.current_term, c.commit_index = n.commit_index,
           LastLogIndex(c) = LastLogIndex(n)
    PROVE  Keeps(n, c)
<1>1. /\ n.commit_index \in Nat /\ LastLogIndex(n) \in Nat
  BY LastLogIndexType DEF NodeState
<1>. QED  BY <1>1 DEF Keeps

\* handle_append_entries with a request of the leader of term t.
LEMMA AppendOnHistory ==
    ASSUME LeadersLogs, NEW n \in NodeState, OnHistory(n),
           NEW t \in 1 .. MaxTerm,
           NEW last \in 0 .. MaxIndex,
           NEW m \in AppendEntriesMessage, SentBy(t, last, m),
           m.leader_commit <= last, Committed(t, m.leader_commit)
    PROVE  LET c == HandleAppendEntries(n, m)
           IN  /\ OnHistory(c) /\ c.current_term <= Larger(t, n.current_term)
               /\ c.last_applied = n.last_applied
               /\ Keeps(n, c)
<1> DEFINE f == FollowLeader(n, m)
           log == MergeEntries(f, m)
           merged == [f EXCEPT !.log = log]
           c == CommitTo(merged, Smaller(m.leader_commit, LastLogIndex(merged)))
<1>1. /\ n.snapshot_index \in Nat /\ n.last_applied \in Nat
      /\ n.commit_index \in Nat /\ n.current_term \in Nat /\ t \in Nat
      /\ LastLogIndex(n) \in Nat /\ m.leader_commit \in Nat
      /\ n.snapshot_index <= n.last_applied
      /\ n.last_applied <= n.commit_index
      /\ n.commit_index <= LastLogIndex(n)
      /\ last \in Nat /\ MaxIndex \in Nat /\ m.term = t
  <2>1. m.leader_commit \in Nat /\ m.term = t
    BY DEF AppendEntriesMessage, SentBy
  <2>. QED  BY <2>1, OnHistoryIndices
<1>2. f \in NodeState
  BY FollowLeaderType
<1>3. /\ f.log = n.log /\ f.snapshot_index = n.snapshot_index
      /\ f.snapshot_term = n.snapshot_term
      /\ f.last_applied = n.last_applied /\ f.commit_index = n.commit_index
  BY DEF FollowLeader, BecomeFollower, NodeState
<1>4. t >= n.current_term => f.current_term = t
  <2>1. IF m.term > n.current_term \/ n.role # "Follower"
        THEN f.current_term = m.term ELSE f.current_term = n.current_term
    BY FollowLeaderType DEF SameBallot
  <2>. QED  BY <1>1, <2>1
<1> HIDE DEF f
<1>5. CASE t < n.current_term
  <2>1. HandleAppendEntries(n, m) = n
    BY <1>1, <1>5, HandleAppendEntriesType
  <2>2. Keeps(n, n)
    BY <1>1, SameKeeps
  <2>. QED  BY <1>1, <1>5, <2>1, <2>2 DEF Larger
<1>6. ASSUME ~(t < n.current_term)
      PROVE  /\ OnHistory(f) /\ LastLogIndex(f) = LastLogIndex(n)
             /\ FullLog(f) = FullLog(n) /\ f.current_term = t
             /\ t >= n.current_term /\ Larger(t, n.current_term) = t
  <2>1. f.current_term = t /\ t >= n.current_term
    BY <1>1, <1>4, <1>6
  <2>2. Larger(t, n.current_term) = t
    BY <1>1, <2>1 DEF Larger
  <2>. QED  BY <1>2, <1>3, <2>1, <2>2, SameIndices
<1>7. CASE ~(t < n.current_term) /\ ~LogMatches(n, m)
  <2>1. HandleAppendEntries(n, m) = f
    BY <1>1, <1>7 DEF HandleAppendEntries, f
  <2>2. Keeps(n, f)
    BY <1>2, <1>3, <1>6, <1>7, SameKeeps
  <2>. QED  BY <1>1, <1>3, <1>6, <1>7, <2>1, <2>2
<1>8. CASE ~(t < n.current_term) /\ LogMatches(n, m)
  <2>1. LogMatches(f, m)
    BY <1>3, <1>6, <1>8 DEF LogMatches, TermAt
  <2>2. log \in Seq(Entry)
    BY <1>2, <2>1, MergeType
  <2>3. /\ merged \in NodeState
        /\ merged.log = log /\ merged.snapshot_index = f.snapshot_index
        /\ merged.snapshot_term = n.snapshot_term
        /\ merged.last_applied = n.last_applied
        /\ merged.commit_index = n.commit_index
        /\ merged.current_term = t
    <3>1. f.current_term = t
      BY <1>6, <1>8
    <3> HIDE DEF log
    <3>. QED  BY <1>2, <1>3, <2>2, <3>1 DEF NodeState
  <2>4. HandleAppendEntries(n, m)
          = IF m.leader_commit > merged.commit_index THEN c ELSE merged
    BY <1>1, <1>8 DEF HandleAppendEntries, f
  <2>5. merged.log = MergeEntries(f, m)
    BY <2>3
  <2> HIDE DEF log, merged, c
  <2>6. /\ LastLogIndex(merged) \in last .. MaxIndex
        /\ LastLogIndex(merged) >= n.commit_index
        /\ FromLeaders(FullLog(merged), t)
        /\ SameUpTo(FullLog(merged), logs[t], last)
        /\ SameUpTo(FullLog(merged), history, n.commit_index)
        /\ LastLogIndex(merged) < LastLogIndex(n) =>
              /\ LastLogIndex(merged) > n.commit_index
              /\ TermOf(FullLog(merged), LastLogIndex(merged))
                   # TermOf(FullLog(n), LastLogIndex(merged))
    <3>1. t >= f.current_term
      BY <1>1, <1>6, <1>8
    <3>. QED  BY <1>2, <1>3, <1>6, <1>8, <2>1, <2>3, <2>5, <3>1, MergeOnHistory
  <2>7. Committed(t, n.commit_index)
    BY <1>1, <1>6, <1>8, CommittedLater DEF OnHistory
  <2>8. n.snapshot_term = TermOf(history, n.snapshot_index)
    BY DEF OnHistory
  <2>9. CASE m.leader_commit > merged.commit_index
    <3> DEFINE target == Smaller(m.leader_commit, LastLogIndex(merged))
    <3>1. target = m.leader_commit /\ LastLogIndex(merged) \in Nat
      BY <1>1, <2>6 DEF Smaller
    <3>2. /\ m.leader_commit <= LastLogIndex(merged)
          /\ m.leader_commit >= n.commit_index
          /\ m.leader_commit >= n.snapshot_index
          /\ LastLogIndex(merged) >= n.commit_index
      BY <1>1, <2>3, <2>6, <2>9
    <3> HIDE DEF target
    <3>3. c = CommitTo(merged, target)
      BY DEF c, target
    <3>4. /\ c.log = merged.log /\ c.snapshot_index = merged.snapshot_index
          /\ c.snapshot_term = merged.snapshot_term
          /\ c.last_applied = merged.last_applied
          /\ c.commit_index = Smaller(Larger(target, merged.snapshot_index),
                                      LastLogIndex(merged))
      BY <1>1, <2>3, <3>1, <3>3, CommitToFields
    <3>5. c.commit_index = m.leader_commit
      BY <1>1, <1>3, <2>3, <3>1, <3>2, <3>4 DEF Smaller, Larger
    <3>6. c.current_term = t
      BY <2>3, <3>3 DEF CommitTo, NodeState
    <3>7. LastLogIndex(c) = LastLogIndex(merged) /\ FullLog(c) = FullLog(merged)
      BY <3>4, SameFullLog
    <3>8. SameUpTo(FullLog(c), history, m.leader_commit)
      <4>1. SameUpTo(logs[t], history, m.leader_commit)
        BY <1>1 DEF Committed
      <4>. QED  BY <1>1, <2>6, <3>7, <4>1 DEF SameUpTo
    <3>9. OnHistory(c)
      BY <1>1, <1>3, <2>3, <2>6, <2>8, <3>2, <3>4, <3>5, <3>6, <3>7, <3>8
         DEF OnHistory
    <3>10. Keeps(n, c)
      BY <1>6, <1>8, <2>6, <3>2, <3>5, <3>6, <3>7 DEF Keeps
    <3>. QED  BY <1>1, <1>6, <1>8, <2>3, <2>4, <2>9, <3>4, <3>6, <3>9, <3>10
  <2>10. CASE ~(m.leader_commit > merged.commit_index)
    <3>1. OnHistory(merged)
      BY <1>1, <1>3, <2>3, <2>6, <2>7, <2>8 DEF OnHistory
    <3>2. Keeps(n, merged)
      BY <1>1, <1>6, <1>8, <2>3, <2>6 DEF Keeps
    <3>. QED  BY <1>1, <1>6, <1>8, <2>3, <2>4, <2>10, <3>1, <3>2
  <2>. QED  BY <2>9, <2>10
<1>. QED  BY <1>5, <1>7, <1>8

-----------------------------------------------------------------------------
(* The tail of every branch of the loop.                                   *)

LEMMA EffectStays ==
    ASSUME NEW k, machine' = machine, logs' = logs
    PROVE  Effect(k)' = Effect(k)
BY DEF Effect, history

LEMMA LogsStay ==
    ASSUME logs' = logs
    PROVE  history' = history /\ (LeadersLogs => LeadersLogs')
BY DEF history, LeadersLogs, FromLeaders, SameUpTo

\* What persist leaves behind.
Settled(n) ==
    /\ node' \in NodeState /\ SameBallot(node', n)
    /\ OnHistory(node)' /\ node'.last_applied = node'.commit_index
    /\ node'.commit_index = n.commit_index
    /\ OnHistory(node') /\ FullLog(node') = FullLog(n)
    /\ LastLogIndex(node') = LastLogIndex(n)
    /\ DiskIsCurrent' /\ DiskHasMachine' /\ MachineMatchesIndex'

LEMMA OnHistoryStays ==
    ASSUME logs' = logs, OnHistory(node')
    PROVE  OnHistory(node)'
<1>1. history' = history
  BY LogsStay
<1>2. FullLog(node)' = FullLog(node') /\ LastLogIndex(node)' = LastLogIndex(node')
  BY <1>1 DEF FullLog, LastLogIndex
<1>3. ASSUME NEW log, NEW t, FromLeaders(log, t) PROVE FromLeaders(log, t)'
  BY <1>3 DEF FromLeaders, SameUpTo
<1>4. ASSUME NEW t, NEW k, Committed(t, k) PROVE Committed(t, k)'
  BY <1>1, <1>4 DEF Committed, SameUpTo
<1>5. FromLeaders(FullLog(node), node.current_term)'
  <2>1. FromLeaders(FullLog(node'), node'.current_term)
    BY DEF OnHistory
  <2>. QED  BY <1>2, <2>1 DEF FromLeaders, SameUpTo
<1>6. Committed(node.current_term, node.commit_index)'
  <2>1. Committed(node'.current_term, node'.commit_index)
    BY DEF OnHistory
  <2>. QED  BY <1>1, <2>1 DEF Committed, SameUpTo
<1>7. SameUpTo(FullLog(node), history, node.commit_index)'
  <2>1. SameUpTo(FullLog(node'), history, node'.commit_index)
    BY DEF OnHistory
  <2>. QED  BY <1>1, <1>2, <2>1 DEF SameUpTo
<1>. QED  BY <1>1, <1>2, <1>5, <1>6, <1>7 DEF OnHistory, TermOf

LEMMA PersistSettles ==
    ASSUME machine \in Machines, LeadersLogs,
           NEW n \in NodeState, OnHistory(n), n.last_applied = n.commit_index,
           NEW state, Exact => state = Effect(n.commit_index),
           Persist(n, state), UNCHANGED <<machine, logs, replayed>>
    PROVE  Settled(n)
<1> DEFINE c == MaybeCompactLog(n)
<1>1. /\ OnHistory(c) /\ c.commit_index = n.commit_index
      /\ c.last_applied = n.commit_index /\ LastLogIndex(c) = LastLogIndex(n)
      /\ FullLog(c) = FullLog(n)
  BY CompactOnHistory
<1>2. c \in NodeState /\ SameBallot(c, n)
  BY CompactType
<1>3. /\ node' = c /\ state_machine' = state /\ disk' = Image(c, state)
  BY DEF Persist
<1>4. machine' = machine /\ logs' = logs /\ Exact' = Exact
  BY DEF Exact
<1> HIDE DEF c
<1>5. OnHistory(node)'
  BY <1>1, <1>3, <1>4, OnHistoryStays
<1>6. DiskIsCurrent'
  BY <1>3 DEF DiskIsCurrent, Image, FromNode
<1>7. Effect(n.commit_index)' = Effect(n.commit_index)
      /\ Effect(node.commit_index)' = Effect(n.commit_index)
      /\ Effect(node.last_applied)' = Effect(n.commit_index)
  BY <1>1, <1>3, <1>4 DEF Effect, history
<1>8. disk'.state_machine_snapshot = Snapshot(machine, state)
  BY <1>3 DEF Image, FromNode
<1>9. DiskHasMachine'
  BY <1>4, <1>7, <1>8, RestoreUndoesSnapshot DEF DiskHasMachine
<1>10. MachineMatchesIndex'
  BY <1>3, <1>4, <1>7 DEF MachineMatchesIndex
<1>. QED  BY <1>1, <1>2, <1>3, <1>5, <1>6, <1>9, <1>10 DEF Settled

LEMMA ApplySettles ==
    ASSUME InstallInv, NEW n \in NodeState, OnHistory(n),
           n.last_applied = node.last_applied,
           ApplyAndPersist(n), UNCHANGED <<machine, logs, replayed>>
    PROVE  Settled(n)
<1> DEFINE c == MarkApplied(n)
           state == ApplyAll(machine, state_machine, Commands(UnappliedEntries(n)))
<1>1. machine \in Machines /\ LeadersLogs /\ MachineMatchesIndex
  BY DEF InstallInv
<1>2. /\ AppliedEnd(n) = n.commit_index
      /\ Commands(UnappliedEntries(n))
           = Commands(SubSeq(history, n.last_applied + 1, n.commit_index))
  BY <1>1, UnappliedOnHistory
<1>3. c \in NodeState /\ SameBallot(c, n)
  BY MarkAppliedType
<1>4. /\ c.log = n.log /\ c.snapshot_index = n.snapshot_index
      /\ c.snapshot_term = n.snapshot_term /\ c.commit_index = n.commit_index
      /\ c.last_applied = n.commit_index /\ c.current_term = n.current_term
  BY <1>2 DEF MarkApplied, NodeState
<1>5. /\ n.last_applied \in Nat /\ n.commit_index \in Nat
      /\ n.last_applied <= n.commit_index /\ n.commit_index <= Len(history)
      /\ n.snapshot_index \in Nat /\ LastLogIndex(n) \in Nat
      /\ n.snapshot_index <= n.last_applied
      /\ history \in Seq(Entry)
  <2>1. /\ n.last_applied \in Nat /\ n.commit_index \in Nat
        /\ n.last_applied <= n.commit_index
        /\ n.snapshot_index \in Nat /\ LastLogIndex(n) \in Nat
        /\ n.snapshot_index <= n.last_applied /\ history \in Seq(Entry)
        /\ n.commit_index <= LastLogIndex(n) /\ LastLogIndex(n) <= Len(history)
        /\ Len(history) = MaxIndex /\ MaxIndex \in Nat
    BY <1>1, OnHistoryIndices, HistoryIsALog
  <2>. QED  BY <2>1
<1>6. Exact => state = Effect(n.commit_index)
  <2> SUFFICES ASSUME Exact PROVE state = Effect(n.commit_index)
    OBVIOUS
  <2>1. state_machine = Effect(n.last_applied)
    BY <1>1 DEF MachineMatchesIndex
  <2>. QED  BY <1>1, <1>2, <1>5, <2>1, ApplyNext
<1> HIDE DEF c, state
<1>7. OnHistory(c) /\ LastLogIndex(c) = LastLogIndex(n) /\ FullLog(c) = FullLog(n)
  <2>1. LastLogIndex(c) = LastLogIndex(n) /\ FullLog(c) = FullLog(n)
    BY <1>4, SameFullLog
  <2>. QED  BY <1>4, <1>5, <2>1 DEF OnHistory
<1>8. Persist(c, state)
  BY DEF ApplyAndPersist, c, state
<1>9. Settled(c)
  BY <1>1, <1>3, <1>4, <1>6, <1>7, <1>8, PersistSettles
<1>. QED  BY <1>3, <1>4, <1>7, <1>9 DEF Settled, SameBallot

-----------------------------------------------------------------------------
(* Votes.                                                                  *)

Voting == VotesAreRemembered /\ SecondVoteOnlyAfterInstall

LEMMA VoteStays ==
    ASSUME Voting, node'.current_term = node.current_term,
           node'.voted_for = node.voted_for, node'.role \in {node.role, "Follower"},
           UNCHANGED <<granted, cleared>>
    PROVE  Voting'
BY DEF Voting, VotesAreRemembered, SecondVoteOnlyAfterInstall

\* In the term a node comes to it has given no vote to another node.
LEMMA NewTermNewVote ==
    ASSUME node \in NodeState, node' \in NodeState, Voting,
           node'.role # "Follower" => node'.voted_for = Self,
           \/ node'.current_term > node.current_term
           \/ /\ node'.current_term = node.current_term
              /\ node.role # "Follower",
           UNCHANGED <<granted, cleared>>
    PROVE  Voting'
<1>1. node.current_term \in Nat /\ node'.current_term \in Nat
  BY DEF NodeState
<1>2. SecondVoteOnlyAfterInstall'
  BY DEF Voting, SecondVoteOnlyAfterInstall
<1>3. ASSUME NEW v \in granted
      PROVE  /\ v \in (0 .. node'.current_term) \X Peers(Self)
             /\ v[1] # node'.current_term
  <2>1. /\ v \in (0 .. node.current_term) \X Peers(Self)
        /\ v[1] = node.current_term => node.role = "Follower"
    BY DEF Voting, VotesAreRemembered
  <2>. QED  BY <1>1, <2>1
<1>. QED  BY <1>2, <1>3 DEF Voting, VotesAreRemembered

-----------------------------------------------------------------------------
(* One step per action.                                                    *)

\* The step of OnlyInstallUncommits.
Forward ==
    /\ node'.current_term >= node.current_term
    /\ node'.commit_index < node.commit_index => OnSnapshot
    /\ LastLogIndex(node') < LastLogIndex(node) => Truncated \/ OnSnapshot

\* A branch that ends with persist, seen from what its handler made.
LEMMA SettledStep ==
    ASSUME InstallInv, NEW n \in NodeState, Settled(n), Keeps(node, n),
           UNCHANGED <<machine, logs>>, n.current_term <= MaxTerm, Voting'
    PROVE  InstallInv' /\ Forward
<1>1. /\ node \in NodeState /\ machine \in Machines /\ LeadersLogs
      /\ OnHistory(node)
  BY DEF InstallInv
<1>2. /\ node'.current_term = n.current_term /\ node'.commit_index = n.commit_index
      /\ LastLogIndex(node') = LastLogIndex(n) /\ FullLog(node') = FullLog(n)
      /\ node' \in NodeState /\ OnHistory(node')
  BY DEF Settled, SameBallot
<1>3. InstallInv'
  <2>1. LeadersLogs'
    BY <1>1, LogsStay
  <2>2. node'.current_term <= MaxTerm
    BY <1>2
  <2>. QED  BY <1>1, <2>1, <2>2 DEF InstallInv, Settled, Voting
<1>4. /\ node.commit_index \in Nat /\ n.commit_index \in Nat
      /\ LastLogIndex(node) \in Nat /\ LastLogIndex(n) \in Nat
      /\ node.snapshot_index \in Nat /\ node.snapshot_index <= node.commit_index
      /\ node.last_applied \in Nat
  <2>1. n.commit_index \in Nat /\ LastLogIndex(n) \in Nat
    BY LastLogIndexType DEF NodeState
  <2>2. /\ node.commit_index \in Nat /\ LastLogIndex(node) \in Nat
        /\ node.snapshot_index \in Nat /\ node.last_applied \in Nat
        /\ node.snapshot_index <= node.last_applied
        /\ node.last_applied <= node.commit_index
    BY <1>1, OnHistoryIndices
  <2>. QED  BY <2>1, <2>2
<1>5. ~(node'.commit_index < node.commit_index)
  BY <1>2, <1>4 DEF Keeps
<1>6. ASSUME LastLogIndex(node') < LastLogIndex(node) PROVE Truncated
  <2> DEFINE last == LastLogIndex(n)
  <2>1. /\ last > node.commit_index /\ last < LastLogIndex(node)
        /\ TermOf(FullLog(n), last) # TermOf(FullLog(node), last)
    BY <1>2, <1>6 DEF Keeps
  <2>2. last \in node.snapshot_index .. LastLogIndex(node)
    BY <1>4, <2>1
  <2>3. TermAt(node, last) = TermOf(FullLog(node), last)
    BY <1>1, <2>2, TermOnHistory
  <2>4. TermAt(node', last) = TermOf(FullLog(node'), last)
    <3>1. last \in node'.snapshot_index .. LastLogIndex(node')
      <4>1. node'.snapshot_index \in Nat /\ LastLogIndex(node') \in Nat
            /\ node'.snapshot_index <= LastLogIndex(node')
        BY <1>1, <1>2, OnHistoryIndices
      <4>. QED  BY <1>2, <4>1
    <3>. QED  BY <1>2, <3>1, TermOnHistory
  <2>. QED  BY <1>2, <2>1, <2>3, <2>4 DEF Truncated, LastLogTerm
<1>. QED  BY <1>2, <1>3, <1>5, <1>6 DEF Forward, Keeps

LEMMA LogTerms ==
    ASSUME LeadersLogs, NEW t \in 1 .. MaxTerm, NEW k \in 0 .. MaxIndex
    PROVE  TermOf(logs[t], k) \in Nat
<1>1. logs[t] \in Seq(Entry) /\ DOMAIN logs[t] = 1 .. MaxIndex
  BY LeaderIsALog
<1>2. CASE k = 0
  BY <1>2 DEF TermOf
<1>3. CASE k # 0
  <2>1. k \in DOMAIN logs[t]
    BY <1>1, <1>3, InstallAssumption
  <2>2. logs[t][k] \in Entry
    <3> DEFINE log == logs[t]
    <3> HIDE DEF log
    <3>1. log \in Seq(Entry) /\ k \in DOMAIN log
      BY <1>1, <2>1 DEF log
    <3>2. log[k] \in Entry
      BY <3>1
    <3>. QED  BY <3>2 DEF log
  <2>. QED  BY <1>3, <2>2 DEF TermOf, Entry
<1>. QED  BY <1>2, <1>3

LEMMA AppendEntriesStep ==
    ASSUME InstallInv, NEW t \in 1 .. MaxTerm, ReceiveAppendEntries(t)
    PROVE  InstallInv' /\ Forward
<1>1. /\ node \in NodeState /\ LeadersLogs /\ node.current_term <= MaxTerm
      /\ OnHistory(node) /\ Voting
  BY DEF InstallInv, Voting
<1>a. PICK last \in LeaderLog(t) : \E prev, commit \in 0 .. last :
         /\ Committed(t, commit)
         /\ ApplyAndPersist(HandleAppendEntries(node,
               AppendEntriesOf(t, prev, last, commit)))
  BY DEF ReceiveAppendEntries
<1>2. PICK prev \in 0 .. last, commit \in 0 .. last :
         /\ Committed(t, commit)
         /\ ApplyAndPersist(HandleAppendEntries(node,
               AppendEntriesOf(t, prev, last, commit)))
  BY <1>a
<1>3. UNCHANGED <<machine, logs, granted, cleared, replayed>>
  BY DEF ReceiveAppendEntries
<1>4. /\ last \in 0 .. MaxIndex /\ prev \in 0 .. MaxIndex /\ commit \in Nat
      /\ prev \in Nat /\ last \in Nat /\ prev <= last /\ commit <= last
      /\ last <= MaxIndex /\ MaxIndex \in Nat /\ t \in Nat /\ MaxTerm \in Nat
  <2>1. last \in 0 .. MaxIndex
    BY DEF LeaderLog
  <2>. QED  BY <2>1, InstallAssumption
<1> DEFINE m == AppendEntriesOf(t, prev, last, commit)
           e == SubSeq(logs[t], prev + 1, last)
           n == HandleAppendEntries(node, m)
<1>5. /\ e \in Seq(Entry) /\ Len(e) = last - prev
      /\ \A k \in 1 .. Len(e) : e[k] = logs[t][prev + k]
  <2>1. logs[t] \in Seq(Entry) /\ Len(logs[t]) = MaxIndex
    BY <1>1, LeaderIsALog
  <2> DEFINE log == logs[t]
  <2> HIDE DEF log
  <2>2. log \in Seq(Entry) /\ last <= Len(log)
    BY <1>4, <2>1 DEF log
  <2>3. LET s == SubSeq(log, prev + 1, last)
        IN  /\ s \in Seq(Entry) /\ Len(s) = last - prev
            /\ \A k \in 1 .. Len(s) : s[k] = log[prev + k]
    BY <1>4, <2>2
  <2>. QED  BY <2>3 DEF log
<1>6. /\ m.entries = e /\ m.prev_log_index = prev /\ m.term = t
      /\ m.prev_log_term = TermOf(logs[t], prev) /\ m.leader_commit = commit
      /\ m \in AppendEntriesMessage
  <2>1. TermOf(logs[t], prev) \in Nat
    BY <1>1, <1>4, LogTerms
  <2> HIDE DEF e
  <2>. QED  BY <1>4, <1>5, <2>1, InstallAssumption
            DEF AppendEntriesOf, AppendEntriesMessage, e
<1> HIDE DEF m, e
<1>7. SentBy(t, last, m)
  BY <1>4, <1>5, <1>6 DEF SentBy
<1>8. /\ OnHistory(n) /\ n.last_applied = node.last_applied
      /\ n.current_term <= Larger(t, node.current_term)
      /\ Keeps(node, n)
  BY <1>1, <1>2, <1>4, <1>6, <1>7, AppendOnHistory
<1>9. n \in NodeState
  BY <1>1, <1>6, HandleAppendEntriesType
<1>10. Settled(n)
  BY <1>1, <1>2, <1>3, <1>8, <1>9, ApplySettles DEF m
<1>11. node' \in NodeState /\ SameBallot(node', n)
  BY <1>10 DEF Settled
<1>12. Voting'
  <2> HIDE DEF n
  <2>1. node.current_term \in Nat /\ m.term \in Nat
    BY <1>1, <1>4, <1>6 DEF NodeState
  <2>2. CASE m.term < node.current_term
    <3>1. n = node
      BY <1>1, <1>6, <2>2, HandleAppendEntriesType DEF n
    <3>. QED  BY <1>1, <1>3, <1>11, <2>1, <3>1, VoteStays DEF SameBallot
  <2>3. CASE ~(m.term < node.current_term)
    <3>1. SameBallot(n, FollowLeader(node, m))
      BY <1>1, <1>6, <2>3, HandleAppendEntriesType DEF n
    <3>2. CASE m.term > node.current_term \/ node.role # "Follower"
      <4>1. node'.current_term = m.term /\ node'.role = "Follower"
        BY <1>1, <1>6, <1>11, <3>1, <3>2, FollowLeaderType DEF SameBallot
      <4>. QED  BY <1>1, <1>3, <1>11, <2>1, <2>3, <3>2, <4>1, NewTermNewVote
    <3>3. CASE ~(m.term > node.current_term \/ node.role # "Follower")
      <4>1. SameBallot(node', node)
        BY <1>1, <1>6, <1>11, <3>1, <3>3, FollowLeaderType DEF SameBallot
      <4>. QED  BY <1>1, <1>3, <2>1, <4>1, VoteStays DEF SameBallot
    <3>. QED  BY <3>2, <3>3
  <2>. QED  BY <2>2, <2>3
<1> HIDE DEF n
<1>13. n.current_term <= MaxTerm
  <2>1. n.current_term \in Nat /\ node.current_term \in Nat
    BY <1>1, <1>9 DEF NodeState
  <2>. QED  BY <1>1, <1>4, <1>8, <2>1 DEF Larger
<1>. QED  BY <1>3, <1>8, <1>9, <1>10, <1>12, <1>13, SettledStep

LEMMA RequestVoteStep ==
    ASSUME InstallInv, NEW t \in 1 .. MaxTerm, NEW candidate \in Peers(Self),
           ReceiveRequestVote(candidate, t)
    PROVE  InstallInv' /\ Forward
<1>1. /\ node \in NodeState /\ LeadersLogs /\ node.current_term <= MaxTerm
      /\ OnHistory(node) /\ Voting
  BY DEF InstallInv, Voting
<1> DEFINE request(end) ==
        [type |-> "RequestVote", from |-> candidate, to |-> Self, term |-> t,
         last_log_index |-> end[1], last_log_term |-> end[2]]
<1>2. PICK end \in CandidateEnds(t) :
         /\ ApplyAndPersist(HandleRequestVote(node, request(end)))
         /\ granted' = IF GrantsVote(node, request(end))
                       THEN granted \cup {<<t, candidate>>} ELSE granted
  BY DEF ReceiveRequestVote
<1>3. UNCHANGED <<machine, logs, cleared, replayed>>
  BY DEF ReceiveRequestVote
<1> DEFINE m == request(end)
           n == HandleRequestVote(node, m)
<1>4. m \in RequestVoteMessage /\ m.term = t /\ m.from = candidate
  <2>1. PICK u \in 1 .. t : end \in {<<k, TermOf(logs[u], k)>> : k \in 0 .. MaxIndex}
    BY DEF CandidateEnds
  <2>2. PICK k \in 0 .. MaxIndex : end = <<k, TermOf(logs[u], k)>>
    BY <2>1
  <2>3. u \in 1 .. MaxTerm /\ k \in Nat /\ t \in Nat
    BY InstallAssumption
  <2>4. TermOf(logs[u], k) \in Nat
    BY <1>1, <2>3, LogTerms
  <2>5. end[1] \in Nat /\ end[2] \in Nat
    BY <2>2, <2>3, <2>4
  <2>. QED  BY <2>3, <2>5, InstallAssumption DEF RequestVoteMessage, Peers
<1>5. granted' = IF GrantsVote(node, m) THEN granted \cup {<<t, candidate>>}
                                        ELSE granted
  BY <1>2
<1>6. ApplyAndPersist(n)
  BY <1>2
<1> HIDE DEF m
<1>7. n \in NodeState
  BY <1>1, <1>4, HandleRequestVoteType
<1>8. /\ n.log = node.log /\ n.snapshot_index = node.snapshot_index
      /\ n.snapshot_term = node.snapshot_term
      /\ n.last_applied = node.last_applied /\ n.commit_index = node.commit_index
  BY <1>1 DEF HandleRequestVote, SeenTerm, BecomeFollower, NodeState
<1> HIDE DEF n
<1>12. node.current_term \in Nat /\ t \in Nat /\ t <= MaxTerm
  BY <1>1, InstallAssumption DEF NodeState
<1> DEFINE s == SeenTerm(node, m)
<1>13. /\ n.current_term = s.current_term /\ n.role = s.role
       /\ n.voted_for = IF GrantsVote(node, m) THEN candidate ELSE s.voted_for
  BY <1>1, <1>4, HandleRequestVoteType DEF n
<1>14. /\ t > node.current_term => /\ s.current_term = t /\ s.role = "Follower"
                                   /\ s.voted_for = Nil
       /\ ~(t > node.current_term) => s = node
  BY <1>1, <1>4, <1>12, SeenTermType
<1>15. GrantsVote(node, m) => t >= node.current_term /\ s.voted_for \in {Nil, candidate}
  BY <1>4 DEF GrantsVote
<1> HIDE DEF s
<1>16. n.current_term >= node.current_term /\ n.current_term <= MaxTerm
  BY <1>1, <1>12, <1>13, <1>14
<1>9. /\ OnHistory(n) /\ LastLogIndex(n) = LastLogIndex(node)
      /\ Keeps(node, n)
  BY <1>1, <1>7, <1>8, <1>16, SameIndices, SameKeeps
<1>10. Settled(n)
  BY <1>3, <1>6, <1>7, <1>8, <1>9, ApplySettles
<1>11. node' \in NodeState /\ SameBallot(node', n)
  BY <1>10 DEF Settled
<1>17. Voting'
  <2>1. CASE ~GrantsVote(node, m) /\ t > node.current_term
    BY <1>1, <1>3, <1>5, <1>11, <1>13, <1>14, <2>1, NewTermNewVote DEF SameBallot
  <2>2. CASE ~GrantsVote(node, m) /\ ~(t > node.current_term)
    BY <1>1, <1>3, <1>5, <1>11, <1>13, <1>14, <2>2, VoteStays DEF SameBallot
  <2>3. CASE GrantsVote(node, m)
    <3>1. /\ node'.current_term = t /\ node'.voted_for = candidate
          /\ node'.role = s.role /\ t >= node.current_term
      BY <1>11, <1>12, <1>13, <1>14, <1>15, <2>3 DEF SameBallot
    <3>2. candidate # Self /\ candidate # Nil /\ Self # Nil
      BY InstallAssumption, NodeAssumption DEF Peers
    <3>3. s.role = "Follower"
      <4>1. CASE t > node.current_term
        BY <1>14, <4>1
      <4>2. CASE ~(t > node.current_term)
        BY <1>1, <1>14, <1>15, <2>3, <3>2, <4>2 DEF Voting, VotesAreRemembered
      <4>. QED  BY <4>1, <4>2
    <3>4. ASSUME NEW v \in granted
          PROVE  /\ v \in (0 .. t) \X Peers(Self)
                 /\ v[1] = t => v[2] = candidate \/ t \in cleared
      <4>1. /\ v \in (0 .. node.current_term) \X Peers(Self)
            /\ v[1] = node.current_term =>
                  node.voted_for = v[2] \/ v[1] \in cleared
        BY <1>1 DEF Voting, VotesAreRemembered
      <4>2. v \in (0 .. t) \X Peers(Self) /\ v[2] # Nil
        BY <1>12, <3>1, <4>1, NodeAssumption DEF Peers
      <4>3. CASE t > node.current_term
        BY <1>12, <4>1, <4>2, <4>3
      <4>4. CASE ~(t > node.current_term)
        BY <1>12, <1>14, <1>15, <2>3, <3>1, <4>1, <4>2, <4>4
      <4>. QED  BY <4>3, <4>4
    <3>5. granted' = granted \cup {<<t, candidate>>} /\ cleared' = cleared
      BY <1>3, <1>5, <2>3
    <3>6. <<t, candidate>> \in (0 .. t) \X Peers(Self)
      BY <1>12
    <3>7. VotesAreRemembered'
      BY <3>1, <3>3, <3>4, <3>5, <3>6 DEF VotesAreRemembered
    <3>8. SecondVoteOnlyAfterInstall'
      BY <1>1, <3>4, <3>5 DEF Voting, SecondVoteOnlyAfterInstall
    <3>. QED  BY <3>7, <3>8 DEF Voting
  <2>. QED  BY <2>1, <2>2, <2>3
<1>. QED  BY <1>3, <1>7, <1>9, <1>10, <1>16, <1>17, SettledStep

\* A tick persists without applying: there is nothing to apply.
LEMMA TickStep ==
    ASSUME InstallInv, TickElection \/ TickIdle
    PROVE  InstallInv' /\ Forward
<1>1. /\ node \in NodeState /\ LeadersLogs /\ machine \in Machines
      /\ OnHistory(node) /\ Voting /\ node.current_term <= MaxTerm
      /\ node.last_applied = node.commit_index /\ MachineMatchesIndex
  BY DEF InstallInv, Voting
<1>2. UNCHANGED <<machine, logs, granted, cleared, replayed>>
  BY DEF TickElection, TickIdle
<1>3. Exact => state_machine = Effect(node.commit_index)
  BY <1>1 DEF MachineMatchesIndex
<1>4. /\ node.current_term \in Nat /\ node.commit_index \in Nat
      /\ LastLogIndex(node) \in Nat
  BY <1>1, LastLogIndexType DEF NodeState
<1>5. CASE TickIdle
  <2>1. Settled(node)
    BY <1>1, <1>2, <1>3, <1>5, PersistSettles DEF TickIdle
  <2>2. Voting'
    BY <1>1, <1>2, <2>1, VoteStays DEF Settled, SameBallot
  <2>3. Keeps(node, node)
    BY <1>1, <1>4, SameKeeps
  <2>. QED  BY <1>1, <1>2, <2>1, <2>2, <2>3, SettledStep
<1>6. CASE TickElection
  <2> DEFINE n == StartElection(Self, node)
  <2>1. /\ n \in NodeState /\ n.current_term = node.current_term + 1
        /\ n.voted_for = Self /\ n.role = "Candidate"
    BY <1>1, StartElectionType, InstallAssumption
  <2>2. /\ n.log = node.log /\ n.snapshot_index = node.snapshot_index
        /\ n.snapshot_term = node.snapshot_term
        /\ n.last_applied = node.last_applied /\ n.commit_index = node.commit_index
    BY <1>1 DEF StartElection, NodeState
  <2>3. Persist(n, state_machine)
    BY <1>6 DEF TickElection
  <2> HIDE DEF n
  <2>4. /\ OnHistory(n) /\ LastLogIndex(n) = LastLogIndex(node)
        /\ Keeps(node, n)
    <3>1. n.current_term >= node.current_term
      BY <1>4, <2>1
    <3>. QED  BY <1>1, <2>1, <2>2, <3>1, SameIndices, SameKeeps
  <2>5. Settled(n)
    BY <1>1, <1>2, <1>3, <2>1, <2>2, <2>3, <2>4, PersistSettles
  <2>6. /\ node' \in NodeState /\ node'.current_term = node.current_term + 1
        /\ node'.voted_for = Self
    BY <2>1, <2>5 DEF Settled, SameBallot
  <2>7. Voting'
    BY <1>1, <1>2, <1>4, <2>6, NewTermNewVote
  <2>8. n.current_term <= MaxTerm
    BY <1>4, <1>6, <2>1, InstallAssumption DEF TickElection
  <2>. QED  BY <1>1, <1>2, <2>1, <2>4, <2>5, <2>7, <2>8, SettledStep
<1>. QED  BY <1>5, <1>6

\* restore_from_storage takes everything but the volatile fields.
LEMMA RestoreFields ==
    ASSUME NEW image,
           image.current_term \in Nat, image.voted_for \in Node \cup {Nil},
           image.log \in Seq(Entry), image.commit_index \in Nat,
           image.last_included_index \in Nat, image.last_included_term \in Nat
    PROVE  LET r == RestoreFromStorage(image)
               last == image.last_included_index + Len(image.log)
           IN  /\ r \in NodeState
               /\ r.current_term = image.current_term
               /\ r.voted_for = image.voted_for
               /\ r.log = image.log
               /\ r.snapshot_index = image.last_included_index
               /\ r.snapshot_term = image.last_included_term
               /\ r.last_applied = image.last_included_index
               /\ r.commit_index
                    = Smaller(Larger(image.commit_index,
                                     image.last_included_index), last)
               /\ LastLogIndex(r) = last
               /\ r.role = "Follower" /\ r.leader_id = Nil
<1> DEFINE n == [NewNode EXCEPT !.current_term = image.current_term,
                                !.voted_for = image.voted_for,
                                !.log = image.log,
                                !.snapshot_index = image.last_included_index,
                                !.snapshot_term = image.last_included_term,
                                !.last_applied = image.last_included_index]
<1>1. /\ n \in NodeState
      /\ n.current_term = image.current_term
      /\ n.voted_for = image.voted_for
      /\ n.log = image.log
      /\ n.snapshot_index = image.last_included_index
      /\ n.snapshot_term = image.last_included_term
      /\ n.last_applied = image.last_included_index
      /\ n.role = "Follower" /\ n.leader_id = Nil
  BY NewNodeType DEF NewNode, NodeState
<1>2. RestoreFromStorage(image) = CommitTo(n, image.commit_index)
  BY DEF RestoreFromStorage
<1> HIDE DEF n
<1>3. LastLogIndex(n) = image.last_included_index + Len(image.log)
  BY <1>1 DEF LastLogIndex
<1> DEFINE r == CommitTo(n, image.commit_index)
<1>4. /\ r \in NodeState /\ SameBallot(r, n) /\ r.leader_id = n.leader_id
      /\ r.log = n.log /\ r.snapshot_index = n.snapshot_index
      /\ r.snapshot_term = n.snapshot_term /\ r.last_applied = n.last_applied
      /\ r.commit_index = Smaller(Larger(image.commit_index, n.snapshot_index),
                                  LastLogIndex(n))
  <2>1. r \in NodeState /\ SameBallot(r, n)
    BY <1>1, CommitToType
  <2>2. r.leader_id = n.leader_id
    BY <1>1 DEF CommitTo, NodeState
  <2> HIDE DEF r
  <2>. QED  BY <1>1, <2>1, <2>2, CommitToFields DEF r
<1> HIDE DEF r
<1>5. LastLogIndex(r) = LastLogIndex(n)
  BY <1>4 DEF LastLogIndex
<1>. QED  BY <1>1, <1>2, <1>3, <1>4, <1>5 DEF SameBallot, r

LEMMA DiskType ==
    ASSUME node \in NodeState, DiskIsCurrent
    PROVE  /\ disk.current_term \in Nat /\ disk.voted_for \in Node \cup {Nil}
           /\ disk.log \in Seq(Entry) /\ disk.commit_index \in Nat
           /\ disk.last_included_index \in Nat /\ disk.last_included_term \in Nat
BY DEF NodeState, DiskIsCurrent

\* The committed entries after the snapshot point are applied to a machine
\* that has them already.  The store does not notice, and where nothing is
\* applied again nothing is to be noticed.
LEMMA RestartStep ==
    ASSUME InstallInv, Restart
    PROVE  InstallInv' /\ Forward
<1>1. /\ node \in NodeState /\ history \in Seq(Entry) /\ machine \in Machines
      /\ LeadersLogs /\ node.current_term <= MaxTerm
      /\ OnHistory(node) /\ Voting /\ node.last_applied = node.commit_index
      /\ DiskIsCurrent /\ DiskHasMachine
  BY HistoryIsALog DEF InstallInv, Voting
<1> DEFINE r == RestoreFromStorage(disk)
           again == Commands(UnappliedEntries(r))
           saved == Restore(machine, NewMachine(machine),
                            disk.state_machine_snapshot)
<1>2. /\ node' = MarkApplied(r)
      /\ state_machine' = ApplyAll(machine, saved, again)
      /\ replayed' = (replayed \/ again # << >>)
      /\ UNCHANGED <<machine, logs, disk, granted, cleared>>
  BY DEF Restart
<1>3. /\ node.snapshot_index \in Nat /\ node.commit_index \in Nat
      /\ node.current_term \in Nat /\ node.last_applied \in Nat
      /\ LastLogIndex(node) = node.snapshot_index + Len(node.log)
      /\ LastLogIndex(node) \in Nat
      /\ node.snapshot_index <= node.commit_index
      /\ node.commit_index <= LastLogIndex(node)
      /\ LastLogIndex(node) <= Len(history)
  BY <1>1, OnHistoryIndices
<1>4. /\ r \in NodeState
      /\ r.current_term = node.current_term /\ r.voted_for = node.voted_for
      /\ r.log = node.log /\ r.snapshot_index = node.snapshot_index
      /\ r.snapshot_term = node.snapshot_term
      /\ r.last_applied = node.snapshot_index
      /\ r.commit_index = Smaller(Larger(node.commit_index, node.snapshot_index),
                                  LastLogIndex(node))
      /\ LastLogIndex(r) = LastLogIndex(node)
      /\ r.role = "Follower"
  BY <1>1, <1>3, DiskType, RestoreFields DEF DiskIsCurrent
<1> HIDE DEF r
<1>5. r.commit_index = node.commit_index
  BY <1>3, <1>4 DEF Smaller, Larger
<1>6. OnHistory(r) /\ FullLog(r) = FullLog(node)
  <2>1. FullLog(r) = FullLog(node)
    BY <1>4, SameFullLog
  <2>. QED  BY <1>1, <1>3, <1>4, <1>5, <2>1 DEF OnHistory
<1>7. /\ AppliedEnd(r) = node.commit_index
      /\ again = Commands(SubSeq(history, node.snapshot_index + 1,
                                 node.commit_index))
  BY <1>1, <1>4, <1>5, <1>6, UnappliedOnHistory
<1> DEFINE c == MarkApplied(r)
<1>8. /\ c \in NodeState /\ SameBallot(c, r)
  BY <1>4, MarkAppliedType
<1>9. /\ c.log = r.log /\ c.snapshot_index = r.snapshot_index
      /\ c.snapshot_term = r.snapshot_term /\ c.commit_index = r.commit_index
      /\ c.last_applied = node.commit_index /\ c.current_term = r.current_term
  BY <1>4, <1>7 DEF MarkApplied, NodeState
<1> HIDE DEF c
<1>10. node' = c
  BY <1>2 DEF c
<1>11. OnHistory(c) /\ LastLogIndex(c) = LastLogIndex(node)
  <2>1. FullLog(c) = FullLog(r) /\ LastLogIndex(c) = LastLogIndex(r)
    BY <1>9, SameFullLog
  <2>. QED  BY <1>3, <1>4, <1>5, <1>6, <1>9, <2>1 DEF OnHistory
<1>12. OnHistory(node)'
  BY <1>2, <1>10, <1>11, OnHistoryStays
<1>13. DiskIsCurrent'
  BY <1>1, <1>2, <1>4, <1>5, <1>8, <1>9, <1>10 DEF DiskIsCurrent, SameBallot
<1>14. Exact' => Exact
  BY <1>2 DEF Exact
<1>15. /\ Effect(node.commit_index)' = Effect(node.commit_index)
       /\ Effect(node.last_applied)' = Effect(node.commit_index)
  BY <1>2, <1>5, <1>9, <1>10 DEF Effect, history
<1>16. DiskHasMachine'
  BY <1>1, <1>2, <1>14, <1>15 DEF DiskHasMachine
<1>17. MachineMatchesIndex'
  <2> SUFFICES ASSUME Exact' PROVE state_machine' = Effect(node.commit_index)
    BY <1>15 DEF MachineMatchesIndex
  <2>1. saved = Effect(node.commit_index)
    BY <1>1, <1>14 DEF DiskHasMachine
  <2>2. CASE machine = "key_value"
    BY <1>1, <1>2, <1>3, <1>7, <2>1, <2>2, ReplayIsHarmless
  <2>3. CASE machine # "key_value"
    <3>1. again = << >>
      BY <1>2, <2>3 DEF Exact
    <3>2. Lists([k \in {0} |-> saved], machine, saved, << >>)
      BY DEF Lists
    <3>3. ApplyAll(machine, saved, << >>) = saved
      <4> HIDE DEF saved
      <4>1. Len(<< >>) = 0
        OBVIOUS
      <4>2. ApplyAll(machine, saved, << >>) = [k \in {0} |-> saved][Len(<< >>)]
        BY <3>2, <4>1, ApplyAllIsLast
      <4>. QED  BY <4>1, <4>2
    <3>. QED  BY <1>2, <2>1, <3>1, <3>3
  <2>. QED  BY <2>2, <2>3
<1>18. Voting'
  BY <1>1, <1>2, <1>4, <1>8, <1>10, VoteStays DEF SameBallot
<1>19. InstallInv'
  <2>1. LeadersLogs' /\ node'.current_term <= MaxTerm
    BY <1>1, <1>2, <1>4, <1>9, <1>10, LogsStay
  <2>. QED  BY <1>1, <1>2, <1>5, <1>8, <1>9, <1>10, <1>12, <1>13, <1>16, <1>17,
               <1>18, <2>1 DEF InstallInv, Voting
<1>20. Forward
  BY <1>3, <1>4, <1>5, <1>8, <1>9, <1>10, <1>11 DEF Forward, SameBallot
<1>. QED  BY <1>19, <1>20

LEMMA NothingChanges ==
    ASSUME InstallInv, UNCHANGED <<machine, logs, node, state_machine, disk,
                                   granted, cleared, replayed>>
    PROVE  InstallInv'
<1>1. LeadersLogs' /\ history' = history
  BY LogsStay DEF InstallInv
<1>2. OnHistory(node)'
  BY OnHistoryStays DEF InstallInv
<1>3. Effect(node.commit_index)' = Effect(node.commit_index)
      /\ Effect(node.last_applied)' = Effect(node.last_applied)
  BY <1>1 DEF Effect
<1>4. DiskHasMachine' /\ MachineMatchesIndex'
  BY <1>3 DEF InstallInv, DiskHasMachine, MachineMatchesIndex, Exact
<1>5. DiskIsCurrent' /\ VotesAreRemembered' /\ SecondVoteOnlyAfterInstall'
  BY DEF InstallInv, DiskIsCurrent, VotesAreRemembered,
         SecondVoteOnlyAfterInstall
<1>. QED  BY <1>1, <1>2, <1>4, <1>5 DEF InstallInv

\* The branch for InstallSnapshot: the node, its machine and its disk jump to
\* the snapshot, or nothing happens.
LEMMA InstallStep ==
    ASSUME InstallInv, NEW t \in 1 .. MaxTerm, ReceiveInstallSnapshot(t)
    PROVE  InstallInv' /\ Forward
<1>1. /\ node \in NodeState /\ LeadersLogs /\ machine \in Machines
      /\ history \in Seq(Entry) /\ Len(history) = MaxIndex
      /\ FromLeaders(history, MaxTerm)
      /\ OnHistory(node) /\ Voting /\ node.last_applied = node.commit_index
      /\ DiskIsCurrent /\ DiskHasMachine /\ MachineMatchesIndex
  BY HistoryIsALog DEF InstallInv, Voting
<1> DEFINE state(last, theirs) ==
        IF theirs = machine THEN Effect(last) ELSE NewMachine(theirs)
           request(last, theirs) ==
        [from |-> Leader, to |-> Self, term |-> t,
         last_included_index |-> last, last_included_term |-> TermOf(history, last),
         data |-> Snapshot(theirs, state(last, theirs))]
<1>2. PICK last \in 1 .. MaxIndex, theirs \in Machines :
         Committed(t, last) /\ HandleInstallSnapshot(request(last, theirs))
  BY DEF ReceiveInstallSnapshot
<1> DEFINE m == request(last, theirs)
<1>3. /\ m.term = t /\ m.from = Leader /\ m.last_included_index = last
      /\ m.last_included_term = TermOf(history, last)
      /\ m.data = Snapshot(theirs, state(last, theirs))
  OBVIOUS
<1>4. HandleInstallSnapshot(m)
  BY <1>2
<1> HIDE DEF m, state
<1>5. /\ last \in 1 .. Len(history) /\ last \in Nat /\ t \in Nat
      /\ t <= MaxTerm /\ TermOf(history, last) \in Nat
  BY SMTT(30), <1>1, LogTerms, InstallAssumption DEF history
<1>6. node.current_term \in Nat /\ node.commit_index \in Nat /\ LastLogIndex(node) \in Nat
  BY <1>1, LastLogIndexType DEF NodeState
<1>7. UNCHANGED <<machine, logs, granted>>
  BY <1>4 DEF HandleInstallSnapshot
<1>8. CASE Refuses(m)
  <2>1. UNCHANGED <<node, state_machine, disk, cleared, replayed>>
    BY <1>4, <1>8 DEF HandleInstallSnapshot
  <2>2. InstallInv'
    BY <1>7, <2>1, NothingChanges
  <2>. QED  BY <1>6, <2>1, <2>2 DEF Forward
<1>9. CASE ~Refuses(m)
  <2>1. t >= node.current_term /\ Restorable(machine, m.data)
    BY <1>3, <1>5, <1>6, <1>9 DEF Refuses
  <2>2. theirs = machine
    BY <1>1, <1>3, <2>1, OthersAreUnreadable
  <2>3. m.data = Snapshot(machine, Effect(last))
    BY <1>3, <2>2 DEF state
  <2> DEFINE image == [current_term        |-> m.term,
                       voted_for           |-> Nil,
                       log                 |-> << >>,
                       commit_index        |-> m.last_included_index,
                       last_included_index |-> m.last_included_index,
                       last_included_term  |-> m.last_included_term]
             r == RestoreFromStorage(image)
             n == [r EXCEPT !.leader_id = m.from]
  <2>4. /\ node' = n /\ disk' = FromNode(n, m.data)
        /\ state_machine' = Restore(machine, state_machine, m.data)
        /\ cleared' = IF node.current_term = m.term /\ node.voted_for # Nil
                      THEN cleared \cup {m.term} ELSE cleared
        /\ replayed' = FALSE
        /\ reply' = [term |-> m.term, success |-> TRUE]
    BY <1>4, <1>9 DEF HandleInstallSnapshot, Install
  <2>5. /\ image.current_term = t /\ image.voted_for = Nil /\ image.log = << >>
        /\ image.commit_index = last /\ image.last_included_index = last
        /\ image.last_included_term = TermOf(history, last)
    BY <1>3
  <2> HIDE DEF image
  <2>6. /\ r \in NodeState
        /\ r.current_term = t /\ r.voted_for = Nil /\ r.log = << >>
        /\ r.snapshot_index = last /\ r.snapshot_term = TermOf(history, last)
        /\ r.last_applied = last /\ r.commit_index = last
        /\ LastLogIndex(r) = last
        /\ r.role = "Follower" /\ r.leader_id = Nil
    <3>1. << >> \in Seq(Entry) /\ Len(<< >>) = 0
      OBVIOUS
    <3>2. Smaller(Larger(last, last), last + 0) = last /\ last + 0 = last
      BY <1>5 DEF Smaller, Larger
    <3> HIDE DEF r
    <3>. QED  BY <1>5, <2>5, <3>1, <3>2, RestoreFields DEF r
  <2> HIDE DEF r
  <2>7. /\ n \in NodeState
        /\ n.current_term = t /\ n.voted_for = Nil /\ n.log = << >>
        /\ n.snapshot_index = last /\ n.snapshot_term = TermOf(history, last)
        /\ n.last_applied = last /\ n.commit_index = last
        /\ n.role = "Follower"
    BY <1>3, <2>6, InstallAssumption DEF NodeState
  <2>8. [n EXCEPT !.leader_id = Nil] = r
    BY <2>6 DEF NodeState
  <2> HIDE DEF n
  <2>9. LastLogIndex(n) = last /\ OnHistory(n)
    <3>1. LastLogIndex(n) = last
      BY <1>5, <2>7 DEF LastLogIndex
    <3>2. DOMAIN FullLog(n) = 1 .. last /\ SameUpTo(FullLog(n), history, last)
      BY <2>7, <3>1 DEF FullLog, SameUpTo
    <3>3. SameUpTo(FullLog(n), logs[t], last)
      BY <1>2, <1>5, <3>2 DEF Committed, SameUpTo
    <3>4. FromLeaders(FullLog(n), t)
      <4>1. FromLeaders(logs[t], t) /\ 1 .. last \subseteq DOMAIN logs[t]
        BY <1>1, <1>5, LeaderIsALog
      <4>. QED  BY <1>5, <3>2, <3>3, <4>1, PrefixFromLeaders
    <3>5. last <= MaxIndex /\ last <= last
      BY <1>5, InstallAssumption
    <3>. QED  BY <1>2, <1>5, <2>7, <3>1, <3>2, <3>4, <3>5 DEF OnHistory
  <2>10. OnHistory(node)'
    BY <1>7, <2>4, <2>9, OnHistoryStays
  <2>11. DiskIsCurrent'
    BY <2>4 DEF DiskIsCurrent, FromNode
  <2>12. Effect(node.commit_index)' = Effect(last)
         /\ Effect(node.last_applied)' = Effect(last)
    BY <1>7, <2>4, <2>7 DEF Effect, history
  <2>13. DiskHasMachine'
    <3>1. disk'.state_machine_snapshot = m.data
      BY <2>4 DEF FromNode
    <3>. QED  BY <1>1, <1>7, <2>3, <2>12, <3>1, RestoreUndoesSnapshot
              DEF DiskHasMachine
  <2>14. MachineMatchesIndex'
    BY <1>1, <1>7, <2>3, <2>4, <2>12, RestoreUndoesSnapshot DEF MachineMatchesIndex
  <2>15. ASSUME NEW v \in granted
         PROVE  /\ v \in (0 .. t) \X Peers(Self)
                /\ v[1] = t => v[1] \in cleared'
    <3>1. /\ v \in (0 .. node.current_term) \X Peers(Self)
          /\ v[1] = node.current_term => node.voted_for = v[2] \/ v[1] \in cleared
      BY <1>1 DEF Voting, VotesAreRemembered
    <3>2. v \in (0 .. t) \X Peers(Self) /\ v[2] # Nil
      BY <1>5, <1>6, <2>1, <3>1, NodeAssumption DEF Peers
    <3>3. v[1] = t => v[1] = node.current_term
      BY <1>5, <1>6, <2>1, <3>1
    <3>. QED  BY <1>3, <2>4, <3>1, <3>2, <3>3
  <2>16. Voting'
    <3>1. VotesAreRemembered'
      BY <1>7, <2>4, <2>7, <2>15 DEF VotesAreRemembered
    <3>2. cleared \subseteq cleared'
      BY <2>4
    <3>. QED  BY <1>1, <1>7, <3>1, <3>2 DEF Voting, SecondVoteOnlyAfterInstall
  <2>17. InstallInv'
    <3>1. LeadersLogs' /\ node'.current_term <= MaxTerm
      BY <1>1, <1>5, <1>7, <2>4, <2>7, LogsStay
    <3>. QED  BY <1>1, <1>7, <2>4, <2>7, <2>10, <2>11, <2>13, <2>14, <2>16, <3>1
              DEF InstallInv, Voting
  <2>18. RestoreFromStorage(disk') = r
    <3>1. /\ disk'.current_term = t /\ disk'.voted_for = Nil /\ disk'.log = << >>
          /\ disk'.commit_index = last /\ disk'.last_included_index = last
          /\ disk'.last_included_term = TermOf(history, last)
      BY <2>4, <2>7 DEF FromNode
    <3>. QED  BY <2>5, <3>1 DEF RestoreFromStorage, r
  <2>19. reply' = [term |-> node'.current_term, success |-> TRUE]
    BY <1>3, <2>4, <2>7
  <2>20. OnSnapshot
    BY <2>4, <2>7, <2>8, <2>18, <2>19 DEF OnSnapshot
  <2>. QED  BY <1>5, <1>6, <2>1, <2>4, <2>7, <2>17, <2>20 DEF Forward
<1>. QED  BY <1>8, <1>9

-----------------------------------------------------------------------------
(* The theorems.                                                           *)

LEMMA InstallInit ==
    ASSUME Init PROVE InstallInv
<1>1. machine \in Machines
  BY DEF Init
<1>2. LeadersLogs
  <2>1. PICK terms \in [1 .. MaxTerm -> [1 .. MaxIndex -> 1 .. MaxTerm]],
             raw \in [1 .. MaxTerm -> [1 .. MaxIndex ->
                        IF machine = "counter" THEN CounterRaw ELSE KeyValueRaw]] :
            logs = [t \in 1 .. MaxTerm |-> [k \in 1 .. MaxIndex |->
                        [term |-> terms[t][k], command |-> raw[t][k]]]]
    BY DEF Init
  <2>2. ASSUME NEW t \in 1 .. MaxTerm
        PROVE  logs[t] \in Seq(Entry) /\ Len(logs[t]) = MaxIndex
    <3>1. logs[t] = [k \in 1 .. MaxIndex |->
                        [term |-> terms[t][k], command |-> raw[t][k]]]
      BY <2>1
    <3>2. ASSUME NEW k \in 1 .. MaxIndex
          PROVE  [term |-> terms[t][k], command |-> raw[t][k]] \in Entry
      <4>1. terms[t][k] \in Nat /\ raw[t][k] \in Value
        BY <2>1, InstallAssumption
      <4>. QED  BY <4>1 DEF Entry
    <3> DEFINE log == logs[t]
               e(k) == [term |-> terms[t][k], command |-> raw[t][k]]
    <3>3. log = [k \in 1 .. MaxIndex |-> e(k)] /\ MaxIndex \in Nat
      BY <3>1, InstallAssumption
    <3>4. \A k \in 1 .. MaxIndex : e(k) \in Entry
      BY <3>2
    <3> HIDE DEF log, e
    <3>5. log \in Seq(Entry) /\ Len(log) = MaxIndex
      BY <3>3, <3>4
    <3>. QED  BY <3>5 DEF log
  <2>3. logs = [t \in 1 .. MaxTerm |-> logs[t]]
    BY <2>1
  <2>. QED  BY <2>2, <2>3 DEF Init, LeadersLogs
<1>3. /\ node = NewNode /\ state_machine = NewMachine(machine)
      /\ disk = Image(NewNode, NewMachine(machine))
      /\ granted = {}
  BY DEF Init
<1>4. node \in NodeState
  BY <1>3, NewNodeType
<1>5. /\ node.log = << >> /\ node.snapshot_index = 0 /\ node.snapshot_term = 0
      /\ node.last_applied = 0 /\ node.commit_index = 0 /\ node.role = "Follower"
      /\ node.current_term = 0
  BY <1>3 DEF NewNode
<1>6. OnHistory(node)
  <2>1. LastLogIndex(node) = 0
    BY <1>5 DEF LastLogIndex
  <2>2. DOMAIN FullLog(node) = {}
    BY <2>1 DEF FullLog
  <2>. QED  BY <1>5, <2>1, <2>2, InstallAssumption
            DEF OnHistory, TermOf, FromLeaders, SameUpTo, Committed
<1>7. DiskIsCurrent
  BY <1>3 DEF DiskIsCurrent, Image, FromNode
<1>8. Effect(0) = NewMachine(machine)
  BY <1>2, HistoryIsALog, EffectsAreListed
<1>9. disk.state_machine_snapshot = Snapshot(machine, NewMachine(machine))
  BY <1>3 DEF Image, FromNode
<1>10. DiskHasMachine
  BY <1>1, <1>5, <1>8, <1>9, RestoreUndoesSnapshot DEF DiskHasMachine
<1>11. MachineMatchesIndex
  BY <1>3, <1>5, <1>8 DEF MachineMatchesIndex
<1>12. VotesAreRemembered /\ SecondVoteOnlyAfterInstall
  BY <1>3, <1>5 DEF VotesAreRemembered, SecondVoteOnlyAfterInstall
<1>. QED  BY <1>1, <1>2, <1>4, <1>5, <1>6, <1>7, <1>10, <1>11, <1>12,
             InstallAssumption DEF InstallInv

LEMMA InstallNext ==
    ASSUME InstallInv, [Next]_vars
    PROVE  InstallInv' /\ (Forward \/ UNCHANGED vars)
<1>1. CASE Next
  <2>1. InstallInv' /\ Forward
    BY <1>1, AppendEntriesStep, InstallStep, RequestVoteStep, TickStep, RestartStep
       DEF Next
  <2>. QED  BY <2>1
<1>2. CASE UNCHANGED vars
  BY <1>2, NothingChanges DEF vars
<1>. QED  BY <1>1, <1>2

\* Whatever the node receives, installs, truncates, compacts and restores,
\* it, its machine and its image stand at points of the committed history.
THEOREM InstallInvariant == Spec => []InstallInv
<1>1. Init => InstallInv
  BY InstallInit
<1>2. InstallInv /\ [Next]_vars => InstallInv'
  BY InstallNext
<1>. QED  BY <1>1, <1>2, PTL DEF Spec

\* The machine holds the effect of exactly the entries up to last_applied:
\* the replay after a restart changes nothing in a key-value store, and an
\* installed snapshot replaces what was there (runner.rs, lines 185 to 235).
THEOREM MachineFollowsIndex == Spec => []MachineMatchesIndex
<1>1. InstallInv => MachineMatchesIndex
  BY DEF InstallInv
<1>. QED  BY <1>1, InstallInvariant, PTL

\* What is on disk can be read back, and covers the snapshot point.
THEOREM DiskCanBeRestored == Spec => []ImageIsRestorable
<1>1. ASSUME InstallInv PROVE ImageIsRestorable
  <2>1. /\ node \in NodeState /\ OnHistory(node) /\ DiskIsCurrent /\ DiskHasMachine
    BY <1>1 DEF InstallInv
  <2>a. /\ node.snapshot_index \in Nat /\ node.last_applied \in Nat
        /\ node.commit_index \in Nat
    BY <2>1 DEF NodeState
  <2>b. node.snapshot_index <= node.commit_index
    BY <2>1, <2>a DEF OnHistory
  <2>2. /\ disk.last_included_index = node.snapshot_index
        /\ disk.commit_index = node.commit_index
    BY <2>1 DEF DiskIsCurrent
  <2>3. node.commit_index \in disk.last_included_index .. disk.commit_index
    BY <2>a, <2>b, <2>2
  <2>. QED  BY <2>1, <2>3 DEF ImageIsRestorable, DiskHasMachine
<1>. QED  BY <1>1, InstallInvariant, PTL

\* The handler of InstallSnapshot is the only way to a second vote.
THEOREM OnlyInstallTakesVotes == Spec => []SecondVoteOnlyAfterInstall
<1>1. InstallInv => SecondVoteOnlyAfterInstall
  BY DEF InstallInv
<1>. QED  BY <1>1, InstallInvariant, PTL

\* And the only way back for what is committed, which it then reports; the
\* merge of handle_append_entries truncates uncommitted entries in conflict.
THEOREM NothingElseUncommits == Spec => OnlyInstallUncommits
<1>1. InstallInv /\ [Next]_vars => (Forward \/ UNCHANGED vars)
  BY InstallNext
<1>2. (Forward \/ UNCHANGED vars) => [Forward]_vars
  OBVIOUS
<1>3. Spec => [][Forward]_vars
  BY <1>1, <1>2, InstallInvariant, PTL DEF Spec
<1>. QED  BY <1>3 DEF OnlyInstallUncommits, Forward
=============================================================================
