---------------------------- MODULE StateMachines ---------------------------
(***************************************************************************)
(* The two state machines of the repository, the counter and the key-value *)
(* store, behind the StateMachineStrategy trait: apply, snapshot, restore. *)
(* A raw command is one of a few strings; what parse_command makes of them *)
(* is a table.  A snapshot is the bytes the machine writes, which only the *)
(* same machine can read.                                                  *)
(***************************************************************************)
EXTENDS Integers, Sequences

CONSTANT MaxI64      \* i64::MAX

ASSUME I64Assumption == MaxI64 \in Nat

Machines == {"counter", "key_value"}

\* parse_command answers None and apply ignores the command.
NoCommand == [op |-> "None"]

CounterCommand(raw) ==
    CASE raw = "inc"   -> [op |-> "Add", amount |-> 1]
      [] raw = "dec"   -> [op |-> "Add", amount |-> -1]
      [] raw = "add 2" -> [op |-> "Add", amount |-> 2]
      [] raw = "set 1" -> [op |-> "Set", amount |-> 1]
      [] raw = "reset" -> [op |-> "Set", amount |-> 0]
      [] OTHER         -> NoCommand

KeyValueCommand(raw) ==
    CASE raw = "set k a" -> [op |-> "Set", key |-> "k", value |-> "a"]
      [] raw = "set k b" -> [op |-> "Set", key |-> "k", value |-> "b"]
      [] raw = "set l a" -> [op |-> "Set", key |-> "l", value |-> "a"]
      [] raw = "del k"   -> [op |-> "Delete", key |-> "k"]
      [] OTHER           -> NoCommand

SaturatingAdd(a, b) ==
    IF a + b > MaxI64 THEN MaxI64
    ELSE IF a + b < -MaxI64 - 1 THEN -MaxI64 - 1 ELSE a + b

CounterApply(value, raw) ==
    LET c == CounterCommand(raw)
    IN  CASE c.op = "Add" -> SaturatingAdd(value, c.amount)
          [] c.op = "Set" -> c.amount
          [] OTHER        -> value

KeyValueApply(state, raw) ==
    LET c == KeyValueCommand(raw)
    IN  CASE c.op = "Set"    -> [k \in DOMAIN state \cup {c.key} |->
                                   IF k = c.key THEN c.value ELSE state[k]]
          [] c.op = "Delete" -> [k \in DOMAIN state \ {c.key} |-> state[k]]
          [] OTHER           -> state

\* A snapshot is the decimal digits of the counter, or the map as a JSON
\* object; no bytes at all stand for a new machine in both.
EmptySnapshot == [format |-> "empty"]

CounterSnapshot(value) == [format |-> "digits", state |-> value]

KeyValueSnapshot(state) == [format |-> "object", state |-> state]

CounterReads(data) == data.format \in {"empty", "digits"}

KeyValueReads(data) == data.format \in {"empty", "object"}

CounterRestore(value, data) ==
    CASE ~CounterReads(data)  -> value
      [] data = EmptySnapshot -> 0
      [] OTHER                -> data.state

KeyValueRestore(state, data) ==
    CASE ~KeyValueReads(data) -> state
      [] data = EmptySnapshot -> << >>
      [] OTHER                -> data.state

-----------------------------------------------------------------------------
(* The trait.                                                              *)

NewMachine(machine) == IF machine = "counter" THEN 0 ELSE << >>

Apply(machine, state, raw) ==
    IF machine = "counter" THEN CounterApply(state, raw)
                           ELSE KeyValueApply(state, raw)

\* apply_committed_entries
ApplyAll(machine, state, commands) ==
    LET after[k \in 0 .. Len(commands)] ==
            IF k = 0 THEN state ELSE Apply(machine, after[k - 1], commands[k])
    IN  after[Len(commands)]

Snapshot(machine, state) ==
    IF machine = "counter" THEN CounterSnapshot(state)
                           ELSE KeyValueSnapshot(state)

\* restore answers Ok.
Restorable(machine, data) ==
    IF machine = "counter" THEN CounterReads(data) ELSE KeyValueReads(data)

\* The machine after restore; an error leaves it as it was.
Restore(machine, state, data) ==
    IF machine = "counter" THEN CounterRestore(state, data)
                           ELSE KeyValueRestore(state, data)
=============================================================================
