----------------------------- MODULE CommandLog -----------------------------
(***************************************************************************)
(* What a cluster promises the clients of its state machines: there is one *)
(* log of commands, it only grows at its end, and every node executes it   *)
(* from the first command on, each command once, at its own pace.          *)
(***************************************************************************)
EXTENDS Naturals, Sequences

CONSTANTS Node, Value

VARIABLES
    chosen,    \* the commands that are decided
    executed   \* executed[i] : what the state machine of node i has executed

vars == <<chosen, executed>>

Init ==
    /\ chosen = << >>
    /\ executed = [i \in Node |-> << >>]

\* Commands are added to the log, or none, and node i executes some of what
\* it had not executed.
Execute(i) ==
    /\ chosen' \in Seq(Value)
    /\ Len(chosen') >= Len(chosen)
    /\ SubSeq(chosen', 1, Len(chosen)) = chosen
    /\ \E k \in Len(executed[i]) .. Len(chosen') :
          executed' = [executed EXCEPT ![i] = SubSeq(chosen', 1, k)]

Next == \E i \in Node : Execute(i)

Spec == Init /\ [][Next]_vars
=============================================================================
