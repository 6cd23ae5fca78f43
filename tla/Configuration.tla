---------------------------- MODULE Configuration ---------------------------
(***************************************************************************)
(* What parse_config (raftust-core/src/config.rs) makes of a command line, *)
(* as far as the protocol depends on it: the three tick counts and the     *)
(* compaction threshold.  A command line is a sequence of records with an  *)
(* option and its value; addresses and the splitting of the text are left  *)
(* out, and so are tick_ms and the metrics interval, which are durations.  *)
(***************************************************************************)
EXTENDS Integers, Sequences

\* A value that str::parse refuses.
CONSTANT Malformed

\* The options without a default are "id" and "peer".
Default ==
    [election_timeout_min |-> 20,
     election_timeout_max |-> 40,
     heartbeat_interval   |-> 4,
     log_compaction_threshold |-> 128]

Given(args, option) == {k \in 1 .. Len(args) : args[k].option = option}

\* The loop over args: every option may come several times, and the last one
\* counts.
Setting(args, option) ==
    IF Given(args, option) = {}
    THEN Default[option]
    ELSE LET last == CHOOSE k \in Given(args, option) :
                        \A j \in Given(args, option) : j <= k
         IN  args[last].value

Settings(args) == [option \in DOMAIN Default |-> Setting(args, option)]

\* An unknown option, or a value that is missing or does not parse, ends the
\* loop with an error, wherever it is.
WellFormed(args) ==
    \A k \in 1 .. Len(args) :
        /\ args[k].option \in DOMAIN Default \cup {"id", "peer"}
        /\ args[k].value # Malformed

\* parse_config answers Ok; the assertions of RaftNode::new ask for less.
Accepts(args) ==
    /\ WellFormed(args)
    /\ Given(args, "id") # {}
    /\ LET id == CHOOSE k \in Given(args, "id") :
                    \A j \in Given(args, "id") : j <= k
           s  == Settings(args)
       IN  /\ \A k \in Given(args, "peer") : args[k].value # args[id].value
           /\ s.election_timeout_min > 0
           /\ s.election_timeout_max >= s.election_timeout_min
           /\ s.heartbeat_interval < s.election_timeout_min
           /\ s.log_compaction_threshold > 0
=============================================================================
