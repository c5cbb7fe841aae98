-------------------------------- MODULE MCJobs --------------------------------
(* Jobs with one synchronous task, which may be given another command, one that writes marks,
   or made asynchronous meanwhile. *)
EXTENDS Jobs, TLC

MCSeedTasks == "t" :> [runner |-> "rn", command |-> "c1", sync |-> TRUE]
MCSeedRunners == "rn" :> [image |-> "i1"]
MCSeedTokens == "rn" :> "k1"
MCTaskBodies == {<<"t", [runner |-> "rn", command |-> "c2", sync |-> TRUE]>>,
                 <<"t", [runner |-> "rn", command |-> "c1", sync |-> FALSE]>>}
MCRunnerBodies == {<<"rn", [image |-> "i2", token |-> "k2"]>>}
MCLists == {<<All>>, <<"u", "t">>}
=============================================================================
