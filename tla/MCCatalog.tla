------------------------------ MODULE MCCatalog ------------------------------
(* Catalog with three names: a runner, a task bound to it, and a free name. *)
EXTENDS Catalog, TLC

MCNames       == {"a", "b", "t"}
MCTwoNames    == {"a", "t"}
MCSecretNames == MCNames \cup {"a-token", "b-token", "t-token"}
MCTokenOf     == "a" :> "a-token" @@ "b" :> "b-token" @@ "t" :> "t-token"
MCTwoTokenOf  == "a" :> "a-token" @@ "t" :> "t-token"

MCRunner(i)   == [image |-> i, runner |-> None, command |-> None, sync |-> None, schema |-> None]
MCTask(n, s)  == [image |-> None, runner |-> n, command |-> "c", sync |-> "true", schema |-> s]
MCSeedBound   == "a" :> MCRunner("i") @@ "t" :> MCTask("a", "s")
MCSeedRunner  == "a" :> MCRunner("i")
MCSeedNothing == EmptyTable
MCSeedSecrets == "a" :> ("k" :> "v") @@ "a-token" :> ("token" :> "v")

MCImage   == {"i"}
MCImages  == {"i", "j"}
MCCommand == {"c"}
MCSchema  == {"s"}
MCValues  == {"v"}
MCTwoValues == {"v", "w"}
MCKeys    == {"token", "k"}

MCPlain   == {[image |-> "i", token |-> None, secret |-> {}]}
MCBodies  == [image : {"j"}, token : {None, "w"},
              secret : {{}, {"k" :> None}, {"k" :> "w" @@ "token" :> "w"}}]
MCTaskBodies   == [runner : {"a", "b"}, command : MCCommand, sync : {"true"}, schema : {"s"}]
MCSecretBodies == {"k" :> None, "k" :> "w", "k" :> Mask}
MCNoBodies     == {}

MCRequests   == {"r1", "r2"}
MCMapRoutes  == {"createRunner", "deleteRunner", "webhooks"} \cup TaskOps
MCSecretRoutes == {"createRunner", "updateRunner", "deleteRunner"} \cup SecretOps
=============================================================================
