------------------------------ MODULE MCWebhooks ------------------------------
(* Webhooks with one webhook, and one handler of each shape beside its own. The group of
   ann may run the webhook; the group of bob has a role on its task, which does not help. *)
EXTENDS Webhooks, TLC

MCServed     == LoginHandlers \cup {h \in TokenHandlers : h.op = "create"}
MCHookBodies == {<<"z", "u">>}
MCSeedHooks  == "h" :> [owner |-> "ann", secret |-> "s", task |-> "t"]
MCSeedUsers  == "ann" :> {"ops"} @@ "bob" :> {"dev"}
MCSeedGrants == "ops" :> {"h"} @@ "dev" :> {"t"}
=============================================================================
