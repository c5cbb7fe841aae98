---------------------------- MODULE MCCredentials ----------------------------
(* Credentials with root, a user who has a token and a JWT, and room for another user. *)
EXTENDS Credentials, TLC

MCUids == {"root", "ann", "new"}
MCTokenIds == {"t1", "t2", "t3"}
MCKeys == {"k1", "k2", "k3"}
MCNames == {"root", "ann"}
MCProviders == {"local", "active_directory"}
MCSeedUsers == "root" :> [name |-> "root", provider |-> "local"]
               @@ "ann" :> [name |-> "ann", provider |-> "active_directory"]
MCSeedTokens == "t1" :> [owner |-> "ann", key |-> "k1", enabled |-> TRUE, expires |-> Never]
MCSeedJwts == {[user |-> "root", name |-> "root", provider |-> "local", exp |-> 2],
               [user |-> "ann", name |-> "ann", provider |-> "active_directory", exp |-> 1]}
MCBodies == {[enabled |-> Nil, expires |-> <<Nil, Never>>],
             [enabled |-> "false", expires |-> <<Nil, Never>>],
             [enabled |-> Nil, expires |-> <<"time", 1>>]}
CONSTANTS q1, q2
MCRequests == {q1, q2}
MCSymmetry == Permutations(MCRequests)
=============================================================================
