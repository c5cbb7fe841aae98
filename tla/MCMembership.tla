---------------------------- MODULE MCMembership ----------------------------
(* Membership on small tables. Usernames are fewer than ids, so that a name can
   come back with a new id after its user was deleted. *)
EXTENDS Membership, TLC

MCUids   == 1..3
MCGids   == 11..13
MCRequests == {"r1", "r2"}
MCNames  == {"root", "ann", "bob"}
Local    == {"local"}
Both     == {"local", "active_directory"}

Ann  == <<"ann", "local">>
Bob  == <<"bob", "local">>
Root == <<"root", "local">>

MCBatches == {{Ann}, {Ann, Bob}}
MCMixedBatches == {{}, {Ann}, {Root, Ann}}
MCSeedUsers  == 2 :> Ann @@ 3 :> Bob
MCSeedGroups == 12 :> "local" @@ 13 :> "local"
MCSeedAnn == 1 :> Ann
MCSeedOps == 11 :> "local"
MCNoBodies == {{}}
MCBodyGroups == {{}, {11}}
MCBodyUsers  == {{}, {1}}
MCTwoGids  == 11..12
MCAnnBatch == {{Ann}}

=============================================================================
