----------------------------- MODULE AdminAccess -----------------------------
(***************************************************************************)
(* What the start-up of kriten promises: the server never listens before   *)
(* the builtin administrator has its access, and the access once given is  *)
(* never withdrawn, however often the process stops and starts.            *)
(***************************************************************************)
VARIABLES granted,     \* the builtin administrator's access is in place for good
          listening    \* the HTTP server accepts requests

Init == granted = FALSE /\ listening = FALSE

Listen ==
    /\ ~ listening
    /\ listening' = TRUE /\ granted' = TRUE

Stop ==
    /\ listening
    /\ listening' = FALSE /\ UNCHANGED granted

Next == Listen \/ Stop

Spec == Init /\ [][Next]_<<granted, listening>>
=============================================================================
