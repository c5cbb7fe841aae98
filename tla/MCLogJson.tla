------------------------------ MODULE MCLogJson ------------------------------
(* A mark of two characters, and a third character for everything else. *)
EXTENDS LogJson

MCChars == {"c", "J", "x"}
MCMark  == <<"c", "J">>
MCHeader == <<"x", "x">>
=============================================================================
