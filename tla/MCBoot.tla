------------------------------- MODULE MCBoot -------------------------------
(* Boot on two or three rows per table. Ids are small naturals, in the order
   Postgres sorts them; ids of different tables do not overlap, so that a mixed-up
   id is a type error. *)
EXTENDS Boot

MCUserIds     == 1..2
MCGroupIds    == 11..12
MCRoleIds     == 21..23
MCOneUser     == {1}
MCOneGroup    == {11}
MCTwoRoles    == 21..22
=============================================================================
