--------------------------------- MODULE Rows ---------------------------------
(***************************************************************************)
(* Postgres tables as functions from primary keys to rows, and the          *)
(* statements gorm issues on them.                                          *)
(***************************************************************************)
EXTENDS Naturals, FiniteSets, FiniteSetsExt

NoId == 0          \* the zero uuid, what an ID field holds before a row is stored

EmptyTable == [i \in {} |-> NoId]

(* db.Create *)
Insert(rows, id, row) ==
    [i \in DOMAIN rows \cup {id} |-> IF i = id THEN row ELSE rows[i]]

(* db.Delete *)
Without(rows, id) == [i \in DOMAIN rows \ {id} |-> rows[i]]

(* ORDER BY <primary key> LIMIT 1, which db.FirstOrCreate without a condition asks for. *)
FirstId(rows) == Min(DOMAIN rows)
=============================================================================
