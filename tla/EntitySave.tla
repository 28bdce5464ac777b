----------------------------- MODULE EntitySave -----------------------------
(***************************************************************************)
(* repo.save(entity) of TypeORM, as the routes of platform/api use it.     *)
(* The entity was loaded by an earlier findOne and changed by the handler. *)
(* save first selects the row again, then updates the columns in which the *)
(* entity differs from that second selection: a column the handler never   *)
(* touched is written back to its old value when another request has       *)
(* changed it in the meantime.                                             *)
(***************************************************************************)

\* The row after the UPDATE: selected is the row save compared the entity with.
Saved(row, selected, entity) ==
    [column \in DOMAIN row |->
        IF entity[column] # selected[column] THEN entity[column] ELSE row[column]]
=============================================================================
