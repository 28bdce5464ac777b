------------------------- MODULE MCPermissionCache -------------------------
(* Instances of PermissionCache for TLC: one permission, which administrators have by preset and
   others by a custom role. *)
EXTENDS PermissionCache, TLC

MCPreset == [n \in {"admin", "developer"} |-> IF n = "admin" THEN Perms ELSE {}]
Interchangeable == Permutations(Reqs) \cup Permutations(Checks)
=============================================================================
