--------------------------- MODULE ProvisionMutex ---------------------------
(***************************************************************************)
(* What AcquireLock promises (platformctl/internal/state/lock_unix.go:     *)
(* "prevents concurrent provision/install runs"): of the platformctl       *)
(* commands on a host one at a time is inside, and a command that has not  *)
(* been inside may be turned away.                                         *)
(***************************************************************************)
CONSTANT Procs
VARIABLE status

Init == status = [p \in Procs |-> "out"]

Enter(p) ==
    /\ status[p] = "out"
    /\ \A q \in Procs : status[q] # "in"
    /\ status' = [status EXCEPT ![p] = "in"]

\* The command ends: it was inside, or was refused, or died.
End(p) ==
    /\ status[p] \in {"out", "in"}
    /\ status' = [status EXCEPT ![p] = "gone"]

Next == \E p \in Procs : Enter(p) \/ End(p)

Spec == Init /\ [][Next]_status
=============================================================================
