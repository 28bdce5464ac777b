--------------------------- MODULE MCCredentials ---------------------------
(* Two slots for commands of one administrator. *)
EXTENDS Credentials, TLC

Symmetry == Permutations(Commands)

\* Bound: after a rotation the last command starts when the others have ended.
LastAlone ==
    runs = [commands |-> MaxRuns, rotations |-> MaxRotations] =>
        Cardinality({p \in Commands : cmd[p].at # "out"}) <= 1
=============================================================================
