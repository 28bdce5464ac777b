----------------------------- MODULE MCRecords -----------------------------
(***************************************************************************)
(* Records the API keeps beside something else, in one run: a secret with  *)
(* the Postgres role it is the password of; the integration settings with  *)
(* process.env; a registered file with the uploads directory; backups with *)
(* the database and the storage providers.  They share no row: a behaviour *)
(* moves one of them, and the others begin in one way.                     *)
(***************************************************************************)
EXTENDS ProjectDatabase, Integrations, FileStore, Backups, TLC

VARIABLE part

recordVars == <<vars, integrationVars, fileVars, backupVars, part>>

MCInit ==
    /\ Init /\ IntegrationsInit /\ FileInit /\ BackupsInit
    /\ part \in {"password", "settings", "file", "backups"}
    /\ part # "settings" => settings = <<>>
    /\ part # "backups" => \A p \in Providers : provider[p] = "absent"

MCNext ==
    /\ UNCHANGED part
    /\ \/ part = "password" /\ Next /\ UNCHANGED <<integrationVars, fileVars, backupVars>>
       \/ part = "settings" /\ IntegrationsNext /\ UNCHANGED <<vars, fileVars, backupVars>>
       \/ part = "file" /\ FileNext /\ UNCHANGED <<vars, integrationVars, backupVars>>
       \/ part = "backups" /\ BackupsNext /\ UNCHANGED <<vars, integrationVars, fileVars>>

MCSpec == MCInit /\ [][MCNext]_recordVars

\* Requests on the secret are interchangeable by kind, and so are its rows, and storage providers.
Interchangeable ==
    Permutations(Provisioners) \cup Permutations(Writers \ Provisioners) \cup Permutations(Ids)
    \cup Permutations(Providers)

=============================================================================
