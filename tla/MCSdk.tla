------------------------------- MODULE MCSdk -------------------------------
(***************************************************************************)
(* The programs that call the API from elsewhere: SDK clients of a project *)
(* with services of two names; a buffer of one of them; two tabs of the    *)
(* portal in one browser; a page of the portal; the bug reporters of a     *)
(* page, whose captures and whose form do not meet.  They share only the   *)
(* moments of configure and stop, which each leaves open: a behaviour      *)
(* moves one of the six.                                                   *)
(***************************************************************************)
EXTENDS SdkClient, SdkBuffers, PortalSession, ProjectPage, BugReporter

VARIABLE moves \* which of the six does

otherVars == <<reporterVars, moves>>

MCNames == [c \in Clients |-> IF c = 1 THEN Project ELSE "own"]
MCFull == [logs |-> 2, metrics |-> 2]

CallersInit ==
    /\ ClientInit /\ BufferInit /\ SessionInit /\ PageInit /\ ReporterInit
    /\ moves \in {"client", "buffer", "session", "page", "captures", "form"}
    \* What stands still begins in one way, in which nothing must go on.
    /\ moves # "buffer" => kind = "logs"
    /\ moves # "page" => focus = "form" /\ linked

\* A client's database is its own affair: the client that has one runs by itself.
OwnDatabase == (\A c \in DbClients : cl'[c].ini = "new") \/ \A c \in Clients \ DbClients : cl'[c].ini = "new"

CallersNext ==
    \/ moves = "client" /\ ClientNext /\ OwnDatabase /\ UNCHANGED <<bufferVars, sessionVars, pageVars, otherVars>>
    \/ moves = "buffer" /\ BufferNext /\ UNCHANGED <<clientVars, sessionVars, pageVars, otherVars>>
    \/ moves = "session" /\ SessionNext /\ UNCHANGED <<clientVars, bufferVars, pageVars, otherVars>>
    \/ moves = "page" /\ PageNext /\ UNCHANGED <<clientVars, bufferVars, sessionVars, otherVars>>
    \/ /\ moves \in {"captures", "form"} /\ ReporterNext
       /\ IF moves = "form" THEN UNCHANGED captures ELSE UNCHANGED reporterForm
       /\ UNCHANGED <<clientVars, bufferVars, sessionVars, pageVars, moves>>
CallersSpec ==
    /\ CallersInit /\ [][CallersNext]_<<clientVars, bufferVars, sessionVars, pageVars, otherVars>>
    /\ ClientFairness /\ BufferFairness /\ SessionFairness
    /\ PageFairness

\* A client leaves nothing running, a buffer keeps what it took, a profile is its token's, a page sends
\* what it shows, and a bug reporter loses and doubles nothing.
CallersInv == ClientInv /\ BufferInv /\ SessionTypeOK /\ ProfileIsTokens /\ PageInv /\ ReporterInv
=============================================================================
