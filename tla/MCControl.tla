----------------------------- MODULE MCControl -----------------------------
(* The app's control plane, its profile store and the log the two processes
   share, which have no state in common, checked in one run: a behaviour is of
   one of them, the "subject", and leaves the others as they started.         *)
EXTENDS ControlPlane, ProfileStore, LogMirror

VARIABLE subject

ParkedProfiles == /\ chosen = CHOOSE id \in Ids : TRUE
                  /\ activeKey = <<>>
AppInit ==
  /\ subject \in {"control", "profiles", "log"}
  /\ ControlInit /\ ProfileInit /\ LogInit
  /\ subject # "profiles" => ParkedProfiles
AppNext ==
  /\ UNCHANGED subject
  /\ \/ subject = "control" /\ ControlNext /\ UNCHANGED <<psVars, lmVars>>
     \/ subject = "profiles" /\ ProfileNext /\ UNCHANGED <<cpVars, lmVars>>
     \/ subject = "log" /\ LogNext /\ UNCHANGED <<cpVars, psVars>>
AppSpec == /\ AppInit /\ [][AppNext]_<<subject, cpVars, psVars, lmVars>>
           /\ WF_cpVars(MainActor) /\ WF_cpVars(System)
=============================================================================
