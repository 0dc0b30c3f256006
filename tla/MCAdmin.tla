------------------------------- MODULE MCAdmin -------------------------------
(***************************************************************************)
(* The studio's writes, in two machines: the endpoints of products,        *)
(* collections and customers over one lock, and the page of collections    *)
(* with its endpoints and the AuditLog.  They share no state here, so a    *)
(* behaviour runs one of them, and leaves the other as it starts.          *)
(***************************************************************************)
EXTENDS MCAdminSheet, CollectionsDesk

VARIABLE machine

adminRunVars == <<machine, adminVars, collectionsVars>>

AdminRunInit == machine \in {"endpoints", "collections"} /\ AdminInit /\ CollectionsInit

AdminRunNext ==
    \/ machine = "endpoints" /\ AdminNext /\ UNCHANGED <<machine, collectionsVars>>
    \/ machine = "collections" /\ CollectionsNext /\ UNCHANGED <<machine, adminVars>>

\* Nothing of the endpoints is under way where the page runs.
AdminRunSpec == AdminRunInit /\ [][AdminRunNext]_adminRunVars /\ \A r \in Requests : WF_adminVars(Work(r))
=============================================================================
