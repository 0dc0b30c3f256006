------------------------------- MODULE MCDrive -------------------------------
(***************************************************************************)
(* What the server asks of Google, in two machines: the photographs of a   *)
(* product on their way into Drive, and the requests to the spreadsheet.   *)
(* They share no state, so a behaviour runs one of them, and leaves the    *)
(* other as it starts.                                                     *)
(***************************************************************************)
EXTENDS Photos, SheetsRequest

VARIABLE machine

driveRunVars == <<machine, photosVars, requestVars>>

DriveInit ==
    /\ machine \in {"photos", "requests"}
    /\ PhotosInit /\ RequestInit
    /\ machine # "photos" => root = "none"
    /\ machine # "requests" => sheetIds = None /\ productWidthChecked = FALSE

DriveNext ==
    \/ machine = "photos" /\ PhotosNext /\ UNCHANGED <<machine, requestVars>>
    \/ machine = "requests" /\ RequestNext /\ UNCHANGED <<machine, photosVars>>

DriveSpec == DriveInit /\ [][DriveNext]_driveRunVars /\ PhotosFairness
=============================================================================
