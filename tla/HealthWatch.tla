----------------------------- MODULE HealthWatch -----------------------------
(***************************************************************************)
(* From a fault to the owner's mailbox: the cache and the sweep of the     *)
(* photos find out while they serve, /api/health tells what they know, and *)
(* the monitor script asks it every six hours and mails a change of state. *)
(* Faults come and go, the server restarts, the script may be cut short.   *)
(***************************************************************************)
EXTENDS Naturals, FiniteSets

CONSTANTS Faults,      \* of "away", "sheet", "metadata", "rows", "photos", "secrets"
          MaxFaults,   \* bound: faults at a time
          MaxCuts      \* bound: runs of the script that end early

VARIABLES
    faults,                                     \* what is wrong by now
    snapshot, lastRefreshOk, counted,           \* CatalogueCache: what it read, how that went, the row count
    expired, cooling,                           \* its time to live is over; it has just failed
    latest, running,                            \* PhotoMonitor: the last sweep, the one under way
    due,                                        \* its interval is over
    unknownSince, lastState,                    \* properties of the script
    run,                                        \* the run of checkHealth under way
    told,                                       \* what the owner's last mail says
    cuts, misled                                \* runs ended early; one of them between its mail and its record

siteVars == <<faults, snapshot, lastRefreshOk, counted, expired, cooling, latest, running, due>>
scriptVars == <<unknownSince, lastState, run, told, cuts, misled>>
watchVars == <<siteVars, scriptVars>>

Unread == {"nothing"}
NoRun == [at |-> "none"]
Broken(fault) == fault \in faults

WatchInit ==
    /\ faults = {} /\ snapshot = Unread /\ lastRefreshOk = TRUE /\ counted = FALSE
    /\ expired = TRUE /\ cooling = FALSE
    /\ latest = "unchecked" /\ running = "none" /\ due = TRUE
    /\ unknownSince = "never" /\ lastState = "ok" /\ run = NoRun
    /\ told = "nothing" /\ cuts = 0 /\ misled = FALSE

-----------------------------------------------------------------------------
\* The world.
Turn ==
    /\ \E fault \in Faults :
          \/ Broken(fault) /\ faults' = faults \ {fault}
          \/ ~Broken(fault) /\ Cardinality(faults) < MaxFaults /\ faults' = faults \cup {fault}
    /\ UNCHANGED <<snapshot, lastRefreshOk, counted, expired, cooling, latest, running, due, scriptVars>>

\* Minutes go by: the time to live, the cooldown and the interval of the sweeps end.
Minutes ==
    /\ ~expired \/ cooling \/ ~due
    /\ expired' = TRUE /\ cooling' = FALSE /\ due' = TRUE
    /\ UNCHANGED <<faults, snapshot, lastRefreshOk, counted, latest, running, scriptVars>>

\* The server restarts, with the snapshot it kept on its disk or without.
Reboot ==
    /\ snapshot' \in {snapshot, Unread}
    /\ lastRefreshOk' = TRUE /\ counted' = FALSE /\ expired' = TRUE /\ cooling' = FALSE
    /\ latest' = "unchecked" /\ running' = "none" /\ due' = TRUE
    /\ UNCHANGED <<faults, scriptVars>>

-----------------------------------------------------------------------------
\* The server.
servedVars == <<snapshot, lastRefreshOk, counted, expired, cooling>>

refresh ==
    IF Broken("sheet")
      THEN lastRefreshOk' = FALSE /\ cooling' = TRUE /\ UNCHANGED <<snapshot, counted, expired>>
      ELSE /\ snapshot' = faults \cap {"rows"} /\ lastRefreshOk' = TRUE /\ expired' = FALSE
           /\ counted' = (counted \/ ~Broken("metadata")) /\ UNCHANGED cooling

get == IF ~expired \/ cooling THEN UNCHANGED servedVars ELSE refresh

schedule ==
    IF running # "none" \/ ~due \/ snapshot' = Unread THEN UNCHANGED running ELSE running' = "started"

\* A page is rendered: the photos are swept in the background, now and then.
loadCatalogue ==
    /\ ~Broken("away") /\ get /\ schedule
    /\ UNCHANGED <<faults, latest, due, scriptVars>>

sweepPhotos ==
    /\ running = "started" /\ running' = "none" /\ due' = FALSE
    /\ latest' = IF Broken("photos") THEN "failing" ELSE "loading"
    /\ UNCHANGED <<faults, servedVars, scriptVars>>

-----------------------------------------------------------------------------
\* The script.  It runs every six hours, and when the owner runs it by hand.
Start ==
    /\ run = NoRun /\ run' = [at |-> "attempt", n |-> 0]
    /\ UNCHANGED <<siteVars, lastState, told, cuts, misled>>

Scheduled ==
    /\ Start
    /\ unknownSince' = IF unknownSince = "lately" THEN "for hours" ELSE unknownSince

ByHand == Start /\ UNCHANGED unknownSince

\* What /api/health answers when it has asked the cache: the cache did what a page view has it do.
healthOk == snapshot' # Unread /\ lastRefreshOk' /\ ~Broken("secrets")
Reported == ~healthOk \/ snapshot' \cap Faults # {} \/ latest = "failing"
CountUnknown == healthOk /\ ~counted'

\* Each check starts the count's time anew.
problemsForAnew ==
    /\ unknownSince' = IF CountUnknown THEN "lately" ELSE "never"
    /\ run' = IF Reported THEN [at |-> "problems", n |-> run.n] ELSE [at |-> "decided", state |-> "ok"]

\* An unknown count is tolerated once, and is a problem when it has been so for more than an hour.
problemsFor ==
    /\ unknownSince' = IF counted' THEN "never"
                       ELSE IF CountUnknown /\ unknownSince = "never" THEN "lately" ELSE unknownSince
    /\ run' = IF Reported \/ (CountUnknown /\ unknownSince = "for hours")
                THEN [at |-> "problems", n |-> run.n] ELSE [at |-> "decided", state |-> "ok"]

fetchHealth ==
    /\ run.at = "attempt"
    /\ IF Broken("away")
         THEN run' = [at |-> "problems", n |-> run.n] /\ UNCHANGED <<servedVars, unknownSince>>
         ELSE get /\ problemsFor
    /\ UNCHANGED <<faults, latest, running, due, lastState, told, cuts, misled>>

\* A first problem may be a restart: the script asks once more, a minute later.
Again ==
    /\ run.at = "problems"
    /\ run' = IF run.n = 0 THEN [at |-> "attempt", n |-> 1] ELSE [at |-> "decided", state |-> "bad"]
    /\ UNCHANGED <<siteVars, unknownSince, lastState, told, cuts, misled>>

Mail ==
    /\ run.at = "decided" /\ run' = [run EXCEPT !.at = "record"]
    /\ told' = IF run.state # lastState THEN run.state ELSE told
    /\ UNCHANGED <<siteVars, unknownSince, lastState, cuts, misled>>

Record ==
    /\ run.at = "record" /\ lastState' = run.state /\ run' = NoRun
    /\ UNCHANGED <<siteVars, unknownSince, told, cuts, misled>>

\* A run ends where it is: the mail is refused, a property is, or its time is up.
Cut ==
    /\ run # NoRun /\ cuts < MaxCuts /\ cuts' = cuts + 1 /\ run' = NoRun
    /\ misled' = (misled \/ (run.at = "record" /\ run.state # lastState))
    /\ UNCHANGED <<siteVars, unknownSince, lastState, told>>

checkHealth == fetchHealth \/ Again \/ Mail \/ Record

WatchNext ==
    \/ Turn \/ Minutes \/ Reboot \/ loadCatalogue \/ sweepPhotos
    \/ Scheduled \/ ByHand \/ checkHealth \/ Cut

\* Time goes by, the trigger fires, and a run that is not cut short goes on.
WatchFairness == WF_watchVars(Minutes) /\ SF_watchVars(Scheduled) /\ WF_watchVars(checkHealth)

WatchSpec == WatchInit /\ [][WatchNext]_watchVars /\ WatchFairness

-----------------------------------------------------------------------------
Lasting ==
    \/ \E fault \in Faults \ {"metadata", "photos"} : <>[]Broken(fault)
    \/ <>[](snapshot # Unread /\ ~counted)
    \/ <>[](latest = "failing")
Fine == faults = {} /\ counted /\ latest # "failing"

\* What lasts is told: trouble that does not go away is in the owner's mailbox in the end, through
\* restarts, cooldowns, the first reading that is forgiven and runs that are cut short, and a site that
\* has recovered is no longer said to need attention.  That a run ends between its mail and its record
\* is excepted: the next change of state is then taken for none.
OwnerIsTold ==
    []~misled => (Lasting => <>[](told = "bad")) /\ (<>[]Fine => <>[](told # "bad"))
=============================================================================
