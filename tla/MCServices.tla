----------------------------- MODULE MCServices ------------------------------
(***************************************************************************)
(* What the server does with the services of others, in one run: the       *)
(* scrapes of a supplier, what its robots.txt says and the pause between   *)
(* the requests, the reading of a page, the sheet's notifier, the owner's  *)
(* Google account and the set-up of the spreadsheet.                       *)
(* They share no state, so a behaviour runs one of them, and leaves the    *)
(* others as they start, where nothing that is fair is enabled.            *)
(***************************************************************************)
EXTENDS HostThrottle, Scraping, Revalidation, GoogleConnection, Provisioning, Ladder, RobotsRules

VARIABLE machine

serviceVars == <<machine, throttleVars, scrapingVars, revalidationVars, googleVars, provisionVars, ladderVars,
                 robotsFileVars>>

\* A sheet that has been set up: where the set-up does not run.
Provisioned ==
    /\ tabs = Tabs /\ header = [t \in Tabs |-> "right"] /\ wide = TRUE /\ formatted = TRUE
    /\ rows = Tabs /\ badges = TRUE
    /\ seedMode = "live" /\ force = FALSE /\ phase = "done"
    /\ moved = FALSE /\ seeding = FALSE /\ stops = 0 /\ torn = FALSE

\* What the sources of a page may have: where the sizes stand, where the number stands, where the
\* price stands, one of the three at a time.
Page(s, j, o, spec, tagged, stock, free) ==
    [shopify |-> s, jsonld |-> j, opengraph |-> o, spec |-> spec, tagged |-> tagged, stock |-> stock, free |-> free]

SizePages ==
    {Page(s, j \cup {"price"}, o, spec, FALSE, TRUE, FALSE) :
        s \in {{}, {"price"}, {"price", "sized title"}}, j \in {{}, {"prose"}, {"sized title"}, {"sized prose"}, {"prose", "sized title"}},
        o \in {{}, {"title"}, {"sized prose"}, {"title", "sized title"}},
        spec \in {"none", "cm", "feet", "width only"}}

RefPages ==
    {Page(s, j, o, "cm", FALSE, stock, FALSE) :
        s \in {{}, {"price"}, {"price", "ref"}}, j \in {{}, {"ref"}, {"ref", "prose"}},
        o \in {{}, {"ref"}, {"ref", "title", "prose"}}, stock \in BOOLEAN}

PricePages ==
    {Page(s, j, o, "cm", tagged, TRUE, free) :
        s \in {{}, {"ref"}, {"ref", "price"}}, j \in SUBSET {"price", "currency"},
        o \in SUBSET {"price", "currency"}, tagged \in BOOLEAN, free \in BOOLEAN}

MCReadings == SizePages \cup RefPages \cup PricePages

\* Patterns that tie, that contain each other, with a star and with an end.
MCTokens == <<"serioludere", "*">>
MCPatterns == {<<"/">>, <<"/", "a">>, <<"/", "*">>, <<"/", "*", "b">>, <<"/", "a", "$">>}
MCPaths == {<<"/", "a">>, <<"/", "b">>, <<"/", "a", "b">>}

\* A page that is read by nobody.
PageUnread == page = Page({}, {}, {}, "cm", FALSE, TRUE, FALSE) /\ supplier = "karavanrug"

\* A supplier that is scraped by nobody.
Unscraped == world = [of |-> "ecg", refused |-> {}, locked |-> FALSE, known |-> "none", sign |-> 1]

ServicesInit ==
    /\ machine \in {"pause", "scrapes", "notifier", "account", "set-up", "reading", "robots file"}
    /\ ThrottleInit /\ ScrapingInit /\ RevalidationInit /\ GoogleInit
    /\ IF machine = "set-up" THEN ProvisionInit ELSE Provisioned
    /\ machine # "scrapes" => Unscraped
    /\ IF machine = "reading" THEN page \in Readings ELSE PageUnread
    /\ LadderInit /\ RobotsInit

ServicesNext ==
    \/ /\ machine = "pause" /\ ThrottleNext
       /\ UNCHANGED <<machine, scrapingVars, revalidationVars, googleVars, provisionVars, ladderVars, robotsFileVars>>
    \/ /\ machine = "scrapes" /\ ScrapingNext
       /\ UNCHANGED <<machine, throttleVars, revalidationVars, googleVars, provisionVars, ladderVars, robotsFileVars>>
    \/ /\ machine = "notifier" /\ RevalidationNext
       /\ UNCHANGED <<machine, throttleVars, scrapingVars, googleVars, provisionVars, ladderVars, robotsFileVars>>
    \/ /\ machine = "account" /\ GoogleNext
       /\ UNCHANGED <<machine, throttleVars, scrapingVars, revalidationVars, provisionVars, ladderVars, robotsFileVars>>
    \/ /\ machine = "reading" /\ LadderNext
       /\ UNCHANGED <<machine, throttleVars, scrapingVars, revalidationVars, googleVars, provisionVars, robotsFileVars>>
    \/ /\ machine = "set-up" /\ ProvisionNext
       /\ UNCHANGED <<machine, throttleVars, scrapingVars, revalidationVars, googleVars, ladderVars, robotsFileVars>>
    \/ /\ machine = "robots file" /\ RobotsNext
       /\ UNCHANGED <<machine, throttleVars, scrapingVars, revalidationVars, googleVars, provisionVars, ladderVars>>

ServicesSpec ==
    /\ ServicesInit /\ [][ServicesNext]_serviceVars
    /\ RevalidationFairness /\ ProvisionFairness
=============================================================================
