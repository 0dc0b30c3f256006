------------------------------ MODULE MCBrowser ------------------------------
(***************************************************************************)
(* The browser machines in one run: the like buttons of a catalogue page,  *)
(* that page under its tabs, search and popup, the studio's add form and a *)
(* product's row under its editors.                                        *)
(* They share no state, so a behaviour runs one of them, and leaves the    *)
(* others as they start.                                                   *)
(***************************************************************************)
EXTENDS ReactionBuffer, CataloguePage, AddForm, ProductRow

VARIABLE machine

browserVars == <<machine, bufferVars, catalogueVars, addVars, rowVars>>

\* A machine that does not run starts in one of its initial states, the same one each time.
AtRest ==
    /\ machine # "likes" => \A p \in Products : saved[p] = "none" /\ recorded[p] = "none"
    /\ machine # "page" => entries[1].tab = ""
    /\ machine # "row" => ~imports

BrowserInit ==
    /\ machine \in {"likes", "page", "add", "row"}
    /\ BufferInit /\ PageInit /\ AddFormInit /\ ProductRowInit
    /\ AtRest

BrowserNext ==
    \/ machine = "likes" /\ BufferNext /\ UNCHANGED <<machine, catalogueVars, addVars, rowVars>>
    \/ machine = "page" /\ PageNext /\ UNCHANGED <<machine, bufferVars, addVars, rowVars>>
    \/ machine = "add" /\ AddFormNext /\ UNCHANGED <<machine, bufferVars, catalogueVars, rowVars>>
    \/ machine = "row" /\ ProductRowNext /\ UNCHANGED <<machine, bufferVars, catalogueVars, addVars>>

\* Of these only the like buttons have fairness, and at rest nothing of theirs is enabled.
BrowserSpec == BrowserInit /\ [][BrowserNext]_browserVars /\ BufferFairness

-----------------------------------------------------------------------------
\* A grid of four rugs in two collections, one of them in both, one in none.
MCShelves == <<"kilims", "tulu">>
MCFiled == <<{"kilims"}, {"tulu"}, {"kilims", "tulu"}, {}>>
MCAnswers == [red |-> {1, 2}, sun |-> {}]
=============================================================================
