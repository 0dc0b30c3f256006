-------------------------- MODULE GoogleConnection --------------------------
(***************************************************************************)
(* The owner's Google account: the authorisation started from the admin    *)
(* (lib/google/handshake.ts, api/admin/google/start, callback), the stored *)
(* grant and the access tokens minted from it (lib/google/connection.ts,   *)
(* store.ts), disconnecting, and the one catalogue spreadsheet that is     *)
(* created when there is none (lib/admin/provision-sheet.ts).              *)
(* A grant is numbered by the consent that gave it.  The environment's own *)
(* token is grant 0.  Tabs are the owner's, and share one cookie.          *)
(***************************************************************************)
EXTENDS Integers, Sequences

CONSTANTS
    OwnerTabs,
    HasFallback,        \* GOOGLE_OAUTH_REFRESH_TOKEN is set
    MaxPending,         \* MAX_PENDING
    MaxHandshakes, MaxSheets, MaxRestarts     \* bounds

ASSUME GoogleConstants == HasFallback \in BOOLEAN /\ MaxPending \in Nat \ {0}

VARIABLES
    stored,         \* the grant in google-oauth.json, or Nothing
    access,         \* the grant the cached access token was minted from, or Nothing
    inflight,       \* the refresh under way
    handshakesKept,        \* the handshakes of this process, oldest first
    expired,        \* how many of them are past HANDSHAKE_TTL_MS
    handshakes,     \* handshakes started so far
    cookie,         \* sl_g_oauth
    tab,            \* what each tab's request waits for
    sheetId,        \* sheet.json, or Nothing
    sheets,         \* spreadsheets created so far
    built,          \* those that were set up completely
    restarts,
    chosen,         \* history: the grant of the last connection, or Nothing after a disconnect since
    outlives        \* history: the grant whose refresh was under way then, while it may be written back

choiceVars == <<chosen, outlives>>
grantVars == <<stored, access, inflight, choiceVars>>
handshakeVars == <<handshakesKept, expired, handshakes, cookie>>
catalogueVars == <<sheetId, sheets, built>>
googleVars == <<grantVars, handshakeVars, tab, catalogueVars, restarts>>

Nothing == -1
Environment == 0
Idle == [at |-> "idle"]
TabGoes(t, at) == tab' = [tab EXCEPT ![t] = at]

GoogleInit ==
    /\ stored = Nothing /\ access = Nothing /\ inflight = Nothing
    /\ handshakesKept = <<>> /\ expired = 0 /\ handshakes = 0 /\ cookie = Nothing
    /\ tab = [t \in OwnerTabs |-> Idle]
    /\ sheetId = Nothing /\ sheets = 0 /\ built = {}
    /\ restarts = 0 /\ chosen = Nothing /\ outlives = Nothing

\* Stored wins over the environment.
Current == IF stored # Nothing THEN stored ELSE IF HasFallback THEN Environment ELSE Nothing

-----------------------------------------------------------------------------
(* what the owner chose last, and the refresh that may still undo it       *)

Choose(grant) ==
    /\ chosen' = grant
    /\ outlives' = IF inflight = Environment THEN Nothing ELSE inflight

\* A refresh that ended without an answer writes nothing back.
RefreshGone ==
    /\ outlives' = IF inflight = outlives /\ stored # outlives THEN Nothing ELSE outlives
    /\ UNCHANGED chosen

-----------------------------------------------------------------------------
(* access tokens                                                           *)

\* getAccessToken with nothing fresh and nothing under way: the others join the refresh.
StartRefresh ==
    /\ Current # Nothing
    /\ access # Current
    /\ inflight = Nothing
    /\ inflight' = Current
    /\ UNCHANGED <<stored, access, choiceVars, handshakeVars, tab, catalogueVars, restarts>>

\* Mutant of RefreshOk: what was refreshed is stored, the grant of the environment as well.
RefreshStoresAll ==
    /\ inflight # Nothing
    /\ access' = inflight
    /\ stored' = inflight
    /\ inflight' = Nothing
    /\ UNCHANGED <<choiceVars, handshakeVars, tab, catalogueVars, restarts>>

\* The record that was read before the call is written back with a new time stamp.
RefreshOk ==
    /\ inflight # Nothing
    /\ access' = inflight
    /\ stored' = IF inflight = Environment THEN stored ELSE inflight
    /\ inflight' = Nothing
    /\ UNCHANGED <<choiceVars, handshakeVars, tab, catalogueVars, restarts>>

RefreshFails ==
    /\ inflight # Nothing
    /\ access' = Nothing
    /\ inflight' = Nothing
    /\ RefreshGone
    /\ UNCHANGED <<stored, handshakeVars, tab, catalogueVars, restarts>>

AccessExpires ==
    /\ access # Nothing
    /\ access' = Nothing
    /\ UNCHANGED <<stored, inflight, choiceVars, handshakeVars, tab, catalogueVars, restarts>>

-----------------------------------------------------------------------------
(* connecting                                                              *)

\* Expired handshakes go, and the oldest beyond the cap.
prune(list, old) ==
    LET live == SubSeq(list, old + 1, Len(list))
        over == IF Len(live) > MaxPending THEN Len(live) - MaxPending ELSE 0
    IN  SubSeq(live, over + 1, Len(live))

Start(t) ==
    /\ tab[t] = Idle
    /\ handshakes < MaxHandshakes
    /\ handshakes' = handshakes + 1
    /\ handshakesKept' = prune(Append(handshakesKept, handshakes + 1), expired)
    /\ expired' = 0
    /\ cookie' = handshakes + 1
    /\ TabGoes(t, [at |-> "consenting", state |-> handshakes + 1])
    /\ UNCHANGED <<grantVars, catalogueVars, restarts>>

HandshakeExpires ==
    /\ expired < Len(handshakesKept)
    /\ expired' = expired + 1
    /\ UNCHANGED <<grantVars, handshakesKept, handshakes, cookie, tab, catalogueVars, restarts>>

\* The handshake is taken whatever comes next; only the one this reply belongs to is exchanged.
Callback(t, consented) ==
    LET live == prune(handshakesKept, expired)
        found == cookie \in {live[i] : i \in DOMAIN live}
    IN  /\ tab[t].at = "consenting"
        /\ handshakesKept' = SelectSeq(live, LAMBDA h : h # cookie)
        /\ expired' = 0
        /\ cookie' = Nothing
        /\ TabGoes(t, IF consented /\ found /\ cookie = tab[t].state
                   THEN [at |-> "exchanging", grant |-> tab[t].state] ELSE Idle)
        /\ UNCHANGED <<grantVars, handshakes, catalogueVars, restarts>>

\* The new grant is stored and the cached access token dropped.
Connected(t) ==
    /\ tab[t].at = "exchanging"
    /\ stored' = tab[t].grant
    /\ access' = Nothing
    /\ Choose(tab[t].grant)
    /\ TabGoes(t, [at |-> "recorded"])
    /\ UNCHANGED <<inflight, handshakeVars, catalogueVars, restarts>>

ExchangeFails(t) ==
    /\ tab[t].at = "exchanging"
    /\ TabGoes(t, Idle)
    /\ UNCHANGED <<grantVars, handshakeVars, catalogueVars, restarts>>

-----------------------------------------------------------------------------
(* disconnecting: read, ask Google to revoke, clear                        *)

Clear ==
    /\ stored' = Nothing
    /\ access' = Nothing
    /\ Choose(Nothing)
    /\ UNCHANGED inflight

Disconnect(t) ==
    /\ tab[t] = Idle
    /\ IF stored = Nothing
       THEN Clear /\ UNCHANGED tab
       ELSE TabGoes(t, [at |-> "revoking"]) /\ UNCHANGED grantVars
    /\ UNCHANGED <<handshakeVars, catalogueVars, restarts>>

\* Best effort: whether Google revoked it makes no difference here.
Revoked(t) ==
    /\ tab[t].at = "revoking"
    /\ Clear
    /\ TabGoes(t, Idle)
    /\ UNCHANGED <<handshakeVars, catalogueVars, restarts>>

-----------------------------------------------------------------------------
(* the spreadsheet                                                         *)

provisionBlocker == sheetId # Nothing \/ Current = Nothing

\* After a connection, or from POST provision: one check, then calls that take seconds.
Provision(t) ==
    /\ tab[t] = Idle \/ tab[t].at = "recorded"
    /\ TabGoes(t, IF provisionBlocker THEN Idle ELSE [at |-> "creating"])
    /\ tab' # tab
    /\ UNCHANGED <<grantVars, handshakeVars, catalogueVars, restarts>>

\* Mutant of SheetCreated: the id is stored as soon as there is one.
SheetCreatedAndStored(t) ==
    /\ tab[t].at = "creating"
    /\ sheets < MaxSheets
    /\ sheets' = sheets + 1
    /\ sheetId' = sheets + 1
    /\ TabGoes(t, [at |-> "building", sheet |-> sheets + 1])
    /\ UNCHANGED <<grantVars, handshakeVars, built, restarts>>

SheetCreated(t) ==
    /\ tab[t].at = "creating"
    /\ sheets < MaxSheets
    /\ sheets' = sheets + 1
    /\ TabGoes(t, [at |-> "building", sheet |-> sheets + 1])
    /\ UNCHANGED <<grantVars, handshakeVars, sheetId, built, restarts>>

\* provisionSheet, which Provisioning models; the id is stored last.
SheetBuilt(t) ==
    /\ tab[t].at = "building"
    /\ built' = built \cup {tab[t].sheet}
    /\ sheetId' = tab[t].sheet
    /\ TabGoes(t, Idle)
    /\ UNCHANGED <<grantVars, handshakeVars, sheets, restarts>>

SheetFails(t) ==
    /\ tab[t].at \in {"creating", "building"}
    /\ TabGoes(t, Idle)
    /\ UNCHANGED <<grantVars, handshakeVars, catalogueVars, restarts>>

Restart ==
    /\ restarts < MaxRestarts
    /\ restarts' = restarts + 1
    /\ access' = Nothing /\ inflight' = Nothing /\ RefreshGone
    /\ handshakesKept' = <<>> /\ expired' = 0
    /\ tab' = [t \in OwnerTabs |-> IF tab[t].at = "consenting" THEN tab[t] ELSE Idle]
    /\ UNCHANGED <<stored, handshakes, cookie, catalogueVars>>

-----------------------------------------------------------------------------
GoogleNext ==
    \/ StartRefresh \/ RefreshOk \/ RefreshFails \/ AccessExpires \/ HandshakeExpires \/ Restart
    \/ \E t \in OwnerTabs :
          \/ Start(t) \/ Connected(t) \/ ExchangeFails(t) \/ Disconnect(t) \/ Revoked(t)
          \/ \E yes \in BOOLEAN : Callback(t, yes)
          \/ Provision(t) \/ SheetCreated(t) \/ SheetBuilt(t) \/ SheetFails(t)

GoogleSpec == GoogleInit /\ [][GoogleNext]_googleVars

-----------------------------------------------------------------------------
\* What is stored is the grant the owner connected last, and nothing once it was disconnected, unless
\* the refresh that was under way at that moment has been answered since and written its own record
\* back: never one that began later, never the environment's token, and not when that refresh failed
\* or the process stopped before its answer (connection.ts:59-66, 101-142, disconnect.ts:13-19,
\* callback.ts:98-106).
OnlyALateRefreshUndoes == stored \in {chosen, outlives}

\* The site is never pointed at a half-built sheet, whatever fails or stops
\* (provision-sheet.ts:95-110).
SheetIsBuilt == sheetId # Nothing => sheetId \in built

\* "ONE sheet, only when there is none [...] creating a second would orphan the first"
\* (provision-sheet.ts:8-9): the site is not moved from one sheet to another.
OneSheet == [][sheetId # Nothing => sheetId' = sheetId]_googleVars
=============================================================================
