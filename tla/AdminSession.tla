---------------------------- MODULE AdminSession ----------------------------
(***************************************************************************)
(* The studio's session (lib/admin/auth.ts, lib/admin/gate.ts, the login   *)
(* and logout pages): a stateless token in one cookie, whose idle window   *)
(* slides as the studio works, and a list of logged-out sessions that the  *)
(* process keeps in memory.  A request is checked when it arrives and may  *)
(* write the cookie only when it is answered, so the answers of a page's   *)
(* requests race.  Time is in hours, and a request takes less than one.    *)
(***************************************************************************)
EXTENDS Integers

CONSTANTS
    Pages,                                  \* requests of the studio's browser, at most one each at a time
    IDLE, ABSOLUTE, REISSUE_AFTER,          \* IDLE_MS, ABSOLUTE_MS, REISSUE_AFTER_MS
    MaxHours, MaxLogins, MaxReboots         \* bounds

ASSUME SessionConstants ==
    /\ REISSUE_AFTER \in Nat \ {0} /\ IDLE \in Nat /\ ABSOLUTE \in Nat /\ REISSUE_AFTER < IDLE
    /\ MaxLogins \in Nat

VARIABLES
    hour,
    token,          \* the cookie: [sid, iat, exp, abs], or NoToken
    revoked,        \* sid -> the absolute expiry it is refused until, 0 when it is not listed
    page,           \* each request: its session, when it arrived, and what it was asked for
    logins, reboots,
    served,         \* history: the latest arrival of a request that was answered
    out             \* history: the sessions that were logged out of in this process

sessionVars == <<hour, token, revoked, page, logins, reboots, served, out>>

NoToken == [sid |-> 0, iat |-> 0, exp |-> 0, abs |-> 0]
Away == [at |-> "away", session |-> NoToken, since |-> 0]
Least(a, b) == IF a < b THEN a ELSE b

SessionInit ==
    /\ hour = 0 /\ token = NoToken
    /\ revoked = [s \in 1..MaxLogins |-> 0]
    /\ page = [p \in Pages |-> Away]
    /\ logins = 0 /\ reboots = 0 /\ served = 0 /\ out = {}

setSessionCookie(t) == token' = t
clearSessionCookie == token' = NoToken

\* A session is on the list until it would have ended anyway.
isRevoked(sid) == hour < revoked[sid]

\* The session of a token that is neither expired nor on the list.
verifyToken(t) == t.sid # 0 /\ hour < t.exp /\ hour < t.abs /\ ~isRevoked(t.sid)

newSession(sid) ==
    [sid |-> sid, iat |-> hour, exp |-> hour + Least(IDLE, ABSOLUTE), abs |-> hour + ABSOLUTE]
refreshSession(t, at) == [t EXCEPT !.iat = at, !.exp = Least(at + IDLE, t.abs)]
\* Mutant of needsReissue: only a session about to end is issued again.
needsReissueAtTheEnd(t, at) == t.exp - at < REISSUE_AFTER

needsReissue(t, at) == at - t.iat >= REISSUE_AFTER

\* A page or an endpoint behind the gate: let in, or sent to the login page.
Arrive(p) ==
    /\ page[p] = Away
    /\ verifyToken(token)
    /\ page' = [page EXCEPT ![p] = [at |-> "open", session |-> token, since |-> hour]]
    /\ UNCHANGED <<hour, token, revoked, logins, reboots, served, out>>

\* The handler is done: the cookie slides, from when the request arrived.
Answer(p) ==
    /\ page[p].at = "open"
    /\ page' = [page EXCEPT ![p] = Away]
    /\ IF needsReissue(page[p].session, page[p].since)
       THEN setSessionCookie(refreshSession(page[p].session, page[p].since)) ELSE UNCHANGED token
    /\ served' = IF page[p].since > served THEN page[p].since ELSE served
    /\ UNCHANGED <<hour, revoked, logins, reboots, out>>

\* The login page sends a studio that is signed in on.
Login ==
    /\ logins < MaxLogins
    /\ ~verifyToken(token)
    /\ logins' = logins + 1
    /\ setSessionCookie(newSession(logins + 1))
    /\ served' = hour
    /\ UNCHANGED <<hour, revoked, page, reboots, out>>

\* Mutant of Logout: the cookie is cleared and the session left as it is.
LogoutClearsOnly ==
    /\ token # NoToken
    /\ IF verifyToken(token)
       THEN /\ out' = out \cup {token.sid}
            /\ IF needsReissue(token, hour) THEN setSessionCookie(refreshSession(token, hour)) ELSE clearSessionCookie
       ELSE clearSessionCookie /\ UNCHANGED out
    /\ UNCHANGED <<hour, page, revoked, logins, reboots, served>>

\* Revoked at once, the cookie cleared with the answer. The gate lets every session through, so a
\* session that is due is issued again over the cleared cookie, under the number that was revoked.
Logout ==
    /\ IF verifyToken(token)
       THEN /\ revoked' = [revoked EXCEPT ![token.sid] = token.abs]
            /\ out' = out \cup {token.sid}
            /\ IF needsReissue(token, hour) THEN setSessionCookie(refreshSession(token, hour)) ELSE clearSessionCookie
       ELSE token # NoToken /\ clearSessionCookie /\ UNCHANGED <<revoked, out>>
    /\ UNCHANGED <<hour, page, logins, reboots, served>>

\* The list is the process's own.
Reboot ==
    /\ reboots < MaxReboots
    /\ reboots' = reboots + 1
    /\ revoked' = [s \in 1..MaxLogins |-> 0]
    /\ out' = {}
    /\ page' = [p \in Pages |-> Away]
    /\ UNCHANGED <<hour, token, logins, served>>

Hour ==
    /\ hour < MaxHours
    /\ \A p \in Pages : page[p].at = "open" => page[p].since = hour
    /\ hour' = hour + 1
    /\ UNCHANGED <<token, revoked, page, logins, reboots, served, out>>

SessionNext == Hour \/ Login \/ Logout \/ Reboot \/ \E p \in Pages : Arrive(p) \/ Answer(p)
SessionSpec == SessionInit /\ [][SessionNext]_sessionVars

-----------------------------------------------------------------------------
\* A studio that works is not signed out before the absolute limit: while it holds a session it has
\* not left, a request within IDLE - REISSUE_AFTER hours of one that was answered is let in, in whatever
\* order the answers of its requests wrote the cookie (gate.ts:97-107).
WorkStaysSignedIn ==
    token.sid # 0 /\ token.sid \notin out /\ hour < token.abs /\ hour - served < IDLE - REISSUE_AFTER
        => verifyToken(token)

\* A session that was logged out of is refused by the process from then on, although the cookie
\* comes back: from a request that was under way, and from the logout itself (auth.ts:172-193,
\* gate.ts:98-107).
LoggedOutStaysOut == token.sid \in out => ~verifyToken(token)
=============================================================================
