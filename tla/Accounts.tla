------------------------------ MODULE Accounts ------------------------------
(* Members, logins and sessions.  A login is counted, its password checked,   *)
(* the counter cleared and the session created in separate steps, while an    *)
(* administrator may change or disable the member; a session's token carries  *)
(* the member's revision, and the server keeps a row that can be revoked.     *)
EXTENDS Integers, Sequences, FiniteSets

CONSTANTS Roles, Passwords,
          Logins,       \* login requests, each may lead to a session
          MaxAttempts,  \* 5 per key and window
          Window,       \* 15 minutes
          TTL,          \* session_ttl, 8 hours
          Recheck,      \* 2 seconds between checks of an open stream
          MaxTime,      \* bound on the clock
          MaxRevision,  \* bound on changes of the member
          None

VARIABLES member,    \* team_members: the account that logins are for
          limiter,   \* login_rate_limits: the row of the client and the name, or None
          login,     \* the requests in progress
          sessions,  \* admin_sessions, a row or None per login
          tokens,    \* the cookie of each login
          streams,   \* open event streams: the time of the next check, or None
          now,
          attempts,  \* history: times of the attempts let through since the counter was cleared
          ended,     \* history: logins whose end was acknowledged
          late       \* history: how long after its access ended a stream delivered

accountVars == <<member, limiter, login, sessions, tokens, streams, now, attempts, ended, late>>

Least(S) == CHOOSE x \in S : \A y \in S : x <= y
NoLogin == [pc |-> "idle", user |-> None]

AccountInit ==
    /\ \E role \in Roles, password \in Passwords :
         member = [role |-> role, password |-> password, enabled |-> TRUE, revision |-> 1]
    /\ limiter = None
    /\ login = [l \in Logins |-> NoLogin]
    /\ sessions = [l \in Logins |-> None]
    /\ tokens = [l \in Logins |-> None]
    /\ streams = [l \in Logins |-> None]
    /\ now = 0 /\ attempts = <<>> /\ ended = {} /\ late = 0

---------------------------------------------------------------------------
(* Login.                                                                     *)
Goto(l, pc) == login' = [login EXCEPT ![l].pc = pc]
Give(l) == login' = [login EXCEPT ![l] = NoLogin]

\* Defect: an attempt after the window starts is counted, the window is not moved.
CountedStuck ==
    IF limiter = None THEN [count |-> 1, started |-> now]
    ELSE IF limiter.started <= now - Window THEN [limiter EXCEPT !.count = 1]
    ELSE IF limiter.count >= MaxAttempts THEN [limiter EXCEPT !.count = MaxAttempts + 1]
    ELSE [limiter EXCEPT !.count = @ + 1]

\* One statement counts the attempt, in a window that its first attempt opened.
Counted ==
    IF limiter = None \/ limiter.started <= now - Window THEN [count |-> 1, started |-> now]
    ELSE IF limiter.count >= MaxAttempts THEN [limiter EXCEPT !.count = MaxAttempts + 1]
    ELSE [limiter EXCEPT !.count = @ + 1]

Consume(l) ==
    /\ login[l].pc = "idle" /\ sessions[l] = None
    /\ limiter' = Counted
    /\ IF Counted.count > MaxAttempts THEN UNCHANGED <<login, attempts>>
       ELSE Goto(l, "password") /\ attempts' = Append(attempts, now)
    /\ UNCHANGED <<member, sessions, tokens, streams, now, ended, late>>

(* The password is compared with the member's, or with another one's when     *)
(* the member is disabled, so that both take as long.                         *)
Authenticate(l) ==
    /\ login[l].pc = "password"
    /\ \E password \in Passwords :
         IF member.enabled /\ password = member.password
         THEN login' = [login EXCEPT ![l] = [pc |-> "reset", user |-> member]]
         ELSE Give(l)
    /\ UNCHANGED <<member, limiter, sessions, tokens, streams, now, attempts, ended, late>>

ResetLimiter(l) ==
    /\ login[l].pc = "reset"
    /\ limiter' = None /\ attempts' = <<>>
    /\ Goto(l, "session")
    /\ UNCHANGED <<member, sessions, tokens, streams, now, ended, late>>

\* The account must still be the one whose password was checked.
CreateToken(l) ==
    /\ login[l].pc = "session"
    /\ IF member = login[l].user
       THEN /\ tokens' = [tokens EXCEPT ![l] = [role |-> member.role, revision |-> member.revision,
                                                issued |-> now, expires |-> now + TTL]]
            /\ Goto(l, "store")
       ELSE Give(l) /\ UNCHANGED tokens
    /\ UNCHANGED <<member, limiter, sessions, streams, now, attempts, ended, late>>

\* Expired rows go with the insertion of a new one.
StoreSession(l) ==
    /\ login[l].pc = "store"
    /\ sessions' = [k \in Logins |->
         IF k = l THEN [role |-> tokens[l].role, expires |-> tokens[l].expires, revoked |-> FALSE]
         ELSE IF sessions[k] # None /\ sessions[k].expires <= tokens[l].issued THEN None
         ELSE sessions[k]]
    /\ Goto(l, "in")
    /\ UNCHANGED <<member, limiter, tokens, streams, now, attempts, ended, late>>

---------------------------------------------------------------------------
(* Sessions.                                                                  *)
\* Defect: a token is good as long as its row is.
AcceptedByRow(l) ==
    /\ login[l].pc = "in" /\ tokens[l] # None
    /\ member.enabled /\ tokens[l].role = member.role
    /\ now < tokens[l].expires
    /\ sessions[l] # None /\ ~sessions[l].revoked /\ sessions[l].role = member.role

(* A token is accepted while its member is enabled, with the role and the     *)
(* revision it was issued for, and its row is neither expired nor revoked.    *)
Accepted(l) ==
    /\ login[l].pc = "in" /\ tokens[l] # None
    /\ member.enabled /\ tokens[l].role = member.role /\ tokens[l].revision = member.revision
    /\ now < tokens[l].expires
    /\ sessions[l] # None /\ ~sessions[l].revoked /\ sessions[l].role = member.role

Revoke(S) == sessions' = [l \in Logins |-> IF l \in S /\ sessions[l] # None
                                           THEN [sessions[l] EXCEPT !.revoked = TRUE] ELSE sessions[l]]

Logout(l) ==
    /\ Accepted(l)
    /\ Revoke({l})
    /\ ended' = ended \cup {l}
    /\ UNCHANGED <<member, limiter, login, tokens, streams, now, attempts, late>>

RevokeAll(l) ==
    /\ Accepted(l)
    /\ Revoke(Logins)
    /\ ended' = ended \cup {k \in Logins : login[k].pc = "in"}
    /\ UNCHANGED <<member, limiter, login, tokens, streams, now, attempts, late>>

\* A save of the member, compared with the revision the administrator saw.
SaveMember ==
    /\ member.revision < MaxRevision
    /\ \E role \in Roles, password \in Passwords, enabled \in BOOLEAN :
         member' = [role |-> role, password |-> password, enabled |-> enabled,
                    revision |-> member.revision + 1]
    /\ Revoke(Logins)
    /\ ended' = ended \cup {l \in Logins : login[l].pc = "in"}
    /\ UNCHANGED <<limiter, login, tokens, streams, now, attempts, late>>

---------------------------------------------------------------------------
(* Event streams: the session is checked again every two seconds, its         *)
(* expiry before every event.                                                 *)
OpenStream(l) ==
    /\ Accepted(l) /\ streams[l] = None
    /\ streams' = [streams EXCEPT ![l] = [next |-> now, since |-> now]]
    /\ UNCHANGED <<member, limiter, login, sessions, tokens, now, attempts, ended, late>>

\* Since a delivery saw the session accepted, at most this long.
Stream(l) ==
    /\ streams[l] # None
    /\ LET checks == now >= streams[l].next IN
       IF now >= tokens[l].expires \/ (checks /\ ~Accepted(l))
       THEN streams' = [streams EXCEPT ![l] = None] /\ UNCHANGED late
       ELSE /\ streams' = [streams EXCEPT ![l] = IF checks THEN [next |-> now + Recheck, since |-> now] ELSE @]
            /\ late' = IF Accepted(l) \/ now - streams[l].since <= late THEN late ELSE now - streams[l].since
    /\ UNCHANGED <<member, limiter, login, sessions, tokens, now, attempts, ended>>

Tick ==
    /\ now < MaxTime
    /\ now' = now + 1
    /\ UNCHANGED <<member, limiter, login, sessions, tokens, streams, attempts, ended, late>>

AccountNext ==
    \/ \E l \in Logins :
         \/ Consume(l) \/ Authenticate(l) \/ ResetLimiter(l) \/ CreateToken(l) \/ StoreSession(l)
         \/ Logout(l) \/ RevokeAll(l) \/ OpenStream(l) \/ Stream(l)
    \/ SaveMember \/ Tick

AccountSpec == AccountInit /\ [][AccountNext]_accountVars

---------------------------------------------------------------------------
(* An access ends with what it was granted for: no token is accepted after    *)
(* its logout, a revocation of all sessions or any change of its member, not  *)
(* even when the change fell between the password check and the storage of    *)
(* the session; and an open stream delivers nothing later than the interval   *)
(* of its checks.                                                             *)
AccessEnds ==
    /\ \A l \in Logins : Accepted(l) => l \notin ended /\ login[l].user = member
    /\ late < Recheck

(* Attempts are limited across windows: between two cleared counters, no span *)
(* of a window's length lets through twice the allowed number of attempts.    *)
AttemptsLimited ==
    \A i \in DOMAIN attempts :
        Cardinality({j \in DOMAIN attempts : attempts[i] - Window < attempts[j] /\ attempts[j] <= attempts[i]})
            < 2 * MaxAttempts
=============================================================================
