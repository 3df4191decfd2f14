------------------------------ MODULE Sessions ------------------------------
(***************************************************************************)
(* The owner's account and sessions: first-run setup, sign-in, sign-out,   *)
(* change of the password by a signed-in owner or on the command line, the *)
(* expiry of sessions, and restarts of the server.                         *)
(*                                                                         *)
(* The database has one connection: a statement or a transaction is one    *)
(* step and requests interleave between them, while a password is hashed   *)
(* above all.  A request opens at most one session, which bears its name   *)
(* here.                                                                   *)
(*                                                                         *)
(* Abstracted here: the user name, hashes (a password equals itself only), *)
(* the cookie.                                                             *)
(***************************************************************************)
EXTENDS LoginAttempts

CONSTANTS
    Requests,      \* requests to /api/setup, /api/login and /api/account that
                   \* get as far as the database
    Passwords,     \* the passwords people use
    None,          \* no password
    Life,          \* how long a session lasts (7 days)
    MaxVersions    \* bound: how often the password is set

ASSUME SessionsAssumption == Life \in Nat \ {0} /\ MaxVersions \in Nat \ {0} /\ None \notin Passwords

VARIABLES
    owner,       \* the owner's password, None before the setup
    version,     \* history: how often the password was set
    setupToken,  \* whether this server has a setup token
    pc,          \* pc[q]: the next statement of request q
    given,       \* given[q]: the current password as the client of q sent it
    checked,     \* history: the version q's password had when it was checked or set
    session,     \* session[q]: the session q opened
    expires,     \* expires[q]: when it ends
    inFlight     \* history: requests about to open a session at the last change

accountVars == <<owner, version, inFlight>>
vars == <<attemptVars, accountVars, setupToken, pc, given, checked, session, expires>>

Init ==
    /\ InitAttempts
    /\ owner = None /\ version = 0 /\ setupToken = TRUE
    /\ pc = [q \in Requests |-> "new"]
    /\ given = [q \in Requests |-> None]
    /\ checked = [q \in Requests |-> 0]
    /\ session = [q \in Requests |-> "none"]
    /\ expires = [q \in Requests |-> 0]
    /\ inFlight = {}

\* authed: the session is in the table and has not expired.
Valid(q) == session[q] = "open" /\ expires[q] > now

Goto(q, next) == pc' = [pc EXCEPT ![q] = next]

\* allowLogin lets the request go on.
Begin(q, ip, next) == pc[q] = "new" /\ Grant(ip) /\ Goto(q, next)

\* A request that allowLogin turns away, and one it lets go on that ends at
\* once: a body that does not parse, a wrong token, a password of a length that
\* is not allowed.  They leave nothing but their mark in the table.
TurnedAway(ip) ==
    /\ Grant(ip) \/ Refuse(ip)
    /\ UNCHANGED <<accountVars, setupToken, pc, given, checked, session, expires>>

\* A statement that fails ends the request; what it wrote before stays.
Fail(q) ==
    /\ pc[q] \notin {"new", "done"}
    /\ Goto(q, "done")
    /\ UNCHANGED <<attemptVars, accountVars, setupToken, given, checked, session, expires>>
-----------------------------------------------------------------------------
\* setup: the client has the setup token, and the server has one at all.
SetupBegin(q, ip) ==
    /\ setupToken
    /\ Begin(q, ip, "owner")
    /\ UNCHANGED <<accountVars, setupToken, given, checked, session, expires>>

\* INSERT OR IGNORE INTO owner: there is an owner already, or this is the one.
SetupOwner(q) ==
    /\ pc[q] = "owner"
    /\ IF owner # None
       THEN Goto(q, "done") /\ UNCHANGED <<owner, version, checked>>
       ELSE /\ owner' \in Passwords
            /\ version' = version + 1
            /\ checked' = [checked EXCEPT ![q] = version + 1]
            /\ Goto(q, "session")
    /\ UNCHANGED <<attemptVars, inFlight, setupToken, given, session, expires>>

LoginBegin(q, ip, password) ==
    /\ Begin(q, ip, "login")
    /\ given' = [given EXCEPT ![q] = password]
    /\ UNCHANGED <<accountVars, setupToken, checked, session, expires>>

LoginCheck(q) ==
    /\ pc[q] = "login"
    /\ IF given[q] = owner
       THEN checked' = [checked EXCEPT ![q] = version] /\ Goto(q, "session")
       ELSE UNCHANGED checked /\ Goto(q, "done")
    /\ UNCHANGED <<attemptVars, accountVars, setupToken, given, session, expires>>

\* changePassword, behind ownerOnly: the session of request s is used.
ChangeBegin(q, s, ip, password) ==
    /\ Valid(s)
    /\ Begin(q, ip, "account")
    /\ given' = [given EXCEPT ![q] = password]
    /\ UNCHANGED <<accountVars, setupToken, checked, session, expires>>

ChangeCheck(q) ==
    /\ pc[q] = "account"
    /\ Goto(q, IF given[q] = owner THEN "change" ELSE "done")
    /\ UNCHANGED <<attemptVars, accountVars, setupToken, given, checked, session, expires>>

\* One transaction sets the password and deletes every session.
SetPassword ==
    /\ version < MaxVersions
    /\ owner' \in Passwords
    /\ version' = version + 1
    /\ inFlight' = {q \in Requests : pc[q] = "session"}

\* RevokeSessions, if sessions that have not expired were left.  Then the real one.
RevokeExpired ==
    /\ session' = [q \in Requests |-> IF session[q] = "open" /\ expires[q] <= now THEN "gone"
                                      ELSE session[q]]
    /\ UNCHANGED expires
RevokeSessions ==
    /\ session' = [q \in Requests |-> IF session[q] = "open" THEN "gone" ELSE session[q]]
    /\ expires' = [q \in Requests |-> 0]

ChangeCommit(q) ==
    /\ pc[q] = "change"
    /\ SetPassword /\ RevokeSessions
    /\ checked' = [checked EXCEPT ![q] = version + 1]
    /\ Goto(q, "session")
    /\ UNCHANGED <<attemptVars, setupToken, given>>

\* resetPassword: apptrail -reset-password, a process of its own.
ResetPassword ==
    /\ owner # None
    /\ SetPassword /\ RevokeSessions
    /\ UNCHANGED <<attemptVars, setupToken, pc, given, checked>>
-----------------------------------------------------------------------------
\* setSession: the session is inserted, then those that expired are deleted.
OpenSession(q) ==
    /\ pc[q] = "session"
    /\ session' = [session EXCEPT ![q] = "open"]
    /\ expires' = [expires EXCEPT ![q] = now + Life]
    /\ Goto(q, "cleanup")
    /\ UNCHANGED <<attemptVars, accountVars, setupToken, given, checked>>

\* Expired, with the comparison turned round.
Unexpired == {q \in Requests : session[q] = "open" /\ now < expires[q]}
Expired == {q \in Requests : session[q] = "open" /\ expires[q] < now}

DeleteExpired(q) ==
    /\ pc[q] = "cleanup"
    /\ session' = [s \in Requests |-> IF s \in Expired THEN "gone" ELSE session[s]]
    /\ expires' = [s \in Requests |-> IF s \in Expired THEN 0 ELSE expires[s]]
    /\ Goto(q, "done")
    /\ UNCHANGED <<attemptVars, accountVars, setupToken, given, checked>>

Logout(s) ==
    /\ session[s] = "open"
    /\ session' = [session EXCEPT ![s] = "gone"]
    /\ expires' = [expires EXCEPT ![s] = 0]
    /\ UNCHANGED <<attemptVars, accountVars, setupToken, pc, given, checked>>

\* The server stops, its requests with it, and starts again: the setup token
\* is read only while there is no owner.
Restart ==
    /\ ForgetAttempts
    /\ setupToken' = (owner = None)
    /\ pc' = [q \in Requests |-> IF pc[q] = "new" THEN "new" ELSE "done"]
    /\ UNCHANGED <<now, accountVars, given, checked, session, expires>>

Clock == Tick /\ UNCHANGED <<accountVars, setupToken, pc, given, checked, session, expires>>
-----------------------------------------------------------------------------
SetupStep(q) == (\E ip \in Addrs : SetupBegin(q, ip)) \/ SetupOwner(q)
LoginStep(q) == (\E ip \in Addrs, w \in Passwords : LoginBegin(q, ip, w)) \/ LoginCheck(q)
ChangeStep(q) == \/ \E s \in Requests, ip \in Addrs, w \in Passwords : ChangeBegin(q, s, ip, w)
                 \/ ChangeCheck(q) \/ ChangeCommit(q)

Next ==
    \/ \E q \in Requests : \/ SetupStep(q) \/ LoginStep(q) \/ ChangeStep(q)
                           \/ OpenSession(q) \/ DeleteExpired(q) \/ Fail(q) \/ Logout(q)
    \/ \E ip \in Addrs : TurnedAway(ip)
    \/ ResetPassword \/ Restart \/ Clock

Spec == Init /\ [][Next]_vars
-----------------------------------------------------------------------------
(* A change of the password, in the browser or on the command line, ends   *)
(* every session ("all sessions revoked"): a session opened with an        *)
(* earlier password belongs to a sign-in whose password had been checked,  *)
(* and whose session was about to be inserted, when the last change came.  *)
RevokedByChange ==
    \A q \in Requests : session[q] = "open" /\ checked[q] < version => q \in inFlight

\* In this step the session of s stays valid, or there is a reason for its end.
KeptOrEnded(s) ==
    Valid(s) => \/ Valid(s)'
                \/ now' >= expires[s]
                \/ version' > version
                \/ session' = [session EXCEPT ![s] = "gone"] /\ UNCHANGED pc

(* Nobody is signed out by other people's requests: a session stays valid  *)
(* until its time is over, its owner signs out or the password is set.     *)
SessionsLast == [][\A s \in Requests : KeptOrEnded(s)]_vars
=============================================================================
