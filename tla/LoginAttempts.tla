--------------------------- MODULE LoginAttempts ---------------------------
(***************************************************************************)
(* The table that limits sign-in, setup and password-change attempts per   *)
(* client address (allowLogin).  It is kept in memory under loginMu, so a  *)
(* call is one step.  An address has MaxAttempts calls in a window of time *)
(* that starts with its first; the table holds at most MaxTable addresses. *)
(*                                                                         *)
(* Abstracted here: the clock, which counts whole units of time.           *)
(***************************************************************************)
EXTENDS Integers, Sequences, FiniteSets

CONSTANTS
    Addrs,         \* client addresses
    MaxAttempts,   \* calls an address has in a window (10 in the code)
    Window,        \* the length of a window (15 minutes)
    MaxTable,      \* addresses the table holds (4096)
    MaxTime        \* bound: the clock stops there

ASSUME AttemptsAssumption ==
    /\ MaxAttempts \in Nat \ {0} /\ Window \in Nat \ {0}
    /\ MaxTable \in Nat \ {0} /\ MaxTime \in Nat

VARIABLES
    now,        \* the time
    attempts,   \* attempts[ip]: the entry of ip, its count 0 if there is none
    grants,     \* history: the times of the calls of ip that were granted
    refused     \* history: when ip was first refused after that, else Never

tableVars == <<attempts, grants, refused>>
attemptVars == <<now, tableVars>>

Never == -1
NoEntry == [count |-> 0, until |-> 0]
Entries == [count : 0..MaxAttempts, until : Nat]
Held(table) == {ip \in Addrs : table[ip].count > 0}

InitAttempts ==
    /\ now = 0
    /\ attempts = [ip \in Addrs |-> NoEntry]
    /\ grants = [ip \in Addrs |-> <<>>]
    /\ refused = [ip \in Addrs |-> Never]

Tick == now < MaxTime /\ now' = now + 1 /\ UNCHANGED tableVars

\* Entries whose window is over leave the table first, at every call.
Purged == [ip \in Addrs |-> IF now > attempts[ip].until THEN NoEntry ELSE attempts[ip]]

\* Admits, if an address had one call too many.  Then the real one:
\* an address that used up its calls is refused, and so is a new one while
\* the table is full.
AdmitsOneMore(ip) == /\ Purged[ip].count <= MaxAttempts
                     /\ Purged[ip].count > 0 \/ Cardinality(Held(Purged)) < MaxTable
Admits(ip) == /\ Purged[ip].count < MaxAttempts
              /\ Purged[ip].count > 0 \/ Cardinality(Held(Purged)) < MaxTable

Grant(ip) ==
    /\ Admits(ip)
    /\ attempts' = [Purged EXCEPT ![ip] =
                      [count |-> @.count + 1,
                       until |-> IF @.count = 0 THEN now + Window ELSE @.until]]
    /\ grants' = [grants EXCEPT ![ip] = Append(@, now)]
    /\ refused' = [refused EXCEPT ![ip] = Never]
    /\ UNCHANGED now

\* Refuse, if a refused call started the window of its address anew.
RefuseAndExtend(ip) ==
    /\ ~Admits(ip)
    /\ attempts' = [Purged EXCEPT ![ip].until = now + Window]
    /\ refused' = [refused EXCEPT ![ip] = IF @ = Never THEN now ELSE @]
    /\ UNCHANGED <<now, grants>>
Refuse(ip) ==
    /\ ~Admits(ip)
    /\ attempts' = Purged
    /\ refused' = [refused EXCEPT ![ip] = IF @ = Never THEN now ELSE @]
    /\ UNCHANGED <<now, grants>>

\* The server starts with an empty table.
ForgetAttempts ==
    /\ attempts' = [ip \in Addrs |-> NoEntry]
    /\ grants' = [ip \in Addrs |-> <<>>]
    /\ refused' = [ip \in Addrs |-> Never]

Restarted == ForgetAttempts /\ UNCHANGED now

NextAttempts == \/ Tick \/ Restarted
                \/ \E ip \in Addrs : Grant(ip) \/ Refuse(ip)
AttemptsSpec == InitAttempts /\ [][NextAttempts]_attemptVars
-----------------------------------------------------------------------------
(* The window of an address starts with its first call, so two windows may *)
(* meet: in any stretch of time as long as a window an address is granted  *)
(* at most twice MaxAttempts calls, since the server started.              *)
BurstBounded ==
    \A ip \in Addrs : \A i, j \in DOMAIN grants[ip] :
        j - i >= 2 * MaxAttempts => grants[ip][j] > grants[ip][i] + Window

(* "Too many attempts. Try again in 15 minutes": whoever was refused is    *)
(* granted a call when it asks again after a window's time, whatever it    *)
(* tried in between, unless other addresses have filled the table.         *)
RefusalsExpire ==
    \A ip \in Addrs :
        /\ refused[ip] # Never /\ now > refused[ip] + Window
        /\ Cardinality(Held(Purged) \ {ip}) < MaxTable
        => Admits(ip)
=============================================================================
