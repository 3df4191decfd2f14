-------------------------- MODULE Sessions_proofs --------------------------
(***************************************************************************)
(* What holds of the login table and of the sessions, for any addresses,   *)
(* limits, requests and passwords.                                         *)
(***************************************************************************)
EXTENDS Sessions, FiniteSetTheorems, TLAPS

AttemptTypes ==
    /\ now \in Nat
    /\ attempts \in [Addrs -> Entries]
    /\ grants \in [Addrs -> Seq(Nat)]
    /\ refused \in [Addrs -> Nat \cup {Never}]

(***************************************************************************)
(* What the entry e of an address says of the calls g it was granted until *)
(* the time t: the last e.count of them are the ones of the window, and    *)
(* the ones before the previous window are a window's time before it.      *)
(***************************************************************************)
Windows(e, g, t) ==
    /\ e.count <= Len(g)
    /\ \A i \in 1..Len(g) : g[i] <= t
    /\ e.count > 0 =>
         /\ e.until <= t + Window
         /\ \A i \in 1..Len(g) :
              /\ g[i] <= e.until
              /\ i <= Len(g) - e.count => g[i] + Window < e.until
              /\ i <= Len(g) - e.count - MaxAttempts => g[i] + 2 * Window < e.until
    /\ e.count = 0 =>
         \A i \in 1..Len(g) : /\ g[i] < t
                              /\ i <= Len(g) - MaxAttempts => g[i] + Window < t

Burst(g) == \A i, j \in 1..Len(g) : j - i >= 2 * MaxAttempts => g[j] > g[i] + Window

\* A refusal at r leaves the window of the entry e ending by r + Window.
Refusal(e, r, t) == r # Never => r <= t /\ (e.count > 0 => e.until <= r + Window)

AddressInv(ip) == /\ Windows(attempts[ip], grants[ip], now)
                  /\ Burst(grants[ip])
                  /\ Refusal(attempts[ip], refused[ip], now)
AttemptsInv == AttemptTypes /\ \A ip \in Addrs : AddressInv(ip)
-----------------------------------------------------------------------------
\* Entries that leave the table leave nothing to keep.
LEMMA PurgedEntry ==
    ASSUME AttemptTypes, NEW ip \in Addrs,
           Windows(attempts[ip], grants[ip], now),
           Refusal(attempts[ip], refused[ip], now)
    PROVE  /\ Purged[ip] \in Entries
           /\ Windows(Purged[ip], grants[ip], now)
           /\ Refusal(Purged[ip], refused[ip], now)
<1> DEFINE e == attempts[ip]
           g == grants[ip]
<1>1. e \in Entries /\ g \in Seq(Nat) /\ now \in Nat /\ Len(g) \in Nat
      /\ \A i \in 1..Len(g) : g[i] \in Nat
  BY DEF AttemptTypes
<1>2. e.count \in 0..MaxAttempts /\ e.until \in Nat BY <1>1 DEF Entries
<1>3. CASE ~(now > e.until)
  <2>1. Purged[ip] = e BY <1>3 DEF Purged
  <2> QED BY <2>1, <1>1
<1>4. CASE now > e.until
  <2>1. Purged[ip] = NoEntry BY <1>4 DEF Purged
  <2>2. NoEntry.count = 0 /\ NoEntry.until = 0 BY DEF NoEntry
  <2>3. NoEntry \in Entries BY AttemptsAssumption DEF NoEntry, Entries
  <2>4. \A i \in 1..Len(g) : g[i] < now /\ (i <= Len(g) - MaxAttempts => g[i] + Window < now)
    <3> SUFFICES ASSUME NEW i \in 1..Len(g)
                 PROVE  g[i] < now /\ (i <= Len(g) - MaxAttempts => g[i] + Window < now)
      OBVIOUS
    <3>1. CASE e.count = 0
      BY <3>1 DEF Windows
    <3>2. CASE e.count > 0
      <4>1. /\ g[i] <= e.until
            /\ i <= Len(g) - e.count => g[i] + Window < e.until
        BY <3>2 DEF Windows
      <4>2. i <= Len(g) - MaxAttempts => i <= Len(g) - e.count
        <5>1. i \in Nat /\ MaxAttempts \in Nat /\ e.count \in Nat /\ e.count <= MaxAttempts
          BY <1>1, <1>2, AttemptsAssumption
        <5> QED BY <5>1, <1>1
      <4> QED BY <4>1, <4>2, <1>1, <1>2, <1>4, AttemptsAssumption
    <3> QED BY <3>1, <3>2, <1>2
  <2>5. Windows(NoEntry, g, now)
    BY <2>2, <2>4, <1>1 DEF Windows
  <2>6. Refusal(NoEntry, refused[ip], now)
    BY <2>2 DEF Refusal
  <2> QED BY <2>1, <2>3, <2>5, <2>6
<1> QED BY <1>3, <1>4

\* One more call granted to an address keeps its windows and its bound.
LEMMA GrantedCall ==
    ASSUME NEW e \in Entries, NEW g \in Seq(Nat), NEW t \in Nat,
           e.count < MaxAttempts, e.count = 0 \/ t <= e.until,
           Windows(e, g, t), Burst(g)
    PROVE  LET f == [count |-> e.count + 1,
                     until |-> IF e.count = 0 THEN t + Window ELSE e.until]
           IN  /\ f \in Entries
               /\ Windows(f, Append(g, t), t)
               /\ Burst(Append(g, t))
<1> DEFINE n == Len(g)
           h == Append(g, t)
           c == e.count
           u == IF c = 0 THEN t + Window ELSE e.until
<1>1. /\ n \in Nat /\ Len(h) = n + 1 /\ h[n + 1] = t
      /\ \A i \in 1..n : h[i] = g[i] /\ g[i] \in Nat
  OBVIOUS
<1>2. c \in Nat /\ c < MaxAttempts /\ e.until \in Nat /\ u \in Nat /\ c <= n
  BY AttemptsAssumption DEF Entries, Windows
<1>3. /\ u <= t + Window
      /\ t <= u
      /\ \A i \in 1..n : /\ g[i] <= u /\ g[i] <= t
                         /\ i <= n - c => g[i] + Window < u
                         /\ i <= n - c - MaxAttempts => g[i] + 2 * Window < u
  <2>1. CASE c = 0
    <3>1. \A i \in 1..n : g[i] < t /\ (i <= n - MaxAttempts => g[i] + Window < t)
      BY <2>1 DEF Windows
    <3> QED BY <2>1, <3>1, <1>1, <1>2, AttemptsAssumption
  <2>2. CASE c > 0
    <3>1. /\ e.until <= t + Window
          /\ \A i \in 1..n : /\ g[i] <= t /\ g[i] <= e.until
                             /\ i <= n - c => g[i] + Window < e.until
                             /\ i <= n - c - MaxAttempts => g[i] + 2 * Window < e.until
      BY <2>2 DEF Windows
    <3> QED BY <2>2, <3>1, <1>1, <1>2
  <2> QED BY <2>1, <2>2, <1>2
<1> DEFINE f == [count |-> c + 1, until |-> u]
<1>4. f \in Entries BY <1>2, AttemptsAssumption DEF Entries
<1> HIDE DEF h, u, c, n
<1>5. Windows(f, h, t)
  <2>1. f.count = c + 1 /\ f.until = u /\ f.count > 0 BY <1>2
  <2>2. \A i \in 1..Len(h) : i \in 1..n \/ i = n + 1 BY <1>1
  <2>3. \A i \in 1..Len(h) : h[i] <= t BY <2>2, <1>1, <1>3, <1>2
  <2>4. \A i \in 1..Len(h) : /\ h[i] <= u
                             /\ i <= Len(h) - (c + 1) => h[i] + Window < u
                             /\ i <= Len(h) - (c + 1) - MaxAttempts => h[i] + 2 * Window < u
    <3> SUFFICES ASSUME NEW i \in 1..Len(h)
                 PROVE  /\ h[i] <= u
                        /\ i <= Len(h) - (c + 1) => h[i] + Window < u
                        /\ i <= Len(h) - (c + 1) - MaxAttempts => h[i] + 2 * Window < u
      OBVIOUS
    <3>1. /\ Len(h) - (c + 1) = n - c
          /\ Len(h) - (c + 1) - MaxAttempts = n - c - MaxAttempts
      BY <1>1, <1>2, AttemptsAssumption
    <3>2. CASE i \in 1..n
      BY <3>1, <3>2, <1>1, <1>3
    <3>3. CASE i = n + 1
      <4>1. ~(i <= n - c) /\ ~(i <= n - c - MaxAttempts)
        BY <3>3, <1>1, <1>2, AttemptsAssumption
      <4> QED BY <4>1, <3>1, <3>3, <1>1, <1>3
    <3> QED BY <3>2, <3>3, <2>2
  <2> QED BY <2>1, <2>3, <2>4, <1>1, <1>2, <1>3 DEF Windows
<1>6. Burst(h)
  <2> SUFFICES ASSUME NEW i \in 1..Len(h), NEW j \in 1..Len(h), j - i >= 2 * MaxAttempts
               PROVE  h[j] > h[i] + Window
    BY DEF Burst
  <2>1. CASE j \in 1..n
    <3>1. i \in 1..n BY <2>1, <1>1, AttemptsAssumption
    <3>2. g[j] > g[i] + Window BY <2>1, <3>1 DEF Burst, n
    <3> QED BY <3>1, <3>2, <2>1, <1>1
  <2>2. CASE j = n + 1
    <3>1. i \in 1..n /\ i <= n - c - MaxAttempts BY <2>2, <1>1, <1>2, AttemptsAssumption
    <3>2. g[i] + 2 * Window < u BY <3>1, <1>3
    <3> QED BY <3>1, <3>2, <2>2, <1>1, <1>2, <1>3, AttemptsAssumption
  <2> QED BY <2>1, <2>2, <1>1
<1> QED BY <1>4, <1>5, <1>6 DEF h, u, c, n
-----------------------------------------------------------------------------
LEMMA InitAttemptsInv == InitAttempts => AttemptsInv
<1> SUFFICES ASSUME InitAttempts PROVE AttemptsInv OBVIOUS
<1>1. NoEntry \in Entries /\ NoEntry.count = 0
  BY AttemptsAssumption DEF NoEntry, Entries
<1>2. AttemptTypes BY <1>1 DEF InitAttempts, AttemptTypes
<1>3. \A ip \in Addrs : AddressInv(ip)
  BY <1>1 DEF InitAttempts, AddressInv, Windows, Burst, Refusal
<1> QED BY <1>2, <1>3 DEF AttemptsInv

LEMMA GrantInv ==
    ASSUME AttemptsInv, NEW ip \in Addrs, Grant(ip)
    PROVE  AttemptsInv'
<1>1. AttemptTypes /\ now' = now BY DEF AttemptsInv, Grant
<1>2. \A k \in Addrs : /\ Purged[k] \in Entries
                       /\ Windows(Purged[k], grants[k], now)
                       /\ Burst(grants[k])
                       /\ Refusal(Purged[k], refused[k], now)
  BY PurgedEntry DEF AttemptsInv, AddressInv
<1> DEFINE e == Purged[ip]
           f == [count |-> e.count + 1, until |-> IF e.count = 0 THEN now + Window ELSE e.until]
<1>3. Purged = [k \in Addrs |-> Purged[k]] BY DEF Purged
<1>4. attempts' = [k \in Addrs |-> IF k = ip THEN f ELSE Purged[k]]
  BY <1>3 DEF Grant
<1>5. grants' = [k \in Addrs |-> IF k = ip THEN Append(grants[ip], now) ELSE grants[k]]
  BY <1>1 DEF Grant, AttemptTypes
<1>6. refused' = [k \in Addrs |-> IF k = ip THEN Never ELSE refused[k]]
  BY <1>1 DEF Grant, AttemptTypes
<1>7. e.count < MaxAttempts /\ (e.count = 0 \/ now <= e.until)
  <2>1. e.count < MaxAttempts BY DEF Grant, Admits
  <2>2. e.count = 0 \/ now <= e.until
    BY <1>1 DEF Purged, NoEntry, AttemptTypes, Entries
  <2> QED BY <2>1, <2>2
<1>8. now \in Nat /\ grants[ip] \in Seq(Nat) BY <1>1 DEF AttemptTypes
<1>9. /\ f \in Entries
      /\ Windows(f, Append(grants[ip], now), now)
      /\ Burst(Append(grants[ip], now))
  BY <1>2, <1>7, <1>8, GrantedCall
<1> HIDE DEF f
<1>10. AttemptTypes'
  BY <1>1, <1>2, <1>4, <1>5, <1>6, <1>8, <1>9 DEF AttemptTypes
<1>11. AddressInv(ip)'
  BY <1>1, <1>4, <1>5, <1>6, <1>9 DEF AddressInv, Refusal
<1>12. \A k \in Addrs \ {ip} : AddressInv(k)'
  BY <1>1, <1>2, <1>4, <1>5, <1>6 DEF AddressInv
<1> QED BY <1>10, <1>11, <1>12 DEF AttemptsInv

LEMMA RefuseInv ==
    ASSUME AttemptsInv, NEW ip \in Addrs, Refuse(ip)
    PROVE  AttemptsInv'
<1>1. AttemptTypes /\ now' = now /\ now \in Nat BY DEF AttemptsInv, Refuse, AttemptTypes
<1>2. \A k \in Addrs : /\ Purged[k] \in Entries
                       /\ Windows(Purged[k], grants[k], now)
                       /\ Burst(grants[k])
                       /\ Refusal(Purged[k], refused[k], now)
  BY PurgedEntry DEF AttemptsInv, AddressInv
<1>3. Purged = [k \in Addrs |-> Purged[k]] BY DEF Purged
<1>4. attempts' = Purged /\ grants' = grants BY DEF Refuse
<1>5. refused' = [k \in Addrs |-> IF k = ip /\ refused[ip] = Never THEN now ELSE refused[k]]
  BY <1>1 DEF Refuse, AttemptTypes
<1>6. AttemptTypes'
  BY <1>1, <1>2, <1>3, <1>4, <1>5 DEF AttemptTypes
<1>7. \A k \in Addrs : Refusal(Purged[k], refused'[k], now)
  <2> SUFFICES ASSUME NEW k \in Addrs PROVE Refusal(Purged[k], refused'[k], now) OBVIOUS
  <2>1. CASE k = ip /\ refused[ip] = Never
    <3>1. Purged[k].count > 0 => Purged[k].until <= now + Window
      BY <1>2 DEF Windows
    <3> QED BY <3>1, <2>1, <1>1, <1>5 DEF Refusal
  <2>2. CASE ~(k = ip /\ refused[ip] = Never)
    BY <2>2, <1>2, <1>5
  <2> QED BY <2>1, <2>2
<1>8. \A k \in Addrs : AddressInv(k)'
  BY <1>1, <1>2, <1>4, <1>7 DEF AddressInv
<1> QED BY <1>6, <1>8 DEF AttemptsInv

LEMMA TickInv == AttemptsInv /\ Tick => AttemptsInv'
<1> SUFFICES ASSUME AttemptsInv, Tick PROVE AttemptsInv' OBVIOUS
<1>1. /\ AttemptTypes /\ now \in Nat /\ now' = now + 1
      /\ attempts' = attempts /\ grants' = grants /\ refused' = refused
  BY DEF AttemptsInv, Tick, tableVars, AttemptTypes
<1>2. AttemptTypes' BY <1>1 DEF AttemptTypes
<1>3. ASSUME NEW ip \in Addrs PROVE AddressInv(ip)'
  <2> DEFINE e == attempts[ip]
             g == grants[ip]
             r == refused[ip]
  <2>1. /\ e.count \in Nat /\ e.until \in Nat /\ g \in Seq(Nat) /\ Len(g) \in Nat
        /\ r \in Nat \cup {Never} /\ \A i \in 1..Len(g) : g[i] \in Nat
    BY <1>1 DEF AttemptTypes, Entries
  <2>2. Windows(e, g, now) /\ Burst(g) /\ Refusal(e, r, now)
    BY DEF AttemptsInv, AddressInv
  <2>3. Windows(e, g, now + 1)
    <3>1. Window \in Nat /\ MaxAttempts \in Nat BY AttemptsAssumption
    <3>2. CASE e.count = 0
      <4>1. \A i \in 1..Len(g) : /\ g[i] < now
                                 /\ i <= Len(g) - MaxAttempts => g[i] + Window < now
        BY <3>2, <2>2 DEF Windows
      <4>2. \A i \in 1..Len(g) :
              /\ g[i] < now + 1 /\ g[i] <= now + 1
              /\ i <= Len(g) - MaxAttempts => g[i] + Window < now + 1
        <5> SUFFICES ASSUME NEW i \in 1..Len(g)
                     PROVE  /\ g[i] < now + 1 /\ g[i] <= now + 1
                            /\ i <= Len(g) - MaxAttempts => g[i] + Window < now + 1
          OBVIOUS
        <5>1. g[i] \in Nat /\ g[i] + Window \in Nat BY <2>1, <3>1
        <5> HIDE DEF g
        <5> QED BY <4>1, <5>1, <1>1
      <4>3. e.count <= Len(g) BY <2>1, <3>2
      <4> QED BY <4>2, <4>3, <3>2 DEF Windows
    <3>3. CASE e.count > 0
      <4>1. /\ e.count <= Len(g) /\ e.until <= now + 1 + Window
            /\ \A i \in 1..Len(g) : g[i] <= now + 1
        BY <3>1, <3>3, <2>1, <2>2, <1>1 DEF Windows
      <4>2. \A i \in 1..Len(g) :
              /\ g[i] <= e.until
              /\ i <= Len(g) - e.count => g[i] + Window < e.until
              /\ i <= Len(g) - e.count - MaxAttempts => g[i] + 2 * Window < e.until
        BY <3>3, <2>2 DEF Windows
      <4> QED BY <4>1, <4>2, <3>3, <2>1 DEF Windows
    <3> QED BY <3>2, <3>3, <2>1
  <2>4. Refusal(e, r, now + 1)
    BY <2>1, <2>2, <1>1 DEF Refusal, Never
  <2> QED BY <2>2, <2>3, <2>4, <1>1 DEF AddressInv
<1> QED BY <1>2, <1>3 DEF AttemptsInv

LEMMA ForgetInv ==
    ASSUME AttemptsInv, Restarted
    PROVE  AttemptsInv'
<1>1. NoEntry \in Entries /\ NoEntry.count = 0
  BY AttemptsAssumption DEF NoEntry, Entries
<1>2. AttemptTypes' BY <1>1 DEF Restarted, ForgetAttempts, AttemptTypes, AttemptsInv
<1>3. \A ip \in Addrs : AddressInv(ip)'
  BY <1>1 DEF Restarted, ForgetAttempts, AddressInv, Windows, Burst, Refusal
<1> QED BY <1>2, <1>3 DEF AttemptsInv

LEMMA AttemptsStep == AttemptsInv /\ [NextAttempts]_attemptVars => AttemptsInv'
<1> SUFFICES ASSUME AttemptsInv, [NextAttempts]_attemptVars PROVE AttemptsInv' OBVIOUS
<1>1. CASE Tick BY <1>1, TickInv
<1>2. CASE Restarted BY <1>2, ForgetInv
<1>3. CASE \E ip \in Addrs : Grant(ip) \/ Refuse(ip) BY <1>3, GrantInv, RefuseInv
<1>4. CASE UNCHANGED attemptVars
  BY <1>4 DEF attemptVars, tableVars, AttemptsInv, AttemptTypes, AddressInv, Windows, Burst, Refusal
<1> QED BY <1>1, <1>2, <1>3, <1>4 DEF NextAttempts

LEMMA AttemptsSafety == AttemptsInv => BurstBounded /\ RefusalsExpire
<1> SUFFICES ASSUME AttemptsInv PROVE BurstBounded /\ RefusalsExpire OBVIOUS
<1>1. BurstBounded
  BY DEF BurstBounded, AttemptsInv, AttemptTypes, AddressInv, Burst
<1>2. RefusalsExpire
  <2> SUFFICES ASSUME NEW ip \in Addrs, refused[ip] # Never, now > refused[ip] + Window,
                      Cardinality(Held(Purged) \ {ip}) < MaxTable
               PROVE  Admits(ip)
    BY DEF RefusalsExpire
  <2>1. /\ attempts[ip].count \in Nat /\ attempts[ip].until \in Nat
        /\ refused[ip] \in Nat /\ now \in Nat
    BY DEF AttemptsInv, AttemptTypes, Entries
  <2>2. attempts[ip].count > 0 => now > attempts[ip].until
    BY <2>1, AttemptsAssumption DEF AttemptsInv, AddressInv, Refusal
  <2>3. Purged[ip].count = 0
    BY <2>1, <2>2 DEF Purged, NoEntry
  <2>4. Held(Purged) \ {ip} = Held(Purged)
    BY <2>3 DEF Held
  <2> QED BY <2>3, <2>4, AttemptsAssumption DEF Admits
<1> QED BY <1>1, <1>2

(* The table never grants an address more than twice MaxAttempts calls in  *)
(* a window's time, and grants one to whoever was refused a window ago.    *)
THEOREM AttemptsBounded == AttemptsSpec => [](BurstBounded /\ RefusalsExpire)
<1>1. AttemptsSpec => []AttemptsInv
  BY InitAttemptsInv, AttemptsStep, PTL DEF AttemptsSpec
<1> QED BY <1>1, AttemptsSafety, PTL
-----------------------------------------------------------------------------
(* Sign-in, setup, the change of a password and restarts use the table in  *)
(* no other way than its own specification allows.                         *)
THEOREM TableShared == Spec => AttemptsSpec
<1>1. Init => InitAttempts BY DEF Init
<1>2. [Next]_vars => [NextAttempts]_attemptVars
  <2> SUFFICES ASSUME [Next]_vars PROVE [NextAttempts]_attemptVars OBVIOUS
  <2> USE DEF attemptVars
  <2>1. ASSUME NEW q \in Requests, SetupStep(q) \/ LoginStep(q) \/ ChangeStep(q)
        PROVE  [NextAttempts]_attemptVars
    BY <2>1 DEF SetupStep, SetupBegin, SetupOwner, LoginStep, LoginBegin, LoginCheck, ChangeStep,
                ChangeBegin, ChangeCheck, ChangeCommit, Begin, NextAttempts
  <2>2. ASSUME NEW q \in Requests, OpenSession(q) \/ DeleteExpired(q) \/ Fail(q) \/ Logout(q)
        PROVE  [NextAttempts]_attemptVars
    BY <2>2 DEF OpenSession, DeleteExpired, Fail, Logout
  <2>3. CASE \E ip \in Addrs : TurnedAway(ip) BY <2>3 DEF TurnedAway, NextAttempts
  <2>4. CASE ResetPassword BY <2>4 DEF ResetPassword
  <2>5. CASE Restart BY <2>5 DEF Restart, Restarted, NextAttempts
  <2>6. CASE Clock BY <2>6 DEF Clock, NextAttempts
  <2>7. CASE UNCHANGED vars BY <2>7 DEF vars
  <2> QED BY <2>1, <2>2, <2>3, <2>4, <2>5, <2>6, <2>7 DEF Next
<1> QED BY <1>1, <1>2, PTL DEF Spec, AttemptsSpec

(* Whoever asks to sign in, set up or change the password, in whatever     *)
(* order and across restarts: no address has more than twice MaxAttempts   *)
(* calls granted within a window's time.                                   *)
THEOREM BurstsBounded == Spec => []BurstBounded
<1>1. AttemptsSpec => []BurstBounded BY AttemptsBounded, PTL
<1> QED BY <1>1, TableShared, PTL

(* "Try again in 15 minutes" is true of every endpoint that refuses: a     *)
(* window after its first refusal an address is admitted, whatever it and  *)
(* everybody else tried, unless other addresses fill the table.            *)
THEOREM RefusalsHold == Spec => []RefusalsExpire
<1>1. AttemptsSpec => []RefusalsExpire BY AttemptsBounded, PTL
<1> QED BY <1>1, TableShared, PTL
-----------------------------------------------------------------------------
(***************************************************************************)
(* The table does not grow: an address that is not in it is admitted only  *)
(* while there is room, and those that are over leave first.               *)
(***************************************************************************)
TableBounded == IsFiniteSet(Held(attempts)) /\ Cardinality(Held(attempts)) <= MaxTable

LEMMA PurgedSmaller ==
    ASSUME AttemptTypes, TableBounded
    PROVE  IsFiniteSet(Held(Purged)) /\ Cardinality(Held(Purged)) <= MaxTable
<1>1. Held(Purged) \subseteq Held(attempts)
  BY DEF Held, Purged, NoEntry, AttemptTypes, Entries
<1>2. IsFiniteSet(Held(Purged)) /\ Cardinality(Held(Purged)) <= Cardinality(Held(attempts))
  BY <1>1, FS_Subset DEF TableBounded
<1>3. Cardinality(Held(Purged)) \in Nat /\ Cardinality(Held(attempts)) \in Nat
  BY <1>2, FS_CardinalityType DEF TableBounded
<1> QED BY <1>2, <1>3, AttemptsAssumption DEF TableBounded

LEMMA GrantFits ==
    ASSUME AttemptTypes, TableBounded, NEW ip \in Addrs, Grant(ip)
    PROVE  TableBounded'
<1>1. IsFiniteSet(Held(Purged)) /\ Cardinality(Held(Purged)) <= MaxTable BY PurgedSmaller
<1>2. Held(attempts') \subseteq Held(Purged) \cup {ip}
  BY DEF Grant, Held, Purged
<1>3. CASE ip \in Held(Purged)
  <2>1. Held(attempts') \subseteq Held(Purged) BY <1>2, <1>3
  <2>2. /\ IsFiniteSet(Held(attempts'))
        /\ Cardinality(Held(attempts')) <= Cardinality(Held(Purged))
    BY <2>1, <1>1, FS_Subset
  <2>3. Cardinality(Held(attempts')) \in Nat /\ Cardinality(Held(Purged)) \in Nat
    BY <2>2, <1>1, FS_CardinalityType
  <2> QED BY <2>2, <2>3, <1>1, AttemptsAssumption DEF TableBounded, Held
<1>4. CASE ip \notin Held(Purged)
  <2>1. Cardinality(Held(Purged)) < MaxTable
    <3>1. Purged[ip].count \in Nat BY DEF Purged, NoEntry, AttemptTypes, Entries
    <3> QED BY <3>1, <1>4 DEF Held, Grant, Admits
  <2>2. /\ IsFiniteSet(Held(Purged) \cup {ip})
        /\ Cardinality(Held(Purged) \cup {ip}) = Cardinality(Held(Purged)) + 1
    BY <1>1, <1>4, FS_AddElement
  <2>3. /\ IsFiniteSet(Held(attempts'))
        /\ Cardinality(Held(attempts')) <= Cardinality(Held(Purged) \cup {ip})
    BY <2>2, <1>2, FS_Subset
  <2>4. Cardinality(Held(attempts')) \in Nat /\ Cardinality(Held(Purged)) \in Nat
    BY <2>3, <1>1, FS_CardinalityType
  <2> QED BY <2>1, <2>2, <2>3, <2>4, AttemptsAssumption DEF TableBounded, Held
<1> QED BY <1>3, <1>4

LEMMA TableStep == AttemptsInv /\ TableBounded /\ [NextAttempts]_attemptVars => TableBounded'
<1> SUFFICES ASSUME AttemptsInv, TableBounded, [NextAttempts]_attemptVars PROVE TableBounded'
  OBVIOUS
<1>0. AttemptTypes BY DEF AttemptsInv
<1>1. CASE Tick \/ UNCHANGED attemptVars
  BY <1>1 DEF Tick, attemptVars, tableVars, TableBounded, Held
<1>2. CASE Restarted
  <2>1. Held(attempts') = {} BY <1>2 DEF Restarted, ForgetAttempts, Held, NoEntry
  <2>2. IsFiniteSet({}) /\ Cardinality({}) = 0 BY FS_EmptySet
  <2>3. IsFiniteSet(Held(attempts')) /\ Cardinality(Held(attempts')) <= MaxTable
    BY <2>1, <2>2, AttemptsAssumption
  <2> QED BY <2>3 DEF TableBounded, Held
<1>3. ASSUME NEW ip \in Addrs, Refuse(ip) PROVE TableBounded'
  <2>1. Held(attempts') = Held(Purged) BY <1>3 DEF Refuse, Held
  <2> QED BY <2>1, <1>0, PurgedSmaller DEF TableBounded, Held
<1>4. ASSUME NEW ip \in Addrs, Grant(ip) PROVE TableBounded' BY <1>0, <1>4, GrantFits
<1> QED BY <1>1, <1>2, <1>3, <1>4 DEF NextAttempts

(* The table of attempts stays within MaxTable addresses, however many     *)
(* clients ask: it cannot be made to grow by asking from new ones.         *)
THEOREM TableStaysBounded == Spec => []TableBounded
<1>1. InitAttempts => TableBounded
  <2> SUFFICES ASSUME InitAttempts PROVE TableBounded OBVIOUS
  <2>1. Held(attempts) = {} BY DEF InitAttempts, Held, NoEntry
  <2> QED BY <2>1, FS_EmptySet, AttemptsAssumption DEF TableBounded
<1>2. AttemptsSpec => []TableBounded
  BY <1>1, InitAttemptsInv, AttemptsStep, TableStep, PTL DEF AttemptsSpec
<1> QED BY <1>2, TableShared, PTL
-----------------------------------------------------------------------------
TypeOK ==
    /\ version \in Nat
    /\ pc \in [Requests -> {"new", "owner", "login", "account", "change", "session",
                            "cleanup", "done"}]
    /\ checked \in [Requests -> Nat]
    /\ session \in [Requests -> {"none", "open", "gone"}]
    /\ expires \in [Requests -> Nat]
    /\ given \in [Requests -> Passwords \cup {None}]

\* Without an owner nobody gets past the check of a password.
OwnerFirst ==
    /\ owner = None => \A q \in Requests : session[q] # "open" /\ pc[q] \notin {"session", "change"}
    /\ \A q \in Requests : pc[q] \in {"login", "account"} => given[q] \in Passwords

\* What is about to be inserted obeys RevokedByChange as what was inserted does.
SessionsInv ==
    /\ now \in Nat
    /\ TypeOK
    /\ OwnerFirst
    /\ RevokedByChange
    /\ \A q \in Requests : pc[q] = "session" /\ checked[q] < version => q \in inFlight

LEMMA SessionsInit == Init => SessionsInv
BY DEF Init, InitAttempts, SessionsInv, TypeOK, OwnerFirst, RevokedByChange

LEMMA SessionsStep == SessionsInv /\ [Next]_vars => SessionsInv'
<1> SUFFICES ASSUME SessionsInv, [Next]_vars PROVE SessionsInv' OBVIOUS
<1> USE DEF SessionsInv, TypeOK, OwnerFirst, RevokedByChange
<1>1. CASE Clock
  BY <1>1 DEF Clock, Tick, accountVars
<1>2. CASE Restart
  <2>1. /\ pc' \in [Requests -> {"new", "owner", "login", "account", "change", "session",
                                 "cleanup", "done"}]
        /\ \A q \in Requests : pc'[q] # "session"
    BY <1>2 DEF Restart
  <2> QED BY <2>1, <1>2 DEF Restart, accountVars
<1>3. CASE \E ip \in Addrs : TurnedAway(ip)
  BY <1>3 DEF TurnedAway, Grant, Refuse, accountVars
<1>4. ASSUME SetPassword, RevokeSessions, now' = now,
             pc' \in [Requests -> {"new", "owner", "login", "account", "change", "session",
                                   "cleanup", "done"}],
             checked' \in [Requests -> Nat],
             given' = given,
             \A q \in Requests :
                /\ pc'[q] = "session" /\ checked'[q] # version + 1 => pc[q] = "session"
                /\ pc'[q] \in {"login", "account"} => pc[q] = pc'[q]
      PROVE  SessionsInv'
  <2>1. \A q \in Requests : session'[q] # "open" BY <1>4 DEF RevokeSessions
  <2>2. session' \in [Requests -> {"none", "open", "gone"}] /\ expires' \in [Requests -> Nat]
    BY <1>4 DEF RevokeSessions
  <2>3. version' = version + 1 /\ inFlight' = {q \in Requests : pc[q] = "session"}
        /\ owner' \in Passwords /\ owner' # None
    BY <1>4, SessionsAssumption DEF SetPassword
  <2> QED BY <1>4, <2>1, <2>2, <2>3
<1>5. CASE ResetPassword
  <2>1. pc' = pc /\ checked' = checked /\ given' = given /\ now' = now /\ SetPassword /\ RevokeSessions
    BY <1>5 DEF ResetPassword, attemptVars
  <2> QED BY <2>1, <1>4
<1>6. ASSUME NEW q \in Requests, ChangeCommit(q) PROVE SessionsInv'
  <2>1. /\ checked' = [checked EXCEPT ![q] = version + 1] /\ pc' = [pc EXCEPT ![q] = "session"]
        /\ now' = now /\ given' = given /\ SetPassword /\ RevokeSessions
    BY <1>6 DEF ChangeCommit, attemptVars, Goto
  <2>2. /\ pc' \in [Requests -> {"new", "owner", "login", "account", "change", "session",
                                 "cleanup", "done"}]
        /\ checked' \in [Requests -> Nat]
        /\ checked'[q] = version + 1 /\ pc'[q] = "session"
        /\ \A r \in Requests \ {q} : pc'[r] = pc[r] /\ checked'[r] = checked[r]
    BY <2>1
  <2>3. \A r \in Requests :
          /\ pc'[r] = "session" /\ checked'[r] # version + 1 => pc[r] = "session"
          /\ pc'[r] \in {"login", "account"} => pc[r] = pc'[r]
    BY <2>2
  <2>4. SetPassword /\ RevokeSessions /\ now' = now /\ given' = given BY <2>1
  <2> HIDE DEF SessionsInv
  <2> QED BY <2>2, <2>3, <2>4, <1>4
<1>7. ASSUME NEW q \in Requests, SetupStep(q) PROVE SessionsInv'
  <2>1. CASE SetupOwner(q)
    <3>1. CASE owner # None
      BY <2>1, <3>1 DEF SetupOwner, Goto, attemptVars
    <3>2. CASE owner = None
      <4>1. /\ checked' = [checked EXCEPT ![q] = version + 1] /\ version' = version + 1
            /\ owner' \in Passwords /\ owner' # None
            /\ pc' = [pc EXCEPT ![q] = "session"]
            /\ UNCHANGED <<now, inFlight, given, session, expires>>
        BY <2>1, <3>2, SessionsAssumption DEF SetupOwner, Goto, attemptVars
      <4>2. \A r \in Requests : session'[r] # "open" /\ pc[r] \notin {"session", "change"}
        BY <4>1, <3>2
      <4>3. \A r \in Requests : pc'[r] = "session" => checked'[r] = version'
        BY <4>1, <4>2
      <4>4. \A r \in Requests : pc'[r] \in {"login", "account"} => given'[r] \in Passwords
        BY <4>1
      <4> QED BY <4>1, <4>2, <4>3, <4>4
    <3> QED BY <3>1, <3>2
  <2>2. ASSUME NEW ip \in Addrs, SetupBegin(q, ip) PROVE SessionsInv'
    BY <2>2 DEF SetupBegin, Begin, Grant, Goto, accountVars
  <2> QED BY <1>7, <2>1, <2>2 DEF SetupStep
<1>8. ASSUME NEW q \in Requests, LoginStep(q) PROVE SessionsInv'
  <2>1. CASE LoginCheck(q)
    <3>1. CASE given[q] = owner
      <4>1. /\ checked' = [checked EXCEPT ![q] = version] /\ pc' = [pc EXCEPT ![q] = "session"]
            /\ pc[q] = "login" /\ UNCHANGED <<now, owner, version, inFlight, given, session, expires>>
        BY <2>1, <3>1 DEF LoginCheck, Goto, attemptVars, accountVars
      <4>2. owner # None BY <4>1, <3>1, SessionsAssumption
      <4> QED BY <4>1, <4>2
    <3>2. CASE given[q] # owner
      BY <2>1, <3>2 DEF LoginCheck, Goto, attemptVars, accountVars
    <3> QED BY <3>1, <3>2
  <2>2. ASSUME NEW ip \in Addrs, NEW w \in Passwords, LoginBegin(q, ip, w) PROVE SessionsInv'
    BY <2>2 DEF LoginBegin, Begin, Grant, Goto, accountVars
  <2> QED BY <1>8, <2>1, <2>2 DEF LoginStep
<1>9. ASSUME NEW q \in Requests, ChangeStep(q) PROVE SessionsInv'
  <2>1. CASE ChangeCheck(q)
    <3>1. pc[q] = "account" /\ UNCHANGED <<now, owner, version, inFlight, given, checked, session, expires>>
      BY <2>1 DEF ChangeCheck, attemptVars, accountVars
    <3>2. CASE given[q] = owner
      <4>1. owner # None BY <3>1, <3>2, SessionsAssumption
      <4>2. pc' = [pc EXCEPT ![q] = "change"] BY <2>1, <3>2 DEF ChangeCheck, Goto
      <4> QED BY <3>1, <4>1, <4>2
    <3>3. CASE given[q] # owner
      <4>1. pc' = [pc EXCEPT ![q] = "done"] BY <2>1, <3>3 DEF ChangeCheck, Goto
      <4> QED BY <3>1, <4>1
    <3> QED BY <3>2, <3>3
  <2>2. ASSUME NEW s \in Requests, NEW ip \in Addrs, NEW w \in Passwords, ChangeBegin(q, s, ip, w)
        PROVE  SessionsInv'
    BY <2>2 DEF ChangeBegin, Begin, Grant, Goto, accountVars
  <2> QED BY <1>9, <2>1, <2>2, <1>6 DEF ChangeStep
<1>10. ASSUME NEW q \in Requests, OpenSession(q) PROVE SessionsInv'
  BY <1>10, SessionsAssumption DEF OpenSession, Goto, attemptVars, accountVars
<1>11. ASSUME NEW q \in Requests, DeleteExpired(q) PROVE SessionsInv'
  BY <1>11 DEF DeleteExpired, Goto, attemptVars, accountVars
<1>12. ASSUME NEW q \in Requests, Fail(q) PROVE SessionsInv'
  BY <1>12 DEF Fail, Goto, attemptVars, accountVars
<1>13. ASSUME NEW q \in Requests, Logout(q) PROVE SessionsInv'
  BY <1>13 DEF Logout, attemptVars, accountVars
<1>14. CASE UNCHANGED vars BY <1>14 DEF vars, attemptVars, accountVars
<1> QED BY <1>1, <1>2, <1>3, <1>5, <1>7, <1>8, <1>9, <1>10, <1>11, <1>12, <1>13, <1>14 DEF Next

LEMMA SessionsInvariant == Spec => []SessionsInv
BY SessionsInit, SessionsStep, PTL DEF Spec

(* After any number of changes, resets and sign-ins, a session opened with *)
(* an outdated password belongs to a request that was already past its     *)
(* check when the password was last set.                                   *)
THEOREM RevokedByChangeHolds == Spec => []RevokedByChange
<1>1. SessionsInv => RevokedByChange BY DEF SessionsInv
<1> QED BY <1>1, SessionsInvariant, PTL

(* A session ends by its time, by its own sign-out or by a change of the   *)
(* password only.                                                          *)
THEOREM SessionsLastHolds == Spec => SessionsLast
<1>1. SessionsInv /\ SessionsInv' /\ [Next]_vars => [\A s \in Requests : KeptOrEnded(s)]_vars
  <2> SUFFICES ASSUME SessionsInv, SessionsInv', Next, NEW s \in Requests, Valid(s)
               PROVE  \/ Valid(s)'
                      \/ now' >= expires[s]
                      \/ version' > version
                      \/ session' = [session EXCEPT ![s] = "gone"] /\ UNCHANGED pc
    BY DEF KeptOrEnded
  <2>0. /\ now \in Nat /\ now' \in Nat /\ version \in Nat
        /\ expires \in [Requests -> Nat] /\ expires[s] \in Nat
        /\ session \in [Requests -> {"none", "open", "gone"}]
        /\ session[s] = "open" /\ expires[s] > now
    BY DEF SessionsInv, TypeOK, Valid
  <2>1. ASSUME session' = session, expires' = expires
        PROVE  Valid(s)' \/ now' >= expires[s]
    BY <2>0, <2>1 DEF Valid
  <2>2. ASSUME NEW q \in Requests, SetupStep(q) \/ LoginStep(q) \/ Fail(q)
        PROVE  session' = session /\ expires' = expires
    BY <2>2 DEF SetupStep, SetupBegin, SetupOwner, LoginStep, LoginBegin, LoginCheck, Fail
  <2>3. ASSUME NEW q \in Requests, ChangeStep(q)
        PROVE  (session' = session /\ expires' = expires) \/ version' > version
    BY <2>3, <2>0 DEF ChangeStep, ChangeBegin, ChangeCheck, ChangeCommit, SetPassword
  <2>4. ASSUME NEW q \in Requests, OpenSession(q)
        PROVE  Valid(s)' \/ now' >= expires[s]
    <3>1. /\ session' = [session EXCEPT ![q] = "open"]
          /\ expires' = [expires EXCEPT ![q] = now + Life]
          /\ now' = now
      BY <2>4 DEF OpenSession, attemptVars
    <3>2. session'[s] = "open" BY <3>1, <2>0
    <3>3. expires'[s] > now' BY <3>1, <2>0, SessionsAssumption
    <3> QED BY <3>2, <3>3 DEF Valid
  <2>5. ASSUME NEW q \in Requests, DeleteExpired(q)
        PROVE  Valid(s)'
    <3>1. s \notin Expired /\ now' = now
      BY <2>5, <2>0 DEF Expired, DeleteExpired, attemptVars
    <3>2. session'[s] = session[s] /\ expires'[s] = expires[s]
      BY <2>5, <3>1 DEF DeleteExpired
    <3> QED BY <3>1, <3>2, <2>0 DEF Valid
  <2>6. ASSUME NEW q \in Requests, Logout(q)
        PROVE  Valid(s)' \/ (session' = [session EXCEPT ![s] = "gone"] /\ UNCHANGED pc)
    BY <2>6, <2>0 DEF Logout, Valid, attemptVars
  <2>7. CASE ResetPassword BY <2>7, <2>0 DEF ResetPassword, SetPassword
  <2>8. CASE Restart \/ Clock \/ \E ip \in Addrs : TurnedAway(ip)
    BY <2>8, <2>1 DEF Restart, Clock, TurnedAway
  <2> QED BY <2>1, <2>2, <2>3, <2>4, <2>5, <2>6, <2>7, <2>8 DEF Next
<1> QED BY <1>1, SessionsInvariant, PTL DEF Spec, SessionsLast
=============================================================================
