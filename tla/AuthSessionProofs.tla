-------------------------- MODULE AuthSessionProofs --------------------------
(***************************************************************************)
(* Proofs about AuthSession for any number of devices, tokens and codes.   *)
(*                                                                         *)
(* That a device keeps its session needs two things more than it says:     *)
(* what the one refresh under way carries, and that no token is held by    *)
(* two devices, so that nothing a device does ends the session of another. *)
(***************************************************************************)
EXTENDS AuthSession, TLAPS

\* A token is one device's.
Exclusive ==
  \A t \in Tokens, d, e \in Devices : Holds(d, t) /\ Holds(e, t) => d = e

\* Where a session may be while nothing is done on the screen.
Kept(d) ==
  \/ flight[d] = {} /\ stored[d] \in Tokens /\ Live(stored[d])
  \/ \E t \in Tokens : /\ flight[d] = {[step |-> "sent", token |-> t]}
                       /\ stored[d] = t
                       /\ Live(t)
  \/ \E t \in Tokens : flight[d] = {[step |-> "granted", token |-> t]} /\ Live(t)

DeviceFits(d) ==
  signedIn[d] /\ ~disturbed[d] => IF screen[d] = Idle THEN Kept(d) ELSE flight[d] = {}

AuthInv ==
  /\ TypeOK
  /\ OneSessionPerLogin
  /\ ChangeEndsSessions
  /\ OneOpenCode
  /\ Exclusive
  /\ \A d \in Devices : DeviceFits(d)

\* The fields of what a device sends or shows.
LEMMA FlightFields ==
  ASSUME TypeOK, NEW d \in Devices, NEW f \in flight[d]
  PROVE  /\ f \in Flights
         /\ f.step \in {"sent", "granted"} => f.token \in Tokens
         /\ f.step = "denied" => f.token = NoToken
         /\ f.step \in {"sent", "granted", "denied"}
  BY DEF TypeOK, Flights

LEMMA ScreenFields ==
  ASSUME TypeOK, NEW d \in Devices
  PROVE  /\ screen[d].task \in {"opened", "logout"} => screen[d].token \in Tokens
         /\ screen[d] = Idle => screen[d].task = "idle"
  BY DEF TypeOK, Tasks, Idle

\* A row that lives has its columns, and Dead is none of them.
LEMMA LiveRows ==
  ASSUME TypeOK, NEW t \in Tokens
  PROVE  /\ Live(t) => session[t] \in Sessions
         /\ Dead \notin Sessions
<1>1. \A s \in Sessions : s.root \in Tokens
  BY DEF Sessions
<1>2. Dead.root = NoToken
  BY DEF Dead
<1> QED
  BY <1>1, <1>2, AuthAssumption DEF TypeOK, Live, AuthAssumption

------------------------------------------------------------------------------

\* What a step may do to the sessions.
Opens(t) ==
  /\ Fresh(t)
  /\ session' = [session EXCEPT ![t] = Opened(t, changes)]
  /\ changes' = changes

Closes ==
  /\ session' = session \/ \E t \in Tokens : session' = Revoked(t)
  /\ changes' = changes

\* A change leaves one session at most, a new one.
Changes ==
  /\ changes < MaxChanges
  /\ changes' = changes + 1
  /\ \/ session' = AllClosed
     \/ \E t \in Tokens : session' = [AllClosed EXCEPT ![t] = Opened(t, changes + 1)]

HandsOver(s, t) ==
  /\ Live(s) /\ Fresh(t)
  /\ session' = Rotated(s, t)
  /\ changes' = changes

\* Every step opens a session, hands one over, closes one or closes all.
LEMMA SessionSteps ==
  ASSUME TypeOK, [Next]_vars
  PROVE  \/ Closes \/ Changes
         \/ \E t \in Tokens : Opens(t)
         \/ \E s, t \in Tokens : HandsOver(s, t)
<1>1. ASSUME NEW d \in Devices, Screen(d)
      PROVE  Closes \/ Changes \/ \E t \in Tokens : Opens(t)
  <2>1. ASSUME NEW t \in Tokens, OpenSession(d, t) PROVE Opens(t)
    BY <2>1, ScreenFields DEF OpenSession, Opens
  <2>2. ASSUME NEW t \in Tokens, ChangePassword(d, t) PROVE Changes
    BY <2>2 DEF ChangePassword, Changes
  <2>3. CASE VerifyPassword(d) \/ StoreOpened(d) \/ LoseReply(d) \/ StartLogout(d) \/ EndLogout(d)
    BY <2>3 DEF VerifyPassword, StoreOpened, LoseReply, StartLogout, EndLogout, Closes, server
  <2>4. CASE ServeLogout(d)
    BY <2>4, ScreenFields DEF ServeLogout, Closes
  <2> QED
    BY <1>1, <2>1, <2>2, <2>3, <2>4 DEF Screen
<1>2. ASSUME NEW d \in Devices, Refresh(d)
      PROVE  Closes \/ \E s, t \in Tokens : HandsOver(s, t)
  <2>1. ASSUME NEW f \in flight[d], NEW t \in Tokens, ServeRefresh(d, f, t)
        PROVE  \E s \in Tokens : HandsOver(s, t)
    BY <2>1, FlightFields DEF ServeRefresh, HandsOver
  <2>2. ASSUME NEW f \in flight[d],
               RefuseRefresh(d, f) \/ FailRefresh(d, f) \/ EndRefresh(d, f) \/ LoseRefresh(d, f)
        PROVE  Closes
    BY <2>2 DEF RefuseRefresh, FailRefresh, EndRefresh, LoseRefresh, Closes, server
  <2>3. CASE StartRefresh(d)
    BY <2>3 DEF StartRefresh, Closes, server
  <2> QED
    BY <1>2, <2>1, <2>2, <2>3 DEF Refresh
<1>3. ASSUME NEW c \in Codes,
             IssueCode(c) \/ ExpireCode(c) \/ ResetPassword(c) \/ RefuseReset(c)
      PROVE  Closes \/ Changes
  BY <1>3 DEF IssueCode, ExpireCode, ResetPassword, RefuseReset, Closes, Changes
<1>4. ASSUME NEW t \in Tokens, ExpireSession(t) PROVE Closes
  BY <1>4 DEF ExpireSession, Closes
<1>5. CASE UNCHANGED vars
  BY <1>5 DEF vars, Closes
<1> QED
  BY <1>1, <1>2, <1>3, <1>4, <1>5 DEF Next

SessionsFit ==
  /\ session \in [Tokens -> Sessions \cup {Dead}]
  /\ changes \in 0..MaxChanges
  /\ OneSessionPerLogin /\ ChangeEndsSessions

\* The table of sessions keeps its type, its one session per login, and no
\* session opened before the last change of the password.
LEMMA SessionsKept ==
  ASSUME AuthInv, [Next]_vars
  PROVE  SessionsFit'
<1> USE DEF SessionsFit
<1>1. session \in [Tokens -> Sessions \cup {Dead}] /\ TypeOK /\ changes \in 0..MaxChanges
  BY DEF AuthInv, TypeOK
<1>2. \A t \in Tokens, age \in 0..MaxChanges :
        Opened(t, age) \in Sessions /\ Opened(t, age).root = t /\ Opened(t, age).opened = age
  BY DEF Opened, Sessions
<1>3. CASE Closes
  <2>1. CASE session' = session /\ changes' = changes
    BY <1>1, <2>1 DEF AuthInv, OneSessionPerLogin, ChangeEndsSessions, Live
  <2>2. ASSUME NEW t \in Tokens, session' = Revoked(t), changes' = changes PROVE SessionsFit'
    <3>1. \A x \in Tokens : session'[x] = IF x = t THEN Dead ELSE session[x]
      BY <1>1, <2>2 DEF Revoked
    <3>2. session' \in [Tokens -> Sessions \cup {Dead}]
      BY <1>1, <2>2 DEF Revoked
    <3>3. OneSessionPerLogin'
      BY <3>1 DEF AuthInv, OneSessionPerLogin, Live
    <3>4. ChangeEndsSessions'
      BY <2>2, <3>1 DEF AuthInv, ChangeEndsSessions, Live
    <3> QED
      BY <1>1, <2>2, <3>2, <3>3, <3>4
  <2> QED
    BY <1>3, <2>1, <2>2 DEF Closes
<1>4. CASE Changes
  <2>1. changes + 1 \in 0..MaxChanges /\ changes' = changes + 1
    BY <1>1, <1>4, AuthAssumption DEF Changes, AuthAssumption
  <2>2. CASE session' = AllClosed
    BY <2>1, <2>2 DEF AllClosed, OneSessionPerLogin, ChangeEndsSessions, Live
  <2>3. ASSUME NEW t \in Tokens, session' = [AllClosed EXCEPT ![t] = Opened(t, changes + 1)]
        PROVE  SessionsFit'
    <3>1. \A x \in Tokens : session'[x] = IF x = t THEN Opened(t, changes + 1) ELSE Dead
      BY <2>3 DEF AllClosed
    <3>2. session' \in [Tokens -> Sessions \cup {Dead}]
      BY <1>2, <2>1, <2>3 DEF AllClosed
    <3>3. OneSessionPerLogin' /\ ChangeEndsSessions'
      BY <1>2, <2>1, <3>1 DEF OneSessionPerLogin, ChangeEndsSessions, Live
    <3> QED
      BY <2>1, <3>2, <3>3
  <2> QED
    BY <1>4, <2>2, <2>3 DEF Changes
<1>5. ASSUME NEW t \in Tokens, Opens(t) PROVE SessionsFit'
  <2>1. \A s \in Tokens : Live(s) => session[s].root # t
    BY <1>5 DEF Opens, Fresh
  <2>2. \A s \in Tokens : session'[s] = IF s = t THEN Opened(t, changes) ELSE session[s]
    BY <1>1, <1>5 DEF Opens
  <2>3. session' \in [Tokens -> Sessions \cup {Dead}] /\ changes' = changes
    BY <1>1, <1>2, <1>5 DEF Opens
  <2>4. OneSessionPerLogin'
    BY <1>1, <1>2, <2>1, <2>2 DEF AuthInv, OneSessionPerLogin, Live
  <2>5. ChangeEndsSessions'
    BY <1>1, <1>2, <2>2, <2>3 DEF AuthInv, ChangeEndsSessions, Live
  <2> QED
    BY <1>1, <2>3, <2>4, <2>5
<1>6. ASSUME NEW s \in Tokens, NEW t \in Tokens, HandsOver(s, t) PROVE SessionsFit'
  <2>1. s # t /\ Live(s) /\ changes' = changes
    BY <1>6 DEF HandsOver, Fresh
  <2>2. \A x \in Tokens : session'[x] = IF x = t THEN session[s]
                                        ELSE IF x = s THEN Dead ELSE session[x]
    BY <1>1, <1>6, <2>1 DEF HandsOver, Rotated, Revoked
  <2>3. session' \in [Tokens -> Sessions \cup {Dead}]
    BY <1>1, <1>6 DEF HandsOver, Rotated, Revoked
  <2>4. OneSessionPerLogin'
    BY <2>1, <2>2 DEF AuthInv, OneSessionPerLogin, Live
  <2>5. ChangeEndsSessions'
    BY <2>1, <2>2 DEF AuthInv, ChangeEndsSessions, Live
  <2> QED
    BY <1>1, <2>1, <2>3, <2>4, <2>5
<1> QED
  BY <1>1, <1>3, <1>4, <1>5, <1>6, SessionSteps

\* Only the code sent last is open.
LEMMA CodesKept ==
  ASSUME AuthInv, [Next]_vars
  PROVE  code' \in [Codes -> {"spent", "open", "expired"}] /\ OneOpenCode'
<1> USE DEF AuthInv, TypeOK, OneOpenCode
<1>1. ASSUME NEW c \in Codes,
             IssueCode(c) \/ ExpireCode(c) \/ ResetPassword(c) \/ RefuseReset(c)
      PROVE  code' \in [Codes -> {"spent", "open", "expired"}] /\ OneOpenCode'
  BY <1>1 DEF IssueCode, ExpireCode, ResetPassword, RefuseReset, OnlyCode
<1>2. ASSUME NEW d \in Devices, Screen(d) \/ Refresh(d) PROVE UNCHANGED code
  BY <1>2 DEF Screen, Refresh, VerifyPassword, OpenSession, ChangePassword, StoreOpened,
     LoseReply, StartLogout, ServeLogout, EndLogout, StartRefresh, ServeRefresh,
     RefuseRefresh, FailRefresh, EndRefresh, LoseRefresh, server
<1>3. ASSUME NEW t \in Tokens, ExpireSession(t) PROVE UNCHANGED code
  BY <1>3 DEF ExpireSession
<1>4. CASE UNCHANGED vars
  BY <1>4 DEF vars
<1>5. UNCHANGED code => code' \in [Codes -> {"spent", "open", "expired"}] /\ OneOpenCode'
  OBVIOUS
<1> QED
  BY <1>1, <1>2, <1>3, <1>4, <1>5 DEF Next

------------------------------------------------------------------------------

\* What a step of one device leaves of the others, and keeps of its own.
Others(e) ==
  \A d \in Devices \ {e} :
    /\ stored'[d] = stored[d]
    /\ flight'[d] = flight[d]
    /\ signedIn'[d] = signedIn[d]
    /\ screen'[d] = screen[d]
    /\ disturbed[d] => disturbed'[d]
    /\ \A t \in Tokens : Holds(d, t) /\ Live(t) => Live(t)' \/ disturbed'[d]

Local(e) ==
  /\ \A t \in Tokens : Holds(e, t)' => Holds(e, t) \/ Fresh(t)
  /\ DeviceFits(e)'
  /\ Others(e)

\* What is stored, under way and shown keeps its type.
LEMMA ScreenTyped ==
  ASSUME TypeOK, NEW e \in Devices, Screen(e)
  PROVE  /\ stored' \in [Devices -> Tokens \cup {NoToken}]
         /\ flight' \in [Devices -> SUBSET Flights]
         /\ screen' \in [Devices -> Tasks]
         /\ signedIn' \in [Devices -> BOOLEAN]
         /\ disturbed' \in [Devices -> BOOLEAN]
<1> USE DEF TypeOK, Show, Disturb
<1>1. \A t \in Tokens : [task |-> "opened", token |-> t] \in Tasks
                         /\ [task |-> "logout", token |-> t] \in Tasks
  BY DEF Tasks
<1>3. Idle \in Tasks /\ [task |-> "login"] \in Tasks /\ [task |-> "clear"] \in Tasks
  BY DEF Tasks
<1>4. CASE VerifyPassword(e) \/ LoseReply(e) \/ ServeLogout(e) \/ EndLogout(e)
  BY <1>3, <1>4, ZenonT(40) DEF VerifyPassword, LoseReply, ServeLogout, EndLogout, history
<1>5. ASSUME NEW t \in Tokens, OpenSession(e, t) PROVE screen' \in [Devices -> Tasks]
  BY <1>1, <1>5 DEF OpenSession
<1>6. CASE StoreOpened(e)
  BY <1>3, <1>6, ScreenFields DEF StoreOpened
<1>7. CASE StartLogout(e)
  BY <1>1, <1>7 DEF StartLogout, HasToken
<1>9. ASSUME NEW t \in Tokens, ChangePassword(e, t) PROVE screen' \in [Devices -> Tasks]
  BY <1>1, <1>9 DEF ChangePassword
<1> QED
  BY <1>4, <1>5, <1>6, <1>7, <1>9 DEF Screen, OpenSession, ChangePassword, history

LEMMA RefreshTyped ==
  ASSUME TypeOK, NEW e \in Devices, Refresh(e)
  PROVE  /\ stored' \in [Devices -> Tokens \cup {NoToken}]
         /\ flight' \in [Devices -> SUBSET Flights]
         /\ screen' \in [Devices -> Tasks]
         /\ signedIn' \in [Devices -> BOOLEAN]
         /\ disturbed' \in [Devices -> BOOLEAN]
<1> USE DEF TypeOK, Answer, Disturb
<1>1. \A t \in Tokens : [step |-> "sent", token |-> t] \in Flights
                         /\ [step |-> "granted", token |-> t] \in Flights
  BY DEF Flights
<1>2. [step |-> "denied", token |-> NoToken] \in Flights
  BY DEF Flights
<1>3. CASE StartRefresh(e)
  BY <1>1, <1>3 DEF StartRefresh, HasToken
<1>4. ASSUME NEW f \in flight[e], NEW t \in Tokens, ServeRefresh(e, f, t)
      PROVE  flight' \in [Devices -> SUBSET Flights]
  BY <1>1, <1>4 DEF ServeRefresh
<1>5. ASSUME NEW f \in flight[e], RefuseRefresh(e, f) \/ FailRefresh(e, f)
      PROVE  flight' \in [Devices -> SUBSET Flights]
  BY <1>2, <1>5 DEF RefuseRefresh, FailRefresh
<1>6. ASSUME NEW f \in flight[e], EndRefresh(e, f)
      PROVE  /\ stored' \in [Devices -> Tokens \cup {NoToken}]
             /\ flight' \in [Devices -> SUBSET Flights]
  BY <1>6, FlightFields DEF EndRefresh
<1>7. ASSUME NEW f \in flight[e], LoseRefresh(e, f)
      PROVE  flight' \in [Devices -> SUBSET Flights]
  BY <1>7 DEF LoseRefresh
<1> QED
  BY <1>3, <1>4, <1>5, <1>6, <1>7
  DEF Refresh, ServeRefresh, RefuseRefresh, FailRefresh, EndRefresh, LoseRefresh, history

------------------------------------------------------------------------------

\* What the screen of a device does is its own affair, but for a change of the
\* password, which disturbs the others.
LEMMA ScreenLocal ==
  ASSUME AuthInv, NEW e \in Devices, Screen(e)
  PROVE  Local(e)
<1>1. TypeOK /\ DeviceFits(e)
  BY DEF AuthInv
<1>2. /\ stored \in [Devices -> Tokens \cup {NoToken}] /\ flight \in [Devices -> SUBSET Flights]
      /\ screen \in [Devices -> Tasks] /\ signedIn \in [Devices -> BOOLEAN]
      /\ disturbed \in [Devices -> BOOLEAN] /\ session \in [Tokens -> Sessions \cup {Dead}]
  BY DEF AuthInv, TypeOK
<1>3. Idle.task = "idle"
  BY DEF Idle
<1>4. CASE VerifyPassword(e)
  BY <1>1, <1>2, <1>3, <1>4
  DEF VerifyPassword, Show, Disturb, server, Local, Others, DeviceFits, Holds, Live
<1>5. ASSUME NEW t \in Tokens, OpenSession(e, t) PROVE Local(e)
  <2>1. \A x \in Tokens : Live(x) => Live(x)'
    <3>1. Opened(t, changes) # Dead
      BY <1>1, LiveRows DEF Opened, Sessions, TypeOK
    <3> QED
      BY <1>2, <1>5, <3>1 DEF OpenSession, Live
  <2>2. Others(e)
    BY <1>2, <1>5, <2>1 DEF OpenSession, Show, history, Others
  <2>3. \A x \in Tokens : Holds(e, x)' => Holds(e, x) \/ Fresh(x)
    BY <1>2, <1>5 DEF OpenSession, Show, Holds
  <2>4. DeviceFits(e)'
    BY <1>1, <1>2, <1>3, <1>5 DEF OpenSession, Show, history, DeviceFits, Idle
  <2> QED
    BY <2>2, <2>3, <2>4 DEF Local
<1>6. ASSUME NEW t \in Tokens, ChangePassword(e, t) PROVE Local(e)
  <2>1. Others(e)
    BY <1>2, <1>6 DEF ChangePassword, Show, Disturb, Others
  <2>2. \A x \in Tokens : Holds(e, x)' => Holds(e, x) \/ Fresh(x)
    BY <1>2, <1>6 DEF ChangePassword, Show, Holds
  <2>3. DeviceFits(e)'
    BY <1>2, <1>3, <1>6 DEF ChangePassword, Show, Disturb, DeviceFits, Idle
  <2> QED
    BY <2>1, <2>2, <2>3 DEF Local
<1>7. CASE StoreOpened(e)
  <2>1. screen[e].token \in Tokens
    BY <1>1, <1>7, ScreenFields DEF StoreOpened
  <2>2. Others(e)
    BY <1>2, <1>7 DEF StoreOpened, Show, server, Others, Live
  <2>3. \A x \in Tokens : Holds(e, x)' => Holds(e, x) \/ Fresh(x)
    BY <1>2, <1>3, <1>7 DEF StoreOpened, Show, Holds
  <2>4. DeviceFits(e)'
    BY <1>2, <1>7, <2>1 DEF StoreOpened, Show, server, DeviceFits, Kept, Live
  <2> QED
    BY <2>2, <2>3, <2>4 DEF Local
<1>8. CASE LoseReply(e)
  BY <1>2, <1>3, <1>8 DEF LoseReply, Show, Disturb, server, Local, Others, DeviceFits, Holds, Live
<1>9. CASE StartLogout(e)
  BY <1>1, <1>2, <1>3, <1>9
  DEF StartLogout, Show, Disturb, server, Local, Others, DeviceFits, Holds, Live
<1>10. CASE ServeLogout(e)
  <2>1. screen[e].token \in Tokens /\ Holds(e, screen[e].token) /\ screen[e] # Idle
    BY <1>1, <1>3, <1>10, ScreenFields DEF ServeLogout, Holds
  <2>2. \A x \in Tokens : Live(x) => Live(x)' \/ x = screen[e].token
    BY <1>2, <1>10 DEF ServeLogout, Revoked, Live
  <2>3. \A d \in Devices, x \in Tokens : Holds(d, x) /\ x = screen[e].token => d = e
    BY <2>1 DEF AuthInv, Exclusive
  <2>4. Others(e)
    BY <1>2, <1>10, <2>2, <2>3 DEF ServeLogout, Show, history, Others
  <2>5. \A x \in Tokens : Holds(e, x)' => Holds(e, x) \/ Fresh(x)
    BY <1>2, <1>10 DEF ServeLogout, Show, Holds
  <2>6. DeviceFits(e)'
    BY <1>1, <1>2, <1>3, <1>10, <2>1 DEF ServeLogout, Show, history, DeviceFits, Idle
  <2> QED
    BY <2>4, <2>5, <2>6 DEF Local
<1>11. CASE EndLogout(e)
  <2>1. Others(e)
    BY <1>2, <1>11 DEF EndLogout, Show, server, Others, Live
  <2>2. \A x \in Tokens : Holds(e, x)' => Holds(e, x) \/ Fresh(x)
    BY <1>2, <1>3, <1>11, AuthAssumption DEF EndLogout, Show, Holds, AuthAssumption
  <2>3. DeviceFits(e)'
    BY <1>2, <1>11 DEF EndLogout, DeviceFits
  <2> QED
    BY <2>1, <2>2, <2>3 DEF Local
<1> QED
  BY <1>4, <1>5, <1>6, <1>7, <1>8, <1>9, <1>10, <1>11 DEF Screen

\* The session a refresh revokes is the device's own.
LEMMA RefreshLocal ==
  ASSUME AuthInv, NEW e \in Devices, Refresh(e)
  PROVE  Local(e)
<1>1. TypeOK /\ DeviceFits(e)
  BY DEF AuthInv
<1>2. /\ stored \in [Devices -> Tokens \cup {NoToken}] /\ flight \in [Devices -> SUBSET Flights]
      /\ screen \in [Devices -> Tasks] /\ signedIn \in [Devices -> BOOLEAN]
      /\ disturbed \in [Devices -> BOOLEAN] /\ session \in [Tokens -> Sessions \cup {Dead}]
  BY DEF AuthInv, TypeOK
<1>3. CASE StartRefresh(e)
  <2>1. Others(e)
    BY <1>2, <1>3 DEF StartRefresh, Disturb, server, Others, Live
  <2>2. \A x \in Tokens : Holds(e, x)' => Holds(e, x) \/ Fresh(x)
    BY <1>2, <1>3 DEF StartRefresh, NoneInFlight, Holds
  <2>3. DeviceFits(e)'
    <3>1. flight'[e] = {[step |-> "sent", token |-> stored[e]]}
      BY <1>2, <1>3 DEF StartRefresh, NoneInFlight
    <3>2. stored'[e] = stored[e] /\ stored[e] \in Tokens /\ session' = session /\ screen' = screen
      BY <1>2, <1>3 DEF StartRefresh, HasToken, server
    <3>3. ASSUME signedIn'[e], ~disturbed'[e] PROVE screen[e] = Idle /\ Kept(e)'
      <4>1. screen[e] = Idle /\ ~disturbed[e] /\ signedIn[e]
        BY <1>2, <1>3, <3>3 DEF StartRefresh, Disturb
      <4>2. Live(stored[e])
        BY <1>1, <1>3, <4>1 DEF DeviceFits, Kept, StartRefresh, NoneInFlight
      <4> QED
        BY <3>1, <3>2, <4>1, <4>2 DEF Kept, Live
    <3> QED
      BY <3>2, <3>3 DEF DeviceFits
  <2> QED
    BY <2>1, <2>2, <2>3 DEF Local
<1>4. ASSUME NEW f \in flight[e], NEW t \in Tokens, ServeRefresh(e, f, t) PROVE Local(e)
  <2>1. f.token \in Tokens /\ f.token # t /\ Holds(e, f.token)
    BY <1>1, <1>4, FlightFields DEF ServeRefresh, Fresh, Holds
  <2>2. \A x \in Tokens : session'[x] = IF x = t THEN session[f.token]
                                        ELSE IF x = f.token THEN Dead ELSE session[x]
    BY <1>2, <1>4, <2>1 DEF ServeRefresh, Rotated, Revoked
  <2>3. \A d \in Devices, x \in Tokens : Holds(d, x) /\ x = f.token => d = e
    BY <2>1 DEF AuthInv, Exclusive
  <2>4. flight' = [flight EXCEPT ![e] = (@ \ {f}) \cup {[step |-> "granted", token |-> t]}]
    BY <1>4 DEF ServeRefresh, Answer
  <2>5. UNCHANGED <<code, stored, screen, history>> /\ Fresh(t) /\ Live(f.token) /\ f.step = "sent"
    BY <1>4 DEF ServeRefresh
  <2>6. Others(e)
    BY <1>2, <2>2, <2>3, <2>4, <2>5 DEF history, Others, Live
  <2>7. \A x \in Tokens : Holds(e, x)' => Holds(e, x) \/ Fresh(x)
    BY <1>2, <2>4, <2>5 DEF Holds
  <2>8. DeviceFits(e)'
    <3>1. ASSUME signedIn'[e], ~disturbed'[e] PROVE screen[e] = Idle /\ Kept(e)'
      <4>1. screen[e] = Idle /\ flight[e] = {f}
        BY <1>1, <1>4, <2>5, <3>1 DEF DeviceFits, Kept, history
      <4>2. flight'[e] = {[step |-> "granted", token |-> t]}
        BY <1>2, <2>4, <4>1
      <4>3. Live(t)'
        BY <2>2, <2>5 DEF Live
      <4> QED
        BY <4>1, <4>2, <4>3 DEF Kept
    <3> QED
      BY <2>5, <3>1 DEF DeviceFits
  <2> QED
    BY <2>6, <2>7, <2>8 DEF Local
<1>5. ASSUME NEW f \in flight[e], RefuseRefresh(e, f) PROVE Local(e)
  <2>1. Others(e)
    BY <1>2, <1>5 DEF RefuseRefresh, Answer, server, history, Others, Live
  <2>2. \A x \in Tokens : Holds(e, x)' => Holds(e, x) \/ Fresh(x)
    BY <1>2, <1>5, AuthAssumption DEF RefuseRefresh, Answer, Holds, AuthAssumption
  <2>3. ~(signedIn[e] /\ ~disturbed[e])
    BY <1>1, <1>5 DEF RefuseRefresh, DeviceFits, Kept
  <2> QED
    BY <1>5, <2>1, <2>2, <2>3 DEF RefuseRefresh, history, DeviceFits, Local
<1>6. ASSUME NEW f \in flight[e], FailRefresh(e, f) PROVE Local(e)
  <2>1. Others(e)
    BY <1>2, <1>6 DEF FailRefresh, Answer, Disturb, server, Others, Live
  <2>2. \A x \in Tokens : Holds(e, x)' => Holds(e, x) \/ Fresh(x)
    BY <1>2, <1>6, AuthAssumption DEF FailRefresh, Answer, Holds, AuthAssumption
  <2> QED
    BY <1>2, <1>6, <2>1, <2>2 DEF FailRefresh, Disturb, DeviceFits, Local
<1>7. ASSUME NEW f \in flight[e], EndRefresh(e, f) PROVE Local(e)
  <2>1. Others(e)
    BY <1>2, <1>7 DEF EndRefresh, server, history, Others, Live
  <2>2. \A x \in Tokens : Holds(e, x)' => Holds(e, x) \/ Fresh(x)
    BY <1>2, <1>7 DEF EndRefresh, Holds
  <2>3. DeviceFits(e)'
    <3>1. ASSUME signedIn'[e], ~disturbed'[e] PROVE screen[e] = Idle /\ Kept(e)'
      <4>1. screen[e] = Idle /\ Kept(e) /\ flight[e] # {}
        BY <1>1, <1>7, <3>1 DEF EndRefresh, history, DeviceFits
      <4>2. PICK t \in Tokens : flight[e] = {f} /\ f.token = t /\ Live(t)
        BY <1>7, <4>1 DEF Kept, EndRefresh
      <4>3. flight'[e] = {} /\ stored'[e] = t /\ session' = session
        BY <1>2, <1>7, <4>2 DEF EndRefresh, server
      <4> QED
        BY <4>1, <4>2, <4>3 DEF Kept, Live
    <3> QED
      BY <1>7, <3>1 DEF EndRefresh, DeviceFits
  <2> QED
    BY <2>1, <2>2, <2>3 DEF Local
<1>8. ASSUME NEW f \in flight[e], LoseRefresh(e, f) PROVE Local(e)
  <2>1. Others(e)
    BY <1>2, <1>8 DEF LoseRefresh, Disturb, server, Others, Live
  <2>2. \A x \in Tokens : Holds(e, x)' => Holds(e, x) \/ Fresh(x)
    BY <1>2, <1>8 DEF LoseRefresh, Holds
  <2>3. DeviceFits(e)'
    <3>1. ASSUME signedIn'[e], ~disturbed'[e] PROVE screen[e] = Idle /\ Kept(e)'
      <4>1. signedIn[e] /\ ~disturbed[e] /\ f.step = "sent"
        BY <1>2, <1>8, <3>1 DEF LoseRefresh, Disturb
      <4>2. screen[e] = Idle /\ Kept(e) /\ flight[e] # {}
        BY <1>1, <1>8, <4>1 DEF DeviceFits
      <4>3. PICK t \in Tokens : flight[e] = {f} /\ stored[e] = t /\ Live(t)
        BY <1>8, <4>1, <4>2 DEF Kept
      <4>4. flight'[e] = {} /\ stored' = stored /\ session' = session
        BY <1>2, <1>8, <4>3 DEF LoseRefresh, server
      <4> QED
        BY <4>2, <4>3, <4>4 DEF Kept, Live
    <3> QED
      BY <1>8, <3>1 DEF LoseRefresh, DeviceFits
  <2> QED
    BY <2>1, <2>2, <2>3 DEF Local
<1> QED
  BY <1>3, <1>4, <1>5, <1>6, <1>7, <1>8 DEF Refresh

------------------------------------------------------------------------------

\* A device whose sessions live, or that was disturbed, fits as before.
LEMMA StillFits ==
  ASSUME AuthInv, NEW d \in Devices,
         stored'[d] = stored[d], flight'[d] = flight[d], signedIn'[d] = signedIn[d],
         screen'[d] = screen[d],
         disturbed[d] => disturbed'[d],
         \A t \in Tokens : Holds(d, t) /\ Live(t) => Live(t)' \/ disturbed'[d]
  PROVE  DeviceFits(d)'
<1>1. DeviceFits(d)
  BY DEF AuthInv
<1>2. ASSUME Kept(d), ~disturbed'[d] PROVE Kept(d)'
  <2>1. PICK t \in Tokens :
          /\ Live(t)
          /\ \/ flight[d] = {} /\ stored[d] = t
             \/ flight[d] = {[step |-> "sent", token |-> t]} /\ stored[d] = t
             \/ flight[d] = {[step |-> "granted", token |-> t]}
    BY <1>2 DEF Kept
  <2>2. Holds(d, t)
    <3>1. [step |-> "granted", token |-> t].token = t
      OBVIOUS
    <3> QED
      BY <2>1, <3>1 DEF Holds
  <2>3. Live(t)'
    BY <1>2, <2>1, <2>2
  <2> QED
    BY <2>1, <2>3 DEF Kept
<1> QED
  BY <1>1, <1>2 DEF DeviceFits

\* What is local keeps every device's share of the invariant.
LEMMA LocalKeeps ==
  ASSUME AuthInv, NEW e \in Devices, Local(e)
  PROVE  Exclusive' /\ \A d \in Devices : DeviceFits(d)'
<1>1. TypeOK
  BY DEF AuthInv
<1>2. ASSUME NEW d \in Devices \ {e}, NEW t \in Tokens PROVE Holds(d, t)' = Holds(d, t)
  BY DEF Local, Others, Holds
<1>3. ASSUME NEW t \in Tokens, NEW c \in Devices, NEW d \in Devices, Holds(c, t)', Holds(d, t)'
      PROVE  c = d
  <2>1. \A x \in Devices \ {e} : Holds(x, t)' => Holds(x, t) /\ ~Fresh(t)
    BY <1>2 DEF Fresh
  <2>2. Holds(e, t)' => Holds(e, t) \/ Fresh(t)
    BY DEF Local
  <2> QED
    BY <1>3, <2>1, <2>2 DEF AuthInv, Exclusive
<1>4. ASSUME NEW d \in Devices \ {e} PROVE DeviceFits(d)'
  BY <1>4, StillFits DEF Local, Others
<1>5. Exclusive'
  BY <1>3 DEF Exclusive
<1> QED
  BY <1>4, <1>5 DEF Local

\* So does what is no device's doing: a reset disturbs all of them, an expiry
\* those that counted on the session.
LEMMA ServerKeeps ==
  ASSUME AuthInv,
         \/ \E c \in Codes : IssueCode(c) \/ ExpireCode(c) \/ ResetPassword(c) \/ RefuseReset(c)
         \/ \E t \in Tokens : ExpireSession(t)
  PROVE  /\ stored' = stored /\ flight' = flight /\ signedIn' = signedIn
         /\ screen' = screen /\ disturbed' \in [Devices -> BOOLEAN]
         /\ Exclusive' /\ \A d \in Devices : DeviceFits(d)'
<1>1. TypeOK
  BY DEF AuthInv
<1>2. /\ stored' = stored /\ flight' = flight /\ signedIn' = signedIn
      /\ screen' = screen
      /\ \A d \in Devices : disturbed[d] => disturbed'[d]
  BY <1>1 DEF IssueCode, ExpireCode, ResetPassword, RefuseReset, ExpireSession, Disturb, history, TypeOK
<1>3. ASSUME NEW d \in Devices, NEW t \in Tokens, Holds(d, t), Live(t)
      PROVE  Live(t)' \/ disturbed'[d]
  <2>1. CASE session' = session
    BY <1>3, <2>1 DEF Live
  <2>2. CASE \E c \in Codes : ResetPassword(c)
    BY <2>2 DEF ResetPassword, Disturb
  <2>3. ASSUME NEW s \in Tokens, ExpireSession(s) PROVE Live(t)' \/ disturbed'[d]
    <3>1. s = t \/ session'[t] = session[t]
      BY <1>1, <2>3 DEF ExpireSession, Revoked, TypeOK
    <3>2. s = t => disturbed'[d]
      BY <1>3, <2>3 DEF ExpireSession, Disturb
    <3> QED
      BY <1>3, <3>1, <3>2 DEF Live
  <2> QED
    BY <2>1, <2>2, <2>3 DEF IssueCode, ExpireCode, RefuseReset
<1>4. ASSUME NEW d \in Devices PROVE DeviceFits(d)'
  BY <1>2, <1>3, StillFits
<1>5. \A d \in Devices, t \in Tokens : Holds(d, t)' = Holds(d, t)
  BY <1>2 DEF Holds
<1>6. Exclusive'
  BY <1>5 DEF AuthInv, Exclusive
<1>7. disturbed' \in [Devices -> BOOLEAN]
  <2>1. disturbed' = disturbed \/ \E who : disturbed' = [d \in Devices |-> disturbed[d] \/ d \in who]
    BY DEF IssueCode, ExpireCode, ResetPassword, RefuseReset, ExpireSession, Disturb, history
  <2> QED
    BY <1>1, <2>1 DEF TypeOK
<1> QED
  BY <1>2, <1>4, <1>6, <1>7

------------------------------------------------------------------------------

LEMMA InitKeeps == Init => AuthInv
<1> SUFFICES ASSUME Init PROVE AuthInv
  OBVIOUS
<1>1. TypeOK
  BY AuthAssumption DEF Init, TypeOK, Tasks, AuthAssumption
<1>2. OneSessionPerLogin /\ ChangeEndsSessions /\ OneOpenCode
  BY DEF Init, OneSessionPerLogin, ChangeEndsSessions, OneOpenCode, Live
<1>3. Exclusive
  BY AuthAssumption DEF Init, Exclusive, Holds, Idle, AuthAssumption
<1>4. \A d \in Devices : DeviceFits(d)
  BY DEF Init, DeviceFits
<1> QED
  BY <1>1, <1>2, <1>3, <1>4 DEF AuthInv

LEMMA NextKeeps == AuthInv /\ [Next]_vars => AuthInv'
<1> SUFFICES ASSUME AuthInv, [Next]_vars PROVE AuthInv'
  OBVIOUS
<1>1. TypeOK
  BY DEF AuthInv
<1>2. /\ session' \in [Tokens -> Sessions \cup {Dead}] /\ changes' \in 0..MaxChanges
      /\ OneSessionPerLogin' /\ ChangeEndsSessions'
      /\ code' \in [Codes -> {"spent", "open", "expired"}] /\ OneOpenCode'
  BY SessionsKept, CodesKept DEF SessionsFit
<1> DEFINE Rest == /\ stored' \in [Devices -> Tokens \cup {NoToken}]
                   /\ flight' \in [Devices -> SUBSET Flights]
                   /\ screen' \in [Devices -> Tasks]
                   /\ signedIn' \in [Devices -> BOOLEAN]
                   /\ disturbed' \in [Devices -> BOOLEAN]
                   /\ Exclusive' /\ \A d \in Devices : DeviceFits(d)'
<1>3. ASSUME NEW e \in Devices, Screen(e) PROVE Rest
  BY <1>1, <1>3, ScreenTyped, ScreenLocal, LocalKeeps
<1>4. ASSUME NEW e \in Devices, Refresh(e) PROVE Rest
  BY <1>1, <1>4, RefreshTyped, RefreshLocal, LocalKeeps
<1>5. ASSUME \/ \E c \in Codes : IssueCode(c) \/ ExpireCode(c) \/ ResetPassword(c) \/ RefuseReset(c)
             \/ \E t \in Tokens : ExpireSession(t)
      PROVE  Rest
  BY <1>1, <1>5, ServerKeeps DEF TypeOK
<1>6. ASSUME UNCHANGED vars PROVE Rest
  <2>1. /\ stored' = stored /\ flight' = flight /\ screen' = screen /\ session' = session
        /\ signedIn' = signedIn /\ disturbed' = disturbed
    BY <1>6 DEF vars
  <2>2. Exclusive'
    BY <2>1 DEF AuthInv, Exclusive, Holds
  <2>3. \A d \in Devices : DeviceFits(d)'
    BY <2>1 DEF AuthInv, DeviceFits, Kept, Live
  <2> QED
    BY <1>1, <2>1, <2>2, <2>3 DEF TypeOK
<1>7. Rest
  <2> HIDE DEF Rest
  <2> QED
    BY <1>3, <1>4, <1>5, <1>6 DEF Next
<1> QED
  BY <1>2, <1>7 DEF AuthInv, TypeOK

\* The inductive invariant: tokens are one device's, and a device at rest holds
\* a live session or waits for one.
THEOREM AuthInvariant == Spec => []AuthInv
  BY InitKeeps, NextKeeps, PTL DEF Spec

\* The tables and the devices keep their types.
THEOREM AuthTyped == Spec => []TypeOK
<1>1. AuthInv => TypeOK
  BY DEF AuthInv
<1> QED
  BY <1>1, AuthInvariant, PTL

\* One login has one live session, however often it is refreshed.
THEOREM OneSession == Spec => []OneSessionPerLogin
<1>1. AuthInv => OneSessionPerLogin
  BY DEF AuthInv
<1> QED
  BY <1>1, AuthInvariant, PTL

\* A change or reset of the password ends every session opened before it,
\* whatever it was refreshed to.
THEOREM ChangesEnd == Spec => []ChangeEndsSessions
<1>1. AuthInv => ChangeEndsSessions
  BY DEF AuthInv
<1> QED
  BY <1>1, AuthInvariant, PTL

\* One reset code at most is open.
THEOREM OneCode == Spec => []OneOpenCode
<1>1. AuthInv => OneOpenCode
  BY DEF AuthInv
<1> QED
  BY <1>1, AuthInvariant, PTL

\* A device's own refreshes never sign it out.
THEOREM RefreshKeepsSession == Spec => []OwnRefreshKeepsSession
<1>1. AuthInv => OwnRefreshKeepsSession
  <2> SUFFICES ASSUME AuthInv, NEW d \in Devices, signedIn[d], ~disturbed[d],
                      flight[d] = {}, screen[d] = Idle
               PROVE  stored[d] # NoToken /\ Live(stored[d])
    BY DEF OwnRefreshKeepsSession
  <2>1. Kept(d)
    BY DEF AuthInv, DeviceFits
  <2> QED
    BY <2>1, AuthAssumption DEF Kept, AuthAssumption
<1> QED
  BY <1>1, AuthInvariant, PTL

==============================================================================
