----------------------------- MODULE AuthSession -----------------------------
(***************************************************************************)
(* One user's refresh sessions: src/analysis/local_auth.py and             *)
(* src/analysis/account_ops_local.py on the server, and the devices that   *)
(* hold the tokens, src/mobile/src/lib/auth-session.ts.                    *)
(*                                                                         *)
(* A device runs at most one refresh at a time beside whatever its screen  *)
(* is doing, and both write the same storage.  Requests and replies are    *)
(* separate steps.  On the server every request is one transaction, except *)
(* that a login checks the password before its transaction begins.         *)
(*                                                                         *)
(* Access tokens are checked without the database and stored together with *)
(* the refresh token, so they are left out; activity events too.  Tokens   *)
(* and codes are random: a dead one that nobody holds stands for a new one.*)
(***************************************************************************)
EXTENDS Naturals, FiniteSets

CONSTANTS Devices,
          Tokens,    \* refresh tokens; how many are held at once is the bound
          NoToken,
          Codes,     \* password reset codes
          MaxChanges \* bound: how often the password is changed or reset

ASSUME AuthAssumption == NoToken \notin Tokens /\ MaxChanges \in Nat

VARIABLES
  session,    \* refresh_sessions; missing, revoked and expired rows are Dead
  code,       \* password_reset_tokens
  stored,     \* AsyncStorage: the device's refreshToken
  flight,     \* the device's refreshes under way
  screen,     \* what the user has asked the device to do
  changes,    \* history: how often the password was changed or reset
  signedIn,   \* history: between a stored login and the end of a logout
  disturbed   \* history: the device's session met something it cannot mend

server  == <<session, code, changes>>
history == <<signedIn, disturbed>>
vars    == <<session, code, changes, stored, flight, screen, signedIn, disturbed>>

Dead == [root |-> NoToken]
Idle == [task |-> "idle"]

Live(t) == session[t] # Dead

\* The device still counts on token t.
Holds(d, t) ==
  \/ stored[d] = t
  \/ \E f \in flight[d] : f.token = t
  \/ screen[d].task \in {"opened", "logout"} /\ screen[d].token = t

\* A token that is dead, forgotten and no live session's first.
Fresh(t) ==
  /\ ~Live(t)
  /\ \A d \in Devices : ~Holds(d, t)
  /\ \A s \in Tokens : Live(s) => session[s].root # t

Init ==
  /\ session = [t \in Tokens |-> Dead]
  /\ code = [c \in Codes |-> "spent"]
  /\ changes = 0
  /\ stored = [d \in Devices |-> NoToken]
  /\ flight = [d \in Devices |-> {}]
  /\ screen = [d \in Devices |-> Idle]
  /\ signedIn = [d \in Devices |-> FALSE]
  /\ disturbed = [d \in Devices |-> FALSE]

HasToken(d) == stored[d] # NoToken

Show(d, next) == screen' = [screen EXCEPT ![d] = next]

Disturb(who) == disturbed' = [d \in Devices |-> disturbed[d] \/ d \in who]

Revoked(t) == [session EXCEPT ![t] = Dead]

\* A new session: its first token, and the password's age when it was opened.
Opened(t, age) == [root |-> t, opened |-> age]

------------------------------------------------------------------------------
(***************************************************************************)
(* Signing in and out.                                                     *)
(***************************************************************************)

\* POST /login: the password is compared with the hash just read.
VerifyPassword(d) ==
  /\ screen[d] = Idle
  /\ stored[d] = NoToken
  /\ Show(d, [task |-> "login"])
  /\ Disturb(IF flight[d] = {} THEN {} ELSE {d})
  /\ UNCHANGED <<server, stored, flight, signedIn>>

\* _auth_response: the session is inserted, whatever the password is by now.
OpenSession(d, t) ==
  /\ screen[d].task = "login"
  /\ Fresh(t)
  /\ session' = [session EXCEPT ![t] = Opened(t, changes)]
  /\ Show(d, [task |-> "opened", token |-> t])
  /\ UNCHANGED <<code, changes, stored, flight, history>>

\* storeAuthPayload, after a login or a change of password.
StoreOpened(d) ==
  /\ screen[d].task = "opened"
  /\ stored' = [stored EXCEPT ![d] = screen[d].token]
  /\ signedIn' = [signedIn EXCEPT ![d] = TRUE]
  /\ disturbed' = [disturbed EXCEPT ![d] =
       flight[d] # {} \/ ~Live(screen[d].token)]
  /\ Show(d, Idle)
  /\ UNCHANGED <<server, flight>>

\* The request or its reply is lost.
LoseReply(d) ==
  /\ screen[d].task \in {"login", "opened"}
  /\ Show(d, Idle)
  /\ Disturb({d})
  /\ UNCHANGED <<server, stored, flight, signedIn>>

\* logoutAndClearAuthSession: the token that is stored now is sent.
StartLogout(d) ==
  /\ screen[d] = Idle
  /\ HasToken(d)
  /\ Show(d, [task |-> "logout", token |-> stored[d]])
  /\ Disturb(IF flight[d] = {} THEN {} ELSE {d})
  /\ UNCHANGED <<server, stored, flight, signedIn>>

\* POST /logout, if it arrives.
ServeLogout(d) ==
  /\ screen[d].task = "logout"
  /\ session' \in {session, Revoked(screen[d].token)}
  /\ Show(d, [task |-> "clear"])
  /\ UNCHANGED <<code, changes, stored, flight, history>>

\* clearAuthSession, arrived or not.
EndLogout(d) ==
  /\ screen[d].task = "clear"
  /\ stored' = [stored EXCEPT ![d] = NoToken]
  /\ signedIn' = [signedIn EXCEPT ![d] = FALSE]
  /\ Show(d, Idle)
  /\ UNCHANGED <<server, flight, disturbed>>

------------------------------------------------------------------------------
(***************************************************************************)
(* Refreshing.                                                             *)
(***************************************************************************)

\* Mutant: every request that finds its access token expired refreshes it.
TwoAtOnce(d) == Cardinality(flight[d]) < 2

\* refreshInFlight.
NoneInFlight(d) == flight[d] = {}

\* refreshAccessToken reads the stored token and sends it.
StartRefresh(d) ==
  /\ NoneInFlight(d)
  /\ HasToken(d)
  /\ flight' = [flight EXCEPT ![d] = @ \cup {[step |-> "sent", token |-> stored[d]]}]
  /\ Disturb(IF screen[d] = Idle THEN {} ELSE {d})
  /\ UNCHANGED <<server, stored, screen, signedIn>>

Answer(d, f, step, t) ==
  flight' = [flight EXCEPT ![d] = (@ \ {f}) \cup {[step |-> step, token |-> t]}]

\* Mutant: the old token stays valid after a refresh.
Copied(old, new) == [session EXCEPT ![new] = session[old]]

\* The session is handed over to a new token.
Rotated(old, new) == [Revoked(old) EXCEPT ![new] = session[old]]

\* POST /refresh.
ServeRefresh(d, f, t) ==
  /\ f.step = "sent"
  /\ Live(f.token)
  /\ Fresh(t)
  /\ session' = Rotated(f.token, t)
  /\ Answer(d, f, "granted", t)
  /\ UNCHANGED <<code, changes, stored, screen, history>>

\* The token is unknown, revoked or expired; what the refusal of an expired one
\* writes is rolled back by the exception it raises.
RefuseRefresh(d, f) ==
  /\ f.step = "sent"
  /\ ~Live(f.token)
  /\ Answer(d, f, "denied", NoToken)
  /\ UNCHANGED <<server, stored, screen, history>>

\* A busy database or a proxy answers with an error of its own.
FailRefresh(d, f) ==
  /\ f.step = "sent"
  /\ Answer(d, f, "denied", NoToken)
  /\ Disturb({d})
  /\ UNCHANGED <<server, stored, screen, signedIn>>

\* The new tokens are stored; any answer but success clears the storage.
EndRefresh(d, f) ==
  /\ f.step \in {"granted", "denied"}
  /\ stored' = [stored EXCEPT ![d] = f.token]
  /\ flight' = [flight EXCEPT ![d] = @ \ {f}]
  /\ UNCHANGED <<server, screen, history>>

\* No answer: nothing is stored, and the server may have rotated already.
LoseRefresh(d, f) ==
  /\ flight' = [flight EXCEPT ![d] = @ \ {f}]
  /\ Disturb(IF f.step = "sent" THEN {} ELSE {d})
  /\ UNCHANGED <<server, stored, screen, signedIn>>

------------------------------------------------------------------------------
(***************************************************************************)
(* Passwords.                                                              *)
(***************************************************************************)

\* Mutant: a change of the password leaves the sessions open.
AllLeftOpen == session

\* UPDATE refresh_sessions SET revoked_at = COALESCE(revoked_at, ...).
AllClosed == [t \in Tokens |-> Dead]

\* POST /change-password: one transaction that ends with a session of its own.
ChangePassword(d, t) ==
  /\ screen[d] = Idle
  /\ HasToken(d)
  /\ Fresh(t)
  /\ changes < MaxChanges
  /\ changes' = changes + 1
  /\ session' = [AllClosed EXCEPT ![t] = Opened(t, changes + 1)]
  /\ Show(d, [task |-> "opened", token |-> t])
  /\ Disturb(IF flight[d] = {} THEN Devices \ {d} ELSE Devices)
  /\ UNCHANGED <<code, stored, flight, signedIn>>

\* issue_password_reset_token consumes the user's other codes.
OnlyCode(c) == [x \in Codes |-> IF x = c THEN "open" ELSE "spent"]

IssueCode(c) ==
  /\ code[c] = "spent"
  /\ code' = OnlyCode(c)
  /\ UNCHANGED <<session, changes, stored, flight, screen, history>>

ExpireCode(c) ==
  /\ code[c] = "open"
  /\ code' = [code EXCEPT ![c] = "expired"]
  /\ UNCHANGED <<session, changes, stored, flight, screen, history>>

\* consume_password_reset_token.
ResetPassword(c) ==
  /\ code[c] = "open"
  /\ code' = [code EXCEPT ![c] = "spent"]
  /\ changes < MaxChanges
  /\ changes' = changes + 1
  /\ session' = AllClosed
  /\ Disturb(Devices)
  /\ UNCHANGED <<stored, flight, screen, signedIn>>

\* An expired code is consumed and changes nothing else.
RefuseReset(c) ==
  /\ code[c] = "expired"
  /\ code' = [code EXCEPT ![c] = "spent"]
  /\ UNCHANGED <<session, changes, stored, flight, screen, history>>

\* REFRESH_TOKEN_TTL_DAYS have passed.
ExpireSession(t) ==
  /\ Live(t)
  /\ session' = Revoked(t)
  /\ Disturb({d \in Devices : Holds(d, t)})
  /\ UNCHANGED <<code, changes, stored, flight, screen, signedIn>>

------------------------------------------------------------------------------

Screen(d) ==
  \/ VerifyPassword(d)
  \/ \E t \in Tokens : OpenSession(d, t) \/ ChangePassword(d, t)
  \/ StoreOpened(d)
  \/ LoseReply(d)
  \/ StartLogout(d)
  \/ ServeLogout(d)
  \/ EndLogout(d)

Refresh(d) ==
  \/ StartRefresh(d)
  \/ \E f \in flight[d] :
       \/ \E t \in Tokens : ServeRefresh(d, f, t)
       \/ RefuseRefresh(d, f)
       \/ FailRefresh(d, f)
       \/ EndRefresh(d, f)
       \/ LoseRefresh(d, f)

Next ==
  \/ \E d \in Devices : Screen(d) \/ Refresh(d)
  \/ \E c \in Codes : IssueCode(c) \/ ExpireCode(c) \/ ResetPassword(c) \/ RefuseReset(c)
  \/ \E t \in Tokens : ExpireSession(t)

Spec == Init /\ [][Next]_vars
------------------------------------------------------------------------------
(***************************************************************************)
(* Properties.                                                             *)
(***************************************************************************)

Sessions == [root : Tokens, opened : 0..MaxChanges]

Flights ==
  [step : {"sent", "granted"}, token : Tokens] \cup [step : {"denied"}, token : {NoToken}]

Tasks ==
  {Idle, [task |-> "login"], [task |-> "clear"]}
    \cup [task : {"opened", "logout"}, token : Tokens]

\* Every table and every device has values of its kind.
TypeOK ==
  /\ session \in [Tokens -> Sessions \cup {Dead}]
  /\ code \in [Codes -> {"spent", "open", "expired"}]
  /\ changes \in 0..MaxChanges
  /\ stored \in [Devices -> Tokens \cup {NoToken}]
  /\ flight \in [Devices -> SUBSET Flights]
  /\ screen \in [Devices -> Tasks]
  /\ signedIn \in [Devices -> BOOLEAN]
  /\ disturbed \in [Devices -> BOOLEAN]

\* However often refreshes are repeated, lost or refused, one login has one live
\* session.
OneSessionPerLogin ==
  \A s, t \in Tokens : Live(s) /\ Live(t) /\ session[s].root = session[t].root => s = t

\* A change or reset of the password ends every session opened before it: no
\* refresh, however late its request or its reply, carries one across.
ChangeEndsSessions ==
  \A t \in Tokens : Live(t) => session[t].opened = changes

\* At most one code can still change the password: the one sent last.
OneOpenCode == \A b, c \in Codes : code[b] # "spent" /\ code[c] # "spent" => b = c

\* A device is never signed out by its own refreshes: at rest, a signed-in device
\* holds a live session, unless a reply was lost, the server failed or expired
\* it, the password changed elsewhere, or screen and refresh overlapped.
OwnRefreshKeepsSession ==
  \A d \in Devices :
    signedIn[d] /\ ~disturbed[d] /\ flight[d] = {} /\ screen[d] = Idle
      => stored[d] # NoToken /\ Live(stored[d])

\* A device that was signed out stays so until the next login: the comment in
\* logoutAndClearAuthSession is there to leave no replacement session alive.
LogoutIsFinal ==
  \A d \in Devices : screen[d] = Idle /\ ~signedIn[d] => stored[d] = NoToken
==============================================================================
