------------------------------ MODULE Accounts ------------------------------
(***************************************************************************)
(* The rows of users, the administrators who change them, the users who    *)
(* log in, and the sessions this gives.                                    *)
(*                                                                         *)
(* A row is [name, password, legacy, disabled, expireAt, secret]: legacy   *)
(* tells that the password is kept as a salted SHA-256 of an older panel,  *)
(* secret is the TOTP key, 0 without MFA.  Only one statement is atomic:   *)
(* an update of a user's data reads the row, changes its copy and saves    *)
(* the whole of it; a login works on a copy too.                           *)
(***************************************************************************)
EXTENDS Integers, FiniteSets

CONSTANTS Names, Passwords,
          Secrets,        \* TOTP keys the panel may draw
          Browsers,       \* each holds one cookie, with the id of one session
          Updates,        \* slots for updates of users in flight ...
          Logins,         \* ... and for logins
          MemoryRuntime,  \* useMemoryRuntime: daily operation writes no rows
          MaxId,          \* bound: how many users are ever created
          MaxUsers,       \* bound: how many users there are when one is created
          MaxFields       \* bound: how many fields one form changes, of 3

NoUser == [name |-> "none"]
NoSession == [user |-> 0]
NoRequest == [op |-> "none"]
Unclear == [name |-> "unclear"]
Ids == 1 .. MaxId
Requests == Updates \cup Logins
Times == 0 .. 1   \* expire_at: a time to come or never, and a time past

ASSUME AccountsAssumption ==
    /\ MaxId \in Nat \ {0} /\ MaxUsers \in Nat /\ MaxFields \in 0 .. 3 /\ MemoryRuntime \in BOOLEAN
    /\ 0 \notin Secrets /\ Updates \cap Logins = {}
    /\ Names \cap {NoUser.name, Unclear.name} = {}

VARIABLES users,     \* table users: the row of each id, NoUser if there is none
          next,      \* the next id
          sessions,  \* memorySessionStore: per cookie user_id, and who logged in
          request,   \* handlers in flight
          meant      \* history: the row as administrators left it, Unclear when
                     \* a change of theirs was saved over another one

vars == <<users, next, sessions, request, meant>>
-----------------------------------------------------------------------------
Present == {i \in Ids : users[i] # NoUser}
IdOf(name) == CHOOSE i \in Present : users[i].name = name
InUse(name) == \E i \in Present : users[i].name = name

CheckAvailable(row) == ~row.disabled /\ row.expireAt = 0

\* The user a request with this cookie is served for, 0 for none.
ActiveSessionUser(b) ==
    LET id == sessions[b].user IN IF id \in Present THEN IF CheckAvailable(users[id]) THEN id ELSE 0 ELSE 0

Starts(r, what) == request[r] = NoRequest /\ request' = [request EXCEPT ![r] = what]
Goes(r, what) == request' = [request EXCEPT ![r] = what]
Ends(r) == Goes(r, NoRequest)

\* The first user is made from the command line, by this panel or an older one.
Init ==
    /\ \E name \in Names, password \in Passwords, legacy \in BOOLEAN :
          users = [i \in Ids |-> IF i > 1 THEN NoUser ELSE
                      [name |-> name, password |-> password, legacy |-> legacy, disabled |-> FALSE,
                       expireAt |-> 0, secret |-> 0]]
    /\ next = 2
    /\ sessions = [b \in Browsers |-> NoSession]
    /\ request = [r \in Requests |-> NoRequest]
    /\ meant = users
-----------------------------------------------------------------------------
(* Administrators *)

\* Variant for comparison: the first free id is given.
CreateUserAtFreeId(name, password, expireAt) ==
    LET free == {i \in Ids : users[i] = NoUser}
        id == CHOOSE i \in free : \A j \in free : i <= j
    IN
    /\ free # {} /\ ~InUse(name) /\ Cardinality(Present) < MaxUsers
    /\ users' = [users EXCEPT ![id] = [name |-> name, password |-> password, legacy |-> FALSE,
                                       disabled |-> FALSE, expireAt |-> expireAt, secret |-> 0]]
    /\ next' = IF id = next THEN next + 1 ELSE next
    /\ meant' = [meant EXCEPT ![id] = users'[id]]
    /\ UNCHANGED <<sessions, request>>

CreateUser(name, password, expireAt) ==
    LET row == [name |-> name, password |-> password, legacy |-> FALSE, disabled |-> FALSE,
                expireAt |-> expireAt, secret |-> 0]
    IN
    /\ next \in Ids /\ ~InUse(name) /\ Cardinality(Present) < MaxUsers
    /\ users' = [users EXCEPT ![next] = row]
    /\ meant' = [meant EXCEPT ![next] = row]
    /\ next' = next + 1
    /\ UNCHANGED <<sessions, request>>

\* Sessions of the user stay behind.
DeleteUser(id) ==
    /\ id \in Present
    /\ users' = [users EXCEPT ![id] = NoUser]
    /\ meant' = [meant EXCEPT ![id] = NoUser]
    /\ UNCHANGED <<next, sessions, request>>

\* A change of one column, and of the same one in what was meant.
Changed(rows, id, row) ==
    [rows EXCEPT ![id] = IF rows[id] \in {NoUser, Unclear} THEN @ ELSE row]

SetUsersDisabled(id, disabled) ==
    /\ id \in Present
    /\ users' = [users EXCEPT ![id].disabled = disabled]
    /\ meant' = Changed(meant, id, [meant[id] EXCEPT !.disabled = disabled])
    /\ UNCHANGED <<next, sessions, request>>

SetUsersExpireAt(id, expireAt) ==
    /\ id \in Present
    /\ users' = [users EXCEPT ![id].expireAt = expireAt]
    /\ meant' = Changed(meant, id, [meant[id] EXCEPT !.expireAt = expireAt])
    /\ UNCHANGED <<next, sessions, request>>

\* What the form of a user sends; "keep" and -1 leave a field as it is.
Form == {f \in [password : Passwords \cup {"keep"}, expireAt : Times \cup {-1},
                mfa : {"keep", "off", "on", "renew"}] :
            (IF f.password = "keep" THEN 0 ELSE 1) + (IF f.expireAt = -1 THEN 0 ELSE 1)
               + (IF f.mfa = "keep" THEN 0 ELSE 1) <= MaxFields}

\* The user is read for the fields the form leaves out ...
UpdateUserInfoHandler(r, id, form) ==
    /\ id \in Present
    /\ Starts(r, [op |-> "update", id |-> id, form |-> form,
                  expireAt |-> IF form.expireAt = -1 THEN users[id].expireAt ELSE form.expireAt,
                  secret |-> IF form.mfa = "on" THEN users[id].secret ELSE 0])
    /\ UNCHANGED <<users, next, sessions, meant>>

\* ... and read again to be changed; the hash of the password takes its time.
UpdateUserInfo(r) ==
    LET q == request[r] IN
    /\ q.op = "update"
    /\ IF q.id \notin Present THEN Ends(r)
       ELSE Goes(r, [op |-> "save", id |-> q.id, form |-> q.form, expireAt |-> q.expireAt,
                     secret |-> q.secret, row |-> users[q.id]])
    /\ UNCHANGED <<users, next, sessions, meant>>

\* Variant for comparison: a field the form leaves out is empty.
FilledByEmpty(row, q) ==
    [row EXCEPT !.expireAt = IF q.form.expireAt = -1 THEN 0 ELSE q.expireAt,
                !.password = IF q.form.password = "keep" THEN @ ELSE q.form.password,
                !.legacy   = @ /\ q.form.password = "keep"]

\* What the form makes of a row.
Filled(row, q) ==
    [row EXCEPT !.expireAt = q.expireAt,
                !.password = IF q.form.password = "keep" THEN @ ELSE q.form.password,
                !.legacy   = @ /\ q.form.password = "keep"]

\* What the administrator who sends a form wants of a row.
Wanted(row, form) ==
    LET timed == IF form.expireAt = -1 THEN row ELSE [row EXCEPT !.expireAt = form.expireAt]
    IN  IF form.password = "keep" THEN timed ELSE [timed EXCEPT !.password = form.password]

\* A row that is gone is inserted again, unless its name is taken.
SaveUser(r) ==
    LET q == request[r]
        row == Filled(q.row, q)
        current == users[q.id] = q.row /\ (q.form.expireAt = -1 => q.expireAt = q.row.expireAt)
    IN
    /\ q.op = "save"
    /\ IF q.id \notin Present /\ InUse(row.name)
       THEN Ends(r) /\ UNCHANGED <<users, meant>>
       ELSE /\ users' = [users EXCEPT ![q.id] = row]
            /\ meant' = [meant EXCEPT ![q.id] = IF current /\ @ # Unclear THEN Wanted(@, q.form) ELSE Unclear]
            /\ IF q.form.mfa = "keep" THEN Ends(r)
               ELSE Goes(r, [op |-> "mfa", id |-> q.id, to |-> q.form.mfa, secret |-> q.secret])
    /\ UNCHANGED <<next, sessions>>

\* The key that was there when the handler began is kept, unless a new one is
\* asked for; the answer tells whoever asked which key it is.
SetUserMFA(r) ==
    LET q == request[r] IN
    /\ q.op = "mfa"
    /\ \E secret \in IF q.to = "off" THEN {0} ELSE IF q.secret # 0 THEN {q.secret} ELSE Secrets :
          IF q.id \in Present
          THEN /\ users' = [users EXCEPT ![q.id].secret = secret]
               /\ meant' = IF q.secret \notin {0, users[q.id].secret} THEN [meant EXCEPT ![q.id] = Unclear]
                           ELSE Changed(meant, q.id, [meant[q.id] EXCEPT !.secret = secret])
          ELSE UNCHANGED <<users, meant>>
    /\ Ends(r)
    /\ UNCHANGED <<next, sessions>>
-----------------------------------------------------------------------------
(* Users *)

\* AuthUser: the row is read and the password compared with it.  The copy also
\* decides whether the account is available and which code is right;
\* a refusal changes nothing.
AuthUser(r, b, name, password, code) ==
    /\ InUse(name)
    /\ LET id == IdOf(name)
           row == users[id]
           ok == CheckAvailable(row) /\ (row.secret # 0 => code)
           login == [op |-> "login", id |-> id, name |-> name, browser |-> b, ok |-> ok]
       IN  /\ row.password = password
           /\ IF row.legacy /\ ~MemoryRuntime
              THEN Starts(r, [op |-> "upgrade", id |-> id, password |-> password, login |-> login])
              ELSE ok /\ Starts(r, login)
    /\ UNCHANGED <<users, next, sessions, meant>>

\* A hash of the older kind is replaced by one of the same password, in the
\* row of that id as it is by now.
UpgradePassword(r) ==
    LET q == request[r] IN
    /\ q.op = "upgrade"
    /\ users' = [users EXCEPT ![q.id] = IF @ = NoUser THEN @
                                       ELSE [@ EXCEPT !.password = q.password, !.legacy = FALSE]]
    /\ meant' = [meant EXCEPT ![q.id] =
                     IF users[q.id] # NoUser /\ users[q.id].password # q.password THEN Unclear ELSE @]
    /\ Goes(r, q.login)
    /\ UNCHANGED <<next, sessions>>

\* The session of the browser's cookie becomes the user's.
UserLoginHandler(r) ==
    LET q == request[r] IN
    /\ q.op = "login"
    /\ sessions' = IF q.ok THEN [sessions EXCEPT ![q.browser] = [user |-> q.id, name |-> q.name]]
                   ELSE sessions
    /\ Ends(r)
    /\ UNCHANGED <<users, next, meant>>

UserLogoutHandler(b) ==
    /\ sessions[b] # NoSession
    /\ sessions' = [sessions EXCEPT ![b] = NoSession]
    /\ UNCHANGED <<users, next, request, meant>>

\* Ten hours have passed, or the panel was started again.
SessionEnds(b) ==
    /\ sessions[b] # NoSession
    /\ sessions' = [sessions EXCEPT ![b] = NoSession]
    /\ UNCHANGED <<users, next, request, meant>>

\* The connection breaks or the panel ends; what was written stays.
RequestFails(r) ==
    /\ request[r] # NoRequest
    /\ Ends(r)
    /\ UNCHANGED <<users, next, sessions, meant>>
-----------------------------------------------------------------------------
AdminStep ==
    \/ \E n \in Names, p \in Passwords, e \in Times : CreateUser(n, p, e)
    \/ \E id \in Ids : DeleteUser(id)
    \/ \E id \in Ids, d \in BOOLEAN : SetUsersDisabled(id, d)
    \/ \E id \in Ids, e \in Times : SetUsersExpireAt(id, e)
    \/ \E r \in Updates, id \in Ids, form \in Form : UpdateUserInfoHandler(r, id, form)
    \/ \E r \in Updates : UpdateUserInfo(r) \/ SaveUser(r) \/ SetUserMFA(r)

UserStep ==
    \/ \E r \in Logins, b \in Browsers, n \in Names, p \in Passwords, code \in BOOLEAN :
          AuthUser(r, b, n, p, code)
    \/ \E r \in Logins : UpgradePassword(r) \/ UserLoginHandler(r)
    \/ \E b \in Browsers : UserLogoutHandler(b) \/ SessionEnds(b)

Next ==
    \/ AdminStep \/ UserStep
    \/ \E r \in Requests : RequestFails(r)

Spec == Init /\ [][Next]_vars
-----------------------------------------------------------------------------
\* Rows are as administrators left them: no login, no update of other fields
\* and no failure half way changes or revives one, unless an update was saved
\* over a change made since it had read the row.
AsMeant ==
    \A i \in Ids : meant[i] # Unclear =>
        users[i] = IF meant[i] = NoUser THEN NoUser ELSE [meant[i] EXCEPT !.legacy = users[i].legacy]

\* Whoever a session speaks for entered the password of that very account:
\* nobody inherits the session of a deleted user.
SessionOwner ==
    \A b \in Browsers : ActiveSessionUser(b) # 0 => users[sessions[b].user].name = sessions[b].name

=============================================================================
