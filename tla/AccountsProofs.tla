--------------------------- MODULE AccountsProofs ---------------------------
(***************************************************************************)
(* Proofs about Accounts for every set of names, passwords and secrets and *)
(* for any number of browsers and handlers in flight.                      *)
(***************************************************************************)
EXTENDS Accounts, TLAPS

-----------------------------------------------------------------------------
(* Types.  What a handler holds is told apart by how far it is.            *)

Row == [name : Names, password : Passwords, legacy : BOOLEAN, disabled : BOOLEAN,
        expireAt : Times, secret : Secrets \cup {0}]

Fields == [password : Passwords \cup {"keep"}, expireAt : Times \cup {-1},
           mfa : {"keep", "off", "on", "renew"}]

Reading == [op : {"update"}, id : Ids, form : Fields, expireAt : Times, secret : Secrets \cup {0}]
Saving == [op : {"save"}, id : Ids, form : Fields, expireAt : Times, secret : Secrets \cup {0}, row : Row]
Keying == [op : {"mfa"}, id : Ids, to : {"off", "on", "renew"}, secret : Secrets \cup {0}]
LoggingIn == [op : {"login"}, id : Ids, name : Names, browser : Browsers, ok : BOOLEAN]
Upgrading == [op : {"upgrade"}, id : Ids, password : Passwords, login : LoggingIn]

Session == [user : Ids, name : Names]

\* Every variable has its type.
Typed ==
  /\ users \in [Ids -> Row \cup {NoUser}]
  /\ meant \in [Ids -> Row \cup {NoUser, Unclear}]
  /\ next \in 1 .. MaxId + 1
  /\ sessions \in [Browsers -> Session \cup {NoSession}]
  /\ request \in [Requests -> {NoRequest} \cup Reading \cup Saving \cup Keying \cup LoggingIn \cup Upgrading]

LEMMA FormFields == Form \subseteq Fields
  BY DEF Form, Fields

\* A row is neither of the two values that stand for no row.
LEMMA RowIsUser == \A row \in Row : row # NoUser /\ row # Unclear
  BY AccountsAssumption DEF Row, NoUser, Unclear

LEMMA InitTyped == Init => Typed
<1> SUFFICES ASSUME Init PROVE Typed
  OBVIOUS
<1>1. PICK name \in Names, password \in Passwords, legacy \in BOOLEAN :
        users = [i \in Ids |-> IF i > 1 THEN NoUser ELSE
                    [name |-> name, password |-> password, legacy |-> legacy, disabled |-> FALSE,
                     expireAt |-> 0, secret |-> 0]]
  BY DEF Init
<1>2. users \in [Ids -> Row \cup {NoUser}]
  BY <1>1 DEF Row, Times, Ids
<1>3. next \in 1 .. MaxId + 1
  BY AccountsAssumption DEF Init
<1> QED
  BY <1>2, <1>3 DEF Init, Typed

\* Steps of a handler on its own slot.
LEMMA SlotTyped ==
  ASSUME NEW r \in Requests, Typed,
         NEW q \in {NoRequest} \cup Reading \cup Saving \cup Keying \cup LoggingIn \cup Upgrading,
         request' = [request EXCEPT ![r] = q]
  PROVE  request' \in [Requests -> {NoRequest} \cup Reading \cup Saving \cup Keying \cup LoggingIn \cup Upgrading]
  BY DEF Typed

LEMMA UpdateTyped ==
  ASSUME NEW r \in Updates, Typed, AsMeant,
         \/ \E id \in Ids, form \in Form : UpdateUserInfoHandler(r, id, form)
         \/ UpdateUserInfo(r) \/ SaveUser(r) \/ SetUserMFA(r)
  PROVE  Typed'
<1> r \in Requests
  BY DEF Requests
<1>1. ASSUME NEW id \in Ids, NEW form \in Form, UpdateUserInfoHandler(r, id, form) PROVE Typed'
  <2> DEFINE q == [op |-> "update", id |-> id, form |-> form,
                   expireAt |-> IF form.expireAt = -1 THEN users[id].expireAt ELSE form.expireAt,
                   secret |-> IF form.mfa = "on" THEN users[id].secret ELSE 0]
  <2>1. users[id] \in Row /\ form \in Fields
    BY <1>1, FormFields DEF UpdateUserInfoHandler, Present, Typed
  <2>2. q \in Reading
    BY <2>1 DEF Reading, Row, Fields
  <2>3. request' = [request EXCEPT ![r] = q]
    BY <1>1 DEF UpdateUserInfoHandler, Starts
  <2> QED
    BY <1>1, <2>2, <2>3, SlotTyped DEF UpdateUserInfoHandler, Typed
<1>2. CASE UpdateUserInfo(r)
  <2> DEFINE q == request[r]
             p == [op |-> "save", id |-> q.id, form |-> q.form, expireAt |-> q.expireAt,
                   secret |-> q.secret, row |-> users[q.id]]
  <2>1. q \in Reading
    BY <1>2 DEF UpdateUserInfo, Typed, NoRequest, Reading, Saving, Keying, LoggingIn, Upgrading
  <2>2. q.id \in Present => p \in Saving
    BY <2>1 DEF Typed, Present, Reading, Saving
  <2>3. \/ request' = [request EXCEPT ![r] = NoRequest]
        \/ q.id \in Present /\ request' = [request EXCEPT ![r] = p]
    BY <1>2 DEF UpdateUserInfo, Ends, Goes
  <2> QED
    BY <1>2, <2>2, <2>3, SlotTyped DEF UpdateUserInfo, Typed
<1>3. CASE SaveUser(r)
  <2> DEFINE q == request[r]
             p == [op |-> "mfa", id |-> q.id, to |-> q.form.mfa, secret |-> q.secret]
  <2>1. q \in Saving
    BY <1>3 DEF SaveUser, Typed, NoRequest, Reading, Saving, Keying, LoggingIn, Upgrading
  <2>2. Filled(q.row, q) \in Row
    BY <2>1 DEF Saving, Row, Fields, Filled
  <2>3. \A row \in Row : Wanted(row, q.form) \in Row
    BY <2>1 DEF Saving, Row, Fields, Wanted
  <2>4. users' \in [Ids -> Row \cup {NoUser}]
    BY <1>3, <2>1, <2>2 DEF SaveUser, Typed, Saving
  <2>5. meant' \in [Ids -> Row \cup {NoUser, Unclear}]
    <3> DEFINE was == meant[q.id]
    <3>0. users[q.id] = q.row => was # NoUser
      BY <2>1, RowIsUser DEF AsMeant, Unclear, NoUser, Saving
    <3>1. CASE UNCHANGED meant
      BY <3>1 DEF Typed
    <3>2. CASE meant' = [meant EXCEPT ![q.id] = Unclear]
      BY <3>2 DEF Typed
    <3>3. CASE /\ meant' = [meant EXCEPT ![q.id] = Wanted(was, q.form)]
               /\ was # Unclear /\ was # NoUser
      BY <2>3, <3>3, <2>1 DEF Typed, Saving
    <3> QED
      BY <1>3, <3>0, <3>1, <3>2, <3>3 DEF SaveUser
  <2>6. q.form.mfa # "keep" => p \in Keying
    BY <2>1 DEF Saving, Keying, Fields
  <2>7. \/ request' = [request EXCEPT ![r] = NoRequest]
        \/ q.form.mfa # "keep" /\ request' = [request EXCEPT ![r] = p]
    BY <1>3 DEF SaveUser, Ends, Goes
  <2> QED
    BY <1>3, <2>4, <2>5, <2>6, <2>7, SlotTyped DEF SaveUser, Typed
<1>4. CASE SetUserMFA(r)
  <2> DEFINE q == request[r]
  <2>1. q \in Keying
    BY <1>4 DEF SetUserMFA, Typed, NoRequest, Reading, Saving, Keying, LoggingIn, Upgrading
  <2>2. PICK secret \in Secrets \cup {0} :
           \/ UNCHANGED <<users, meant>>
           \/ /\ q.id \in Present
              /\ users' = [users EXCEPT ![q.id].secret = secret]
              /\ \/ meant' = [meant EXCEPT ![q.id] = Unclear]
                 \/ meant' = Changed(meant, q.id, [meant[q.id] EXCEPT !.secret = secret])
    BY <1>4, <2>1 DEF SetUserMFA, Keying
  <2>3. users' \in [Ids -> Row \cup {NoUser}]
    <3>1. q.id \in Present => [users[q.id] EXCEPT !.secret = secret] \in Row
      BY DEF Typed, Present, Row
    <3> QED
      BY <2>2, <3>1 DEF Typed
  <2>4. meant' \in [Ids -> Row \cup {NoUser, Unclear}]
    <3>1. meant[q.id] \in Row => [meant[q.id] EXCEPT !.secret = secret] \in Row
      BY DEF Row
    <3> QED
      BY <2>2, <3>1 DEF Typed, Changed
  <2> QED
    BY <1>4, <2>3, <2>4, SlotTyped DEF SetUserMFA, Ends, Goes, Typed
<1> QED
  BY <1>1, <1>2, <1>3, <1>4

LEMMA ColumnTyped ==
  ASSUME Typed, NEW id \in Ids,
         \/ \E disabled \in BOOLEAN : SetUsersDisabled(id, disabled)
         \/ \E expireAt \in Times : SetUsersExpireAt(id, expireAt)
  PROVE  Typed'
<1>1. ASSUME NEW disabled \in BOOLEAN, SetUsersDisabled(id, disabled) PROVE Typed'
  <2>1. users' \in [Ids -> Row \cup {NoUser}]
    <3>1. users[id] \in Row
      BY <1>1 DEF SetUsersDisabled, Present, Typed
    <3>2. [users[id] EXCEPT !.disabled = disabled] \in Row
      BY <3>1 DEF Row
    <3> QED
      BY <1>1, <3>2 DEF SetUsersDisabled, Typed
  <2>2. meant' \in [Ids -> Row \cup {NoUser, Unclear}]
    <3>1. meant[id] \in Row => [meant[id] EXCEPT !.disabled = disabled] \in Row
      BY DEF Row
    <3> QED
      BY <1>1, <3>1 DEF SetUsersDisabled, Changed, Typed
  <2> QED
    BY <1>1, <2>1, <2>2 DEF SetUsersDisabled, Typed
<1>2. ASSUME NEW expireAt \in Times, SetUsersExpireAt(id, expireAt) PROVE Typed'
  <2>1. users' \in [Ids -> Row \cup {NoUser}]
    <3>1. users[id] \in Row
      BY <1>2 DEF SetUsersExpireAt, Present, Typed
    <3>2. [users[id] EXCEPT !.expireAt = expireAt] \in Row
      BY <3>1 DEF Row
    <3> QED
      BY <1>2, <3>2 DEF SetUsersExpireAt, Typed
  <2>2. meant' \in [Ids -> Row \cup {NoUser, Unclear}]
    <3>1. meant[id] \in Row => [meant[id] EXCEPT !.expireAt = expireAt] \in Row
      BY DEF Row
    <3> QED
      BY <1>2, <3>1 DEF SetUsersExpireAt, Changed, Typed
  <2> QED
    BY <1>2, <2>1, <2>2 DEF SetUsersExpireAt, Typed
<1> QED
  BY <1>1, <1>2

LEMMA AdminTyped == Typed /\ AsMeant /\ AdminStep => Typed'
<1> SUFFICES ASSUME Typed, AsMeant, AdminStep PROVE Typed'
  OBVIOUS
<1>1. ASSUME NEW n \in Names, NEW p \in Passwords, NEW e \in Times, CreateUser(n, p, e) PROVE Typed'
  <2> DEFINE row == [name |-> n, password |-> p, legacy |-> FALSE, disabled |-> FALSE,
                     expireAt |-> e, secret |-> 0]
  <2>1. row \in Row
    BY DEF Row
  <2>2. next' \in 1 .. MaxId + 1
    BY <1>1, AccountsAssumption DEF CreateUser, Typed, Ids
  <2> QED
    BY <1>1, <2>1, <2>2 DEF CreateUser, Typed
<1>2. ASSUME NEW id \in Ids, DeleteUser(id) PROVE Typed'
  BY <1>2 DEF DeleteUser, Typed
<1> QED
  BY <1>1, <1>2, ColumnTyped, UpdateTyped DEF AdminStep

LEMMA UserTyped == Typed /\ UserStep => Typed'
<1> SUFFICES ASSUME Typed, UserStep PROVE Typed'
  OBVIOUS
<1> USE DEF Requests
<1>1. ASSUME NEW r \in Logins, NEW b \in Browsers, NEW n \in Names, NEW p \in Passwords,
             NEW code \in BOOLEAN, AuthUser(r, b, n, p, code)
      PROVE  Typed'
  <2> DEFINE id == IdOf(n)
             row == users[id]
             ok == CheckAvailable(row) /\ (row.secret # 0 => code)
             login == [op |-> "login", id |-> id, name |-> n, browser |-> b, ok |-> ok]
             upgrade == [op |-> "upgrade", id |-> id, password |-> p, login |-> login]
  <2>1. id \in Present
    BY <1>1 DEF AuthUser, InUse, IdOf
  <2>2. login \in LoggingIn
    BY <2>1 DEF LoggingIn, Present, CheckAvailable
  <2>3. upgrade \in Upgrading
    BY <2>1, <2>2 DEF Upgrading, Present
  <2>4. \/ request' = [request EXCEPT ![r] = login]
        \/ request' = [request EXCEPT ![r] = upgrade]
    BY <1>1 DEF AuthUser, Starts
  <2> QED
    BY <1>1, <2>2, <2>3, <2>4, SlotTyped DEF AuthUser, Typed
<1>2. ASSUME NEW r \in Logins, UpgradePassword(r) PROVE Typed'
  <2> DEFINE q == request[r]
  <2>1. q \in Upgrading
    BY <1>2 DEF UpgradePassword, Typed, NoRequest, Reading, Saving, Keying, LoggingIn, Upgrading
  <2>2. users[q.id] # NoUser =>
           [users[q.id] EXCEPT !.password = q.password, !.legacy = FALSE] \in Row
    <3>1. q.id \in Ids /\ q.password \in Passwords
      BY <2>1 DEF Upgrading
    <3>2. users[q.id] # NoUser => users[q.id] \in Row
      BY <3>1 DEF Typed
    <3>3. \A row \in Row, password \in Passwords :
             [row EXCEPT !.password = password, !.legacy = FALSE] \in Row
      BY DEF Row
    <3> QED
      BY <3>1, <3>2, <3>3
  <2>3. users' \in [Ids -> Row \cup {NoUser}]
    BY <1>2, <2>2 DEF UpgradePassword, Typed
  <2>4. meant' \in [Ids -> Row \cup {NoUser, Unclear}]
    BY <1>2 DEF UpgradePassword, Typed
  <2> QED
    BY <1>2, <2>1, <2>3, <2>4, SlotTyped DEF UpgradePassword, Goes, Typed, Upgrading
<1>3. ASSUME NEW r \in Logins, UserLoginHandler(r) PROVE Typed'
  <2> DEFINE q == request[r]
  <2>1. q \in LoggingIn
    BY <1>3 DEF UserLoginHandler, Typed, NoRequest, Reading, Saving, Keying, LoggingIn, Upgrading
  <2>2. sessions' \in [Browsers -> Session \cup {NoSession}]
    BY <1>3, <2>1 DEF UserLoginHandler, Typed, Session, LoggingIn
  <2> QED
    BY <1>3, <2>2, SlotTyped DEF UserLoginHandler, Ends, Goes, Typed
<1>4. ASSUME NEW b \in Browsers, UserLogoutHandler(b) \/ SessionEnds(b) PROVE Typed'
  BY <1>4 DEF UserLogoutHandler, SessionEnds, Typed
<1> QED
  BY <1>1, <1>2, <1>3, <1>4 DEF UserStep

LEMMA NextTyped == Typed /\ AsMeant /\ [Next]_vars => Typed'
<1> SUFFICES ASSUME Typed, AsMeant, [Next]_vars PROVE Typed'
  OBVIOUS
<1>1. ASSUME NEW r \in Requests, RequestFails(r) PROVE Typed'
  BY <1>1, SlotTyped DEF RequestFails, Ends, Goes, Typed
<1>2. CASE UNCHANGED vars
  BY <1>2 DEF vars, Typed
<1> QED
  BY <1>1, <1>2, AdminTyped, UserTyped DEF Next

-----------------------------------------------------------------------------
(* Rows are as administrators left them.  Besides types this needs that an *)
(* update in flight has the time its form asks for.                        *)

Carried ==
  \A r \in Updates : request[r].op \in {"update", "save"} /\ request[r].form.expireAt # -1 =>
      request[r].expireAt = request[r].form.expireAt

MeantInv == Typed /\ Carried /\ AsMeant

\* What was meant of a row, told apart from the column that logins change.
LEMMA MeantRow ==
  ASSUME NEW i \in Ids, Typed, AsMeant, meant[i] # Unclear
  PROVE  \/ meant[i] = NoUser /\ users[i] = NoUser
         \/ /\ meant[i] \in Row /\ users[i] \in Row
            /\ users[i] = [meant[i] EXCEPT !.legacy = users[i].legacy]
<1>1. CASE meant[i] = NoUser
  BY <1>1 DEF AsMeant
<1>2. CASE meant[i] # NoUser
  <2>1. meant[i] \in Row /\ users[i] = [meant[i] EXCEPT !.legacy = users[i].legacy]
    BY <1>2 DEF AsMeant, Typed
  <2>2. users[i] # NoUser
    BY <2>1, RowIsUser, AccountsAssumption DEF Row, NoUser
  <2> QED
    BY <2>1, <2>2 DEF Typed
<1> QED
  BY <1>1, <1>2

LEMMA NextCarried == Typed /\ Carried /\ [Next]_vars => Carried'
<1> SUFFICES ASSUME Typed, Carried, [Next]_vars PROVE Carried'
  OBVIOUS
<1> USE DEF Requests
<1>1. CASE UNCHANGED request
  BY <1>1 DEF Carried
<1>2. ASSUME NEW r \in Updates, NEW id \in Ids, NEW form \in Form, UpdateUserInfoHandler(r, id, form)
      PROVE  Carried'
  BY <1>2 DEF UpdateUserInfoHandler, Starts, Carried, Typed
<1>3. ASSUME NEW r \in Updates, UpdateUserInfo(r) PROVE Carried'
  BY <1>3 DEF UpdateUserInfo, Ends, Goes, Carried, Typed, NoRequest
<1>4. ASSUME NEW r \in Updates, SaveUser(r) \/ SetUserMFA(r) PROVE Carried'
  BY <1>4 DEF SaveUser, SetUserMFA, Ends, Goes, Carried, Typed, NoRequest
<1>5. ASSUME NEW r \in Logins, NEW q, request' = [request EXCEPT ![r] = q] PROVE Carried'
  BY <1>5, AccountsAssumption DEF Carried, Typed
<1>6. ASSUME NEW r \in Requests, RequestFails(r) PROVE Carried'
  BY <1>6 DEF RequestFails, Ends, Goes, Carried, Typed, NoRequest
<1>7. CASE AdminStep
  BY <1>1, <1>2, <1>3, <1>4, <1>7 DEF AdminStep, CreateUser, DeleteUser, SetUsersDisabled, SetUsersExpireAt
<1>8. CASE UserStep
  <2>1. ASSUME NEW r \in Logins, NEW b \in Browsers, NEW n \in Names, NEW p \in Passwords,
               NEW code \in BOOLEAN, AuthUser(r, b, n, p, code)
        PROVE  \E q : request' = [request EXCEPT ![r] = q]
    BY <2>1 DEF AuthUser, Starts
  <2>2. ASSUME NEW r \in Logins, UpgradePassword(r) \/ UserLoginHandler(r)
        PROVE  \E q : request' = [request EXCEPT ![r] = q]
    BY <2>2 DEF UpgradePassword, UserLoginHandler, Ends, Goes
  <2>3. ASSUME NEW b \in Browsers, UserLogoutHandler(b) \/ SessionEnds(b)
        PROVE  UNCHANGED request
    BY <2>3 DEF UserLogoutHandler, SessionEnds
  <2> QED
    BY <1>1, <1>5, <1>8, <2>1, <2>2, <2>3 DEF UserStep
<1> QED
  BY <1>1, <1>6, <1>7, <1>8 DEF Next, vars

\* A change of one row keeps the others as they were meant.
LEMMA OneRowMeant ==
  ASSUME NEW id \in Ids, NEW row, NEW wish, Typed, AsMeant,
         users' = [users EXCEPT ![id] = row], meant' = [meant EXCEPT ![id] = wish],
         wish # Unclear => row = IF wish = NoUser THEN NoUser ELSE [wish EXCEPT !.legacy = row.legacy]
  PROVE  AsMeant'
  BY DEF AsMeant, Typed

LEMMA SaveMeant == ASSUME NEW r \in Updates, MeantInv, SaveUser(r) PROVE AsMeant'
<1> DEFINE q == request[r]
           row == Filled(q.row, q)
           was == meant[q.id]
           current == users[q.id] = q.row /\ (q.form.expireAt = -1 => q.expireAt = q.row.expireAt)
<1> USE DEF MeantInv, Requests
<1>1. q \in Saving
  BY DEF SaveUser, Typed, NoRequest, Reading, Saving, Keying, LoggingIn, Upgrading
<1>2. q.form.expireAt # -1 => q.expireAt = q.form.expireAt
  BY DEF SaveUser, Carried
<1>3. CASE UNCHANGED <<users, meant>>
  BY <1>3 DEF AsMeant
<1>4. CASE /\ users' = [users EXCEPT ![q.id] = row]
           /\ meant' = [meant EXCEPT ![q.id] = IF current /\ was # Unclear THEN Wanted(was, q.form) ELSE Unclear]
  <2>1. CASE ~(current /\ was # Unclear)
    BY <1>1, <1>4, <2>1 DEF AsMeant, Typed, Saving
  <2>2. CASE current /\ was # Unclear
    <3>1. was \in Row /\ q.row \in Row /\ q.row = [was EXCEPT !.legacy = q.row.legacy]
      BY <1>1, <2>2, MeantRow, RowIsUser DEF Saving
    <3>2. Wanted(was, q.form) \in Row /\ row \in Row
      BY <1>1, <3>1 DEF Saving, Row, Fields, Wanted, Filled
    <3>3. row = [Wanted(was, q.form) EXCEPT !.legacy = row.legacy]
      <4>1. row.expireAt = Wanted(was, q.form).expireAt
        BY <1>1, <1>2, <2>2, <3>1 DEF Saving, Row, Fields, Wanted, Filled
      <4>2. row.password = Wanted(was, q.form).password
        BY <1>1, <3>1 DEF Saving, Row, Fields, Wanted, Filled
      <4>3. /\ row.name = Wanted(was, q.form).name /\ row.disabled = Wanted(was, q.form).disabled
            /\ row.secret = Wanted(was, q.form).secret
        BY <1>1, <3>1 DEF Saving, Row, Fields, Wanted, Filled
      <4> HIDE DEF row
      <4> QED
        BY <3>2, <4>1, <4>2, <4>3 DEF Row
    <3>4. Wanted(was, q.form) # NoUser
      BY <3>2, RowIsUser
    <3>5. users' = [users EXCEPT ![q.id] = row] /\ meant' = [meant EXCEPT ![q.id] = Wanted(was, q.form)]
      BY <1>4, <2>2
    <3> HIDE DEF row, was, q
    <3> QED
      BY <1>1, <3>3, <3>4, <3>5, OneRowMeant DEF Saving
  <2> QED
    BY <2>1, <2>2
<1> QED
  BY <1>3, <1>4 DEF SaveUser

\* One column is changed in the row and in what was meant of it.
LEMMA ColumnMeant ==
  ASSUME NEW id \in Ids, MeantInv, users[id] # NoUser, NEW row \in Row, NEW wish,
         users' = [users EXCEPT ![id] = row],
         meant' = Changed(meant, id, wish),
         meant[id] \in Row => row = [wish EXCEPT !.legacy = row.legacy] /\ wish \in Row
  PROVE  AsMeant'
<1> USE DEF MeantInv
<1>1. CASE meant[id] = Unclear
  <2>1. meant' = [meant EXCEPT ![id] = Unclear]
    BY <1>1 DEF Changed
  <2> QED
    BY <2>1, OneRowMeant
<1>2. CASE meant[id] \in Row
  <2>1. meant' = [meant EXCEPT ![id] = wish] /\ wish # NoUser
    BY <1>2, RowIsUser DEF Changed
  <2> QED
    BY <1>2, <2>1, OneRowMeant
<1> QED
  BY <1>1, <1>2, MeantRow

LEMMA KeyMeant == ASSUME NEW r \in Updates, MeantInv, SetUserMFA(r) PROVE AsMeant'
<1> DEFINE q == request[r]
<1> USE DEF MeantInv, Requests
<1>1. q \in Keying
  BY DEF SetUserMFA, Typed, NoRequest, Reading, Saving, Keying, LoggingIn, Upgrading
<1>2. PICK secret \in Secrets \cup {0} :
         \/ UNCHANGED <<users, meant>>
         \/ /\ q.id \in Present
            /\ users' = [users EXCEPT ![q.id].secret = secret]
            /\ \/ meant' = [meant EXCEPT ![q.id] = Unclear]
               \/ meant' = Changed(meant, q.id, [meant[q.id] EXCEPT !.secret = secret])
  BY <1>1 DEF SetUserMFA, Keying
<1>3. CASE UNCHANGED <<users, meant>>
  BY <1>3 DEF AsMeant
<1>4. CASE /\ q.id \in Present
           /\ users' = [users EXCEPT ![q.id].secret = secret]
           /\ meant' = [meant EXCEPT ![q.id] = Unclear]
  BY <1>1, <1>4 DEF AsMeant, Typed, Keying
<1>5. CASE /\ q.id \in Present
           /\ users' = [users EXCEPT ![q.id].secret = secret]
           /\ meant' = Changed(meant, q.id, [meant[q.id] EXCEPT !.secret = secret])
  <2> DEFINE row == [users[q.id] EXCEPT !.secret = secret]
             wish == [meant[q.id] EXCEPT !.secret = secret]
  <2>1. users[q.id] \in Row /\ users[q.id] # NoUser /\ q.id \in Ids
    BY <1>1, <1>5 DEF Present, Typed, Keying
  <2>2. row \in Row
    BY <2>1 DEF Row
  <2>3. users' = [users EXCEPT ![q.id] = row]
    BY <1>5
  <2>4. meant[q.id] \in Row => wish \in Row /\ row = [wish EXCEPT !.legacy = row.legacy]
    BY <2>1, MeantRow, RowIsUser DEF Row
  <2> QED
    BY <1>5, <2>1, <2>2, <2>3, <2>4, ColumnMeant
<1> QED
  BY <1>2, <1>3, <1>4, <1>5

LEMMA SettersMeant ==
  ASSUME NEW id \in Ids, MeantInv,
         \/ \E disabled \in BOOLEAN : SetUsersDisabled(id, disabled)
         \/ \E expireAt \in Times : SetUsersExpireAt(id, expireAt)
  PROVE  AsMeant'
<1> USE DEF MeantInv
<1>1. users[id] \in Row /\ users[id] # NoUser
  BY DEF SetUsersDisabled, SetUsersExpireAt, Present, Typed
<1>2. ASSUME NEW disabled \in BOOLEAN, SetUsersDisabled(id, disabled) PROVE AsMeant'
  <2> DEFINE row == [users[id] EXCEPT !.disabled = disabled]
             wish == [meant[id] EXCEPT !.disabled = disabled]
  <2>1. row \in Row
    BY <1>1 DEF Row
  <2>2. users' = [users EXCEPT ![id] = row] /\ meant' = Changed(meant, id, wish)
    BY <1>2 DEF SetUsersDisabled
  <2>3. meant[id] \in Row => wish \in Row /\ row = [wish EXCEPT !.legacy = row.legacy]
    BY <1>1, MeantRow, RowIsUser DEF Row
  <2> QED
    BY <1>1, <2>1, <2>2, <2>3, ColumnMeant
<1>3. ASSUME NEW expireAt \in Times, SetUsersExpireAt(id, expireAt) PROVE AsMeant'
  <2> DEFINE row == [users[id] EXCEPT !.expireAt = expireAt]
             wish == [meant[id] EXCEPT !.expireAt = expireAt]
  <2>1. row \in Row
    BY <1>1 DEF Row
  <2>2. users' = [users EXCEPT ![id] = row] /\ meant' = Changed(meant, id, wish)
    BY <1>3 DEF SetUsersExpireAt
  <2>3. meant[id] \in Row => wish \in Row /\ row = [wish EXCEPT !.legacy = row.legacy]
    BY <1>1, MeantRow, RowIsUser DEF Row
  <2> QED
    BY <1>1, <2>1, <2>2, <2>3, ColumnMeant
<1> QED
  BY <1>2, <1>3

LEMMA UpgradeMeant == ASSUME NEW r \in Logins, MeantInv, UpgradePassword(r) PROVE AsMeant'
<1> DEFINE q == request[r]
           row == [users[q.id] EXCEPT !.password = q.password, !.legacy = FALSE]
<1> USE DEF MeantInv, Requests
<1>1. q \in Upgrading /\ q.id \in Ids
  BY DEF UpgradePassword, Typed, NoRequest, Reading, Saving, Keying, LoggingIn, Upgrading
<1>2. CASE users[q.id] = NoUser
  BY <1>1, <1>2 DEF UpgradePassword, AsMeant, Typed
<1>3. CASE users[q.id] # NoUser /\ (users[q.id].password # q.password \/ meant[q.id] = Unclear)
  BY <1>1, <1>3 DEF UpgradePassword, AsMeant, Typed
<1>4. CASE users[q.id] # NoUser /\ users[q.id].password = q.password /\ meant[q.id] # Unclear
  <2>1. meant[q.id] \in Row /\ users[q.id] \in Row
        /\ users[q.id] = [meant[q.id] EXCEPT !.legacy = users[q.id].legacy]
    BY <1>1, <1>4, MeantRow
  <2>2. users' = [users EXCEPT ![q.id] = row] /\ meant' = [meant EXCEPT ![q.id] = meant[q.id]]
    BY <1>1, <1>4 DEF UpgradePassword, Typed
  <2>3. row = [meant[q.id] EXCEPT !.legacy = row.legacy]
    BY <1>4, <2>1 DEF Row
  <2> QED
    BY <1>1, <2>1, <2>2, <2>3, RowIsUser, OneRowMeant
<1> QED
  BY <1>2, <1>3, <1>4

LEMMA NextMeant == MeantInv /\ [Next]_vars => AsMeant'
<1> SUFFICES ASSUME MeantInv, [Next]_vars PROVE AsMeant'
  OBVIOUS
<1>1. CASE UNCHANGED <<users, meant>>
  BY <1>1 DEF AsMeant, MeantInv
<1>2. ASSUME NEW n \in Names, NEW p \in Passwords, NEW e \in Times, CreateUser(n, p, e) PROVE AsMeant'
  <2> DEFINE row == [name |-> n, password |-> p, legacy |-> FALSE, disabled |-> FALSE,
                     expireAt |-> e, secret |-> 0]
  <2>1. row \in Row
    BY DEF Row
  <2>2. /\ users' = [users EXCEPT ![next] = row] /\ meant' = [meant EXCEPT ![next] = row]
        /\ next \in Ids
    BY <1>2 DEF CreateUser
  <2>3. row = [row EXCEPT !.legacy = row.legacy]
    OBVIOUS
  <2> HIDE DEF row
  <2> QED
    BY <2>1, <2>2, <2>3, RowIsUser, OneRowMeant DEF MeantInv
<1>3. ASSUME NEW id \in Ids, DeleteUser(id) PROVE AsMeant'
  BY <1>3 DEF DeleteUser, MeantInv, Typed, AsMeant
<1>4. ASSUME NEW r \in Updates, NEW id \in Ids, NEW form \in Form, UpdateUserInfoHandler(r, id, form)
      PROVE  AsMeant'
  BY <1>1, <1>4 DEF UpdateUserInfoHandler
<1>5. ASSUME NEW r \in Updates, UpdateUserInfo(r) PROVE AsMeant'
  BY <1>1, <1>5 DEF UpdateUserInfo
<1>6. CASE AdminStep
  BY <1>2, <1>3, <1>4, <1>5, <1>6, SaveMeant, KeyMeant, SettersMeant DEF AdminStep
<1>7. CASE UserStep
  BY <1>1, <1>7, UpgradeMeant DEF UserStep, AuthUser, UserLoginHandler, UserLogoutHandler, SessionEnds
<1>8. ASSUME NEW r \in Requests, RequestFails(r) PROVE AsMeant'
  BY <1>1, <1>8 DEF RequestFails
<1>9. CASE UNCHANGED vars
  BY <1>1, <1>9 DEF vars
<1> QED
  BY <1>6, <1>7, <1>8, <1>9 DEF Next

LEMMA InitMeant == Init => MeantInv
<1> SUFFICES ASSUME Init PROVE Carried /\ AsMeant
  BY InitTyped DEF MeantInv
<1>1. Carried
  BY DEF Init, Carried, NoRequest, Requests
<1>2. AsMeant
  <2> SUFFICES ASSUME NEW i \in Ids, users[i] # NoUser PROVE users[i] = [users[i] EXCEPT !.legacy = users[i].legacy]
    BY DEF Init, AsMeant
  <2>1. users[i] \in Row
    BY InitTyped DEF Typed
  <2> QED
    BY <2>1 DEF Row
<1> QED
  BY <1>1, <1>2

THEOREM MeantInvariant == Spec => []MeantInv
<1>1. MeantInv /\ [Next]_vars => MeantInv'
  BY NextTyped, NextCarried, NextMeant DEF MeantInv
<1> QED
  BY <1>1, InitMeant, PTL DEF Spec

\* No login, no update of other fields and no failure half way changes a row
\* behind an administrator's back.
THEOREM RowsAreMeant == Spec => []AsMeant
<1>1. MeantInv => AsMeant
  BY DEF MeantInv
<1> QED
  BY <1>1, MeantInvariant, PTL
-----------------------------------------------------------------------------
(* Ids are given once, so every id has one owner: whatever carries an id,  *)
(* a row, a session or a handler in flight, carries its owner's name too.  *)

OwnedBy(owner) ==
  /\ \A i \in Ids : users[i] # NoUser => i < next /\ users[i].name = owner[i]
  /\ \A b \in Browsers : sessions[b] # NoSession =>
        sessions[b].user < next /\ sessions[b].name = owner[sessions[b].user]
  /\ \A r \in Requests : request[r] # NoRequest => request[r].id < next
  /\ \A r \in Requests : request[r].op = "save" => request[r].row.name = owner[request[r].id]
  /\ \A r \in Requests : request[r].op = "login" => request[r].name = owner[request[r].id]
  /\ \A r \in Requests : request[r].op = "upgrade" =>
        request[r].login.id = request[r].id /\ request[r].login.name = owner[request[r].id]

Owned == \E owner \in [Ids -> Names] : OwnedBy(owner)

\* Ids grow, and an update does not rename.
LEMMA CreateOwned ==
  ASSUME Typed, Owned, NEW n \in Names, NEW p \in Passwords, NEW e \in Times, CreateUser(n, p, e)
  PROVE  Owned'
<1>1. PICK owner \in [Ids -> Names] : OwnedBy(owner)
  BY DEF Owned
<1>2. PICK owns \in [Ids -> Names] : owns = [owner EXCEPT ![next] = n]
  OBVIOUS
<1>3. next \in Ids /\ next \in Int /\ next' = next + 1 /\ \A i \in Ids : i # next => owns[i] = owner[i]
  BY <1>2 DEF CreateUser, Ids
<1>4. \A i \in Ids : users'[i] # NoUser => i < next' /\ users'[i].name = owns[i]
  BY <1>1, <1>2, <1>3 DEF CreateUser, OwnedBy, Typed, Ids
<1>5. \A b \in Browsers : sessions[b] # NoSession =>
         sessions[b].user < next' /\ sessions[b].name = owns[sessions[b].user]
  BY <1>1, <1>3 DEF OwnedBy, Typed, Ids, Session
<1>6. \A r \in Requests : request[r] # NoRequest =>
         request[r].id < next' /\ owns[request[r].id] = owner[request[r].id]
  BY <1>1, <1>3 DEF OwnedBy, Typed, Ids, Reading, Saving, Keying, LoggingIn, Upgrading
<1>7. UNCHANGED <<sessions, request>>
  BY DEF CreateUser
<1>8. OwnedBy(owns)'
  BY <1>1, <1>4, <1>5, <1>6, <1>7 DEF OwnedBy, NoRequest
<1> QED
  BY <1>8 DEF Owned

\* No other step makes an id or renames a row.
LEMMA KeepsOwner ==
  ASSUME NEW owner \in [Ids -> Names], Typed, OwnedBy(owner), next' = next,
         \A i \in Ids : users'[i] # NoUser => i < next /\ users'[i].name = owner[i],
         \A b \in Browsers : sessions'[b] # NoSession =>
            sessions'[b].user < next /\ sessions'[b].name = owner[sessions'[b].user],
         NEW r \in Requests, NEW q, request' = request \/ request' = [request EXCEPT ![r] = q],
         q # NoRequest => q.id < next,
         q.op = "save" => q.row.name = owner[q.id],
         q.op = "login" => q.name = owner[q.id],
         q.op = "upgrade" => q.login.id = q.id /\ q.login.name = owner[q.id]
  PROVE  Owned'
<1>1. request \in [Requests -> {NoRequest} \cup Reading \cup Saving \cup Keying \cup LoggingIn \cup Upgrading]
  BY DEF Typed
<1>2. \A s \in Requests : request'[s] = request[s] \/ request'[s] = q
  BY <1>1
<1>3. /\ \A s \in Requests : request'[s] # NoRequest => request'[s].id < next
      /\ \A s \in Requests : request'[s].op = "save" => request'[s].row.name = owner[request'[s].id]
      /\ \A s \in Requests : request'[s].op = "login" => request'[s].name = owner[request'[s].id]
      /\ \A s \in Requests : request'[s].op = "upgrade" =>
            request'[s].login.id = request'[s].id /\ request'[s].login.name = owner[request'[s].id]
  BY <1>2 DEF OwnedBy
<1>4. OwnedBy(owner)'
  BY <1>3 DEF OwnedBy
<1> QED
  BY <1>4 DEF Owned

LEMMA AdminOwned == ASSUME Typed, Owned, AdminStep PROVE Owned'
<1>1. PICK owner \in [Ids -> Names] : OwnedBy(owner)
  BY DEF Owned
<1> DEFINE rows == \A i \in Ids : users'[i] # NoUser => i < next /\ users'[i].name = owner[i]
           cookies == \A b \in Browsers : sessions'[b] # NoSession =>
                         sessions'[b].user < next /\ sessions'[b].name = owner[sessions'[b].user]
<1> USE DEF Requests
<1>2. ASSUME NEW id \in Ids, DeleteUser(id) PROVE Owned'
  BY <1>1, <1>2 DEF DeleteUser, OwnedBy, Owned, Typed, NoUser
<1>3. ASSUME NEW id \in Ids, NEW d \in BOOLEAN, SetUsersDisabled(id, d) PROVE Owned'
  <2>1. rows
    BY <1>1, <1>3 DEF SetUsersDisabled, OwnedBy, Typed, Row, Present
  <2>2. OwnedBy(owner)'
    BY <1>1, <1>3, <2>1 DEF SetUsersDisabled, OwnedBy
  <2> QED
    BY <2>2 DEF Owned
<1>4. ASSUME NEW id \in Ids, NEW e \in Times, SetUsersExpireAt(id, e) PROVE Owned'
  <2>1. rows
    BY <1>1, <1>4 DEF SetUsersExpireAt, OwnedBy, Typed, Row, Present
  <2>2. OwnedBy(owner)'
    BY <1>1, <1>4, <2>1 DEF SetUsersExpireAt, OwnedBy
  <2> QED
    BY <2>2 DEF Owned
<1>5. ASSUME NEW r \in Updates, NEW id \in Ids, NEW form \in Form, UpdateUserInfoHandler(r, id, form)
      PROVE  Owned'
  <2> DEFINE q == [op |-> "update", id |-> id, form |-> form,
                   expireAt |-> IF form.expireAt = -1 THEN users[id].expireAt ELSE form.expireAt,
                   secret |-> IF form.mfa = "on" THEN users[id].secret ELSE 0]
  <2>1. request' = [request EXCEPT ![r] = q] /\ next' = next /\ rows /\ cookies
    BY <1>1, <1>5 DEF UpdateUserInfoHandler, Starts, OwnedBy
  <2>2. q.id < next /\ q.op = "update"
    BY <1>1, <1>5 DEF UpdateUserInfoHandler, OwnedBy, Present
  <2> HIDE DEF q
  <2> QED
    BY <1>1, <2>1, <2>2, KeepsOwner
<1>6. ASSUME NEW r \in Updates, UpdateUserInfo(r) PROVE Owned'
  <2> DEFINE q == [op |-> "save", id |-> request[r].id, form |-> request[r].form, expireAt |-> request[r].expireAt,
                   secret |-> request[r].secret, row |-> users[request[r].id]]
  <2>1. request[r] \in Reading
    BY <1>6 DEF UpdateUserInfo, Typed, NoRequest, Reading, Saving, Keying, LoggingIn, Upgrading
  <2>2. next' = next /\ rows /\ cookies
    BY <1>1, <1>6 DEF UpdateUserInfo, OwnedBy
  <2>3. CASE request' = [request EXCEPT ![r] = NoRequest]
    BY <1>1, <2>2, <2>3, KeepsOwner DEF NoRequest
  <2>4. CASE request[r].id \in Present /\ request' = [request EXCEPT ![r] = q]
    <3>1. q.id < next /\ q.op = "save" /\ q.row.name = owner[q.id]
      BY <1>1, <2>1, <2>4 DEF OwnedBy, Present, Reading
    <3> HIDE DEF q
    <3> QED
      BY <1>1, <2>2, <2>4, <3>1, KeepsOwner
  <2> QED
    BY <1>6, <2>3, <2>4 DEF UpdateUserInfo, Ends, Goes
<1>7. ASSUME NEW r \in Updates, SaveUser(r) PROVE Owned'
  <2> DEFINE q == request[r]
             row == Filled(q.row, q)
             then == [op |-> "mfa", id |-> q.id, to |-> q.form.mfa, secret |-> q.secret]
  <2>1. q \in Saving /\ q # NoRequest
    BY <1>7 DEF SaveUser, Typed, NoRequest, Reading, Saving, Keying, LoggingIn, Upgrading
  <2>2. q.id < next /\ q.row.name = owner[q.id] /\ row.name = q.row.name
    BY <1>1, <2>1 DEF OwnedBy, Saving, Row, Filled
  <2>3. users' = users \/ users' = [users EXCEPT ![q.id] = row]
    BY <1>7 DEF SaveUser
  <2>4. next' = next /\ cookies
    BY <1>1, <1>7 DEF SaveUser, OwnedBy
  <2> HIDE DEF row
  <2>5. rows
    BY <1>1, <2>1, <2>2, <2>3 DEF OwnedBy, Typed, Saving
  <2>6. CASE request' = [request EXCEPT ![r] = NoRequest]
    BY <1>1, <2>4, <2>5, <2>6, KeepsOwner DEF NoRequest
  <2>7. CASE request' = [request EXCEPT ![r] = then]
    <3>1. then.id < next /\ then.op = "mfa"
      BY <2>2
    <3> HIDE DEF then
    <3> QED
      BY <1>1, <2>4, <2>5, <2>7, <3>1, KeepsOwner
  <2> QED
    BY <1>7, <2>6, <2>7 DEF SaveUser, Ends, Goes
<1>8. ASSUME NEW r \in Updates, SetUserMFA(r) PROVE Owned'
  <2> DEFINE q == request[r]
  <2>1. q \in Keying
    BY <1>8 DEF SetUserMFA, Typed, NoRequest, Reading, Saving, Keying, LoggingIn, Upgrading
  <2>2. users' = users \/ (q.id \in Present /\ \E secret : users' = [users EXCEPT ![q.id].secret = secret])
    BY <1>8 DEF SetUserMFA
  <2>3. rows
    BY <1>1, <2>1, <2>2 DEF OwnedBy, Typed, Keying, Row, Present
  <2>4. next' = next /\ cookies /\ request' = [request EXCEPT ![r] = NoRequest]
    BY <1>1, <1>8 DEF SetUserMFA, OwnedBy, Ends, Goes
  <2> QED
    BY <1>1, <2>3, <2>4, KeepsOwner DEF NoRequest
<1> QED
  BY <1>2, <1>3, <1>4, <1>5, <1>6, <1>7, <1>8, CreateOwned DEF AdminStep

LEMMA UserOwned == ASSUME Typed, Owned, UserStep PROVE Owned'
<1>1. PICK owner \in [Ids -> Names] : OwnedBy(owner)
  BY DEF Owned
<1> DEFINE rows == \A i \in Ids : users'[i] # NoUser => i < next /\ users'[i].name = owner[i]
           cookies == \A b \in Browsers : sessions'[b] # NoSession =>
                         sessions'[b].user < next /\ sessions'[b].name = owner[sessions'[b].user]
<1> USE DEF Requests
<1>2. ASSUME NEW r \in Logins, NEW b \in Browsers, NEW n \in Names, NEW p \in Passwords,
             NEW code \in BOOLEAN, AuthUser(r, b, n, p, code)
      PROVE  Owned'
  <2> DEFINE id == IdOf(n)
             ok == CheckAvailable(users[id]) /\ (users[id].secret # 0 => code)
             login == [op |-> "login", id |-> id, name |-> n, browser |-> b, ok |-> ok]
             upgrade == [op |-> "upgrade", id |-> id, password |-> p, login |-> login]
  <2>1. id \in Present /\ users[id].name = n
    BY <1>2 DEF AuthUser, InUse, IdOf
  <2>2. id < next /\ owner[id] = n
    BY <1>1, <2>1 DEF OwnedBy, Present
  <2>3. next' = next /\ rows /\ cookies
    BY <1>1, <1>2 DEF AuthUser, OwnedBy
  <2>4. \/ request' = [request EXCEPT ![r] = login]
        \/ request' = [request EXCEPT ![r] = upgrade]
    BY <1>2 DEF AuthUser, Starts
  <2>5. /\ login.id = id /\ login.op = "login" /\ login.name = n
        /\ upgrade.id = id /\ upgrade.op = "upgrade" /\ upgrade.login = login
    OBVIOUS
  <2> HIDE DEF login, upgrade, id
  <2> QED
    BY <1>1, <2>2, <2>3, <2>4, <2>5, KeepsOwner
<1>3. ASSUME NEW r \in Logins, UpgradePassword(r) PROVE Owned'
  <2> DEFINE q == request[r]
  <2>1. q \in Upgrading
    BY <1>3 DEF UpgradePassword, Typed, NoRequest, Reading, Saving, Keying, LoggingIn, Upgrading
  <2>2. q.login \in LoggingIn /\ q.login.id < next /\ q.login.name = owner[q.login.id]
    BY <1>1, <2>1 DEF Upgrading, OwnedBy, NoRequest
  <2>3. rows
    BY <1>1, <1>3, <2>1 DEF UpgradePassword, OwnedBy, Typed, Upgrading, Row
  <2>4. next' = next /\ cookies /\ request' = [request EXCEPT ![r] = q.login]
    BY <1>1, <1>3 DEF UpgradePassword, OwnedBy, Goes
  <2> HIDE DEF q
  <2> QED
    BY <1>1, <2>2, <2>3, <2>4, KeepsOwner DEF LoggingIn
<1>4. ASSUME NEW r \in Logins, UserLoginHandler(r) PROVE Owned'
  <2> DEFINE q == request[r]
  <2>1. q \in LoggingIn /\ q # NoRequest
    BY <1>4 DEF UserLoginHandler, Typed, NoRequest, Reading, Saving, Keying, LoggingIn, Upgrading
  <2>2. q.id < next /\ q.name = owner[q.id]
    BY <1>1, <2>1 DEF LoggingIn, OwnedBy
  <2>3. cookies
    BY <1>1, <1>4, <2>1, <2>2 DEF UserLoginHandler, OwnedBy, Typed, LoggingIn
  <2>4. next' = next /\ rows /\ request' = [request EXCEPT ![r] = NoRequest]
    BY <1>1, <1>4 DEF UserLoginHandler, OwnedBy, Ends, Goes
  <2> QED
    BY <1>1, <2>3, <2>4, KeepsOwner DEF NoRequest
<1>5. ASSUME NEW b \in Browsers, UserLogoutHandler(b) \/ SessionEnds(b) PROVE Owned'
  <2>1. cookies
    BY <1>1, <1>5 DEF UserLogoutHandler, SessionEnds, OwnedBy, Typed
  <2>2. OwnedBy(owner)'
    BY <1>1, <1>5, <2>1 DEF UserLogoutHandler, SessionEnds, OwnedBy
  <2> QED
    BY <2>2 DEF Owned
<1> QED
  BY <1>2, <1>3, <1>4, <1>5 DEF UserStep

LEMMA NextOwned == Typed /\ Owned /\ [Next]_vars => Owned'
<1> SUFFICES ASSUME Typed, Owned, [Next]_vars PROVE Owned'
  OBVIOUS
<1>1. PICK owner \in [Ids -> Names] : OwnedBy(owner)
  BY DEF Owned
<1>2. ASSUME NEW r \in Requests, RequestFails(r) PROVE Owned'
  BY <1>1, <1>2, KeepsOwner DEF RequestFails, Ends, Goes, OwnedBy, NoRequest
<1>3. CASE UNCHANGED vars
  BY <1>3 DEF vars, Owned, OwnedBy
<1> QED
  BY <1>2, <1>3, AdminOwned, UserOwned DEF Next

LEMMA InitOwned == Init => Owned
<1> SUFFICES ASSUME Init PROVE Owned
  OBVIOUS
<1> 1 \in Ids
  BY AccountsAssumption DEF Ids
<1>1. users[1] \in Row /\ \A i \in Ids : i > 1 => users[i] = NoUser
  <2>1. PICK name \in Names, password \in Passwords, legacy \in BOOLEAN :
          users = [i \in Ids |-> IF i > 1 THEN NoUser ELSE
                      [name |-> name, password |-> password, legacy |-> legacy, disabled |-> FALSE,
                       expireAt |-> 0, secret |-> 0]]
    BY DEF Init
  <2> QED
    BY <2>1 DEF Row, Times
<1> DEFINE owner == [i \in Ids |-> users[1].name]
<1>2. owner \in [Ids -> Names]
  BY <1>1 DEF Row
<1>3. \A i \in Ids : users[i] # NoUser => i < next /\ users[i].name = owner[i]
  BY <1>1, AccountsAssumption DEF Init, Ids
<1> HIDE DEF owner
<1>4. OwnedBy(owner)
  BY <1>3 DEF Init, OwnedBy, NoRequest
<1> QED
  BY <1>2, <1>4 DEF Owned

THEOREM OwnedInvariant == Spec => [](MeantInv /\ Owned)
<1>1. MeantInv /\ Owned /\ [Next]_vars => (MeantInv /\ Owned)'
  BY NextTyped, NextCarried, NextMeant, NextOwned DEF MeantInv
<1>2. Init => MeantInv /\ Owned
  BY InitMeant, InitOwned
<1> QED
  BY <1>1, <1>2, PTL DEF Spec

\* Nobody inherits the session of a deleted user: whoever is served for a
\* cookie entered the password of that very account.
THEOREM SessionsAreOwned == Spec => []SessionOwner
<1>1. MeantInv /\ Owned => SessionOwner
  <2> SUFFICES ASSUME Typed, NEW owner, OwnedBy(owner), NEW b \in Browsers, ActiveSessionUser(b) # 0
               PROVE  users[sessions[b].user].name = sessions[b].name
    BY DEF MeantInv, Owned, SessionOwner
  <2>1. sessions[b].user \in Present
    BY DEF ActiveSessionUser
  <2>2. sessions[b] # NoSession
    BY <2>1 DEF Present, Ids, NoSession
  <2> QED
    BY <2>1, <2>2 DEF OwnedBy, Present
<1> QED
  BY <1>1, OwnedInvariant, PTL
=============================================================================
