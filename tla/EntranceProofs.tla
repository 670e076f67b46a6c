--------------------------- MODULE EntranceProofs ---------------------------
(***************************************************************************)
(* Proofs about Entrance for every set of users and servers, any number of *)
(* authentications in flight, every interval and every limit of the map    *)
(* and of the events in memory.                                            *)
(***************************************************************************)
EXTENDS Entrance, SequenceTheorems, WellFoundedInduction, TLAPS

Authenticating == [pc : {"password", "auth_fail", "auth_success", "first_auth"}, server : Servers, user : Users]

Doing == {Idle, [pc |-> "trace"]} \cup Authenticating

CertEvents == [type : {"change"}, source : Users] \cup {[type |-> "clear", source |-> "administrator"]}

\* The types of what the cooldown and clearing certificate events work on.
Typed ==
  /\ now \in Nat
  /\ last \in [Keys -> Nat]
  /\ codes \in [Users -> Nat] /\ failures \in [Users -> Nat]
  /\ request \in [Auths \cup Clearers -> Doing]
  /\ \A r \in Auths : request[r].pc # "trace"
  /\ certEvents \in Seq(CertEvents)
  /\ cleared \in BOOLEAN

LEMMA PrunedTyped == ASSUME NEW map \in [Keys -> Nat] PROVE PruneLocked(map) \in [Keys -> Nat]
  BY DEF PruneLocked, Never

LEMMA KeyOf == \A kind \in {"login", "mfa", "vpnauth"}, u \in Users : [kind |-> kind, user |-> u] \in Keys
  BY DEF Keys

\* An attempt that is recorded gives the map its type again.
LEMMA RecordTyped ==
  ASSUME NEW k \in Keys, Typed, Allow(k) \/ RecordFailure(k)
  PROVE  last' \in [Keys -> Nat]
<1>1. [last EXCEPT ![k] = now] \in [Keys -> Nat]
  BY DEF Typed
<1> QED
  BY <1>1, PrunedTyped DEF Allow, RecordFailure

\* A list of events that is trimmed stays one, and no longer than its limit.
LEMMA TrimmedList ==
  ASSUME NEW S, NEW log \in Seq(S)
  PROVE  /\ Trimmed(log) \in Seq(S)
         /\ UseMemoryEvents => Len(Trimmed(log)) <= MaxMemoryEvents
<1>1. CASE ~(UseMemoryEvents /\ Len(log) > MaxMemoryEvents)
  BY <1>1, EventStoreAssumption DEF Trimmed, UseMemoryEvents
<1>2. CASE UseMemoryEvents /\ Len(log) > MaxMemoryEvents
  <2> DEFINE first == Len(log) - MaxMemoryEvents + 1
  <2>1. first \in 1 .. Len(log)
    BY <1>2, EventStoreAssumption DEF UseMemoryEvents
  <2>2. Trimmed(log) = SubSeq(log, first, Len(log))
    BY <1>2 DEF Trimmed
  <2> QED
    BY <1>2, <2>1, <2>2, EventStoreAssumption DEF UseMemoryEvents
<1> QED
  BY <1>1, <1>2

LEMMA NextTyped == Typed /\ [Next]_vars => Typed'
<1> SUFFICES ASSUME Typed, [Next]_vars PROVE Typed'
  OBVIOUS
<1> USE DEF Never
<1>1. CASE Tick
  BY <1>1 DEF Tick, Typed
<1>2. CASE PanelRestarts
  <2>1. request' \in [Auths \cup Clearers -> Doing] /\ \A r \in Auths : request'[r].pc # "trace"
    BY <1>2 DEF PanelRestarts, Doing, Idle
  <2>2. certEvents' \in Seq(CertEvents)
    <3>1. certEvents' = <<>> \/ certEvents' = certEvents
      BY <1>2 DEF PanelRestarts, UseMemoryEvents
    <3>2. <<>> \in Seq(CertEvents) /\ certEvents \in Seq(CertEvents)
      BY DEF Typed
    <3> QED
      BY <3>1, <3>2
  <2>3. last' \in [Keys -> Nat]
    BY <1>2 DEF PanelRestarts
  <2>4. codes' \in [Users -> Nat] /\ failures' \in [Users -> Nat]
    BY <1>2 DEF PanelRestarts
  <2>5. cleared' \in BOOLEAN /\ now' \in Nat
    BY <1>2 DEF PanelRestarts, Typed
  <2> QED
    BY <2>1, <2>2, <2>3, <2>4, <2>5 DEF Typed
<1>3. ASSUME NEW u \in Users, LoginWithPassword(u) PROVE Typed'
  BY <1>3, KeyOf, RecordTyped DEF LoginWithPassword, Typed
<1>4. ASSUME NEW u \in Users, LoginWithCode(u) PROVE Typed'
  BY <1>4, KeyOf, RecordTyped DEF LoginWithCode, CheckCode, Typed
<1>5. ASSUME NEW u \in Users, LogCertificateEvent(u) PROVE Typed'
  <2>1. Append(certEvents, [type |-> "change", source |-> u]) \in Seq(CertEvents)
    BY DEF Typed, CertEvents
  <2>2. certEvents' \in Seq(CertEvents)
    BY <1>5, <2>1, TrimmedList DEF LogCertificateEvent, CreateEvent
  <2> QED
    BY <1>5, <2>2 DEF LogCertificateEvent, Typed
<1>6. ASSUME NEW s \in Servers, ClearEvent(s) PROVE Typed'
  BY <1>6 DEF ClearEvent, Typed
<1>7. ASSUME NEW s \in Servers, NEW u \in Users, VerifyAndApplyMFA(s, u) PROVE Typed'
  BY <1>7, KeyOf, RecordTyped DEF VerifyAndApplyMFA, CheckCode, Typed
<1>8. ASSUME NEW s \in Servers, NEW u \in Users, UserAuthLimited(s, u) PROVE Typed'
  BY <1>8 DEF UserAuthLimited, Typed
<1>9. ASSUME NEW r \in Auths, NEW s \in Servers, NEW u \in Users, UserAuthInternalHandler(r, s, u) PROVE Typed'
  BY <1>9 DEF UserAuthInternalHandler, Goes, Typed, Doing, Authenticating
<1>10. ASSUME NEW r \in Auths, AuthUserFails(r) PROVE Typed'
  <2>1. request[r] \in Authenticating
    BY <1>10 DEF AuthUserFails, Typed, Doing, Idle
  <2>2. last' \in [Keys -> Nat] /\ failures' \in [Users -> Nat]
    BY <1>10, <2>1, KeyOf, RecordTyped DEF AuthUserFails, Typed, Authenticating
  <2>3. [request[r] EXCEPT !.pc = "auth_fail"] \in Authenticating
    BY <2>1 DEF Authenticating
  <2> QED
    BY <1>10, <2>2, <2>3 DEF AuthUserFails, Goes, Typed, Doing, Authenticating
<1>11. ASSUME NEW r \in Auths, UserRefused(r) \/ UserAccepted(r) PROVE Typed'
  <2>1. request[r] \in Authenticating
    BY <1>11 DEF UserRefused, UserAccepted, Typed, Doing, Idle
  <2>2. PICK q \in Authenticating : request' = [request EXCEPT ![r] = q]
    BY <1>11, <2>1 DEF UserRefused, UserAccepted, Goes, Authenticating
  <2> QED
    BY <1>11, <2>2 DEF UserRefused, UserAccepted, Typed, Doing, Authenticating
<1>12. ASSUME NEW r \in Auths, AuthLogged(r) PROVE Typed'
  <2>1. request[r] \in Authenticating
    BY <1>12 DEF AuthLogged, Typed, Doing, Idle
  <2>2. PICK q \in Authenticating \cup {Idle} : request' = [request EXCEPT ![r] = q]
    BY <1>12, <2>1 DEF AuthLogged, Goes, Authenticating
  <2> QED
    BY <1>12, <2>2 DEF AuthLogged, Typed, Doing, Authenticating, Idle
<1>13. ASSUME NEW r \in Clearers, ClearCertificateEvent(r) PROVE Typed'
  BY <1>13, EntranceAssumption DEF ClearCertificateEvent, Goes, Typed, Doing
<1>14. ASSUME NEW r \in Clearers, ClearTraced(r) PROVE Typed'
  <2>1. Append(certEvents, [type |-> "clear", source |-> "administrator"]) \in Seq(CertEvents)
    BY DEF Typed, CertEvents
  <2>2. certEvents' \in Seq(CertEvents)
    BY <1>14, <2>1, TrimmedList DEF ClearTraced, CreateEvent
  <2> QED
    BY <1>14, <2>2, EntranceAssumption DEF ClearTraced, Goes, Typed, Doing
<1>15. CASE UNCHANGED vars
  BY <1>15 DEF vars, Typed
<1> QED
  BY <1>1, <1>2, <1>3, <1>4, <1>5, <1>6, <1>7, <1>8, <1>9, <1>10, <1>11, <1>12, <1>13, <1>14, <1>15 DEF Next

LEMMA InitTyped == Init => Typed
<1> SUFFICES ASSUME Init PROVE Typed
  OBVIOUS
<1>1. request \in [Auths \cup Clearers -> Doing] /\ \A r \in Auths : request[r].pc # "trace"
  BY DEF Init, Doing, Idle
<1>2. certEvents \in Seq(CertEvents)
  BY DEF Init
<1>3. last \in [Keys -> Nat]
  BY DEF Init, Never
<1>4. codes \in [Users -> Nat] /\ failures \in [Users -> Nat]
  BY DEF Init, Never
<1>5. now \in Nat
  <2>1. now = Interval + 1
    BY DEF Init
  <2> QED
    BY <2>1, EntranceAssumption
<1>6. cleared \in BOOLEAN
  BY DEF Init
<1> QED
  BY <1>1, <1>2, <1>3, <1>4, <1>5, <1>6 DEF Typed

-----------------------------------------------------------------------------
(* The cooldown.  The map forgets an attempt only once its interval is     *)
(* over: the last check of a user's code, and the last failure openvpn was *)
(* told of, are the times in the map as long as they are recent.           *)

Recent(history, kind) ==
  \A u \in Users : history[u] # Never =>
      last[[kind |-> kind, user |-> u]] = history[u] \/ now - history[u] >= Interval

\* A clock that has started, and the two histories.
CooldownInv == Typed /\ now > Interval /\ Recent(codes, "mfa") /\ Recent(failures, "vpnauth")

\* An attempt puts the time at its own key; another key keeps its time or loses
\* one whose interval is over.
LEMMA AttemptRecorded ==
  ASSUME NEW k \in Keys, Typed, Allow(k) \/ RecordFailure(k)
  PROVE  /\ last'[k] = now
         /\ \A j \in Keys : j # k => last'[j] = last[j] \/ now - last[j] >= Interval
<1> DEFINE map == [last EXCEPT ![k] = now]
<1>1. map \in [Keys -> Nat] /\ map[k] = now /\ \A j \in Keys : j # k => map[j] = last[j]
  BY DEF Typed
<1>2. last' = PruneLocked(map)
  BY DEF Allow, RecordFailure
<1>3. ~(now - now >= Interval)
  BY EntranceAssumption DEF Typed
<1> HIDE DEF map
<1> QED
  BY <1>1, <1>2, <1>3 DEF PruneLocked

\* An attempt that is allowed comes an interval after the one in the map.
LEMMA AllowedLater ==
  ASSUME NEW k \in Keys, Typed, Remaining(k) = 0, last[k] # Never
  PROVE  now - last[k] >= Interval
<1>1. now \in Int /\ last[k] \in Int /\ Interval \in Int
  BY EntranceAssumption DEF Typed
<1> QED
  BY <1>1 DEF Remaining

\* An attempt leaves a history recent, but for its own user's if it was not
\* allowed.
LEMMA RecentKept ==
  ASSUME NEW k \in Keys, NEW h \in [Users -> Nat], NEW kind \in {"login", "mfa", "vpnauth"},
         Typed, Recent(h, kind), Allow(k) \/ RecordFailure(k), NEW u \in Users,
         [kind |-> kind, user |-> u] # k \/ Remaining(k) = 0, h[u] # Never
  PROVE  last'[[kind |-> kind, user |-> u]] = h[u] \/ now - h[u] >= Interval
<1> DEFINE key == [kind |-> kind, user |-> u]
<1>1. key \in Keys
  BY DEF Keys
<1>2. last[key] = h[u] \/ now - h[u] >= Interval
  BY DEF Recent
<1> HIDE DEF key
<1>3. CASE key # k
  <2>1. \A j \in Keys : j # k => last'[j] = last[j] \/ now - last[j] >= Interval
    BY AttemptRecorded
  <2>2. last'[key] = last[key] \/ now - last[key] >= Interval
    BY <1>1, <1>3, <2>1
  <2> QED
    BY <1>2, <2>2 DEF key
<1>4. CASE key = k /\ Remaining(k) = 0
  BY <1>2, <1>4, AllowedLater
<1> QED
  BY <1>3, <1>4 DEF key

LEMMA AllowRecent ==
  ASSUME CooldownInv, NEW k \in Keys, Allow(k), now' = now, failures' = failures,
         codes' = codes \/ \E u \in Users : k = [kind |-> "mfa", user |-> u] /\ CheckCode(u)
  PROVE  now' > Interval /\ Recent(codes, "mfa")' /\ Recent(failures, "vpnauth")'
<1> USE DEF CooldownInv
<1>1. codes \in [Users -> Nat] /\ failures \in [Users -> Nat] /\ Remaining(k) = 0
  BY DEF Typed, Allow
<1>2. Recent(failures, "vpnauth")'
  BY <1>1, RecentKept DEF Recent
<1>3. CASE codes' = codes
  <2>1. Recent(codes, "mfa")'
    BY <1>1, <1>3, RecentKept DEF Recent
  <2> QED
    BY <1>2, <2>1
<1>4. ASSUME NEW u \in Users, k = [kind |-> "mfa", user |-> u], CheckCode(u)
      PROVE  Recent(codes, "mfa")'
  <2>1. codes' = [codes EXCEPT ![u] = now] /\ last'[[kind |-> "mfa", user |-> u]] = now
    BY <1>4, AttemptRecorded DEF CheckCode
  <2>2. \A v \in Users : v # u /\ codes[v] # Never =>
           last'[[kind |-> "mfa", user |-> v]] = codes[v] \/ now - codes[v] >= Interval
    BY <1>1, RecentKept
  <2> QED
    BY <1>1, <2>1, <2>2 DEF Recent
<1> QED
  BY <1>2, <1>3, <1>4

LEMMA NextCooldown == CooldownInv /\ [Next]_vars => CooldownInv'
<1> SUFFICES ASSUME CooldownInv, [Next]_vars
             PROVE  now' > Interval /\ Recent(codes, "mfa")' /\ Recent(failures, "vpnauth")'
  BY NextTyped DEF CooldownInv
<1> USE DEF CooldownInv
<1>1. CASE Tick
  <2>1. /\ now \in Nat /\ Interval \in Nat /\ now' = now + 1 /\ UNCHANGED <<last, codes, failures>>
        /\ codes \in [Users -> Nat] /\ failures \in [Users -> Nat]
    BY <1>1, EntranceAssumption DEF Tick, Typed
  <2> QED
    BY <2>1 DEF Recent
<1>2. CASE PanelRestarts
  BY <1>2 DEF PanelRestarts, Recent
<1>3. ASSUME NEW u \in Users, LoginWithPassword(u) \/ LoginWithCode(u)
      PROVE  now' > Interval /\ Recent(codes, "mfa")' /\ Recent(failures, "vpnauth")'
  BY <1>3, KeyOf, AllowRecent DEF LoginWithPassword, LoginWithCode
<1>4. ASSUME NEW s \in Servers, NEW u \in Users, VerifyAndApplyMFA(s, u)
      PROVE  now' > Interval /\ Recent(codes, "mfa")' /\ Recent(failures, "vpnauth")'
  BY <1>4, KeyOf, AllowRecent DEF VerifyAndApplyMFA
<1>5. ASSUME NEW r \in Auths, AuthUserFails(r)
      PROVE  now' > Interval /\ Recent(codes, "mfa")' /\ Recent(failures, "vpnauth")'
  <2> DEFINE u == request[r].user
             k == [kind |-> "vpnauth", user |-> u]
  <2>1. u \in Users /\ k \in Keys /\ codes \in [Users -> Nat] /\ failures \in [Users -> Nat]
    BY <1>5, KeyOf DEF AuthUserFails, Typed, Doing, Idle, Authenticating
  <2>2. CASE UNCHANGED <<last, failures>>
    BY <1>5, <2>2 DEF AuthUserFails, Recent
  <2>3. CASE RecordFailure(k) /\ failures' = [failures EXCEPT ![u] = now]
    <3>1. Recent(codes, "mfa")'
      BY <1>5, <2>1, <2>3, RecentKept DEF AuthUserFails, Recent
    <3>2. last'[k] = now
      BY <2>1, <2>3, AttemptRecorded
    <3>3. \A v \in Users : v # u /\ failures[v] # Never =>
             last'[[kind |-> "vpnauth", user |-> v]] = failures[v] \/ now - failures[v] >= Interval
      BY <2>1, <2>3, RecentKept
    <3> QED
      BY <1>5, <2>1, <2>3, <3>1, <3>2, <3>3 DEF AuthUserFails, Recent
  <2> QED
    BY <1>5, <2>2, <2>3 DEF AuthUserFails
<1>6. CASE UNCHANGED <<now, last, codes, failures>>
  BY <1>6 DEF Recent
<1> QED
  BY <1>1, <1>2, <1>3, <1>4, <1>5, <1>6
     DEF Next, vars, LogCertificateEvent, ClearEvent, UserAuthLimited, UserAuthInternalHandler, UserRefused,
         UserAccepted, AuthLogged, ClearCertificateEvent, ClearTraced

LEMMA InitCooldown == Init => CooldownInv
<1> SUFFICES ASSUME Init PROVE now > Interval /\ Recent(codes, "mfa") /\ Recent(failures, "vpnauth")
  BY InitTyped DEF CooldownInv
<1>1. now = Interval + 1
  BY DEF Init
<1>2. now > Interval
  BY <1>1, EntranceAssumption
<1> QED
  BY <1>2 DEF Init, Recent

THEOREM CooldownInvariant == Spec => []CooldownInv
  BY InitCooldown, NextCooldown, PTL DEF Spec

\* A code is checked only an interval after the last one.
LEMMA CodesSpaced ==
  ASSUME CooldownInv, [Next]_vars, NEW u \in Users, codes'[u] \notin {codes[u], Never}, codes[u] # Never
  PROVE  codes'[u] - codes[u] >= Interval
<1> DEFINE k(v) == [kind |-> "mfa", user |-> v]
<1> USE DEF CooldownInv
<1>1. PICK v \in Users : CheckCode(v) /\ Allow(k(v))
  <2>1. ASSUME NEW r \in Auths, AuthUserFails(r) PROVE codes' = codes
    BY <2>1 DEF AuthUserFails
  <2>2. CASE PanelRestarts
    BY <2>2 DEF PanelRestarts
  <2> QED
    BY <2>1, <2>2 DEF Next, vars, Tick, LoginWithPassword, LoginWithCode, VerifyAndApplyMFA, LogCertificateEvent,
         ClearEvent, UserAuthLimited, UserAuthInternalHandler, UserRefused, UserAccepted, AuthLogged,
         ClearCertificateEvent, ClearTraced
<1>2. codes \in [Users -> Nat] /\ now \in Nat
  BY DEF Typed
<1>3. v = u /\ codes'[u] = now
  BY <1>1, <1>2 DEF CheckCode
<1>4. k(u) \in Keys /\ Remaining(k(u)) = 0
  BY <1>1, <1>3, KeyOf DEF Allow
<1>5. last[k(u)] = codes[u] \/ now - codes[u] >= Interval
  BY DEF Recent
<1>6. last[k(u)] = codes[u] => now - codes[u] >= Interval
  BY <1>4, AllowedLater
<1> QED
  BY <1>3, <1>5, <1>6

\* An authentication begins only an interval after a failure that was recorded.
LEMMA FailuresSpaced ==
  ASSUME CooldownInv, [Next]_vars, NEW r \in Auths, request[r] = Idle, request'[r] # Idle,
         failures[request'[r].user] # Never
  PROVE  now - failures[request'[r].user] >= Interval
<1> DEFINE k(v) == [kind |-> "vpnauth", user |-> v]
<1> USE DEF CooldownInv
<1>1. PICK s \in Servers, u \in Users : UserAuthInternalHandler(r, s, u)
  <2>1. ASSUME NEW a \in Auths, \/ \E s \in Servers, u \in Users : UserAuthInternalHandler(a, s, u)
                                \/ AuthUserFails(a) \/ UserRefused(a) \/ UserAccepted(a) \/ AuthLogged(a)
        PROVE  a = r /\ \E s \in Servers, u \in Users : UserAuthInternalHandler(a, s, u)
    <3>1. a = r
      BY <2>1 DEF UserAuthInternalHandler, AuthUserFails, UserRefused, UserAccepted, AuthLogged, Goes, Typed
    <3> QED
      BY <2>1, <3>1 DEF AuthUserFails, UserRefused, UserAccepted, AuthLogged, Idle
  <2>2. ASSUME NEW c \in Clearers, ClearCertificateEvent(c) \/ ClearTraced(c) PROVE FALSE
    BY <2>2, EntranceAssumption DEF ClearCertificateEvent, ClearTraced, Goes, Typed
  <2>3. CASE PanelRestarts
    BY <2>3 DEF PanelRestarts
  <2> QED
    BY <2>1, <2>2, <2>3 DEF Next, vars, Tick, LoginWithPassword, LoginWithCode, VerifyAndApplyMFA,
         LogCertificateEvent, ClearEvent, UserAuthLimited
<1>2. request'[r].user = u /\ Remaining(k(u)) = 0
  BY <1>1 DEF UserAuthInternalHandler, Goes, Typed, RetryAfter
<1>3. last[k(u)] = failures[u] \/ now - failures[u] >= Interval
  BY <1>2 DEF Recent
<1>4. last[k(u)] = failures[u] => now - failures[u] >= Interval
  BY <1>2, KeyOf, AllowedLater
<1> QED
  BY <1>2, <1>3, <1>4

\* No second factor and no password is tried twice within an interval, however
\* the map is pruned and whatever else is tried meanwhile.
THEOREM AttemptsAreSpaced == Spec => AttemptsSpaced
<1>1. CooldownInv /\ [Next]_vars =>
         [/\ \A u \in Users : codes'[u] \notin {codes[u], Never} /\ codes[u] # Never =>
                                  codes'[u] - codes[u] >= Interval
          /\ \A r \in Auths : request[r] = Idle /\ request'[r] # Idle =>
                 LET u == request'[r].user
                 IN  failures[u] # Never => now - failures[u] >= Interval]_vars
  BY CodesSpaced, FailuresSpaced
<1> QED
  BY <1>1, CooldownInvariant, PTL DEF Spec, AttemptsSpaced

-----------------------------------------------------------------------------
(* Clearing certificate events.  The list grows at its newer end, so an    *)
(* event in it stays until the list is full, and then the list stays full. *)

Full(log) == UseMemoryEvents /\ Len(log) = MaxMemoryEvents

LEMMA CreatedOrFull ==
  ASSUME NEW S, NEW log \in Seq(S), NEW event \in S
  PROVE  CreateEvent(log, event) = Append(log, event) \/ Full(CreateEvent(log, event))
<1> DEFINE grown == Append(log, event)
<1>1. grown \in Seq(S)
  OBVIOUS
<1> HIDE DEF grown
<1>2. CASE ~(UseMemoryEvents /\ Len(grown) > MaxMemoryEvents)
  BY <1>2 DEF CreateEvent, Trimmed, grown
<1>3. CASE UseMemoryEvents /\ Len(grown) > MaxMemoryEvents
  <2> DEFINE first == Len(grown) - MaxMemoryEvents + 1
  <2>1. first \in 1 .. Len(grown)
    BY <1>1, <1>3, EventStoreAssumption DEF UseMemoryEvents
  <2>2. Trimmed(grown) = SubSeq(grown, first, Len(grown))
    BY <1>3 DEF Trimmed
  <2>3. Len(Trimmed(grown)) = MaxMemoryEvents
    BY <1>1, <2>1, <2>2, EventStoreAssumption
  <2> QED
    BY <1>3, <2>3 DEF CreateEvent, Full, grown
<1> QED
  BY <1>2, <1>3

Trace(log) == \E k \in 1 .. Len(log) : log[k].type = "clear"

\* A new event leaves the trace of a clearing in the list, or the list is full.
LEMMA TraceStays ==
  ASSUME NEW log \in Seq(CertEvents), NEW event \in CertEvents,
         Trace(log) \/ event.type = "clear" \/ Full(log)
  PROVE  Trace(CreateEvent(log, event)) \/ Full(CreateEvent(log, event))
<1>1. CASE Full(log)
  <2>1. Len(Append(log, event)) > MaxMemoryEvents
    BY <1>1, EventStoreAssumption DEF Full
  <2>2. CreateEvent(log, event) # Append(log, event)
    <3>1. CreateEvent(log, event) = Trimmed(Append(log, event)) /\ Append(log, event) \in Seq(CertEvents)
      BY DEF CreateEvent
    <3>2. Len(CreateEvent(log, event)) <= MaxMemoryEvents
      BY <1>1, <3>1, TrimmedList DEF Full
    <3> QED
      BY <2>1, <3>2, EventStoreAssumption
  <2> QED
    BY <2>2, CreatedOrFull
<1>2. ASSUME Trace(log) \/ event.type = "clear" PROVE Trace(Append(log, event))
  BY <1>2 DEF Trace
<1> QED
  BY <1>1, <1>2, CreatedOrFull

LEMMA NextTrace == Typed /\ ClearLeavesTrace /\ [Next]_vars => ClearLeavesTrace'
<1> SUFFICES ASSUME Typed, ClearLeavesTrace, [Next]_vars, cleared',
                    ~Full(certEvents'), \A c \in Clearers : request'[c].pc # "trace"
             PROVE  Trace(certEvents')
  BY DEF ClearLeavesTrace, Trace, Full
<1>1. ASSUME NEW u \in Users, LogCertificateEvent(u) PROVE Trace(certEvents')
  <2> DEFINE event == [type |-> "change", source |-> u]
  <2>1. certEvents' = CreateEvent(certEvents, event) /\ event \in CertEvents /\ certEvents \in Seq(CertEvents)
    BY <1>1 DEF LogCertificateEvent, CertEvents, Typed
  <2>2. Trace(certEvents) \/ Full(certEvents)
    BY <1>1 DEF LogCertificateEvent, ClearLeavesTrace, Trace, Full
  <2> HIDE DEF event
  <2> QED
    BY <2>1, <2>2, TraceStays
<1>2. ASSUME NEW r \in Clearers, ClearCertificateEvent(r) PROVE FALSE
  BY <1>2 DEF ClearCertificateEvent, Goes, Typed
<1>3. ASSUME NEW r \in Clearers, ClearTraced(r) PROVE Trace(certEvents')
  <2> DEFINE event == [type |-> "clear", source |-> "administrator"]
  <2>1. certEvents' = CreateEvent(certEvents, event) /\ event \in CertEvents /\ certEvents \in Seq(CertEvents)
    BY <1>3 DEF ClearTraced, CertEvents, Typed
  <2> QED
    BY <2>1, TraceStays
<1>4. CASE PanelRestarts
  BY <1>4 DEF PanelRestarts
<1>5. ASSUME UNCHANGED <<certEvents, cleared>>, \A c \in Clearers : request'[c] = request[c]
      PROVE  Trace(certEvents')
  BY <1>5 DEF ClearLeavesTrace, Trace, Full
<1>6. ASSUME NEW r \in Auths, NEW q, request' = [request EXCEPT ![r] = q]
      PROVE  \A c \in Clearers : request'[c] = request[c]
  BY <1>6, EntranceAssumption DEF Typed
<1> QED
  BY <1>1, <1>2, <1>3, <1>4, <1>5, <1>6
     DEF Next, vars, Tick, LoginWithPassword, LoginWithCode, VerifyAndApplyMFA, ClearEvent, UserAuthLimited,
         UserAuthInternalHandler, AuthUserFails, UserRefused, UserAccepted, AuthLogged, Goes

THEOREM TraceInvariant == Spec => [](Typed /\ ClearLeavesTrace)
<1>1. Init => Typed /\ ClearLeavesTrace
  BY InitTyped DEF Init, ClearLeavesTrace
<1>2. Typed /\ ClearLeavesTrace /\ [Next]_vars => (Typed /\ ClearLeavesTrace)'
  BY NextTyped, NextTrace
<1> QED
  BY <1>1, <1>2, PTL DEF Spec

\* Whoever clears the certificate events leaves a trace, unless it is still
\* being written or newer events fill the list.
THEOREM ClearingLeavesTrace == Spec => []ClearLeavesTrace
  BY TraceInvariant, PTL

-----------------------------------------------------------------------------
(* Picking events from a list.  The recursion over the list's prefixes has *)
(* a solution, by induction over their lengths.                            *)

LEMMA LeastNumber ==
  ASSUME NEW T, T \subseteq Nat, T # {}
  PROVE  \E n \in T : \A m \in T : n <= m
<1>1. IsWellFoundedOn(OpToRel(<, Nat), Nat)
  BY NatLessThanWellFounded
<1>2. PICK n \in T : \A m \in T : ~(<<m, n>> \in OpToRel(<, Nat))
  BY <1>1, WFMin
<1>3. \A m \in T : ~(m < n)
  BY <1>2 DEF OpToRel
<1> QED
  BY <1>3

LEMMA Upwards ==
  ASSUME NEW S, 0 \in S, \A n \in Nat : n \in S => n + 1 \in S
  PROVE  \A n \in Nat : n \in S
<1> DEFINE T == Nat \ S
<1>1. SUFFICES ASSUME T # {} PROVE FALSE
  OBVIOUS
<1>2. PICK n \in T : \A m \in T : n <= m
  BY <1>1, LeastNumber
<1>3. n - 1 \in Nat /\ n - 1 \notin T
  BY <1>2
<1> QED
  BY <1>2, <1>3

\* What is picked from the first events of a list, for each number of them.
Picked(log, places, f) ==
  /\ f[0] = <<>>
  /\ \A n \in 1 .. Len(log) : f[n] = IF n \in places THEN Append(f[n - 1], log[n]) ELSE f[n - 1]

LEMMA PickedExists ==
  ASSUME NEW S, NEW log \in Seq(S), NEW places
  PROVE  \E f \in [0 .. Len(log) -> Seq(S)] : Picked(log, places, f)
<1> DEFINE Steps(g, m) ==
             \A n \in 1 .. m : g[n] = IF n \in places THEN Append(g[n - 1], log[n]) ELSE g[n - 1]
           Solved(m) == \E g \in [0 .. m -> Seq(S)] : g[0] = <<>> /\ Steps(g, m)
           Good == {m \in Nat : m <= Len(log) => Solved(m)}
<1>1. 0 \in Good
  <2> DEFINE g == [n \in 0 .. 0 |-> <<>>]
  <2>1. g \in [0 .. 0 -> Seq(S)] /\ g[0] = <<>> /\ Steps(g, 0)
    OBVIOUS
  <2> QED
    BY <2>1
<1>2. ASSUME NEW m \in Nat, m \in Good PROVE m + 1 \in Good
  <2> HIDE DEF Solved
  <2>1. SUFFICES ASSUME m + 1 <= Len(log) PROVE Solved(m + 1)
    OBVIOUS
  <2>2. Len(log) \in Nat
    OBVIOUS
  <2>3. PICK g \in [0 .. m -> Seq(S)] : g[0] = <<>> /\ Steps(g, m)
    BY <1>2, <2>1, <2>2 DEF Solved
  <2> DEFINE more == IF m + 1 \in places THEN Append(g[m], log[m + 1]) ELSE g[m]
             h == [n \in 0 .. m + 1 |-> IF n <= m THEN g[n] ELSE more]
  <2>4. log[m + 1] \in S /\ g[m] \in Seq(S)
    BY <2>1, <2>2
  <2>5. more \in Seq(S)
    BY <2>4
  <2> HIDE DEF more
  <2>6. h[m + 1] = more /\ h[m] = g[m]
    <3>1. ~(m + 1 <= m) /\ m + 1 \in 0 .. m + 1 /\ m \in 0 .. m + 1 /\ m <= m
      OBVIOUS
    <3> QED
      BY <3>1
  <2>7. h \in [0 .. m + 1 -> Seq(S)] /\ h[0] = <<>>
    BY <2>3, <2>5
  <2>8. \A n \in 1 .. m : h[n] = g[n] /\ h[n - 1] = g[n - 1]
    OBVIOUS
  <2> HIDE DEF h
  <2>9. ASSUME NEW n \in 1 .. m + 1
        PROVE  h[n] = IF n \in places THEN Append(h[n - 1], log[n]) ELSE h[n - 1]
    <3>1. CASE n \in 1 .. m
      BY <2>3, <2>8, <3>1
    <3>2. CASE n = m + 1
      <4>1. n - 1 = m
        BY <3>2
      <4> QED
        BY <2>6, <3>2, <4>1 DEF more
    <3> QED
      BY <3>1, <3>2
  <2> QED
    BY <2>7, <2>9 DEF Solved
<1> HIDE DEF Good
<1>3. Len(log) \in Good
  BY <1>1, <1>2, Upwards
<1> QED
  BY <1>3 DEF Good, Picked

LEMMA EventsAtPicked ==
  ASSUME NEW S, NEW log \in Seq(S), NEW places
  PROVE  \E f \in [0 .. Len(log) -> Seq(S)] :
            Picked(log, places, f) /\ EventsAt(log, places) = f[Len(log)]
<1> DEFINE body(f) == [n \in 0 .. Len(log) |->
               IF n = 0 THEN <<>> ELSE IF n \in places THEN Append(f[n - 1], log[n]) ELSE f[n - 1]]
           upTo == CHOOSE f : f = body(f)
<1>1. PICK g \in [0 .. Len(log) -> Seq(S)] : Picked(log, places, g)
  BY PickedExists
<1> Len(log) \in Nat
  OBVIOUS
<1>2. g = body(g)
  <2>1. ASSUME NEW n \in 0 .. Len(log) PROVE g[n] = body(g)[n]
    <3>1. n = 0 \/ n \in 1 .. Len(log)
      OBVIOUS
    <3> QED
      BY <1>1, <3>1 DEF Picked
  <2> QED
    BY <2>1
<1>3. upTo = body(upTo)
  BY <1>2
<1>4. EventsAt(log, places) = upTo[Len(log)]
  BY DEF EventsAt
<1> HIDE DEF upTo
<1>5. Picked(log, places, upTo)
  <2>1. \A n \in 0 .. Len(log) : upTo[n] =
           IF n = 0 THEN <<>> ELSE IF n \in places THEN Append(upTo[n - 1], log[n]) ELSE upTo[n - 1]
    BY <1>3
  <2>2. 0 \in 0 .. Len(log) /\ \A n \in 1 .. Len(log) : n \in 0 .. Len(log) /\ n # 0
    OBVIOUS
  <2> QED
    BY <2>1, <2>2 DEF Picked
<1>6. upTo = g
  <2> DEFINE Same == {n \in Nat : n <= Len(log) => upTo[n] = g[n]}
  <2>1. 0 \in Same
    BY <1>1, <1>5 DEF Picked
  <2>2. ASSUME NEW n \in Nat, n \in Same PROVE n + 1 \in Same
    <3>1. CASE n + 1 <= Len(log)
      <4>1. n + 1 \in 1 .. Len(log) /\ upTo[n] = g[n] /\ (n + 1) - 1 = n
        BY <2>2, <3>1
      <4> QED
        BY <1>1, <1>5, <4>1 DEF Picked
    <3> QED
      BY <3>1
  <2> HIDE DEF Same
  <2>3. \A n \in Nat : n \in Same
    BY <2>1, <2>2, Upwards
  <2>4. \A n \in 0 .. Len(log) : upTo[n] = g[n]
    BY <2>3 DEF Same
  <2> QED
    BY <1>2, <1>3, <2>4
<1> QED
  BY <1>1, <1>4, <1>6

LEMMA EventsAtTyped ==
  ASSUME NEW S, NEW log \in Seq(S), NEW places
  PROVE  EventsAt(log, places) \in Seq(S)
<1>1. Len(log) \in 0 .. Len(log)
  OBVIOUS
<1> QED
  BY <1>1, EventsAtPicked

\* Names for the two operators keep their definitions away from the provers.
Joined(older, newer) == older \o newer
Extended(log, event) == Append(log, event)

LEMMA ExtendJoined ==
  ASSUME NEW S, NEW older \in Seq(S), NEW newer \in Seq(S), NEW event \in S
  PROVE  Extended(Joined(older, newer), event) = Joined(older, Extended(newer, event))
  BY DEF Joined, Extended

\* What is picked from two lists in a row is what is picked from each, in a row.
LEMMA EventsAtJoined ==
  ASSUME NEW S, NEW older \in Seq(S), NEW newer \in Seq(S), NEW all, NEW O, NEW N,
         \A n \in 1 .. Len(older) : n \in all <=> n \in O,
         \A n \in 1 .. Len(newer) : Len(older) + n \in all <=> n \in N
  PROVE  EventsAt(Joined(older, newer), all) = Joined(EventsAt(older, O), EventsAt(newer, N))
<1> DEFINE joined == older \o newer
<1>1. joined \in Seq(S) /\ Len(joined) = Len(older) + Len(newer) /\ Len(older) \in Nat /\ Len(newer) \in Nat
  OBVIOUS
<1>2. /\ \A n \in 1 .. Len(older) : joined[n] = older[n]
      /\ \A n \in 1 .. Len(newer) : joined[Len(older) + n] = newer[n] /\ newer[n] \in S
  OBVIOUS
<1> HIDE DEF joined
<1>3. PICK f \in [0 .. Len(joined) -> Seq(S)] :
         Picked(joined, all, f) /\ EventsAt(joined, all) = f[Len(joined)]
  BY <1>1, EventsAtPicked
<1>4. PICK g \in [0 .. Len(older) -> Seq(S)] :
         Picked(older, O, g) /\ EventsAt(older, O) = g[Len(older)]
  BY EventsAtPicked
<1>5. PICK h \in [0 .. Len(newer) -> Seq(S)] :
         Picked(newer, N, h) /\ EventsAt(newer, N) = h[Len(newer)]
  BY EventsAtPicked
<1>6. f[Len(older)] = g[Len(older)]
  <2> DEFINE Same == {n \in Nat : n <= Len(older) => f[n] = g[n]}
  <2>1. 0 \in Same
    BY <1>3, <1>4 DEF Picked
  <2>2. ASSUME NEW n \in Nat, n \in Same PROVE n + 1 \in Same
    <3>1. CASE n + 1 <= Len(older)
      <4>1. n + 1 \in 1 .. Len(older) /\ n + 1 \in 1 .. Len(joined) /\ (n + 1) - 1 = n /\ f[n] = g[n]
        BY <1>1, <2>2, <3>1
      <4>2. f[n + 1] = IF n + 1 \in all THEN Append(f[n], joined[n + 1]) ELSE f[n]
        BY <1>3, <4>1 DEF Picked
      <4>3. g[n + 1] = IF n + 1 \in O THEN Append(g[n], older[n + 1]) ELSE g[n]
        BY <1>4, <4>1 DEF Picked
      <4>4. joined[n + 1] = older[n + 1] /\ (n + 1 \in all <=> n + 1 \in O)
        BY <1>2, <4>1
      <4>5. f[n + 1] = g[n + 1]
        BY <4>1, <4>2, <4>3, <4>4
      <4> QED
        BY <4>5
    <3> QED
      BY <3>1
  <2> HIDE DEF Same
  <2>3. Len(older) \in Same
    BY <1>1, <2>1, <2>2, Upwards
  <2> QED
    BY <1>1, <2>3 DEF Same
<1>7. f[Len(older) + Len(newer)] = g[Len(older)] \o h[Len(newer)]
  <2> DEFINE start == g[Len(older)]
             Same == {n \in Nat : n <= Len(newer) => f[Len(older) + n] = start \o h[n]}
  <2>1. start \in Seq(S) /\ \A n \in 0 .. Len(newer) : h[n] \in Seq(S)
    <3>1. Len(older) \in 0 .. Len(older)
      BY <1>1
    <3> QED
      BY <3>1
  <2>2. f[Len(older)] = start
    BY <1>6
  <2> HIDE DEF start
  <2>3. 0 \in Same
    <3>1. h[0] = <<>> /\ start \o <<>> = start /\ Len(older) + 0 = Len(older)
      BY <1>1, <1>5, <2>1 DEF Picked
    <3> QED
      BY <2>2, <3>1
  <2>4. ASSUME NEW n \in Nat, n \in Same PROVE n + 1 \in Same
    <3>1. CASE n + 1 <= Len(newer)
      <4>1. /\ n + 1 \in 1 .. Len(newer) /\ Len(older) + n + 1 \in 1 .. Len(joined)
            /\ (n + 1) - 1 = n /\ (Len(older) + n + 1) - 1 = Len(older) + n
            /\ Len(older) + (n + 1) = Len(older) + n + 1
            /\ n \in 0 .. Len(newer)
        BY <1>1, <3>1
      <4>2. f[Len(older) + n] = start \o h[n]
        BY <2>4, <3>1
      <4>3. f[Len(older) + n + 1] = IF Len(older) + n + 1 \in all THEN Append(f[Len(older) + n], joined[Len(older) + n + 1])
                                    ELSE f[Len(older) + n]
        BY <1>3, <4>1 DEF Picked
      <4>4. h[n + 1] = IF n + 1 \in N THEN Append(h[n], newer[n + 1]) ELSE h[n]
        BY <1>5, <4>1 DEF Picked
      <4>5. joined[Len(older) + n + 1] = newer[n + 1] /\ newer[n + 1] \in S
        BY <1>2, <4>1
      <4>6. Append(start \o h[n], newer[n + 1]) = start \o Append(h[n], newer[n + 1])
        <5>1. start \in Seq(S) /\ h[n] \in Seq(S) /\ newer[n + 1] \in S
          BY <2>1, <4>1, <4>5
        <5>2. Extended(Joined(start, h[n]), newer[n + 1]) = Joined(start, Extended(h[n], newer[n + 1]))
          BY <5>1, ExtendJoined
        <5> QED
          BY <5>2 DEF Joined, Extended
      <4>7. Len(older) + n + 1 \in all <=> n + 1 \in N
        BY <4>1
      <4>8. f[Len(older) + (n + 1)] = start \o h[n + 1]
        BY <4>1, <4>2, <4>3, <4>4, <4>5, <4>6, <4>7
      <4> QED
        BY <4>8
    <3> QED
      BY <3>1
  <2> HIDE DEF Same
  <2>5. Len(newer) \in Same
    BY <1>1, <2>3, <2>4, Upwards
  <2> QED
    BY <1>1, <2>5 DEF Same, start
<1> QED
  BY <1>1, <1>3, <1>4, <1>5, <1>7 DEF joined, Joined

LEMMA ServersJoined ==
  ASSUME NEW S, NEW older \in Seq(S), NEW newer \in Seq(S), NEW s
  PROVE  /\ EventsOf(Joined(older, newer), s) = Joined(EventsOf(older, s), EventsOf(newer, s))
         /\ ClearServerEvents(Joined(older, newer), s)
               = Joined(ClearServerEvents(older, s), ClearServerEvents(newer, s))
<1> DEFINE joined == Joined(older, newer)
           Of(log) == {n \in DOMAIN log : log[n].server = s}
           Else(log) == {n \in DOMAIN log : log[n].server # s}
<1>1. /\ DOMAIN joined = 1 .. Len(older) + Len(newer)
      /\ DOMAIN older = 1 .. Len(older) /\ DOMAIN newer = 1 .. Len(newer)
      /\ Len(older) \in Nat /\ Len(newer) \in Nat
  BY DEF Joined
<1>2. /\ \A n \in 1 .. Len(older) : joined[n] = older[n]
      /\ \A n \in 1 .. Len(newer) : joined[Len(older) + n] = newer[n]
  BY DEF Joined
<1>3. /\ \A n \in 1 .. Len(older) : n \in DOMAIN joined
      /\ \A n \in 1 .. Len(newer) : Len(older) + n \in DOMAIN joined
  BY <1>1
<1> HIDE DEF joined
<1>4. /\ \A n \in 1 .. Len(older) : n \in Of(joined) <=> n \in Of(older)
      /\ \A n \in 1 .. Len(newer) : Len(older) + n \in Of(joined) <=> n \in Of(newer)
  BY <1>1, <1>2, <1>3
<1>5. /\ \A n \in 1 .. Len(older) : n \in Else(joined) <=> n \in Else(older)
      /\ \A n \in 1 .. Len(newer) : Len(older) + n \in Else(joined) <=> n \in Else(newer)
  BY <1>1, <1>2, <1>3
<1> HIDE DEF Of, Else
<1>6. EventsAt(Joined(older, newer), Of(joined)) = Joined(EventsAt(older, Of(older)), EventsAt(newer, Of(newer)))
  BY <1>4, EventsAtJoined
<1>7. EventsAt(Joined(older, newer), Else(joined)) = Joined(EventsAt(older, Else(older)), EventsAt(newer, Else(newer)))
  BY <1>5, EventsAtJoined
<1> QED
  BY <1>6, <1>7 DEF EventsOf, ClearServerEvents, Of, Else, joined

-----------------------------------------------------------------------------
(* The newest events.  The list in memory is a tail of the table: both     *)
(* grow at the same end, only the list loses events at the other, and      *)
(* clearing a server picks the same events from the part they share.       *)

Logged == [server : Servers, type : {"auth_fail", "auth_success", "first_auth", "second_auth"},
           source : Users, time : Nat]

TailInv ==
  /\ Typed
  /\ events \in Seq(Logged)
  /\ \E older \in Seq(Logged) : table = Joined(older, events)

LEMMA TailSuffix ==
  ASSUME NEW S, NEW older \in Seq(S), NEW newer \in Seq(S)
  PROVE  IsSuffix(newer, Joined(older, newer))
<1> DEFINE joined == older \o newer
<1>1. joined \in Seq(S) /\ Len(joined) = Len(older) + Len(newer) /\ Len(older) \in Nat /\ Len(newer) \in Nat
  OBVIOUS
<1>2. \A n \in 1 .. Len(newer) : joined[Len(older) + n] = newer[n]
  OBVIOUS
<1> HIDE DEF joined
<1> DEFINE short == Reverse(newer)
           long == Reverse(joined)
<1>3. /\ short = [i \in 1 .. Len(newer) |-> newer[(Len(newer) - i) + 1]]
      /\ long = [i \in 1 .. Len(joined) |-> joined[(Len(joined) - i) + 1]]
  BY DEF Reverse
<1>4. short \in Seq(S) /\ Len(short) = Len(newer) /\ long \in Seq(S) /\ Len(long) = Len(joined)
  BY <1>1, <1>3
<1>5. ASSUME NEW i \in 1 .. Len(newer) PROVE short[i] = long[i]
  <2>1. (Len(joined) - i) + 1 = Len(older) + ((Len(newer) - i) + 1) /\ (Len(newer) - i) + 1 \in 1 .. Len(newer)
        /\ i \in 1 .. Len(joined)
    BY <1>1
  <2> QED
    BY <1>2, <1>3, <2>1
<1> HIDE DEF short, long
<1>6. Len(short) <= Len(long)
  BY <1>1, <1>4
<1>7. SubSeq(short, 1, Len(short)) = SubSeq(long, 1, Len(short))
  <2> DEFINE part == SubSeq(long, 1, Len(short))
  <2>1. SubSeq(short, 1, Len(short)) = short
    BY <1>4, SubSeqFull
  <2>2. part \in Seq(S) /\ Len(part) = Len(short)
    BY <1>1, <1>4, <1>6
  <2>3. \A i \in 1 .. Len(short) : part[i] = long[i]
    BY <1>1, <1>4, <1>6
  <2> HIDE DEF part
  <2>4. \A i \in 1 .. Len(part) : part[i] = short[i]
    BY <1>4, <1>5, <2>2, <2>3
  <2>5. part = short
    BY <1>4, <2>2, <2>4, SeqEqual
  <2> QED
    BY <2>1, <2>5 DEF part
<1> QED
  BY <1>6, <1>7 DEF IsSuffix, IsPrefix, short, long, joined, Joined

LEMMA TrimmedTail ==
  ASSUME NEW S, NEW log \in Seq(S)
  PROVE  \E older \in Seq(S) : log = Joined(older, Trimmed(log))
<1>1. CASE ~(UseMemoryEvents /\ Len(log) > MaxMemoryEvents)
  <2>1. log = Joined(<<>>, Trimmed(log)) /\ <<>> \in Seq(S)
    BY <1>1 DEF Trimmed, Joined
  <2> QED
    BY <2>1
<1>2. CASE UseMemoryEvents /\ Len(log) > MaxMemoryEvents
  <2> DEFINE cut == Len(log) - MaxMemoryEvents
             older == SubSeq(log, 1, cut)
             newer == SubSeq(log, cut + 1, Len(log))
  <2>1. cut \in 1 .. Len(log) /\ Len(log) \in Nat
    BY <1>2, EventStoreAssumption DEF UseMemoryEvents
  <2>2. Trimmed(log) = newer
    BY <1>2 DEF Trimmed
  <2> HIDE DEF cut
  <2>3. older \in Seq(S) /\ Len(older) = cut /\ newer \in Seq(S) /\ Len(newer) = Len(log) - cut
    BY <2>1
  <2>4. \A n \in 1 .. cut : older[n] = log[n]
    BY <2>1
  <2>5. \A n \in 1 .. Len(log) - cut : newer[n] = log[cut + n]
    BY <2>1
  <2> HIDE DEF older, newer
  <2>6. older \o newer = log
    <3> DEFINE both == older \o newer
    <3>1. both \in Seq(S) /\ Len(both) = Len(log)
      BY <2>1, <2>3
    <3>2. \A n \in 1 .. cut : both[n] = older[n]
      BY <2>1, <2>3
    <3>3. \A n \in cut + 1 .. Len(log) : both[n] = newer[n - cut]
      BY <2>1, <2>3
    <3> HIDE DEF both
    <3>4. ASSUME NEW n \in 1 .. Len(log) PROVE both[n] = log[n]
      <4>1. CASE n \in 1 .. cut
        BY <2>4, <3>2, <4>1
      <4>2. CASE n \in cut + 1 .. Len(log)
        <5>1. n - cut \in 1 .. Len(log) - cut /\ cut + (n - cut) = n
          BY <2>1, <4>2
        <5> QED
          BY <2>5, <3>3, <4>2, <5>1
      <4> QED
        BY <2>1, <4>1, <4>2
    <3>5. both = log
      BY <3>1, <3>4, SeqEqual
    <3> QED
      BY <3>5 DEF both
  <2> QED
    BY <2>2, <2>3, <2>6 DEF Joined
<1> QED
  BY <1>1, <1>2

LEMMA JoinedTwice ==
  ASSUME NEW S, NEW a \in Seq(S), NEW b \in Seq(S), NEW c \in Seq(S)
  PROVE  Joined(a, b) \in Seq(S) /\ Joined(a, Joined(b, c)) = Joined(Joined(a, b), c)
  BY DEF Joined

LEMMA LogTail ==
  ASSUME TailInv, NEW e \in Logged, Log(e)
  PROVE  events' \in Seq(Logged) /\ \E older \in Seq(Logged) : table' = Joined(older, events')
<1>1. PICK older \in Seq(Logged) : table = Joined(older, events)
  BY DEF TailInv
<1> DEFINE grown == Extended(events, e)
<1>2. grown \in Seq(Logged) /\ events \in Seq(Logged)
  BY DEF Extended, TailInv
<1>3. events' = Trimmed(grown) /\ table' = Extended(table, e)
  BY DEF Log, CreateEvent, Extended
<1> HIDE DEF grown
<1>4. table' = Joined(older, grown)
  BY <1>1, <1>2, <1>3, ExtendJoined DEF grown
<1>5. PICK dropped \in Seq(Logged) : grown = Joined(dropped, Trimmed(grown))
  BY <1>2, TrimmedTail
<1>6. Trimmed(grown) \in Seq(Logged)
  BY <1>2, TrimmedList
<1>7. table' = Joined(Joined(older, dropped), Trimmed(grown)) /\ Joined(older, dropped) \in Seq(Logged)
  BY <1>4, <1>5, <1>6, JoinedTwice
<1> QED
  BY <1>3, <1>6, <1>7

LEMMA NextTail == TailInv /\ [Next]_vars => TailInv'
<1> SUFFICES ASSUME TailInv, [Next]_vars
             PROVE  events' \in Seq(Logged) /\ \E older \in Seq(Logged) : table' = Joined(older, events')
  BY NextTyped DEF TailInv
<1>1. CASE PanelRestarts
  <2>1. CASE UseMemoryEvents
    <3>1. events' = <<>> /\ table' = Joined(<<>>, <<>>) /\ <<>> \in Seq(Logged)
      BY <1>1, <2>1 DEF PanelRestarts, Joined
    <3> QED
      BY <3>1
  <2>2. CASE ~UseMemoryEvents
    BY <1>1, <2>2 DEF PanelRestarts, TailInv
  <2> QED
    BY <2>1, <2>2
<1>2. ASSUME NEW s \in Servers, ClearEvent(s)
      PROVE  events' \in Seq(Logged) /\ \E older \in Seq(Logged) : table' = Joined(older, events')
  <2>1. PICK older \in Seq(Logged) : table = Joined(older, events)
    BY DEF TailInv
  <2>2. /\ events \in Seq(Logged)
        /\ events' = ClearServerEvents(events, s) /\ table' = ClearServerEvents(table, s)
    BY <1>2 DEF ClearEvent, TailInv
  <2>3. ClearServerEvents(table, s) = Joined(ClearServerEvents(older, s), ClearServerEvents(events, s))
    BY <2>1, <2>2, ServersJoined
  <2>4. ClearServerEvents(older, s) \in Seq(Logged) /\ ClearServerEvents(events, s) \in Seq(Logged)
    BY <2>2, EventsAtTyped DEF ClearServerEvents
  <2> QED
    BY <2>2, <2>3, <2>4
<1>3. ASSUME NEW e \in Logged, Log(e)
      PROVE  events' \in Seq(Logged) /\ \E older \in Seq(Logged) : table' = Joined(older, events')
  BY <1>3, LogTail
<1>4. ASSUME NEW s \in Servers, NEW u \in Users,
             NEW type \in {"auth_fail", "auth_success", "first_auth", "second_auth"}
      PROVE  Event(s, type, u) \in Logged
  BY DEF Event, Logged, TailInv, Typed
<1>5. ASSUME NEW r \in Auths, AuthLogged(r)
      PROVE  \E e \in Logged : Log(e)
  <2>1. request[r] \in Authenticating
    BY <1>5 DEF AuthLogged, TailInv, Typed, Doing, Idle
  <2>2. /\ request[r].server \in Servers /\ request[r].user \in Users
        /\ request[r].pc \in {"auth_fail", "auth_success", "first_auth", "second_auth"}
    BY <1>5, <2>1 DEF AuthLogged, Authenticating
  <2> QED
    BY <1>4, <1>5, <2>2 DEF AuthLogged
<1>6. ASSUME NEW s \in Servers, NEW u \in Users, UserAuthLimited(s, u)
      PROVE  \E e \in Logged : Log(e)
  BY <1>4, <1>6 DEF UserAuthLimited
<1>7. ASSUME NEW s \in Servers, NEW u \in Users, VerifyAndApplyMFA(s, u)
      PROVE  UNCHANGED <<events, table>> \/ \E e \in Logged : Log(e)
  BY <1>4, <1>7 DEF VerifyAndApplyMFA
<1>8. CASE UNCHANGED <<events, table>>
  BY <1>8 DEF TailInv
<1> QED
  BY <1>1, <1>2, <1>3, <1>5, <1>6, <1>7, <1>8
     DEF Next, vars, Tick, LoginWithPassword, LoginWithCode, LogCertificateEvent, UserAuthInternalHandler,
         AuthUserFails, UserRefused, UserAccepted, ClearCertificateEvent, ClearTraced

LEMMA InitTail == Init => TailInv
<1> SUFFICES ASSUME Init PROVE TailInv
  OBVIOUS
<1>1. events = <<>> /\ table = Joined(<<>>, <<>>) /\ <<>> \in Seq(Logged)
  BY DEF Init, Joined
<1> QED
  BY <1>1, InitTyped DEF TailInv

THEOREM TailInvariant == Spec => []TailInv
  BY InitTail, NextTail, PTL DEF Spec

\* Of each server the list in memory has the newest events of what a table would
\* hold: trimming (event_memory.go:36) takes the oldest, whichever server they
\* are of, and clearing a server leaves no gap in the others.
THEOREM MemoryIsNewest == Spec => []EventsAreNewest
<1>1. ASSUME TailInv, NEW s \in Servers PROVE IsSuffix(EventsOf(events, s), EventsOf(table, s))
  <2>1. PICK older \in Seq(Logged) : table = Joined(older, events)
    BY <1>1 DEF TailInv
  <2>2. events \in Seq(Logged)
    BY <1>1 DEF TailInv
  <2>3. EventsOf(table, s) = Joined(EventsOf(older, s), EventsOf(events, s))
    BY <2>1, <2>2, ServersJoined
  <2>4. EventsOf(older, s) \in Seq(Logged) /\ EventsOf(events, s) \in Seq(Logged)
    BY <2>2, EventsAtTyped DEF EventsOf
  <2> QED
    BY <2>3, <2>4, TailSuffix
<1>2. TailInv => EventsAreNewest
  BY <1>1 DEF EventsAreNewest
<1> QED
  BY <1>2, TailInvariant, PTL

-----------------------------------------------------------------------------
(* Pages.  The memory reverses what matched and cuts a page from its       *)
(* front; the database counts from the end.                                *)

\* Both cut the same page, of any number and any size.
LEMMA CutsAgree ==
  ASSUME NEW S, NEW matched \in Seq(S), NEW page \in Nat \ {0}, NEW size \in Nat
  PROVE  Page(Reverse(matched), page, size) =
            [k \in 1 .. Smaller(size, IF Len(matched) > (page - 1) * size THEN Len(matched) - (page - 1) * size ELSE 0) |->
                matched[Len(matched) + 1 - (page - 1) * size - k]]
<1> DEFINE offset == (page - 1) * size
           full == Len(matched)
           last1 == Smaller(page * size, full)
           shown == Smaller(size, IF full > offset THEN full - offset ELSE 0)
<1>1. offset \in Nat /\ page * size = offset + size /\ full \in Nat
  OBVIOUS
<1>2. shown \in Nat /\ last1 \in Nat
  BY <1>1 DEF Smaller
<1>3. Page(Reverse(matched), page, size) = SubSeq(Reverse(matched), offset + 1, last1)
  <2>1. Len(Reverse(matched)) = full
    BY <1>1 DEF Reverse
  <2> QED
    BY <2>1 DEF Page
<1>4. last1 = Smaller(offset + size, full)
  BY <1>1
<1> HIDE DEF offset
<1>5. 1 .. (last1 - (offset + 1)) + 1 = 1 .. shown /\ \A k \in 1 .. shown : offset + k \in 1 .. full
  <2>1. CASE full > offset
    <3>1. last1 = offset + shown /\ offset + shown <= full
      BY <1>1, <1>4, <2>1 DEF Smaller
    <3>2. (last1 - (offset + 1)) + 1 = shown
      BY <1>1, <1>2, <3>1
    <3> HIDE DEF last1, shown, full
    <3> QED
      BY <1>1, <1>2, <3>1, <3>2
  <2>2. CASE ~(full > offset)
    <3>1. last1 <= offset /\ shown = 0
      BY <1>1, <1>4, <2>2 DEF Smaller
    <3> HIDE DEF last1, shown, full
    <3> QED
      BY <1>1, <1>2, <3>1
  <2> QED
    BY <2>1, <2>2
<1> HIDE DEF last1, shown
<1>6. Reverse(matched) = [i \in 1 .. full |-> matched[(full - i) + 1]]
  BY DEF Reverse
<1> HIDE DEF full
<1>7. SubSeq(Reverse(matched), offset + 1, last1) = [k \in 1 .. shown |-> matched[full + 1 - offset - k]]
  <2> DEFINE back == Reverse(matched)
  <2>1. SubSeq(back, offset + 1, last1) = [k \in 1 .. (last1 - (offset + 1)) + 1 |-> back[(k + (offset + 1)) - 1]]
    BY <1>1, <1>2
  <2>2. ASSUME NEW k \in 1 .. shown PROVE back[(k + (offset + 1)) - 1] = matched[full + 1 - offset - k]
    <3>1. (k + (offset + 1)) - 1 = offset + k /\ (full - (offset + k)) + 1 = full + 1 - offset - k
      BY <1>1, <1>2
    <3> QED
      BY <1>5, <1>6, <3>1
  <2> HIDE DEF back
  <2>3. SubSeq(back, offset + 1, last1) = [k \in 1 .. shown |-> matched[full + 1 - offset - k]]
    BY <1>5, <2>1, <2>2
  <2> QED
    BY <2>3 DEF back
<1> QED
  BY <1>3, <1>7 DEF offset, full, shown

\* A range with both ends or none asks the same of the memory and of the
\* database.
LEMMA FiltersAgree ==
  ASSUME NEW e \in Logged, NEW f, (f.start = 0 /\ f.end = 0) \/ (f.start \in Nat \ {0} /\ f.end \in Nat \ {0})
  PROVE  MatchServerEvent(e, f) <=> MatchesQuery(e, f)
<1>1. e.time \in Nat
  BY DEF Logged
<1>2. (f.start # 0 /\ f.end # 0 => e.time \in f.start .. f.end) <=>
         (f.start = 0 \/ e.time >= f.start) /\ (f.end = 0 \/ e.time <= f.end)
  BY <1>1
<1> QED
  BY <1>2 DEF MatchServerEvent, MatchesQuery

LEMMA ListsAgree ==
  ASSUME NEW log \in Seq(Logged), NEW f, NEW page \in Nat \ {0}, NEW size \in Nat,
         (f.start = 0 /\ f.end = 0) \/ (f.start \in Nat \ {0} /\ f.end \in Nat \ {0})
  PROVE  ListServerEvents(log, f, page, size) = QueryEvents(log, f, page, size)
<1> DEFINE matched == EventsAt(log, {n \in DOMAIN log : MatchesQuery(log[n], f)})
<1>1. {n \in DOMAIN log : MatchServerEvent(log[n], f)} = {n \in DOMAIN log : MatchesQuery(log[n], f)}
  <2>1. \A n \in DOMAIN log : log[n] \in Logged
    OBVIOUS
  <2>2. \A n \in DOMAIN log : MatchServerEvent(log[n], f) <=> MatchesQuery(log[n], f)
    BY <2>1, FiltersAgree
  <2> QED
    BY <2>2
<1>2. matched \in Seq(Logged)
  BY EventsAtTyped
<1>3. ListServerEvents(log, f, page, size) = Page(Reverse(matched), page, size)
  BY <1>1 DEF ListServerEvents
<1>4. ~((f.start = 0) # (f.end = 0))
  OBVIOUS
<1>5. QueryEvents(log, f, page, size) =
         [k \in 1 .. Smaller(size, IF Len(matched) > (page - 1) * size THEN Len(matched) - (page - 1) * size ELSE 0) |->
             matched[Len(matched) + 1 - (page - 1) * size - k]]
  BY <1>4 DEF QueryEvents
<1> HIDE DEF matched
<1> QED
  BY <1>2, <1>3, <1>5, CutsAgree

\* As long as nothing was dropped, the memory (event_memory.go:68) shows on
\* every page what the database would, for every filter whose range has both
\* ends or none.
THEOREM PagesShowTheSame == Spec => [](PagesAgree /\ PagesAgreeAtRest)
<1>1. \A n \in 1 .. 2 : n \in Nat \ {0} /\ n \in Nat
  OBVIOUS
<1>2. ASSUME TailInv PROVE \A time \in Interval + 1 .. now : time \in Nat \ {0}
  <2>1. Interval \in Nat /\ now \in Nat
    BY <1>2, EntranceAssumption DEF TailInv, Typed
  <2> QED
    BY <2>1
<1>3. ASSUME TailInv, events = table, NEW s \in Servers, NEW types \in {{}, {"auth_fail"}},
             NEW query \in {""} \cup Users,
             NEW range \in {<<0, 0>>} \cup ((Interval + 1 .. now) \X (Interval + 1 .. now)),
             NEW page \in 1 .. 2, NEW size \in 1 .. 2
      PROVE  LET f == [server |-> s, types |-> types, query |-> query, start |-> range[1], end |-> range[2]]
             IN  ListServerEvents(events, f, page, size) = QueryEvents(table, f, page, size)
  <2> DEFINE f == [server |-> s, types |-> types, query |-> query, start |-> range[1], end |-> range[2]]
  <2>1. Interval \in Nat /\ now \in Nat /\ events \in Seq(Logged)
    BY <1>3, EntranceAssumption DEF TailInv, Typed
  <2>2. (f.start = 0 /\ f.end = 0) \/ (f.start \in Nat \ {0} /\ f.end \in Nat \ {0})
    <3>1. f.start = range[1] /\ f.end = range[2]
      OBVIOUS
    <3>2. CASE range = <<0, 0>>
      BY <3>1, <3>2
    <3>3. CASE range \in (Interval + 1 .. now) \X (Interval + 1 .. now)
      <4>1. range[1] \in Interval + 1 .. now /\ range[2] \in Interval + 1 .. now
        BY <3>3
      <4> QED
        BY <1>2, <1>3, <3>1, <4>1
    <3> QED
      BY <3>2, <3>3
  <2> HIDE DEF f
  <2>3. page \in Nat \ {0} /\ size \in Nat
    BY <1>1
  <2>4. ListServerEvents(events, f, page, size) = QueryEvents(events, f, page, size)
    BY <2>1, <2>2, <2>3, ListsAgree
  <2> QED
    BY <1>3, <2>4 DEF f
<1>4. TailInv => PagesAgree
  BY <1>3 DEF PagesAgree
<1>5. TailInv => PagesAgree /\ PagesAgreeAtRest
  BY <1>4 DEF PagesAgreeAtRest
<1> QED
  BY <1>5, TailInvariant, PTL
=============================================================================
