------------------------------ MODULE Entrance ------------------------------
(***************************************************************************)
(* Checking passwords and codes: the cooldown that spaces attempts, the    *)
(* authentication openvpn asks for, and the events all this leaves behind. *)
(*                                                                         *)
(* A key of the cooldown is [kind, user]: "login" and "mfa" for the login  *)
(* page of the panel, "mfa" also for the page of a connected client, and   *)
(* "vpnauth" for openvpn.  Time is counted in steps of the interval's unit.*)
(***************************************************************************)
EXTENDS EventStore, FiniteSets

CONSTANTS Users,       \* names that are tried, whether users have them or not
          MfaUsers,    \* users with a second factor
          Servers,     \* servers events belong to
          Auths,       \* slots for authentications in flight
          Clearers,    \* slots for administrators clearing certificate events
          Interval,    \* loginCooldownInterval
          MaxEntries,  \* maxEntries, 4096 in the code
          MaxTime,     \* bound: how long time runs
          MaxEvents    \* bound: events ever written

ASSUME EntranceAssumption ==
    /\ Interval \in Nat \ {0} /\ {MaxEntries, MaxTime, MaxEvents} \subseteq Nat
    /\ MfaUsers \subseteq Users /\ Auths \cap Clearers = {}

Keys == [kind : {"login", "mfa", "vpnauth"}, user : Users]
Never == 0   \* the clock starts at Interval + 1

VARIABLES
    now,         \* the clock
    last,        \* time of the last attempt of each key in the map, or Never
    request,     \* what each authentication or clearing in flight is doing
    events,      \* events of servers
    table,       \* history: what a table without a limit would hold
    certEvents,  \* events of certificates
    counted,     \* how many events were written
    codes,       \* history: when a code of each user was last checked
    failures,    \* history: when openvpn's last wrong password was recorded
    cleared      \* history: certificate events were cleared

vars == <<now, last, request, events, table, certEvents, counted, codes, failures, cleared>>
-----------------------------------------------------------------------------
(* The cooldown *)

InMap(map) == {k \in Keys : map[k] # Never}

Remaining(k) == IF last[k] # Never /\ now - last[k] < Interval THEN Interval - (now - last[k]) ELSE 0

\* RetryAfter only looks; what it announces is rounded up to whole seconds.
RetryAfter(k) == Remaining(k)

\* Variant for comparison: an overfull map is emptied.
PruneEverything(map) == IF Cardinality(InMap(map)) <= MaxEntries THEN map ELSE [k \in Keys |-> Never]

\* An overfull map loses the entries whose interval is over.
PruneLocked(map) ==
    IF Cardinality(InMap(map)) <= MaxEntries THEN map
    ELSE [k \in Keys |-> IF now - map[k] >= Interval THEN Never ELSE map[k]]

RecordFailure(k) == last' = PruneLocked([last EXCEPT ![k] = now])

\* An attempt that is allowed is recorded at once.
Allow(k) == Remaining(k) = 0 /\ last' = PruneLocked([last EXCEPT ![k] = now])
-----------------------------------------------------------------------------
(* Events *)

Event(s, type, u) == [server |-> s, type |-> type, source |-> u, time |-> now]

Log(event) ==
    /\ counted < MaxEvents /\ counted' = counted + 1
    /\ events' = CreateEvent(events, event)
    /\ table' = Append(table, event)

Idle == [pc |-> "idle"]
Goes(r, q) == request' = [request EXCEPT ![r] = q]

Init ==
    /\ now = Interval + 1
    /\ last = [k \in Keys |-> Never]
    /\ request = [r \in Auths \cup Clearers |-> Idle]
    /\ events = <<>> /\ table = <<>> /\ certEvents = <<>> /\ counted = 0
    /\ codes = [u \in Users |-> Never] /\ failures = [u \in Users |-> Never]
    /\ cleared = FALSE

Tick ==
    /\ now < MaxTime
    /\ now' = now + 1
    /\ UNCHANGED <<last, request, events, table, certEvents, counted, codes, failures, cleared>>
-----------------------------------------------------------------------------
(* The panel's login and the page of connected clients *)

\* A name and a password without a code: the password is checked.
LoginWithPassword(u) ==
    /\ Allow([kind |-> "login", user |-> u])
    /\ UNCHANGED <<now, request, events, table, certEvents, counted, codes, failures, cleared>>

CheckCode(u) == codes' = [codes EXCEPT ![u] = now]

\* With a code the other key is used; the code is checked if the password is
\* right and the user has a second factor.
LoginWithCode(u) ==
    /\ Allow([kind |-> "mfa", user |-> u])
    /\ \/ u \in MfaUsers /\ CheckCode(u)
       \/ UNCHANGED codes
    /\ UNCHANGED <<now, request, events, table, certEvents, counted, failures, cleared>>

\* The page of a connected client asks for a code only; a right one is logged.
VerifyAndApplyMFA(s, u) ==
    /\ u \in MfaUsers
    /\ Allow([kind |-> "mfa", user |-> u])
    /\ CheckCode(u)
    /\ \/ UNCHANGED <<events, table, counted>>
       \/ Log(Event(s, "second_auth", u))
    /\ UNCHANGED <<now, request, certEvents, failures, cleared>>
-----------------------------------------------------------------------------
(* openvpn asks whether a client may connect.                               *)

UserAuthInternalHandler(r, s, u) ==
    /\ request[r] = Idle
    /\ RetryAfter([kind |-> "vpnauth", user |-> u]) = 0
    /\ Goes(r, [pc |-> "password", server |-> s, user |-> u])
    /\ UNCHANGED <<now, last, events, table, certEvents, counted, codes, failures, cleared>>

UserAuthLimited(s, u) ==
    /\ RetryAfter([kind |-> "vpnauth", user |-> u]) > 0
    /\ Log(Event(s, "auth_fail", u))
    /\ UNCHANGED <<now, last, request, certEvents, codes, failures, cleared>>

\* Comparing the password takes its time; a wrong one is recorded, a user who
\* is disabled or has expired is not.
AuthUserFails(r) ==
    LET q == request[r] IN
    /\ q.pc = "password"
    /\ \/ /\ RecordFailure([kind |-> "vpnauth", user |-> q.user])
          /\ failures' = [failures EXCEPT ![q.user] = now]
       \/ UNCHANGED <<last, failures>>
    /\ Goes(r, [q EXCEPT !.pc = "auth_fail"])
    /\ UNCHANGED <<now, events, table, certEvents, counted, codes, cleared>>

\* The password is right, but the server is not permitted, or the traffic is
\* used up.
UserRefused(r) ==
    LET q == request[r] IN
    /\ q.pc = "password"
    /\ Goes(r, [q EXCEPT !.pc = "auth_fail"])
    /\ UNCHANGED <<now, last, events, table, certEvents, counted, codes, failures, cleared>>

UserAccepted(r) ==
    LET q == request[r] IN
    /\ q.pc = "password"
    /\ Goes(r, [q EXCEPT !.pc = "auth_success"])
    /\ UNCHANGED <<now, last, events, table, certEvents, counted, codes, failures, cleared>>

\* The answer is logged; with a second factor the first one is logged besides.
AuthLogged(r) ==
    LET q == request[r] IN
    /\ q.pc \in {"auth_fail", "auth_success", "first_auth"}
    /\ Log(Event(q.server, q.pc, q.user))
    /\ Goes(r, IF q.pc = "auth_success" /\ q.user \in MfaUsers THEN [q EXCEPT !.pc = "first_auth"] ELSE Idle)
    /\ UNCHANGED <<now, last, certEvents, codes, failures, cleared>>
-----------------------------------------------------------------------------
(* Clearing events *)

ClearEvent(s) ==
    /\ events' = ClearServerEvents(events, s)
    /\ table' = ClearServerEvents(table, s)
    /\ UNCHANGED <<now, last, request, certEvents, counted, codes, failures, cleared>>

\* Any handler of certificates logs what it did.
LogCertificateEvent(u) ==
    /\ counted < MaxEvents /\ counted' = counted + 1
    /\ certEvents' = CreateEvent(certEvents, [type |-> "change", source |-> u])
    /\ UNCHANGED <<now, last, request, events, table, codes, failures, cleared>>

\* Variant for comparison: the trace is written first and cleared with the rest.
ClearAfterTrace(r) ==
    /\ request[r] = Idle
    /\ certEvents' = <<>> /\ cleared' = TRUE
    /\ UNCHANGED <<now, last, request, events, table, counted, codes, failures>>

\* All certificate events are cleared, and then it is logged who did so.
ClearCertificateEvent(r) ==
    /\ request[r] = Idle
    /\ certEvents' = <<>> /\ cleared' = TRUE
    /\ Goes(r, [pc |-> "trace"])
    /\ UNCHANGED <<now, last, events, table, counted, codes, failures>>

ClearTraced(r) ==
    /\ request[r].pc = "trace"
    /\ counted < MaxEvents /\ counted' = counted + 1
    /\ certEvents' = CreateEvent(certEvents, [type |-> "clear", source |-> "administrator"])
    /\ Goes(r, Idle)
    /\ UNCHANGED <<now, last, events, table, codes, failures, cleared>>

\* The map, and the events in memory, go with the process.
PanelRestarts ==
    /\ last' = [k \in Keys |-> Never]
    /\ request' = [r \in Auths \cup Clearers |-> Idle]
    /\ IF UseMemoryEvents THEN events' = <<>> /\ table' = <<>> /\ certEvents' = <<>>
       ELSE UNCHANGED <<events, table, certEvents>>
    /\ codes' = [u \in Users |-> Never] /\ failures' = [u \in Users |-> Never]
    /\ cleared' = FALSE
    /\ UNCHANGED <<now, counted>>

Next ==
    \/ Tick \/ PanelRestarts
    \/ \E u \in Users : LoginWithPassword(u) \/ LoginWithCode(u) \/ LogCertificateEvent(u)
    \/ \E s \in Servers : ClearEvent(s)
    \/ \E s \in Servers, u \in Users : VerifyAndApplyMFA(s, u) \/ UserAuthLimited(s, u)
    \/ \E r \in Auths : \/ \E s \in Servers, u \in Users : UserAuthInternalHandler(r, s, u)
                        \/ AuthUserFails(r) \/ UserRefused(r) \/ UserAccepted(r) \/ AuthLogged(r)
    \/ \E r \in Clearers : ClearCertificateEvent(r) \/ ClearTraced(r)

Spec == Init /\ [][Next]_vars
-----------------------------------------------------------------------------
(* Properties *)

\* Two checks of a code of one user are an interval apart, whichever page they
\* come from and however often the map is pruned; and openvpn's attempts are
\* not checked within an interval of a failure that was recorded.
AttemptsSpaced ==
    [][/\ \A u \in Users : codes'[u] \notin {codes[u], Never} /\ codes[u] # Never =>
                               codes'[u] - codes[u] >= Interval
       /\ \A r \in Auths : request[r] = Idle /\ request'[r] # Idle =>
              LET u == request'[r].user
              IN  failures[u] # Never => now - failures[u] >= Interval]_vars

EventsOf(log, server) == EventsAt(log, {n \in DOMAIN log : log[n].server = server})

\* Of each server the list in memory has the newest events of what a table would
\* hold, whatever the other servers log and whichever is cleared.
EventsAreNewest ==
    \A s \in Servers : IsSuffix(EventsOf(events, s), EventsOf(table, s))

\* Every page of every filter shows the same from memory as from the database
\* (event_memory.go:68), as long as nothing was dropped and a range has both
\* ends or none.
PagesAgree ==
    events = table =>
        \A s \in Servers, types \in {{}, {"auth_fail"}}, query \in {""} \cup Users,
           range \in {<<0, 0>>} \cup ((Interval + 1 .. now) \X (Interval + 1 .. now)) :
            LET f == [server |-> s, types |-> types, query |-> query, start |-> range[1], end |-> range[2]]
            IN  \A page \in 1 .. 2, size \in 1 .. 2 :
                    ListServerEvents(events, f, page, size) = QueryEvents(table, f, page, size)

\* PagesAgree where nothing else goes on: the lists do not depend on the
\* cooldown, so these states have every list (event_memory.go:68).
PagesAgreeAtRest ==
    InMap(last) = {} /\ (\A r \in Auths \cup Clearers : request[r] = Idle) => PagesAgree

\* Once certificate events were cleared, one of the events tells so
\* (certificate_event_api.go:45), unless one is just being written or newer
\* events have filled the list.
ClearLeavesTrace ==
    cleared => \/ \E k \in 1 .. Len(certEvents) : certEvents[k].type = "clear"
               \/ \E r \in Clearers : request[r].pc = "trace"
               \/ UseMemoryEvents /\ Len(certEvents) = MaxMemoryEvents
=============================================================================
