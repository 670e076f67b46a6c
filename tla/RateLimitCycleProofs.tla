----------------------- MODULE RateLimitCycleProofs -----------------------
(***************************************************************************)
(* Proofs about RateLimitCycle, for every set of users, addresses, plans   *)
(* and rules: types, cycles that have begun, the limit the panel believes  *)
(* in against the one of the kernel, and the bytes that are charged.       *)
(***************************************************************************)
EXTENDS RateLimitCycle, FiniteSetTheorems, WellFoundedInduction, TLAPS

(* Operators *)

\* The lowest of two rates is a rate.
LEMMA MinRateType ==
  ASSUME NEW a \in Nat, NEW b \in Nat
  PROVE  MinRate({a, b}) \in Nat
<1>1. CASE a = 0 /\ b = 0
  BY <1>1 DEF MinRate
<1>2. CASE ~(a = 0 /\ b = 0)
  <2> DEFINE S == {a, b} \ {0}
  <2>1. \E r \in S : \A q \in S : r <= q
    <3>1. CASE b = 0 \/ (a # 0 /\ a <= b)
      BY <1>2, <3>1
    <3>2. CASE ~(b = 0 \/ (a # 0 /\ a <= b))
      BY <1>2, <3>2
    <3> QED
      BY <3>1, <3>2
  <2>2. MinRate({a, b}) \in S
    BY <1>2, <2>1 DEF MinRate
  <2> QED
    BY <2>2
<1> QED
  BY <1>1, <1>2

\* The rules of a plan answer with a rate, whatever the traffic is.
LEMMA MatchType ==
  ASSUME NEW t \in Terms, NEW up, NEW down
  PROVE  MatchRateLimitRule(t.rules, up, down).limit \in Nat
<1> DEFINE hit == {r \in t.rules : Triggered(r, up, down)}
<1>1. t.rules \subseteq Rule
  BY RateAssumption
<1>2. CASE hit = {}
  BY <1>2 DEF MatchRateLimitRule, NoRule
<1>3. CASE hit # {}
  <2> DEFINE first == CHOOSE r \in hit : \A q \in hit \ {r} : Precedes(r, q)
  <2>0. hit \in SUBSET t.rules
    OBVIOUS
  <2>1. \E r \in hit : \A q \in hit \ {r} : Precedes(r, q)
    <3> HIDE DEF hit
    <3> QED BY <1>3, <2>0, RulesAssumption
  <2>2. first \in hit
    <3> HIDE DEF hit
    <3> QED BY <2>1
  <2>3. first.limit \in Nat
    <3> HIDE DEF hit, first
    <3> QED BY <1>1, <2>0, <2>2 DEF Rule
  <2>4. MatchRateLimitRule(t.rules, up, down) = [limit |-> first.limit, allow |-> first.allow]
    BY <1>3 DEF MatchRateLimitRule
  <2> HIDE DEF hit, first
  <2> QED
    BY <2>3, <2>4
<1> QED
  BY <1>2, <1>3

\* Whole periods never go past the time that has elapsed.
LEMMA WholePeriods ==
  ASSUME NEW n \in Nat, NEW p \in Nat \ {0}
  PROVE  (n \div p) * p \in 0..n
<1> DEFINE q == n \div p
           r == n % p
<1>1. q \in Nat /\ r \in Nat /\ n = p * q + r
  BY Z3
<1>2. q * p = p * q /\ p * q \in Nat
  <2> HIDE DEF q
  <2> QED BY <1>1, Z3
<1> HIDE DEF q, r
<1> QED
  BY <1>1, <1>2 DEF q

\* A new cycle begins between the start of the old one and the present.
LEMMA NextStartBounds ==
  ASSUME now \in Nat, NEW start \in Nat, start <= now, NEW p \in Nat \ {0}
  PROVE  NextStart(start, p) \in 0..now
<1> DEFINE x == ((now - start) \div p) * p
<1>1. x \in 0..(now - start)
  BY WholePeriods
<1>2. NextStart(start, p) = start + x
  BY DEF NextStart
<1> HIDE DEF x
<1> QED
  BY <1>1, <1>2

(* Types *)

LEMMA RowType ==
  ASSUME TypeOK, NEW u \in Users
  PROVE  Row(u) \in UserRow
BY RateAssumption DEF TypeOK, Row, Cycle, UserRow

LEMMA NoRowType == NoRow \in UserRow
BY RateAssumption DEF NoRow, UserRow

LEMMA SleepingType == Sleeping \in UpdaterState
BY NoRowType DEF Sleeping, UpdaterState

LEMMA FreeType == Free \in SlotState
BY NoRowType DEF Free, SlotState

\* What is stored for a user is a cycle, and it has begun.
LEMMA EnsuredType ==
  ASSUME TypeOK, StartedInThePast, NEW u \in Users, NEW row \in UserRow
  PROVE  Ensured(u, row) \in Cycle /\ Ensured(u, row).start <= now
<1> DEFINE start == IF memory THEN cycle[u].start ELSE row.start
           period == plans[row.plan].period
<1>1. cycle[u] \in Cycle /\ cycle[u].start <= now /\ now \in 1..MaxTime /\ MaxTime \in Nat
  BY RateAssumption DEF TypeOK, StartedInThePast
<1>2. start \in Nat
  BY <1>1 DEF TypeOK, Cycle, UserRow
<1>3. CASE row.plan = None \/ plans[row.plan] = None
  BY <1>1, <1>3 DEF Ensured
<1>4. CASE ~(row.plan = None \/ plans[row.plan] = None)
  <2>1. period \in Nat \ {0}
    <3>1. plans[row.plan] \in Terms
      BY <1>4 DEF TypeOK, UserRow
    <3> QED BY <3>1, RateAssumption
  <2>2. Ensured(u, row) =
          IF start = 0 THEN [start |-> now, used |-> 0]
          ELSE IF now < start \/ now - start < period THEN cycle[u]
          ELSE [start |-> NextStart(start, period), used |-> 0]
    BY <1>4 DEF Ensured
  <2> HIDE DEF start, period
  <2>3. ~(now < start) => NextStart(start, period) \in 0..now
    BY <1>1, <1>2, <2>1, NextStartBounds
  <2> QED
    BY <1>1, <1>2, <2>2, <2>3 DEF Cycle
<1> QED
  BY <1>3, <1>4

LEMMA WrittenType ==
  ASSUME TypeOK, StartedInThePast, NEW u \in Users, NEW row \in UserRow
  PROVE  Written(u, row) \in Cycle /\ Written(u, row).start <= now
BY EnsuredType DEF Written, TypeOK, StartedInThePast

\* Storing such a cycle is harmless.
LEMMA StoreType ==
  ASSUME TypeOK, StartedInThePast, NEW u \in Users, NEW c \in Cycle, c.start <= now,
         Store(u, c)
  PROVE  /\ cycle' \in [Users -> Cycle]
         /\ \A v \in Users : cycle'[v].start <= now
BY DEF TypeOK, StartedInThePast, Store

\* A limit is a rate.
LEMMA ResolvedType ==
  ASSUME TypeOK, NEW u \in Users, NEW row \in UserRow
  PROVE  Resolved(u, row).limit \in Nat
<1> DEFINE rule == IF Ruled(row)
                   THEN MatchRateLimitRule(plans[row.plan].rules, CycleTraffic(u, row), 0)
                   ELSE NoRule
<1>1. rule.limit \in Nat
  <2>1. CASE Ruled(row)
    <3>1. plans[row.plan] \in Terms
      BY <2>1 DEF Ruled, TypeOK, UserRow
    <3> QED BY <2>1, <3>1, MatchType
  <2>2. CASE ~Ruled(row)
    BY <2>2 DEF NoRule
  <2> QED BY <2>1, <2>2
<1>2. policy[u] \in Nat
  BY RateAssumption DEF TypeOK
<1>3. Resolved(u, row).limit = MinRate({policy[u], rule.limit})
  BY DEF Resolved
<1> HIDE DEF rule
<1> QED
  BY <1>1, <1>2, <1>3, MinRateType

\* After a record the updater looks at another one, applies changes, or sleeps.
LEMMA JudgedType ==
  ASSUME TypeOK, updater.at = "judge", NEW changes \in [Slots -> Nat \cup {None}]
  PROVE  /\ Judged(changes) \in UpdaterState
         /\ Judged(changes).at \in {"idle", "check", "apply"}
         /\ Judged(changes).held \in {updater.held, {}}
<1>1. [updater.list EXCEPT ![updater.work] = None] \in [Slots -> RecordRow \cup {None}]
  BY DEF TypeOK, UpdaterState
<1>2. Sleeping.at = "idle" /\ Sleeping.held = {}
  BY DEF Sleeping
<1> QED
  BY <1>1, <1>2, SleepingType, NoRowType DEF Judged, TypeOK, UpdaterState

(* Steps *)

\* The first two conjuncts of the inductive invariant need each other.
Begun == TypeOK /\ StartedInThePast

LEMMA InitBegun == Init => Begun
<1> SUFFICES ASSUME Init PROVE Begun
  OBVIOUS
<1>1. \A u \in Users : cycle[u] \in Cycle /\ cycle[u].start <= now
  BY RateAssumption DEF Init, NoCycle, Cycle
<1> QED
  BY <1>1, RateAssumption, FreeType, SleepingType
  DEF Init, Begun, TypeOK, StartedInThePast, NoCycle, Cycle, Free, Sleeping

\* Steps of the scripts at an address.
LEMMA ScriptBegun ==
  ASSUME Begun, NEW s \in Slots, ScriptStep(s)
  PROVE  Begun'
<1> USE DEF Begun
<1> DEFINE u == slot[s].user
           row == slot[s].row
<1>0. /\ slot[s] \in SlotState /\ row \in UserRow
      /\ slot[s].at \notin {"free", "unshape"} => u \in Users
  BY DEF TypeOK, SlotState
<1>1. CASE Decide(s)
  <2>1. u \in Users
    BY <1>0, <1>1 DEF Decide
  <2>2. cycle' \in [Users -> Cycle] /\ \A v \in Users : cycle'[v].start <= now
    BY <1>0, <1>1, <2>1, WrittenType, StoreType DEF Decide
  <2> QED
    BY <1>0, <1>1, <2>1, <2>2, FreeType, NoRowType
    DEF Decide, TypeOK, StartedInThePast, SlotState, admin, Free
<1>2. CASE OnlineRead(s)
  <2>1. Row(u) \in UserRow
    BY <1>0, <1>2, RowType DEF OnlineRead
  <2> QED
    BY <1>0, <1>2, <2>1 DEF OnlineRead, TypeOK, StartedInThePast, SlotState, admin
<1>3. CASE OnlineCreate(s)
  <2>1. u \in Users
    BY <1>0, <1>3 DEF OnlineCreate
  <2>2. cycle' \in [Users -> Cycle] /\ \A v \in Users : cycle'[v].start <= now
    BY <1>0, <1>3, <2>1, WrittenType, StoreType DEF OnlineCreate
  <2>3. [user |-> u, bytes |-> 0, limit |-> Resolved(u, row).limit] \in RecordRow
    BY <1>0, <2>1, ResolvedType DEF RecordRow
  <2>4. record' \in [Slots -> RecordRow \cup {None}]
    BY <1>3, <2>3 DEF OnlineCreate, TypeOK
  <2> QED
    BY <1>0, <1>3, <2>1, <2>2, <2>4, NoRowType
    DEF OnlineCreate, TypeOK, StartedInThePast, SlotState, admin
<1>4. CASE LimitRead(s)
  <2>1. Row(u) \in UserRow
    BY <1>0, <1>4, RowType DEF LimitRead
  <2> QED
    BY <1>0, <1>4, <2>1 DEF LimitRead, TypeOK, StartedInThePast, SlotState, admin
<1>5. CASE LimitAnswer(s)
  <2>1. u \in Users
    BY <1>0, <1>5 DEF LimitAnswer
  <2>2. cycle' \in [Users -> Cycle] /\ \A v \in Users : cycle'[v].start <= now
    BY <1>0, <1>5, <2>1, WrittenType, StoreType DEF LimitAnswer
  <2>3. Resolved(u, row).limit \in Nat
    BY <1>0, <2>1, ResolvedType
  <2>4. /\ slot' \in [Slots -> SlotState]
        /\ \A i \in Slots : slot'[i].user = slot[i].user
        /\ slot'[s].at \in {"up", "shape"}
        /\ \A i \in Slots \ {s} : slot'[i] = slot[i]
    BY <1>0, <1>5, <2>1, <2>3, NoRowType DEF LimitAnswer, TypeOK, SlotState
  <2> QED
    BY <1>0, <1>5, <2>1, <2>2, <2>4
    DEF LimitAnswer, TypeOK, StartedInThePast, admin
<1>6. CASE Shape(s)
  BY <1>0, <1>6 DEF Shape, TypeOK, StartedInThePast, SlotState, admin
<1>7. CASE OfflineAdd(s)
  BY <1>0, <1>7, RateAssumption DEF OfflineAdd, TypeOK, StartedInThePast, SlotState, admin, Cycle
<1>8. CASE OfflineForget(s)
  BY <1>0, <1>8, FreeType DEF OfflineForget, TypeOK, StartedInThePast, SlotState, admin
<1>9. CASE Unshape(s)
  BY <1>0, <1>9, FreeType DEF Unshape, TypeOK, StartedInThePast, SlotState, admin, Free
<1> QED
  BY <1>1, <1>2, <1>3, <1>4, <1>5, <1>6, <1>7, <1>8, <1>9 DEF ScriptStep

\* Steps of a client.
LEMMA ClientBegun ==
  ASSUME Begun, NEW s \in Slots, ClientStep(s)
  PROVE  Begun'
<1> USE DEF Begun
<1>1. ASSUME NEW u \in Users, Authenticate(s, u) PROVE Begun'
  <2>1. [Free EXCEPT !.at = "decide", !.user = u, !.row = Row(u)] \in SlotState
    BY RowType, FreeType DEF SlotState, Free
  <2> QED
    BY <1>1, <2>1 DEF Authenticate, TypeOK, StartedInThePast, admin, Free
<1>2. CASE Transfer(s)
  BY <1>2 DEF Transfer, TypeOK, StartedInThePast, SlotState, admin
<1>3. CASE Disconnect(s)
  <2>1. /\ updater' \in UpdaterState
        /\ updater'.at = "judge" => updater'.work \in Slots /\ updater'.list[updater'.work] # None
    BY <1>3 DEF Disconnect, LetGo, TypeOK, UpdaterState
  <2>2. /\ slot' \in [Slots -> SlotState]
        /\ \A i \in Slots : slot'[i].at \notin {"free", "unshape"} => slot'[i].user \in Users
    BY <1>3 DEF Disconnect, Ended, TypeOK, SlotState
  <2> QED
    BY <1>3, <2>1, <2>2 DEF Disconnect, TypeOK, StartedInThePast, admin
<1> QED
  BY <1>1, <1>2, <1>3 DEF ClientStep

\* Steps of the status updater.
LEMMA UpdaterBegun ==
  ASSUME Begun, UpdaterStep
  PROVE  Begun'
<1> USE DEF Begun
<1> DEFINE s == updater.work
           u == updater.list[s].user
<1>0. updater.at = "judge" => s \in Slots /\ updater.list[s] \in RecordRow /\ u \in Users
                              /\ updater.row \in UserRow
  BY DEF TypeOK, UpdaterState, RecordRow
<1>1. CASE UpdaterStart
  <2>1. [i \in Users |-> Row(i)] \in [Users -> UserRow]
    BY RowType
  <2> QED
    BY <1>1, <2>1 DEF UpdaterStart, TypeOK, StartedInThePast, UpdaterState, admin
<1>2. ASSUME NEW v \in Users, UpdaterExpire(v) PROVE Begun'
  <2>1. updater.roster[v] \in UserRow
    BY DEF TypeOK, UpdaterState
  <2>2. cycle' \in [Users -> Cycle] /\ \A w \in Users : cycle'[w].start <= now
    BY <1>2, <2>1, EnsuredType, StoreType DEF UpdaterExpire
  <2> QED
    BY <1>2, <2>2, NoRowType DEF UpdaterExpire, TypeOK, StartedInThePast, UpdaterState, admin
<1>3. CASE UpdaterReadStatus
  <2> DEFINE file == [i \in Slots |-> IF slot[i].at = "up"
                                      THEN [user |-> slot[i].user, bytes |-> slot[i].bytes]
                                      ELSE None]
  <2>1. file \in [Slots -> FileRow \cup {None}]
    BY DEF TypeOK, SlotState, FileRow
  <2>2. Sleeping.roster \in [Users -> UserRow]
    BY NoRowType DEF Sleeping
  <2>3. updater' = [updater EXCEPT !.at = "sample", !.roster = Sleeping.roster, !.file = file,
                                   !.held = {i \in Slots : slot[i].at = "up"}]
    BY <1>3 DEF UpdaterReadStatus
  <2>4. updater' \in UpdaterState /\ updater'.at = "sample"
    <3> HIDE DEF file
    <3> QED BY <2>1, <2>2, <2>3 DEF TypeOK, UpdaterState
  <2> QED
    BY <1>3, <2>4 DEF UpdaterReadStatus, TypeOK, StartedInThePast, admin
<1>4. CASE UpdaterSample
  <2>1. \A i \in Slots : Sampled(i) \in RecordRow \cup {None}
    BY DEF Sampled, TypeOK, UpdaterState, RecordRow, FileRow
  <2>2. record' \in [Slots -> RecordRow \cup {None}]
    BY <1>4, <2>1 DEF UpdaterSample
  <2>3. updater' \in UpdaterState /\ updater'.at # "judge"
    BY <1>4, <2>2, SleepingType DEF UpdaterSample, TypeOK, UpdaterState, Sleeping
  <2>4. astray' \subseteq Slots
    BY <1>4 DEF UpdaterSample, TypeOK
  <2> QED
    BY <1>4, <2>2, <2>3, <2>4 DEF UpdaterSample, TypeOK, StartedInThePast, admin
<1>5. ASSUME NEW i \in Slots, UpdaterRead(i) PROVE Begun'
  <2>1. Row(updater.list[i].user) \in UserRow
    BY <1>5, RowType DEF UpdaterRead, TypeOK, UpdaterState, RecordRow
  <2> QED
    BY <1>5, <2>1 DEF UpdaterRead, TypeOK, StartedInThePast, UpdaterState, admin
<1>6. CASE UpdaterAllow
  <2>1. Resolved(u, updater.row).limit \in Nat
    BY <1>0, <1>6, ResolvedType DEF UpdaterAllow
  <2>2. Changed(s, Resolved(u, updater.row).limit) \in [Slots -> Nat \cup {None}]
    BY <2>1 DEF Changed, TypeOK, UpdaterState
  <2>3. updater' \in UpdaterState /\ updater'.at # "judge"
    BY <1>6, <2>2, JudgedType DEF UpdaterAllow
  <2>4. cycle' \in [Users -> Cycle] /\ \A w \in Users : cycle'[w].start <= now
    BY <1>0, <1>6, WrittenType, StoreType DEF UpdaterAllow
  <2> QED
    BY <1>6, <2>3, <2>4 DEF UpdaterAllow, TypeOK, StartedInThePast, admin
<1>7. CASE UpdaterKick
  <2> DEFINE next == Judged(updater.changes)
  <2>1. next \in UpdaterState /\ next.at # "judge"
    BY <1>7, JudgedType DEF UpdaterKick, TypeOK, UpdaterState
  <2>2. cycle' \in [Users -> Cycle] /\ \A w \in Users : cycle'[w].start <= now
    BY <1>0, <1>7, WrittenType, StoreType DEF UpdaterKick
  <2>3. \/ updater' = next /\ slot' = slot
        \/ \E v \in Slots : /\ slot[v].at = "up" /\ slot' = Ended(v)
                            /\ updater' = [next EXCEPT !.held = @ \ {v}]
    BY <1>7 DEF UpdaterKick, Targets
  <2> HIDE DEF next
  <2>4. updater' \in UpdaterState /\ updater'.at # "judge"
    BY <2>1, <2>3 DEF UpdaterState
  <2>5. /\ slot' \in [Slots -> SlotState]
        /\ \A i \in Slots : slot'[i].at \notin {"free", "unshape"} => slot'[i].user \in Users
    BY <2>3 DEF Ended, TypeOK, SlotState
  <2> QED
    BY <1>7, <2>2, <2>4, <2>5 DEF UpdaterKick, TypeOK, StartedInThePast, admin
<1>8. CASE UpdaterApply
  <2>1. \A i \in Due : updater.changes[i] \in Nat
    BY DEF Due, TypeOK, UpdaterState
  <2> QED
    BY <1>8, <2>1 DEF UpdaterApply, TypeOK, StartedInThePast, UpdaterState, admin, Due
<1>9. CASE UpdaterRecord
  <2>1. \A i \in Due : updater.changes[i] \in Nat
    BY DEF Due, TypeOK, UpdaterState
  <2>2. record' \in [Slots -> RecordRow \cup {None}]
    BY <1>9, <2>1 DEF UpdaterRecord, TypeOK, RecordRow
  <2>3. astray' \subseteq Slots
    BY <1>9 DEF UpdaterRecord, Due, TypeOK
  <2> QED
    BY <1>9, <2>2, <2>3, SleepingType
    DEF UpdaterRecord, TypeOK, StartedInThePast, admin, Sleeping
<1> QED
  BY <1>1, <1>2, <1>3, <1>4, <1>5, <1>6, <1>7, <1>8, <1>9 DEF UpdaterStep

\* Requests of administrators.
LEMMA AdminBegun ==
  ASSUME Begun, AdminStep
  PROVE  Begun'
<1> USE DEF Begun
<1>0. /\ MaxActs \in Nat /\ NoCycle \in Cycle /\ [start |-> now, used |-> 0] \in Cycle
      /\ now \in Nat /\ NoCycle.start <= now /\ acts \in 0..MaxActs
  BY RateAssumption DEF NoCycle, Cycle, TypeOK
<1>1. ASSUME NEW p \in Plans, NEW t \in Terms, CreatePlan(p, t) \/ UpdatePlan(p, t)
      PROVE  Begun'
  BY <1>0, <1>1 DEF CreatePlan, UpdatePlan, Acting, TypeOK, StartedInThePast
<1>2. ASSUME NEW p \in Plans, DeletePlan(p) PROVE Begun'
  BY <1>0, <1>2 DEF DeletePlan, Acting, TypeOK, StartedInThePast
<1>3. ASSUME NEW p \in Plans, NEW u \in Users, AddUser(p, u) PROVE Begun'
  BY <1>0, <1>3 DEF AddUser, Acting, TypeOK, StartedInThePast
<1>4. ASSUME NEW p \in Plans, NEW u \in Users, RemoveUser(p, u) PROVE Begun'
  BY <1>0, <1>4 DEF RemoveUser, Acting, TypeOK, StartedInThePast
<1>5. ASSUME NEW u \in Users, ResetUser(u) PROVE Begun'
  <2>1. cycle' \in [Users -> Cycle] /\ \A v \in Users : cycle'[v].start <= now
    BY <1>0, <1>5, StoreType DEF ResetUser
  <2> QED
    BY <1>0, <1>5, <2>1 DEF ResetUser, Acting, TypeOK, StartedInThePast
<1>6. ASSUME NEW u \in Users, NEW l \in Policies, ChangePolicy(u, l) PROVE Begun'
  BY <1>0, <1>6 DEF ChangePolicy, Acting, TypeOK, StartedInThePast
<1> QED
  BY <1>1, <1>2, <1>3, <1>4, <1>5, <1>6 DEF AdminStep

LEMMA NextBegun ==
  ASSUME Begun, [Next]_vars
  PROVE  Begun'
<1>1. CASE Tick
  BY <1>1, RateAssumption DEF Tick, Begun, TypeOK, StartedInThePast, admin, Cycle
<1>2. CASE UNCHANGED vars
  BY <1>2 DEF vars, admin, Begun, TypeOK, StartedInThePast
<1> QED
  BY <1>1, <1>2, ScriptBegun, ClientBegun, UpdaterBegun, AdminBegun DEF Next

\* Every reachable state is well typed, the copies and lists of the updater included.
THEOREM TypeCorrect == Spec => []TypeOK
<1>1. Begun => TypeOK
  BY DEF Begun
<1> QED
  BY InitBegun, NextBegun, <1>1, PTL DEF Spec

\* No interleaving of evaluations on stale copies puts the start of a cycle
\* beyond the clock (ensureRateLimitCycle would then wait for it).
THEOREM CyclesHaveBegun == Spec => []StartedInThePast
<1>1. Begun => StartedInThePast
  BY DEF Begun
<1> QED
  BY InitBegun, NextBegun, <1>1, PTL DEF Spec

(* Records and kernel *)

\* An address a step leaves alone stays in line.
LEMMA Frame ==
  ASSUME NEW i \in Slots, InLine(i), slot'[i] = slot[i], record'[i] = record[i],
         tc'[i] = tc[i], i \in astray => i \in astray', updater' = updater
  PROVE  InLine(i)'
BY DEF InLine, Recording, Due

\* Addresses are free, or held by a script of their own, when nothing is recorded.
LEMMA InitInLine == Init => KernelInv
BY DEF Init, KernelInv, InLine, Recording, Free, Sleeping

\* A script works on its own address only.
LEMMA ScriptInLine ==
  ASSUME Begun, KernelInv, NEW s \in Slots, ScriptStep(s)
  PROVE  KernelInv'
<1> USE DEF Begun
<1>0. /\ updater' = updater
      /\ \A i \in Slots \ {s} : /\ slot'[i] = slot[i] /\ record'[i] = record[i]
                                /\ tc'[i] = tc[i] /\ (i \in astray => i \in astray')
  BY DEF ScriptStep, Decide, OnlineRead, OnlineCreate, LimitRead, LimitAnswer, Shape,
         OfflineAdd, OfflineForget, Unshape, TypeOK
<1>1. \A i \in Slots \ {s} : InLine(i)'
  BY <1>0, Frame DEF KernelInv
<1>2. Recording(s)' <=> Recording(s)
  BY <1>0 DEF Recording, Due
<1>3. InLine(s) /\ slot[s] \in SlotState
  BY DEF KernelInv, TypeOK
<1>4. slot \in [Slots -> SlotState] /\ tc \in [Slots -> Nat]
      /\ record \in [Slots -> RecordRow \cup {None}]
  BY DEF TypeOK
<1>5. InLine(s)'
  <2>1. CASE Decide(s)
    BY <1>0, <1>2, <1>3, <1>4, <2>1 DEF Decide, InLine, SlotState, Free
  <2>2. CASE OnlineRead(s) \/ LimitRead(s)
    BY <1>0, <1>2, <1>3, <1>4, <2>2 DEF OnlineRead, LimitRead, InLine, SlotState
  <2>3. CASE OnlineCreate(s)
    <3>1. record'[s] \in RecordRow
      <4>1. slot[s].user \in Users /\ slot[s].row \in UserRow
        BY <1>3, <2>3 DEF OnlineCreate, TypeOK, SlotState
      <4> QED BY <1>4, <2>3, <4>1, ResolvedType DEF OnlineCreate, RecordRow
    <3>2. record'[s] # None
      BY <3>1, RateAssumption
    <3> QED
      BY <1>0, <1>2, <1>3, <1>4, <2>3, <3>2 DEF OnlineCreate, InLine, SlotState
  <2>4. CASE LimitAnswer(s)
    <3> DEFINE limit == Resolved(slot[s].user, slot[s].row).limit
    <3>1. /\ slot[s].at = "answer" /\ tc' = tc /\ record' = record
          /\ slot'[s].at = IF limit = 0 THEN "up" ELSE "shape"
          /\ slot'[s].limit = limit
          /\ s \notin astray' => s \notin astray /\ limit = record[s].limit
      BY <1>3, <1>4, <2>4 DEF LimitAnswer, SlotState
    <3> HIDE DEF limit
    <3> QED
      BY <1>0, <1>2, <1>3, <3>1 DEF InLine
  <2>5. CASE Shape(s)
    BY <1>0, <1>2, <1>3, <1>4, <2>5 DEF Shape, InLine, SlotState
  <2>6. CASE OfflineAdd(s)
    BY <1>0, <1>2, <1>3, <1>4, <2>6 DEF OfflineAdd, InLine, SlotState
  <2>7. CASE OfflineForget(s)
    BY <1>0, <1>2, <1>3, <1>4, <2>7 DEF OfflineForget, InLine, SlotState, Free
  <2>8. CASE Unshape(s)
    BY <1>0, <1>2, <1>3, <1>4, <2>8 DEF Unshape, InLine, SlotState, Free
  <2> QED
    BY <2>1, <2>2, <2>3, <2>4, <2>5, <2>6, <2>7, <2>8 DEF ScriptStep
<1> QED
  BY <1>1, <1>5 DEF KernelInv

\* A session that ends is let go by the updater.
LEMMA ClientInLine ==
  ASSUME Begun, KernelInv, NEW s \in Slots, ClientStep(s)
  PROVE  KernelInv'
<1> USE DEF Begun
<1>0. slot \in [Slots -> SlotState] /\ updater \in UpdaterState
  BY DEF TypeOK
<1>1. ASSUME NEW u \in Users, Authenticate(s, u), NEW i \in Slots PROVE InLine(i)'
  BY <1>0, <1>1 DEF Authenticate, KernelInv, InLine, Recording, Due, SlotState, Free
<1>2. ASSUME Transfer(s), NEW i \in Slots PROVE InLine(i)'
  BY <1>0, <1>2 DEF Transfer, KernelInv, InLine, Recording, Due, SlotState
<1>3. ASSUME Disconnect(s), NEW i \in Slots PROVE InLine(i)'
  <2>1. /\ updater'.held = updater.held \ {s} /\ updater'.changes = updater.changes
        /\ updater'.at = updater.at
    BY <1>0, <1>3 DEF Disconnect, LetGo, UpdaterState
  <2>2. Recording(i)' <=> Recording(i)
    BY <2>1 DEF Recording, Due
  <2> QED
    BY <1>0, <1>3, <2>1, <2>2 DEF Disconnect, Ended, KernelInv, InLine, SlotState
<1> QED
  BY <1>1, <1>2, <1>3 DEF ClientStep, KernelInv

\* While the updater looks around it changes neither limits nor the kernel.
LEMMA LookInLine ==
  ASSUME Begun, KernelInv, NEW i \in Slots,
         slot' = slot, tc' = tc, record'[i] = record[i] \/ record' = record,
         i \in astray => i \in astray', ~Recording(i), ~Recording(i)',
         i \in updater'.held => slot[i].at = "up"
  PROVE  InLine(i)'
BY DEF KernelInv, InLine

LEMMA UpdaterInLine ==
  ASSUME Begun, KernelInv, UpdaterStep
  PROVE  KernelInv'
<1> USE DEF Begun
<1>0. /\ updater \in UpdaterState /\ slot \in [Slots -> SlotState] /\ tc \in [Slots -> Nat]
      /\ record \in [Slots -> RecordRow \cup {None}]
      /\ \A i \in Slots : i \in updater.held => slot[i].at = "up"
  BY DEF TypeOK, KernelInv, InLine
<1>1. CASE UpdaterStart \/ (\E v \in Users : UpdaterExpire(v)) \/ UpdaterReadStatus
           \/ (\E v \in Slots : UpdaterRead(v))
  <2>1. /\ slot' = slot /\ tc' = tc /\ record' = record /\ astray' = astray
        /\ updater.at # "record"
    <3>1. UpdaterStart => updater.at = "idle"
      BY DEF UpdaterStart, Sleeping
    <3> QED
      BY <1>1, <3>1 DEF UpdaterStart, UpdaterExpire, UpdaterReadStatus, UpdaterRead
  <2>2. /\ updater'.at # "record"
        /\ updater'.held \in {updater.held, {i \in Slots : slot[i].at = "up"}}
    <3>1. CASE UpdaterStart
      BY <1>0, <3>1 DEF UpdaterStart, UpdaterState
    <3>2. CASE \E v \in Users : UpdaterExpire(v)
      BY <1>0, <3>2 DEF UpdaterExpire, UpdaterState
    <3>3. CASE UpdaterReadStatus
      BY <1>0, <3>3 DEF UpdaterReadStatus, UpdaterState
    <3>4. CASE \E v \in Slots : UpdaterRead(v)
      BY <1>0, <3>4 DEF UpdaterRead, UpdaterState
    <3> QED
      BY <1>1, <3>1, <3>2, <3>3, <3>4
  <2>3. \A i \in Slots : i \in updater'.held => slot[i].at = "up"
    BY <1>0, <2>2
  <2> QED
    BY <2>1, <2>2, <2>3, LookInLine DEF KernelInv, Recording
<1>2. CASE UpdaterSample
  <2>1. /\ slot' = slot /\ tc' = tc /\ updater.at = "sample"
        /\ updater'.at # "record"
        /\ \A i \in Slots : i \in astray => i \in astray'
        /\ \A i \in Slots : i \in updater'.held => slot[i].at = "up"
    BY <1>0, <1>2 DEF UpdaterSample, UpdaterState, Sleeping
  <2>2. ASSUME NEW i \in Slots
        PROVE  /\ record[i] # None => record'[i] # None
               /\ record[i] # None => record'[i].limit = record[i].limit
    <3>1. record'[i] = Sampled(i)
      BY <1>2 DEF UpdaterSample
    <3>2. record[i] # None => Sampled(i) \in RecordRow /\ Sampled(i).limit = record[i].limit
      BY <1>0 DEF Sampled, UpdaterState, RecordRow, FileRow
    <3> QED
      BY <3>1, <3>2, RateAssumption
  <2> QED
    BY <2>1, <2>2 DEF KernelInv, InLine, Recording
<1>3. CASE UpdaterAllow
  <2>1. /\ slot' = slot /\ tc' = tc /\ record' = record /\ astray' = astray
        /\ updater.at = "judge"
    BY <1>3 DEF UpdaterAllow
  <2>2. Changed(updater.work, Resolved(updater.list[updater.work].user, updater.row).limit)
          \in [Slots -> Nat \cup {None}]
    <3>1. /\ updater.work \in Slots /\ updater.list[updater.work].user \in Users
          /\ updater.row \in UserRow
      BY <2>1 DEF TypeOK, UpdaterState, RecordRow
    <3>2. Resolved(updater.list[updater.work].user, updater.row).limit \in Nat
      BY <3>1, ResolvedType
    <3> QED
      BY <1>0, <3>1, <3>2 DEF Changed, UpdaterState
  <2>3. updater'.at # "record" /\ updater'.held \in {updater.held, {}}
    BY <1>3, <2>1, <2>2, JudgedType DEF UpdaterAllow
  <2> QED
    BY <1>0, <2>1, <2>3, LookInLine DEF KernelInv, Recording
<1>4. CASE UpdaterKick
  <2> DEFINE next == Judged(updater.changes)
  <2>1. /\ updater.at = "judge" /\ next \in UpdaterState /\ next.at # "record"
        /\ next.held \in {updater.held, {}}
    BY <1>0, <1>4, JudgedType DEF UpdaterKick, UpdaterState
  <2>2. \/ updater' = next /\ slot' = slot
        \/ \E v \in Slots : /\ slot[v].at = "up" /\ slot' = Ended(v)
                            /\ updater' = [next EXCEPT !.held = @ \ {v}]
    BY <1>4 DEF UpdaterKick, Targets
  <2>3. tc' = tc /\ record' = record /\ astray' = astray
    BY <1>4 DEF UpdaterKick
  <2> HIDE DEF next
  <2>4. CASE updater' = next /\ slot' = slot
    BY <1>0, <2>1, <2>3, <2>4, LookInLine DEF KernelInv, Recording
  <2>5. ASSUME NEW v \in Slots, slot[v].at = "up", slot' = Ended(v),
               updater' = [next EXCEPT !.held = @ \ {v}]
        PROVE  KernelInv'
    <3>1. updater'.at # "record" /\ updater'.held = next.held \ {v}
      BY <2>1, <2>5 DEF UpdaterState
    <3>2. ASSUME NEW i \in Slots PROVE InLine(i)'
      BY <1>0, <2>1, <2>3, <2>5, <3>1 DEF Ended, KernelInv, InLine, Recording, SlotState
    <3> QED
      BY <3>2 DEF KernelInv
  <2> QED
    BY <2>2, <2>4, <2>5
<1>5. CASE UpdaterApply
  <2>1. /\ slot' = slot /\ record' = record /\ updater'.at = "record"
        /\ updater'.changes = updater.changes /\ updater'.held = updater.held
        /\ updater.at = "apply" /\ astray' = astray \cup (Due \ updater.held)
        /\ \A i \in Slots : tc'[i] = IF i \in Due THEN updater.changes[i] ELSE tc[i]
    BY <1>0, <1>5 DEF UpdaterApply, UpdaterState
  <2>2. Due' = Due
    BY <2>1 DEF Due
  <2>3. ASSUME NEW i \in Slots PROVE InLine(i)'
    BY <1>0, <2>1, <2>2 DEF KernelInv, InLine, Recording
  <2> QED
    BY <2>3 DEF KernelInv
<1>6. CASE UpdaterRecord
  <2>1. /\ slot' = slot /\ tc' = tc /\ updater' = Sleeping /\ updater.at = "record"
        /\ astray' = astray \cup (Due \ updater.held)
    BY <1>6 DEF UpdaterRecord
  <2>2. ASSUME NEW i \in Slots, record[i] # None
        PROVE  /\ record'[i] # None
               /\ record'[i].limit = IF i \in Due THEN updater.changes[i] ELSE record[i].limit
    <3>1. i \in Due => updater.changes[i] \in Nat
      BY <1>0 DEF Due, UpdaterState
    <3>2. record'[i] = IF i \in Due THEN [record[i] EXCEPT !.limit = updater.changes[i]]
                       ELSE record[i]
      BY <1>6, <2>2 DEF UpdaterRecord
    <3>3. record'[i] \in RecordRow
      BY <1>0, <2>2, <3>1, <3>2 DEF RecordRow
    <3> QED
      BY <1>0, <2>2, <3>2, <3>3, RateAssumption DEF RecordRow
  <2>3. updater'.at # "record" /\ updater'.held = {}
    BY <2>1 DEF Sleeping
  <2>4. ASSUME NEW i \in Slots PROVE InLine(i)'
    BY <1>0, <2>1, <2>2, <2>3 DEF KernelInv, InLine, Recording
  <2> QED
    BY <2>4 DEF KernelInv
<1> QED
  BY <1>1, <1>2, <1>3, <1>4, <1>5, <1>6 DEF UpdaterStep

LEMMA NextInLine ==
  ASSUME Begun, KernelInv, [Next]_vars
  PROVE  KernelInv'
<1>1. CASE AdminStep \/ Tick \/ UNCHANGED vars
  <2>1. slot' = slot /\ record' = record /\ tc' = tc /\ astray' = astray /\ updater' = updater
    BY <1>1 DEF AdminStep, CreatePlan, UpdatePlan, DeletePlan, AddUser, RemoveUser, ResetUser,
                ChangePolicy, Tick, vars
  <2> QED
    BY <2>1, Frame DEF KernelInv
<1> QED
  BY <1>1, ScriptInLine, ClientInLine, UpdaterInLine DEF Next

\* The inductive invariant about records and kernel.
THEOREM InvariantKernel == Spec => []KernelInv
<1>1. Init => Begun /\ KernelInv
  BY InitBegun, InitInLine
<1>2. Begun /\ KernelInv /\ [Next]_vars => Begun' /\ KernelInv'
  BY NextBegun, NextInLine
<1> QED
  BY <1>1, <1>2, PTL DEF Spec

\* reconcileRateLimits may trust the limit it has recorded: for sessions that it
\* has not missed, the kernel applies the limit of the record.
THEOREM RecordsAreTrue == Spec => []RecordMatchesKernel
<1>1. KernelInv => RecordMatchesKernel
  BY DEF KernelInv, InLine, RecordMatchesKernel
<1> QED
  BY InvariantKernel, <1>1, PTL

(* Sums *)

\* A sum is the value, at the whole set, of a function that is defined by recursion
\* on its subsets.
Some(s) == CHOOSE x \in s : TRUE
Sums(h, f, S) ==
  h = [s \in SUBSET S |-> IF s = {} THEN 0 ELSE f[Some(s)] + h[s \ {Some(s)}]]
Iter(f, S) == CHOOSE h : Sums(h, f, S)

LEMMA SumIsIter ==
  ASSUME NEW f, NEW S
  PROVE  SumFunctionOnSet(f, S) = Iter(f, S)[S]
BY DEF SumFunctionOnSet, FoldFunctionOnSet, MapThenFoldSet, Iter, Sums, Some

LEMMA LeastNumber ==
  ASSUME NEW T, T \subseteq Nat, T # {}
  PROVE  \E n \in T : \A m \in T : n <= m
<1>1. IsWellFoundedOn(OpToRel(<, Nat), Nat)
  BY NatLessThanWellFounded
<1>2. PICK n \in T : \A m \in T : ~(<<m, n>> \in OpToRel(<, Nat))
  BY <1>1, WFMin
<1>3. \A m \in T : ~(m < n)
  BY <1>2 DEF OpToRel
<1> QED
  BY <1>3

LEMMA Induction ==
  ASSUME NEW S, 0 \in S, \A n \in Nat : n \in S => n + 1 \in S
  PROVE  \A n \in Nat : n \in S
<1> DEFINE T == Nat \ S
<1>1. SUFFICES ASSUME T # {} PROVE FALSE
  OBVIOUS
<1>2. PICK n \in T : \A m \in T : n <= m
  BY <1>1, LeastNumber
<1>3. n # 0
  BY <1>2
<1>4. n - 1 \in Nat /\ n - 1 \in S
  BY <1>2, <1>3
<1> QED
  BY <1>2, <1>4

\* Induction over the size of a finite set, for a set G of good sets: the installed
\* provers cannot instantiate a theorem about a predicate.
LEMMA SizeInduction ==
  ASSUME NEW U, IsFiniteSet(U), NEW G, {} \in G,
         \A S \in SUBSET U : S # {} /\ (\A x \in S : S \ {x} \in G) => S \in G
  PROVE  \A S \in SUBSET U : S \in G
<1> DEFINE bad == {Cardinality(S) : S \in (SUBSET U) \ G}
<1>1. SUFFICES ASSUME NEW B \in SUBSET U, B \notin G PROVE FALSE
  OBVIOUS
<1>2. \A S \in SUBSET U : IsFiniteSet(S) /\ Cardinality(S) \in Nat
  BY FS_Subset, FS_CardinalityType
<1>3. bad \subseteq Nat /\ bad # {}
  BY <1>1, <1>2
<1>4. PICK n \in bad : \A m \in bad : n <= m
  <2> HIDE DEF bad
  <2> QED
    BY <1>3, LeastNumber
<1>5. PICK S \in (SUBSET U) \ G : Cardinality(S) = n
  BY <1>4
<1>6. S # {}
  BY <1>5
<1>7. \A x \in S : S \ {x} \in G
  <2> SUFFICES ASSUME NEW x \in S, S \ {x} \notin G PROVE FALSE
    OBVIOUS
  <2>1. Cardinality(S \ {x}) = Cardinality(S) - 1
    BY <1>2, <1>5, FS_RemoveElement
  <2>2. S \ {x} \in SUBSET U
    BY <1>5
  <2>3. Cardinality(S \ {x}) \in bad
    BY <2>2
  <2>4. n <= Cardinality(S \ {x})
    BY <1>4, <2>3
  <2>5. Cardinality(S) \in Nat
    BY <1>2, <1>5
  <2> HIDE DEF bad
  <2> QED
    BY <1>5, <2>1, <2>4, <2>5
<1> QED
  BY <1>5, <1>6, <1>7

LEMMA SomeOf ==
  ASSUME NEW S, S # {}
  PROVE  Some(S) \in S
BY DEF Some

\* The recursion of a sum defines a function: up to any size of the subsets.
LEMMA SumsExist ==
  ASSUME NEW U, IsFiniteSet(U), NEW f
  PROVE  \E h : Sums(h, f, U)
<1> DEFINE step(s, h) == IF s = {} THEN 0 ELSE f[Some(s)] + h[s \ {Some(s)}]
           upto(n, h) == \A s \in SUBSET U : Cardinality(s) <= n => h[s] = step(s, h)
           G == {n \in Nat : \E h : upto(n, h)}
<1>1. \A s \in SUBSET U : IsFiniteSet(s) /\ Cardinality(s) \in Nat /\ (Cardinality(s) = 0 => s = {})
  BY FS_Subset, FS_CardinalityType, FS_EmptySet
<1>2. 0 \in G
  <2> DEFINE h == [s \in SUBSET U |-> 0]
  <2>1. upto(0, h)
    <3> SUFFICES ASSUME NEW s \in SUBSET U, Cardinality(s) <= 0 PROVE h[s] = step(s, h)
      OBVIOUS
    <3>1. s = {}
      BY <1>1
    <3> QED
      BY <3>1
  <2> QED
    BY <2>1
<1>3. ASSUME NEW n \in Nat, n \in G PROVE n + 1 \in G
  <2>1. PICK h : upto(n, h)
    BY <1>3
  <2> DEFINE k == [s \in SUBSET U |-> step(s, h)]
  <2>2. upto(n + 1, k)
    <3> SUFFICES ASSUME NEW s \in SUBSET U, Cardinality(s) <= n + 1 PROVE k[s] = step(s, k)
      OBVIOUS
    <3>1. CASE s = {}
      BY <3>1
    <3>2. CASE s # {}
      <4> DEFINE p == Some(s)
                 t == s \ {p}
      <4>1. p \in s
        BY <3>2 DEF Some
      <4> HIDE DEF p
      <4>2. t \in SUBSET U /\ Cardinality(t) = Cardinality(s) - 1
        BY <1>1, <4>1, FS_RemoveElement
      <4>3. Cardinality(t) <= n
        BY <1>1, <4>2
      <4> HIDE DEF t
      <4>4. h[t] = step(t, h)
        BY <2>1, <4>2, <4>3
      <4>5. k[t] = step(t, h)
        BY <4>2
      <4>6. k[s] = f[p] + h[t]
        BY <3>2 DEF p, t
      <4>7. step(s, k) = f[p] + k[t]
        BY <3>2 DEF p, t
      <4> HIDE DEF k, step
      <4> QED
        BY <4>4, <4>5, <4>6, <4>7
    <3> QED
      BY <3>1, <3>2
  <2> HIDE DEF upto, k
  <2> QED
    BY <2>2
<1>4. \A n \in Nat : n \in G
  <2> HIDE DEF G
  <2> QED
    BY <1>2, <1>3, Induction
<1>5. PICK h : upto(Cardinality(U), h)
  BY <1>1, <1>4
<1>6. \A s \in SUBSET U : h[s] = step(s, h)
  <2> SUFFICES ASSUME NEW s \in SUBSET U PROVE Cardinality(s) <= Cardinality(U)
    BY <1>5
  <2> QED
    BY FS_Subset
<1> DEFINE k == [s \in SUBSET U |-> h[s]]
<1>7. \A s \in SUBSET U : k[s] = step(s, k)
  <2> SUFFICES ASSUME NEW s \in SUBSET U PROVE k[s] = step(s, k)
    OBVIOUS
  <2>1. k[s] = step(s, h)
    BY <1>6
  <2>2. s \ {Some(s)} \in SUBSET U
    OBVIOUS
  <2>3. step(s, h) = step(s, k)
    BY <2>2
  <2> QED
    BY <2>1, <2>3
<1>8. Sums(k, f, U)
  <2>1. k = [s \in SUBSET U |-> k[s]]
    OBVIOUS
  <2> HIDE DEF k
  <2> QED
    BY <1>7, <2>1 DEF Sums
<1> QED
  BY <1>8

\* What is left of a sum when an element is taken out.
LEMMA SumRecursion ==
  ASSUME NEW S, IsFiniteSet(S), NEW f
  PROVE  /\ S = {} => SumFunctionOnSet(f, S) = 0
         /\ S # {} => /\ Some(S) \in S
                      /\ SumFunctionOnSet(f, S) = f[Some(S)] + SumFunctionOnSet(f, S \ {Some(S)})
<1>1. PICK h : h = Iter(f, S)
  OBVIOUS
<1>2. Sums(h, f, S)
  BY <1>1, SumsExist DEF Iter
<1>3. SumFunctionOnSet(f, S) = h[S]
  BY <1>1, SumIsIter
<1>4. CASE S = {}
  BY <1>2, <1>3, <1>4 DEF Sums
<1>5. CASE S # {}
  <2> DEFINE p == Some(S)
             T == S \ {p}
  <2>1. p \in S
    BY <1>5 DEF Some
  <2>2. h[S] = f[p] + h[T]
    BY <1>2, <1>5 DEF Sums
  <2> HIDE DEF p
  <2>3. IsFiniteSet(T)
    BY FS_Subset
  <2> HIDE DEF T
  <2>4. PICK g : g = Iter(f, T)
    OBVIOUS
  <2>5. Sums(g, f, T) /\ SumFunctionOnSet(f, T) = g[T]
    BY <2>3, <2>4, SumsExist, SumIsIter DEF Iter
  <2> DEFINE G == {s \in SUBSET T : g[s] = h[s]}
  <2>6. SUBSET T \subseteq SUBSET S
    BY DEF T
  <2>7. \A s \in SUBSET T : /\ s = {} => g[s] = 0 /\ h[s] = 0
                            /\ s # {} => /\ g[s] = f[Some(s)] + g[s \ {Some(s)}]
                                         /\ h[s] = f[Some(s)] + h[s \ {Some(s)}]
    BY <1>2, <2>5, <2>6 DEF Sums
  <2>8. {} \in G
    BY <2>7
  <2>9. ASSUME NEW s \in SUBSET T, s # {}, \A x \in s : s \ {x} \in G PROVE s \in G
    <3>1. Some(s) \in s
      BY <2>9, SomeOf
    <3>2. g[s \ {Some(s)}] = h[s \ {Some(s)}]
      BY <2>9, <3>1
    <3> QED
      BY <2>7, <2>9, <3>2
  <2>10. T \in G
    <3>1. \A s \in SUBSET T : s # {} /\ (\A x \in s : s \ {x} \in G) => s \in G
      BY <2>9
    <3> HIDE DEF G
    <3>2. \A s \in SUBSET T : s \in G
      BY <2>3, <2>8, <3>1, SizeInduction
    <3> QED
      BY <3>2
  <2>11. g[T] = h[T]
    BY <2>10
  <2>12. SumFunctionOnSet(f, S) = f[p] + SumFunctionOnSet(f, T)
    BY <1>3, <2>2, <2>5, <2>11
  <2> QED
    BY <1>5, <2>1, <2>12 DEF p, T
<1> QED
  BY <1>4, <1>5

\* Natural numbers make a natural number.
LEMMA SumType ==
  ASSUME NEW U, IsFiniteSet(U), NEW f, \A x \in U : f[x] \in Nat
  PROVE  \A S \in SUBSET U : SumFunctionOnSet(f, S) \in Nat
<1> DEFINE G == {S \in SUBSET U : SumFunctionOnSet(f, S) \in Nat}
<1>1. {} \in G
  BY SumRecursion, FS_EmptySet
<1>2. ASSUME NEW S \in SUBSET U, S # {}, \A x \in S : S \ {x} \in G PROVE S \in G
  <2>1. IsFiniteSet(S)
    BY FS_Subset
  <2>2. PICK p \in S : SumFunctionOnSet(f, S) = f[p] + SumFunctionOnSet(f, S \ {p})
    BY <1>2, <2>1, SumRecursion
  <2>3. SumFunctionOnSet(f, S \ {p}) \in Nat /\ f[p] \in Nat
    BY <1>2
  <2> QED
    BY <2>2, <2>3
<1>3. \A S \in SUBSET U : S # {} /\ (\A x \in S : S \ {x} \in G) => S \in G
  BY <1>2
<1>4. \A S \in SUBSET U : S \in G
  <2> HIDE DEF G
  <2> QED
    BY <1>1, <1>3, SizeInduction
<1> QED
  BY <1>4

\* A sum does not depend on the order: any element may be taken out first.
LEMMA SumRemove ==
  ASSUME NEW U, IsFiniteSet(U), NEW f, \A x \in U : f[x] \in Nat
  PROVE  \A S \in SUBSET U : \A x \in S :
           SumFunctionOnSet(f, S) = f[x] + SumFunctionOnSet(f, S \ {x})
<1> DEFINE sum(S) == SumFunctionOnSet(f, S)
           G == {S \in SUBSET U : \A x \in S : sum(S) = f[x] + sum(S \ {x})}
<1>1. {} \in G
  OBVIOUS
<1>2. ASSUME NEW S \in SUBSET U, S # {}, \A x \in S : S \ {x} \in G PROVE S \in G
  <2> SUFFICES ASSUME NEW x \in S PROVE sum(S) = f[x] + sum(S \ {x})
    OBVIOUS
  <2>1. IsFiniteSet(S)
    BY FS_Subset
  <2>2. PICK p \in S : sum(S) = f[p] + sum(S \ {p})
    <3>1. Some(S) \in S /\ sum(S) = f[Some(S)] + sum(S \ {Some(S)})
      BY <1>2, <2>1, SumRecursion
    <3> QED
      BY <3>1
  <2>3. CASE x = p
    BY <2>2, <2>3
  <2>4. CASE x # p
    <3>1. (S \ {p}) \ {x} = (S \ {x}) \ {p} /\ x \in S \ {p} /\ p \in S \ {x}
      BY <2>4
    <3> DEFINE R == (S \ {x}) \ {p}
    <3>2. sum(S \ {p}) = f[x] + sum(R)
      BY <1>2, <3>1
    <3>3. sum(S \ {x}) = f[p] + sum(R)
      BY <1>2, <3>1
    <3>4. sum(R) \in Nat
      BY SumType
    <3>5. f[x] \in Nat /\ f[p] \in Nat
      OBVIOUS
    <3> HIDE DEF sum, R
    <3> QED
      BY <2>2, <3>2, <3>3, <3>4, <3>5
  <2> QED
    BY <2>3, <2>4
<1>3. \A S \in SUBSET U : S # {} /\ (\A x \in S : S \ {x} \in G) => S \in G
  BY <1>2
<1>4. \A S \in SUBSET U : S \in G
  <2> HIDE DEF G
  <2> QED
    BY <1>1, <1>3, SizeInduction
<1> QED
  BY <1>4

\* Sums over two sets compare as their summands do, those outside counting for nothing.
LEMMA SumCompare ==
  ASSUME NEW U, IsFiniteSet(U), NEW f, NEW g, NEW A, NEW B, A \subseteq U, B \subseteq U,
         \A x \in B : g[x] \in Nat,
         \A x \in A : f[x] \in Nat /\ f[x] <= IF x \in B THEN g[x] ELSE 0
  PROVE  SumFunctionOnSet(f, A) <= SumFunctionOnSet(g, B)
<1> DEFINE less(S) == SumFunctionOnSet(f, S \cap A)
           more(S) == SumFunctionOnSet(g, S \cap B)
           G == {S \in SUBSET U : less(S) <= more(S)}
<1>0. IsFiniteSet(A) /\ IsFiniteSet(B)
  BY FS_Subset
<1>1. {} \in G
  <2>1. {} \cap A = {} /\ {} \cap B = {}
    OBVIOUS
  <2> QED
    BY <2>1, SumRecursion, FS_EmptySet
<1>2. ASSUME NEW S \in SUBSET U, S # {}, \A x \in S : S \ {x} \in G PROVE S \in G
  <2>1. PICK x \in S : TRUE
    BY <1>2
  <2>2. less(S \ {x}) <= more(S \ {x})
    BY <1>2
  <2>3. less(S \ {x}) \in Nat
    <3>1. (S \ {x}) \cap A \in SUBSET A
      OBVIOUS
    <3> QED
      BY <1>0, <3>1, SumType
  <2>4. more(S \ {x}) \in Nat
    <3>1. (S \ {x}) \cap B \in SUBSET B
      OBVIOUS
    <3> QED
      BY <1>0, <3>1, SumType
  <2>5. less(S) = (IF x \in A THEN f[x] ELSE 0) + less(S \ {x})
    <3>1. CASE x \in A
      <4>1. (S \cap A) \ {x} = (S \ {x}) \cap A /\ S \cap A \in SUBSET A /\ x \in S \cap A
        BY <3>1
      <4>2. less(S) = f[x] + less(S \ {x})
        BY <1>0, <4>1, SumRemove
      <4> HIDE DEF less
      <4> QED
        BY <3>1, <4>2
    <3>2. CASE x \notin A
      <4>1. (S \ {x}) \cap A = S \cap A
        BY <3>2
      <4>2. less(S) = less(S \ {x})
        BY <4>1
      <4> HIDE DEF less
      <4> QED
        BY <2>3, <3>2, <4>2
    <3> QED
      BY <3>1, <3>2
  <2>6. more(S) = (IF x \in B THEN g[x] ELSE 0) + more(S \ {x})
    <3>1. CASE x \in B
      <4>1. (S \cap B) \ {x} = (S \ {x}) \cap B /\ S \cap B \in SUBSET B /\ x \in S \cap B
        BY <3>1
      <4>2. more(S) = g[x] + more(S \ {x})
        BY <1>0, <4>1, SumRemove
      <4> HIDE DEF more
      <4> QED
        BY <3>1, <4>2
    <3>2. CASE x \notin B
      <4>1. (S \ {x}) \cap B = S \cap B
        BY <3>2
      <4>2. more(S) = more(S \ {x})
        BY <4>1
      <4> HIDE DEF more
      <4> QED
        BY <2>4, <3>2, <4>2
    <3> QED
      BY <3>1, <3>2
  <2>7. \A y \in A : f[y] \in Nat /\ f[y] <= IF y \in B THEN g[y] ELSE 0
    OBVIOUS
  <2>8. \A y \in B : g[y] \in Nat
    OBVIOUS
  <2> HIDE DEF less, more
  <2>9. less(S) <= more(S)
    BY <2>2, <2>3, <2>4, <2>5, <2>6, <2>7, <2>8
  <2> QED
    BY <2>9
<1>3. \A S \in SUBSET U : S # {} /\ (\A x \in S : S \ {x} \in G) => S \in G
  BY <1>2
<1>4. \A S \in SUBSET U : S \in G
  <2> HIDE DEF G
  <2> QED
    BY <1>1, <1>3, SizeInduction
<1>5. U \cap A = A /\ U \cap B = B
  OBVIOUS
<1> QED
  BY <1>4, <1>5

(* Bytes of open sessions *)

OpenAt(q, u) == {s \in Slots : q[s].user = u /\ q[s].at # "forget"}

Total(q, u) == SumFunctionOnSet([s \in Slots |-> q[s].bytes], OpenAt(q, u))

\* The total of the sessions q, as the model writes it.
LEMMA TotalIsSum ==
  ASSUME NEW q, \A s \in Slots : q[s].bytes \in Nat, NEW u
  PROVE  /\ Total(q, u) \in Nat
         /\ SumFunction([s \in OpenAt(q, u) |-> q[s].bytes]) = Total(q, u)
<1> DEFINE open == OpenAt(q, u)
           all == [s \in Slots |-> q[s].bytes]
           some == [s \in open |-> q[s].bytes]
<1>1. open \subseteq Slots /\ IsFiniteSet(Slots) /\ IsFiniteSet(open)
  BY FS_Subset, RateAssumption DEF OpenAt
<1>2. \A s \in open : all[s] \in Nat /\ some[s] \in Nat /\ all[s] = some[s]
  BY <1>1
<1>3. SumFunction(some) = SumFunctionOnSet(some, open)
  BY DEF SumFunction
<1> HIDE DEF open, all, some
<1>4. \A s \in open : /\ all[s] <= (IF s \in open THEN some[s] ELSE 0)
                      /\ some[s] <= (IF s \in open THEN all[s] ELSE 0)
  BY <1>2
<1>5. SumFunctionOnSet(some, open) <= SumFunctionOnSet(all, open)
  BY <1>1, <1>2, <1>4, SumCompare
<1>6. SumFunctionOnSet(all, open) <= SumFunctionOnSet(some, open)
  BY <1>1, <1>2, <1>4, SumCompare
<1>7. SumFunctionOnSet(some, open) \in Nat /\ SumFunctionOnSet(all, open) \in Nat
  BY <1>1, <1>2, SumType
<1>8. SumFunctionOnSet(some, open) = SumFunctionOnSet(all, open)
  BY <1>5, <1>6, <1>7
<1> QED
  BY <1>3, <1>7, <1>8 DEF Total, open, all, some

LEMMA OpenBytesTotal ==
  ASSUME \A s \in Slots : slot[s].bytes \in Nat, NEW u
  PROVE  OpenBytes(u) = Total(slot, u) /\ OpenBytes(u) \in Nat
<1>1. PICK q : q = slot
  OBVIOUS
<1>2. /\ Total(q, u) \in Nat
      /\ SumFunction([s \in OpenAt(q, u) |-> q[s].bytes]) = Total(q, u)
  BY <1>1, TotalIsSum
<1> QED
  BY <1>1, <1>2 DEF OpenBytes, OpenAt

LEMMA OpenBytesNext ==
  ASSUME \A s \in Slots : slot'[s].bytes \in Nat, NEW u
  PROVE  OpenBytes(u)' = Total(slot', u)
<1>1. PICK q : q = slot'
  OBVIOUS
<1>2. SumFunction([s \in OpenAt(q, u) |-> q[s].bytes]) = Total(q, u)
  BY <1>1, TotalIsSum
<1> QED
  BY <1>1, <1>2 DEF OpenBytes, OpenAt

\* Sessions that end, begin or stay as they are do not add to the total.
LEMMA TotalShrinks ==
  ASSUME NEW q, NEW r, NEW u, \A s \in Slots : q[s].bytes \in Nat /\ r[s].bytes \in Nat,
         \A s \in OpenAt(r, u) : r[s].bytes <= IF s \in OpenAt(q, u) THEN q[s].bytes ELSE 0
  PROVE  Total(r, u) <= Total(q, u)
<1> DEFINE f == [s \in Slots |-> r[s].bytes]
           g == [s \in Slots |-> q[s].bytes]
<1>1. OpenAt(q, u) \subseteq Slots /\ OpenAt(r, u) \subseteq Slots /\ IsFiniteSet(Slots)
  BY RateAssumption DEF OpenAt
<1>2. \A s \in Slots : f[s] = r[s].bytes /\ g[s] = q[s].bytes
  OBVIOUS
<1> HIDE DEF f, g
<1>3. \A s \in OpenAt(q, u) : g[s] \in Nat
  BY <1>1, <1>2
<1>4. \A s \in OpenAt(r, u) : f[s] \in Nat /\ f[s] <= IF s \in OpenAt(q, u) THEN g[s] ELSE 0
  BY <1>1, <1>2
<1>5. SumFunctionOnSet(f, OpenAt(r, u)) <= SumFunctionOnSet(g, OpenAt(q, u))
  BY <1>1, <1>3, <1>4, SumCompare
<1> QED
  BY <1>5 DEF Total, f, g

\* What one session moves is added to the total, and what it leaves is taken off.
LEMMA TotalMoves ==
  ASSUME NEW q, NEW r, NEW u, \A s \in Slots : q[s].bytes \in Nat /\ r[s].bytes \in Nat,
         NEW i \in OpenAt(q, u),
         \A s \in OpenAt(r, u) \ {i} : s \in OpenAt(q, u) /\ r[s].bytes <= q[s].bytes
  PROVE  Total(r, u) + q[i].bytes <= Total(q, u) + (IF i \in OpenAt(r, u) THEN r[i].bytes ELSE 0)
<1> DEFINE f == [s \in Slots |-> r[s].bytes]
           g == [s \in Slots |-> q[s].bytes]
           A == OpenAt(r, u) \ {i}
           B == OpenAt(q, u) \ {i}
<1>1. OpenAt(q, u) \subseteq Slots /\ OpenAt(r, u) \subseteq Slots /\ IsFiniteSet(Slots)
  BY RateAssumption DEF OpenAt
<1>2. \A s \in Slots : f[s] = r[s].bytes /\ g[s] = q[s].bytes
  OBVIOUS
<1> HIDE DEF f, g
<1>3. \A s \in Slots : f[s] \in Nat /\ g[s] \in Nat
  BY <1>2
<1>4. A \subseteq Slots /\ B \subseteq Slots
  BY <1>1
<1>5. \A s \in A : f[s] <= IF s \in B THEN g[s] ELSE 0
  BY <1>1, <1>2
<1> HIDE DEF A, B
<1>6. SumFunctionOnSet(f, A) <= SumFunctionOnSet(g, B)
  BY <1>1, <1>3, <1>4, <1>5, SumCompare
<1>7. SumFunctionOnSet(f, A) \in Nat /\ SumFunctionOnSet(g, B) \in Nat
  BY <1>1, <1>3, <1>4, SumType
<1>8. SumFunctionOnSet(g, OpenAt(q, u)) = g[i] + SumFunctionOnSet(g, B)
  BY <1>1, <1>3, SumRemove DEF B
<1>9. SumFunctionOnSet(f, OpenAt(r, u)) =
        (IF i \in OpenAt(r, u) THEN f[i] ELSE 0) + SumFunctionOnSet(f, A)
  <2>1. CASE i \in OpenAt(r, u)
    BY <1>1, <1>3, <2>1, SumRemove DEF A
  <2>2. CASE i \notin OpenAt(r, u)
    <3>1. A = OpenAt(r, u)
      BY <2>2 DEF A
    <3> QED
      BY <1>7, <2>2, <3>1
  <2> QED
    BY <2>1, <2>2
<1>10. f[i] = r[i].bytes /\ g[i] = q[i].bytes /\ f[i] \in Nat /\ g[i] \in Nat
  BY <1>1, <1>2, <1>3
<1>11. /\ Total(r, u) = SumFunctionOnSet(f, OpenAt(r, u))
       /\ Total(q, u) = SumFunctionOnSet(g, OpenAt(q, u))
  BY DEF Total, f, g
<1> QED
  BY <1>6, <1>7, <1>8, <1>9, <1>10, <1>11

(* What a user is charged for *)

\* A record counts no more than its session has moved, and only while there is one;
\* nor does the status file for a session that has not ended since.
AddressInv(s) ==
  /\ slot[s].at \in {"free", "decide", "online", "create", "unshape"} => record[s] = None
  /\ record[s] # None /\ slot[s].at # "forget" /\ s \notin astray =>
        record[s].user = slot[s].user /\ record[s].bytes <= slot[s].bytes
  /\ s \in updater.held /\ updater.file[s] # None => updater.file[s].bytes <= slot[s].bytes

AddressesInv == \A s \in Slots : AddressInv(s)

\* What is added to the cycle and what open sessions will add is owed.
AccountInv ==
  /\ DOMAIN owed = Users
  /\ \A u \in Users :
       /\ owed[u] \in Nat
       /\ planOf[u] # None => cycle[u].used + OpenBytes(u) <= owed[u]

\* At an address a step leaves alone nothing changes.
LEMMA AddressFrame ==
  ASSUME NEW i \in Slots, AddressInv(i), slot'[i] = slot[i], record'[i] = record[i],
         i \in astray => i \in astray', updater'.file = updater.file,
         i \in updater'.held => i \in updater.held
  PROVE  AddressInv(i)'
BY DEF AddressInv

LEMMA ScriptAddress ==
  ASSUME Begun, KernelInv, AddressesInv, NEW s \in Slots, ScriptStep(s)
  PROVE  AddressesInv'
<1> USE DEF Begun
<1>0. /\ updater' = updater
      /\ \A i \in Slots \ {s} : /\ slot'[i] = slot[i] /\ record'[i] = record[i]
                                /\ (i \in astray => i \in astray')
  BY DEF ScriptStep, Decide, OnlineRead, OnlineCreate, LimitRead, LimitAnswer, Shape,
         OfflineAdd, OfflineForget, Unshape, TypeOK
<1>1. \A i \in Slots \ {s} : AddressInv(i)'
  BY <1>0, AddressFrame DEF AddressesInv
<1>2. /\ AddressInv(s) /\ slot[s] \in SlotState /\ (s \in updater.held => slot[s].at = "up")
  BY DEF AddressesInv, TypeOK, KernelInv, InLine
<1>3. slot \in [Slots -> SlotState] /\ record \in [Slots -> RecordRow \cup {None}]
  BY DEF TypeOK
<1>4. AddressInv(s)'
  <2>0. slot[s].at # "up" /\ s \notin updater.held
    BY <1>2 DEF ScriptStep, Decide, OnlineRead, OnlineCreate, LimitRead, LimitAnswer, Shape,
                OfflineAdd, OfflineForget, Unshape
  <2>1. CASE Decide(s)
    BY <1>0, <1>2, <1>3, <2>0, <2>1 DEF Decide, AddressInv, SlotState, Free
  <2>2. CASE OnlineRead(s) \/ LimitRead(s)
    BY <1>0, <1>2, <1>3, <2>0, <2>2 DEF OnlineRead, LimitRead, AddressInv, SlotState
  <2>3. CASE OnlineCreate(s)
    <3>1. record'[s].user = slot[s].user /\ record'[s].bytes = 0
      BY <1>3, <2>3 DEF OnlineCreate
    <3>2. slot'[s].at = "ask" /\ slot'[s].user = slot[s].user /\ slot'[s].bytes = slot[s].bytes
      BY <1>2, <1>3, <2>3 DEF OnlineCreate, SlotState
    <3>3. slot[s].bytes \in Nat
      BY <1>2 DEF SlotState
    <3> QED
      BY <1>0, <2>0, <3>1, <3>2, <3>3 DEF AddressInv
  <2>4. CASE LimitAnswer(s)
    <3>1. /\ slot[s].at = "answer" /\ slot'[s].at \in {"up", "shape"} /\ record' = record
          /\ slot'[s].user = slot[s].user /\ slot'[s].bytes = slot[s].bytes
          /\ s \in astray => s \in astray'
      BY <1>2, <1>3, <2>4 DEF LimitAnswer, SlotState
    <3> QED
      BY <1>0, <1>2, <2>0, <3>1 DEF AddressInv
  <2>5. CASE Shape(s)
    BY <1>0, <1>2, <1>3, <2>0, <2>5 DEF Shape, AddressInv, SlotState
  <2>6. CASE OfflineAdd(s)
    BY <1>0, <1>2, <1>3, <2>0, <2>6 DEF OfflineAdd, AddressInv, SlotState
  <2>7. CASE OfflineForget(s)
    BY <1>0, <1>2, <1>3, <2>0, <2>7 DEF OfflineForget, AddressInv, SlotState, Free
  <2>8. CASE Unshape(s)
    BY <1>0, <1>2, <1>3, <2>0, <2>8 DEF Unshape, AddressInv, SlotState, Free
  <2> QED
    BY <2>1, <2>2, <2>3, <2>4, <2>5, <2>6, <2>7, <2>8 DEF ScriptStep
<1> QED
  BY <1>1, <1>4 DEF AddressesInv

LEMMA ClientAddress ==
  ASSUME Begun, KernelInv, AddressesInv, NEW s \in Slots, ClientStep(s)
  PROVE  AddressesInv'
<1> USE DEF Begun
<1>0. slot \in [Slots -> SlotState] /\ updater \in UpdaterState
      /\ \A i \in Slots : AddressInv(i) /\ (i \in updater.held => slot[i].at = "up")
  BY DEF TypeOK, AddressesInv, KernelInv, InLine
<1>1. ASSUME NEW u \in Users, Authenticate(s, u), NEW i \in Slots PROVE AddressInv(i)'
  BY <1>0, <1>1 DEF Authenticate, AddressInv, SlotState, Free
<1>2. ASSUME Transfer(s), NEW i \in Slots PROVE AddressInv(i)'
  <2>1. /\ slot'[i].at = slot[i].at /\ slot'[i].user = slot[i].user
        /\ slot'[i].bytes \in {slot[i].bytes, slot[i].bytes + 1} /\ slot[i].bytes \in Nat
    BY <1>0, <1>2 DEF Transfer, SlotState
  <2>2. /\ updater'.file = updater.file /\ updater'.held = updater.held
        /\ record' = record /\ astray' = astray
    BY <1>2 DEF Transfer
  <2>3. /\ record[i] # None => record[i] \in RecordRow
        /\ updater.file[i] # None => updater.file[i] \in FileRow
    BY <1>0 DEF TypeOK, UpdaterState
  <2>4. AddressInv(i)
    BY <1>0
  <2> QED
    BY <2>1, <2>2, <2>3, <2>4 DEF AddressInv, RecordRow, FileRow
<1>3. ASSUME Disconnect(s), NEW i \in Slots PROVE AddressInv(i)'
  <2>1. updater'.held = updater.held \ {s} /\ updater'.file = updater.file
    BY <1>0, <1>3 DEF Disconnect, LetGo, UpdaterState
  <2> QED
    BY <1>0, <1>3, <2>1 DEF Disconnect, Ended, AddressInv, SlotState
<1> QED
  BY <1>1, <1>2, <1>3 DEF ClientStep, AddressesInv

\* The updater forgets the status file when it goes to sleep, and keeps it till then.
LEMMA JudgedFile ==
  ASSUME TypeOK, updater.at = "judge", NEW changes \in [Slots -> Nat \cup {None}]
  PROVE  \/ Judged(changes).held = {}
         \/ Judged(changes).held = updater.held /\ Judged(changes).file = updater.file
<1>1. Sleeping.held = {}
  BY DEF Sleeping
<1> QED
  BY <1>1 DEF Judged, TypeOK, UpdaterState

LEMMA UpdaterAddress ==
  ASSUME Begun, KernelInv, AddressesInv, UpdaterStep
  PROVE  AddressesInv'
<1> USE DEF Begun
<1>0. /\ updater \in UpdaterState /\ slot \in [Slots -> SlotState]
      /\ record \in [Slots -> RecordRow \cup {None}]
      /\ \A i \in Slots : AddressInv(i) /\ (i \in updater.held => slot[i].at = "up")
  BY DEF TypeOK, AddressesInv, KernelInv, InLine
\* Steps that leave sessions and records alone.
<1>1. ASSUME slot' = slot, record' = record, astray \subseteq astray',
             updater'.held = {} \/ (updater'.held = updater.held /\ updater'.file = updater.file)
      PROVE  AddressesInv'
  BY <1>0, <1>1 DEF AddressesInv, AddressInv
<1>2. CASE UpdaterStart
  BY <1>0, <1>1, <1>2 DEF UpdaterStart, UpdaterState
<1>3. CASE \E v \in Users : UpdaterExpire(v)
  BY <1>0, <1>1, <1>3 DEF UpdaterExpire, UpdaterState
<1>4. CASE \E v \in Slots : UpdaterRead(v)
  BY <1>0, <1>1, <1>4 DEF UpdaterRead, UpdaterState
<1>5. CASE UpdaterApply
  BY <1>0, <1>1, <1>5 DEF UpdaterApply, UpdaterState
<1>6. CASE UpdaterReadStatus
  <2>1. slot' = slot /\ record' = record /\ astray' = astray
    BY <1>6 DEF UpdaterReadStatus
  <2>2. updater'.held = {i \in Slots : slot[i].at = "up"}
    BY <1>0, <1>6 DEF UpdaterReadStatus, UpdaterState
  <2>3. updater'.file = [i \in Slots |-> IF slot[i].at = "up"
                                         THEN [user |-> slot[i].user, bytes |-> slot[i].bytes]
                                         ELSE None]
    BY <1>0, <1>6 DEF UpdaterReadStatus, UpdaterState
  <2>4. ASSUME NEW i \in Slots PROVE AddressInv(i)'
    <3>1. i \in updater'.held => updater'.file[i].bytes = slot[i].bytes /\ slot[i].bytes \in Nat
      BY <1>0, <2>2, <2>3 DEF SlotState
    <3> QED
      BY <1>0, <2>1, <3>1 DEF AddressInv
  <2> QED
    BY <2>4 DEF AddressesInv
<1>7. CASE UpdaterSample
  <2>1. slot' = slot /\ astray' = astray \cup {s \in Slots \ updater.held : record'[s] # record[s]}
        /\ \A s \in Slots : record'[s] = Sampled(s)
    BY <1>7 DEF UpdaterSample
  <2>2. updater'.held = {} \/ (updater'.held = updater.held /\ updater'.file = updater.file)
    BY <1>0, <1>7 DEF UpdaterSample, UpdaterState, Sleeping
  <2>3. ASSUME NEW i \in Slots PROVE AddressInv(i)'
    <3>1. CASE record'[i] = record[i]
      BY <1>0, <2>1, <2>2, <3>1 DEF AddressInv
    <3>2. CASE record'[i] # record[i]
      <4>1. /\ record[i] # None /\ updater.file[i] # None
            /\ record'[i] = [record[i] EXCEPT !.bytes = updater.file[i].bytes]
        BY <2>1, <3>2 DEF Sampled
      <4>2. record'[i].user = record[i].user /\ record'[i].bytes = updater.file[i].bytes
        BY <1>0, <4>1 DEF RecordRow
      <4>3. i \notin astray' => i \in updater.held
        BY <2>1, <3>2
      <4>4. i \in updater.held => updater.file[i].bytes <= slot[i].bytes
        BY <1>0, <4>1 DEF AddressInv
      <4> QED
        BY <1>0, <2>1, <2>2, <4>1, <4>2, <4>3, <4>4 DEF AddressInv
    <3> QED
      BY <3>1, <3>2
  <2> QED
    BY <2>3 DEF AddressesInv
<1>8. CASE UpdaterAllow
  <2>1. /\ slot' = slot /\ record' = record /\ astray' = astray /\ updater.at = "judge"
        /\ updater' = Judged(Changed(updater.work, Resolved(updater.list[updater.work].user, updater.row).limit))
    BY <1>8 DEF UpdaterAllow
  <2>2. Changed(updater.work, Resolved(updater.list[updater.work].user, updater.row).limit)
          \in [Slots -> Nat \cup {None}]
    <3>1. /\ updater.work \in Slots /\ updater.list[updater.work].user \in Users
          /\ updater.row \in UserRow
      BY <2>1 DEF TypeOK, UpdaterState, RecordRow
    <3>2. Resolved(updater.list[updater.work].user, updater.row).limit \in Nat
      BY <3>1, ResolvedType
    <3> QED
      BY <1>0, <3>1, <3>2 DEF Changed, UpdaterState
  <2> QED
    BY <1>1, <2>1, <2>2, JudgedFile
<1>9. CASE UpdaterKick
  <2> DEFINE next == Judged(updater.changes)
  <2>1. /\ updater.at = "judge" /\ next \in UpdaterState
        /\ next.held = {} \/ (next.held = updater.held /\ next.file = updater.file)
    BY <1>0, <1>9, JudgedType, JudgedFile DEF UpdaterKick, UpdaterState
  <2>2. \/ updater' = next /\ slot' = slot
        \/ \E v \in Slots : /\ slot[v].at = "up" /\ slot' = Ended(v)
                            /\ updater' = [next EXCEPT !.held = @ \ {v}]
    BY <1>9 DEF UpdaterKick, Targets
  <2>3. record' = record /\ astray' = astray
    BY <1>9 DEF UpdaterKick
  <2> HIDE DEF next
  <2>4. CASE updater' = next /\ slot' = slot
    BY <1>1, <2>1, <2>3, <2>4
  <2>5. ASSUME NEW v \in Slots, slot[v].at = "up", slot' = Ended(v),
               updater' = [next EXCEPT !.held = @ \ {v}]
        PROVE  AddressesInv'
    <3>1. updater'.held = next.held \ {v} /\ updater'.file = next.file
      BY <2>1, <2>5 DEF UpdaterState
    <3>2. ASSUME NEW i \in Slots PROVE AddressInv(i)'
      BY <1>0, <2>1, <2>3, <2>5, <3>1 DEF Ended, AddressInv, SlotState
    <3> QED
      BY <3>2 DEF AddressesInv
  <2> QED
    BY <2>2, <2>4, <2>5
<1>10. CASE UpdaterRecord
  <2>1. /\ slot' = slot /\ updater' = Sleeping /\ astray \subseteq astray'
        /\ \A i \in Slots : record'[i] = IF i \in Due /\ record[i] # None
                                         THEN [record[i] EXCEPT !.limit = updater.changes[i]]
                                         ELSE record[i]
    BY <1>10 DEF UpdaterRecord
  <2>2. ASSUME NEW i \in Slots, record[i] # None
        PROVE  record'[i].user = record[i].user /\ record'[i].bytes = record[i].bytes
    BY <1>0, <2>1, <2>2 DEF RecordRow
  <2>3. \A i \in Slots : record[i] = None => record'[i] = None
    BY <2>1
  <2>4. updater'.held = {}
    BY <2>1 DEF Sleeping
  <2>5. ASSUME NEW i \in Slots PROVE AddressInv(i)'
    BY <1>0, <2>1, <2>2, <2>3, <2>4 DEF AddressInv
  <2> QED
    BY <2>5 DEF AddressesInv
<1> QED
  BY <1>2, <1>3, <1>4, <1>5, <1>6, <1>7, <1>8, <1>9, <1>10 DEF UpdaterStep

\* Sessions and addresses as the proofs of the accounts need them.
Sessions(q) == \A s \in Slots : q[s].bytes \in Nat

LEMMA SessionsTyped ==
  ASSUME TypeOK
  PROVE  Sessions(slot)
BY DEF TypeOK, Sessions, SlotState

\* What an evaluation stores is the old cycle, or one without traffic.
LEMMA WrittenUsed ==
  ASSUME NEW u, NEW row
  PROVE  /\ Ensured(u, row) = cycle[u] \/ Ensured(u, row).used = 0
         /\ Written(u, row) = cycle[u] \/ Written(u, row).used = 0
BY DEF Ensured, Written

\* No session is worth more than before.
Fewer == \A v \in Users : OpenBytes(v)' <= OpenBytes(v) /\ OpenBytes(v)' \in Nat /\ OpenBytes(v) \in Nat

\* Storing such a cycle settles the account, when sessions do not grow meanwhile.
LEMMA StoreAccount ==
  ASSUME TypeOK, AccountInv, Fewer, planOf' = planOf, NEW u \in Users, NEW c,
         Store(u, c), c = cycle[u] \/ c.used = 0
  PROVE  AccountInv'
<1>1. cycle \in [Users -> Cycle]
  BY DEF TypeOK
<1>2. \A v \in Users \ {u} : cycle'[v] = cycle[v]
  BY <1>1 DEF Store
<1>3. cycle'[u] = c
  BY <1>1 DEF Store
<1>4. \A v \in Users : cycle[v].used \in Nat
  BY <1>1 DEF Cycle
<1>5. CASE c = cycle[u]
  <2>1. owed' = owed
    BY <1>5 DEF Store
  <2>2. \A v \in Users : cycle'[v] = cycle[v]
    BY <1>2, <1>3, <1>5
  <2>3. ASSUME NEW v \in Users
        PROVE  owed'[v] \in Nat /\ (planOf'[v] # None => cycle'[v].used + OpenBytes(v)' <= owed'[v])
    BY <1>4, <2>1, <2>2 DEF AccountInv, Fewer
  <2> QED
    BY <2>1, <2>3 DEF AccountInv
<1>6. CASE c # cycle[u]
  <2>1. c.used = 0 /\ owed' = [owed EXCEPT ![u] = OpenBytes(u)]
    BY <1>6 DEF Store
  <2>2. ASSUME NEW v \in Users, v # u
        PROVE  owed'[v] \in Nat /\ (planOf'[v] # None => cycle'[v].used + OpenBytes(v)' <= owed'[v])
    <3>1. owed'[v] = owed[v]
      BY <2>1, <2>2
    <3> QED
      BY <1>2, <1>4, <2>2, <3>1 DEF AccountInv, Fewer
  <2>3. owed'[u] \in Nat /\ (planOf'[u] # None => cycle'[u].used + OpenBytes(u)' <= owed'[u])
    <3>1. owed'[u] = OpenBytes(u)
      BY <2>1 DEF AccountInv
    <3> QED
      BY <1>3, <2>1, <3>1 DEF Fewer
  <2>4. DOMAIN owed' = Users
    BY <2>1 DEF AccountInv
  <2> QED
    BY <2>2, <2>3, <2>4 DEF AccountInv
<1> QED
  BY <1>5, <1>6

\* Sessions that a step leaves alone.
LEMMA SameFewer ==
  ASSUME TypeOK, slot' = slot
  PROVE  Fewer
<1>1. \A v : OpenBytes(v)' = OpenBytes(v)
  BY DEF OpenBytes
<1> QED
  BY <1>1, SessionsTyped, OpenBytesTotal DEF Fewer, Sessions

\* One session changes, and is worth no more than before.
LEMMA OneFewer ==
  ASSUME TypeOK, NEW s \in Slots, NEW x, slot' = [slot EXCEPT ![s] = x], x.bytes \in Nat,
         \/ x.bytes = 0
         \/ x.at = "forget"
         \/ x.user = slot[s].user /\ x.bytes <= slot[s].bytes /\ slot[s].at # "forget"
  PROVE  Fewer
<1> SUFFICES ASSUME NEW v \in Users
             PROVE  OpenBytes(v)' <= OpenBytes(v) /\ OpenBytes(v)' \in Nat /\ OpenBytes(v) \in Nat
  BY DEF Fewer
<1>1. PICK q : q = slot
  OBVIOUS
<1>2. PICK r : r = slot'
  OBVIOUS
<1>3. /\ \A i \in Slots : q[i].bytes \in Nat
      /\ \A i \in Slots : r[i] = IF i = s THEN x ELSE q[i]
  BY <1>1, <1>2, SessionsTyped DEF TypeOK, Sessions
<1>4. \A i \in Slots : r[i].bytes \in Nat
  BY <1>3
<1>5. \A i \in OpenAt(r, v) : r[i].bytes <= IF i \in OpenAt(q, v) THEN q[i].bytes ELSE 0
  BY <1>1, <1>3, <1>4 DEF OpenAt
<1>6. Total(r, v) <= Total(q, v) /\ Total(r, v) \in Nat /\ Total(q, v) \in Nat
  BY <1>3, <1>4, <1>5, TotalShrinks, TotalIsSum
<1>7. OpenBytes(v) = Total(q, v)
  BY <1>1, <1>3, OpenBytesTotal
<1>8. OpenBytes(v)' = Total(r, v)
  BY <1>2, <1>4, OpenBytesNext
<1> QED
  BY <1>6, <1>7, <1>8

LEMMA QuietAccount ==
  ASSUME TypeOK, AccountInv, Fewer, cycle' = cycle, owed' = owed, planOf' = planOf
  PROVE  AccountInv'
<1>1. \A v \in Users : cycle[v].used \in Nat
  BY DEF TypeOK, Cycle
<1>2. ASSUME NEW v \in Users
      PROVE  owed'[v] \in Nat /\ (planOf'[v] # None => cycle'[v].used + OpenBytes(v)' <= owed'[v])
  BY <1>1 DEF AccountInv, Fewer
<1> QED
  BY <1>2 DEF AccountInv

\* What the end of a session adds to the cycle is no longer open.
LEMMA OfflineAccount ==
  ASSUME TypeOK, AccountInv, NEW s \in Slots, OfflineAdd(s)
  PROVE  AccountInv'
<1>1. PICK u : u = slot[s].user
  OBVIOUS
<1>2. PICK n : n = slot[s].bytes
  OBVIOUS
<1>3. /\ slot[s].at = "offline" /\ slot' = [slot EXCEPT ![s].at = "forget"]
      /\ owed' = owed /\ planOf' = planOf
  BY DEF OfflineAdd, admin
<1>4. u \in Users /\ n \in Nat /\ slot[s] \in SlotState
  BY <1>1, <1>2, <1>3 DEF TypeOK, SlotState
<1>5. Fewer
  <2>1. PICK x : x = [slot[s] EXCEPT !.at = "forget"]
    OBVIOUS
  <2>2. x.at = "forget" /\ x.bytes \in Nat /\ slot' = [slot EXCEPT ![s] = x]
    BY <1>3, <1>4, <2>1 DEF SlotState
  <2> QED
    BY <2>2, OneFewer
<1>6. CASE planOf[u] = None
  <2>1. cycle' = cycle
    BY <1>1, <1>6 DEF OfflineAdd
  <2> QED
    BY <1>3, <1>5, <2>1, QuietAccount
<1>7. CASE planOf[u] # None
  <2>1. /\ cycle'[u].used = cycle[u].used + n
        /\ \A v \in Users \ {u} : cycle'[v] = cycle[v]
    BY <1>1, <1>2, <1>4, <1>7 DEF OfflineAdd, TypeOK
  <2>2. OpenBytes(u)' + n <= OpenBytes(u)
    <3>1. PICK q : q = slot
      OBVIOUS
    <3>2. PICK r : r = slot'
      OBVIOUS
    <3>3. \A i \in Slots : q[i].bytes \in Nat /\ q[i] \in SlotState
      BY <3>1, SessionsTyped DEF TypeOK, Sessions
    <3>4. /\ \A i \in Slots \ {s} : r[i] = q[i]
          /\ r[s].at = "forget" /\ r[s].bytes = n
      BY <1>2, <1>3, <1>4, <3>1, <3>2 DEF TypeOK, SlotState
    <3>5. \A i \in Slots : r[i].bytes \in Nat
      BY <1>4, <3>3, <3>4
    <3>6. s \in OpenAt(q, u) /\ s \notin OpenAt(r, u)
      BY <1>1, <1>3, <3>1, <3>4 DEF OpenAt
    <3>7. \A i \in OpenAt(r, u) \ {s} : i \in OpenAt(q, u) /\ r[i].bytes <= q[i].bytes
      BY <3>3, <3>4 DEF OpenAt
    <3>8. Total(r, u) + q[s].bytes <= Total(q, u) + 0
      BY <3>3, <3>5, <3>6, <3>7, TotalMoves
    <3>9. OpenBytes(u) = Total(q, u) /\ OpenBytes(u) \in Nat
      BY <3>1, <3>3, OpenBytesTotal
    <3>10. OpenBytes(u)' = Total(r, u)
      BY <3>2, <3>5, OpenBytesNext
    <3> QED
      BY <1>2, <3>1, <3>8, <3>9, <3>10
  <2>3. \A v \in Users : cycle[v].used \in Nat
    BY DEF TypeOK, Cycle
  <2>4. ASSUME NEW v \in Users
        PROVE  owed'[v] \in Nat /\ (planOf'[v] # None => cycle'[v].used + OpenBytes(v)' <= owed'[v])
    <3>1. CASE v = u
      BY <1>3, <1>4, <1>5, <2>1, <2>2, <2>3, <3>1 DEF AccountInv, Fewer
    <3>2. CASE v # u
      BY <1>3, <1>5, <2>1, <2>3, <3>2 DEF AccountInv, Fewer
    <3> QED
      BY <3>1, <3>2
  <2> QED
    BY <1>3, <2>4 DEF AccountInv
<1> QED
  BY <1>6, <1>7

\* A byte that moves is owed.
LEMMA TransferAccount ==
  ASSUME TypeOK, AccountInv, NEW s \in Slots, Transfer(s)
  PROVE  AccountInv'
<1>1. PICK u : u = slot[s].user
  OBVIOUS
<1>2. PICK n : n = slot[s].bytes
  OBVIOUS
<1>3. /\ slot[s].at = "up" /\ slot' = [slot EXCEPT ![s].bytes = @ + 1]
      /\ owed' = [owed EXCEPT ![u] = @ + 1] /\ planOf' = planOf /\ cycle' = cycle
  BY <1>1 DEF Transfer, admin
<1>4. u \in Users /\ n \in Nat /\ slot[s] \in SlotState
  BY <1>1, <1>2, <1>3 DEF TypeOK, SlotState
<1>5. PICK q : q = slot
  OBVIOUS
<1>6. PICK r : r = slot'
  OBVIOUS
<1>7. \A i \in Slots : q[i].bytes \in Nat
  BY <1>5, SessionsTyped DEF Sessions
<1>8. /\ \A i \in Slots \ {s} : r[i] = q[i]
      /\ r[s].at = "up" /\ r[s].user = u /\ r[s].bytes = n + 1
      /\ q[s].at = "up" /\ q[s].user = u /\ q[s].bytes = n
  BY <1>1, <1>2, <1>3, <1>4, <1>5, <1>6 DEF TypeOK, SlotState
<1>9. \A i \in Slots : r[i].bytes \in Nat
  BY <1>4, <1>7, <1>8
<1>10. \A v \in Users : /\ OpenBytes(v) = Total(q, v) /\ OpenBytes(v) \in Nat
                        /\ OpenBytes(v)' = Total(r, v) /\ Total(r, v) \in Nat
  <2> SUFFICES ASSUME NEW v \in Users
               PROVE  /\ OpenBytes(v) = Total(q, v) /\ OpenBytes(v) \in Nat
                      /\ OpenBytes(v)' = Total(r, v) /\ Total(r, v) \in Nat
    OBVIOUS
  <2>1. OpenBytes(v) = Total(q, v) /\ OpenBytes(v) \in Nat
    BY <1>5, <1>7, OpenBytesTotal
  <2>2. OpenBytes(v)' = Total(r, v)
    BY <1>6, <1>9, OpenBytesNext
  <2>3. Total(r, v) \in Nat
    BY <1>9, TotalIsSum
  <2> QED
    BY <2>1, <2>2, <2>3
<1>11. Total(r, u) <= Total(q, u) + 1
  <2>1. s \in OpenAt(q, u) /\ s \in OpenAt(r, u)
    BY <1>8 DEF OpenAt
  <2>2. \A i \in OpenAt(r, u) \ {s} : i \in OpenAt(q, u) /\ r[i].bytes <= q[i].bytes
    BY <1>7, <1>8 DEF OpenAt
  <2>3. Total(r, u) + q[s].bytes <= Total(q, u) + r[s].bytes
    BY <1>7, <1>9, <2>1, <2>2, TotalMoves
  <2> QED
    BY <1>4, <1>8, <1>10, <2>3
<1>12. ASSUME NEW v \in Users, v # u PROVE Total(r, v) <= Total(q, v)
  <2>1. \A i \in OpenAt(r, v) : r[i].bytes <= IF i \in OpenAt(q, v) THEN q[i].bytes ELSE 0
    BY <1>7, <1>8, <1>12 DEF OpenAt
  <2> QED
    BY <1>7, <1>9, <2>1, TotalShrinks
<1>13. \A v \in Users : cycle[v].used \in Nat
  BY DEF TypeOK, Cycle
<1>14. ASSUME NEW v \in Users
       PROVE  owed'[v] \in Nat /\ (planOf'[v] # None => cycle'[v].used + OpenBytes(v)' <= owed'[v])
  <2>1. owed[v] \in Nat /\ (planOf[v] # None => cycle[v].used + OpenBytes(v) <= owed[v])
    BY DEF AccountInv
  <2>2. owed'[v] = IF v = u THEN owed[v] + 1 ELSE owed[v]
    BY <1>3 DEF AccountInv
  <2>3. OpenBytes(v)' <= IF v = u THEN OpenBytes(v) + 1 ELSE OpenBytes(v)
    BY <1>10, <1>11, <1>12
  <2>4. OpenBytes(v) \in Nat /\ OpenBytes(v)' \in Nat
    BY <1>10
  <2> QED
    BY <1>3, <1>13, <2>1, <2>2, <2>3, <2>4
<1>15. DOMAIN owed' = Users
  BY <1>3 DEF AccountInv
<1> QED
  BY <1>14, <1>15 DEF AccountInv

LEMMA ScriptAccount ==
  ASSUME TypeOK, AccountInv, NEW s \in Slots, ScriptStep(s)
  PROVE  AccountInv'
<1>0. slot \in [Slots -> SlotState] /\ slot[s] \in SlotState
  BY DEF TypeOK
<1>1. PICK x : x = slot'[s]
  OBVIOUS
<1>2. planOf' = planOf
  BY DEF ScriptStep, Decide, OnlineRead, OnlineCreate, LimitRead, LimitAnswer, Shape,
         OfflineAdd, OfflineForget, Unshape, admin
<1>3. slot' = [slot EXCEPT ![s] = x]
  BY <1>0, <1>1 DEF ScriptStep, Decide, OnlineRead, OnlineCreate, LimitRead, LimitAnswer, Shape,
         OfflineAdd, OfflineForget, Unshape
<1>4. CASE Decide(s)
  <2>1. Store(slot[s].user, Written(slot[s].user, slot[s].row)) /\ slot[s].user \in Users
    BY <1>4 DEF Decide, TypeOK
  <2>2. x.bytes \in Nat /\ (x.bytes = 0 \/ (x.user = slot[s].user /\ x.bytes <= slot[s].bytes /\ slot[s].at # "forget"))
    BY <1>0, <1>1, <1>4 DEF Decide, SlotState, Free
  <2> QED
    BY <1>2, <1>3, <2>1, <2>2, OneFewer, StoreAccount, WrittenUsed
<1>5. CASE OnlineCreate(s)
  <2>1. Store(slot[s].user, Written(slot[s].user, slot[s].row)) /\ slot[s].user \in Users
    BY <1>5 DEF OnlineCreate, TypeOK
  <2>2. x.bytes \in Nat /\ x.user = slot[s].user /\ x.bytes <= slot[s].bytes /\ slot[s].at # "forget"
    BY <1>0, <1>1, <1>5 DEF OnlineCreate, SlotState
  <2> QED
    BY <1>2, <1>3, <2>1, <2>2, OneFewer, StoreAccount, WrittenUsed
<1>6. CASE LimitAnswer(s)
  <2>1. Store(slot[s].user, Written(slot[s].user, slot[s].row)) /\ slot[s].user \in Users
    BY <1>6 DEF LimitAnswer, TypeOK
  <2>2. x.bytes \in Nat /\ x.user = slot[s].user /\ x.bytes <= slot[s].bytes /\ slot[s].at # "forget"
    BY <1>0, <1>1, <1>6 DEF LimitAnswer, SlotState
  <2> QED
    BY <1>2, <1>3, <2>1, <2>2, OneFewer, StoreAccount, WrittenUsed
<1>7. CASE OnlineRead(s) \/ LimitRead(s) \/ Shape(s) \/ OfflineForget(s) \/ Unshape(s)
  <2>1. cycle' = cycle /\ owed' = owed
    BY <1>7 DEF OnlineRead, LimitRead, Shape, OfflineForget, Unshape
  <2>2. x.bytes \in Nat /\ (x.bytes = 0 \/ (x.user = slot[s].user /\ x.bytes <= slot[s].bytes /\ slot[s].at # "forget"))
    BY <1>0, <1>1, <1>7 DEF OnlineRead, LimitRead, Shape, OfflineForget, Unshape, SlotState, Free
  <2> QED
    BY <1>2, <1>3, <2>1, <2>2, OneFewer, QuietAccount
<1> QED
  BY <1>4, <1>5, <1>6, <1>7, OfflineAccount DEF ScriptStep

\* A session that is cut keeps its bytes.
LEMMA EndedFewer ==
  ASSUME TypeOK, NEW s \in Slots, slot[s].at = "up", slot' = Ended(s)
  PROVE  Fewer
<1>1. PICK x : x = [slot[s] EXCEPT !.at = "offline"]
  OBVIOUS
<1>2. /\ slot' = [slot EXCEPT ![s] = x] /\ x.bytes = slot[s].bytes /\ x.user = slot[s].user
      /\ x.bytes \in Nat /\ x.bytes <= slot[s].bytes /\ slot[s].at # "forget"
  BY <1>1 DEF Ended, TypeOK, SlotState
<1> QED
  BY <1>2, OneFewer

LEMMA ClientAccount ==
  ASSUME TypeOK, AccountInv, NEW s \in Slots, ClientStep(s)
  PROVE  AccountInv'
<1>1. ASSUME NEW u \in Users, Authenticate(s, u) PROVE AccountInv'
  <2>1. PICK x : x = [Free EXCEPT !.at = "decide", !.user = u, !.row = Row(u)]
    OBVIOUS
  <2>2. x.bytes = 0 /\ x.bytes \in Nat /\ slot' = [slot EXCEPT ![s] = x]
    BY <1>1, <2>1 DEF Authenticate, Free
  <2>3. Fewer
    BY <2>2, OneFewer
  <2>4. cycle' = cycle /\ owed' = owed /\ planOf' = planOf
    BY <1>1 DEF Authenticate, admin
  <2> QED
    BY <2>3, <2>4, QuietAccount
<1>2. ASSUME Disconnect(s) PROVE AccountInv'
  BY <1>2, EndedFewer, QuietAccount DEF Disconnect, admin
<1> QED
  BY <1>1, <1>2, TransferAccount DEF ClientStep

LEMMA UpdaterAccount ==
  ASSUME TypeOK, AccountInv, UpdaterStep
  PROVE  AccountInv'
<1>1. CASE UpdaterStart \/ UpdaterReadStatus \/ UpdaterSample \/ (\E s \in Slots : UpdaterRead(s))
           \/ UpdaterApply \/ UpdaterRecord
  <2>1. slot' = slot /\ cycle' = cycle /\ owed' = owed /\ planOf' = planOf
    BY <1>1 DEF UpdaterStart, UpdaterReadStatus, UpdaterSample, UpdaterRead, UpdaterApply,
                UpdaterRecord, admin
  <2> QED
    BY <2>1, SameFewer, QuietAccount
<1>2. ASSUME NEW u \in Users, UpdaterExpire(u) PROVE AccountInv'
  <2>1. slot' = slot /\ planOf' = planOf /\ Store(u, Ensured(u, updater.roster[u]))
    BY <1>2 DEF UpdaterExpire, admin
  <2> QED
    BY <2>1, SameFewer, StoreAccount, WrittenUsed
<1>3. CASE UpdaterAllow \/ UpdaterKick
  <2>1. PICK u : u = updater.list[updater.work].user
    OBVIOUS
  <2>2. u \in Users
    BY <1>3, <2>1 DEF UpdaterAllow, UpdaterKick, TypeOK, UpdaterState, RecordRow
  <2>3. planOf' = planOf /\ Store(u, Written(u, updater.row))
    BY <1>3, <2>1 DEF UpdaterAllow, UpdaterKick, admin
  <2>4. slot' = slot \/ \E v \in Slots : slot[v].at = "up" /\ slot' = Ended(v)
    BY <1>3 DEF UpdaterAllow, UpdaterKick, Targets
  <2>5. Fewer
    BY <2>4, SameFewer, EndedFewer
  <2> QED
    BY <2>2, <2>3, <2>5, StoreAccount, WrittenUsed
<1> QED
  BY <1>1, <1>2, <1>3 DEF UpdaterStep

\* A user who gets, leaves or loses a plan starts with what is open.
LEMMA AdminAccount ==
  ASSUME TypeOK, AccountInv, AdminStep
  PROVE  AccountInv'
<1>0. slot' = slot
  BY DEF AdminStep, CreatePlan, UpdatePlan, DeletePlan, AddUser, RemoveUser, ResetUser, ChangePolicy
<1>1. Fewer /\ \A v \in Users : OpenBytes(v)' = OpenBytes(v)
  BY <1>0, SameFewer DEF OpenBytes
<1>2. \A v \in Users : cycle[v].used \in Nat
  BY DEF TypeOK, Cycle
<1>3. DOMAIN cycle = Users /\ DOMAIN planOf = Users /\ DOMAIN owed = Users
  BY DEF TypeOK, AccountInv
<1>4. ASSUME NEW p, NEW t, CreatePlan(p, t) \/ UpdatePlan(p, t) PROVE AccountInv'
  BY <1>1, <1>4, QuietAccount DEF CreatePlan, UpdatePlan
<1>5. ASSUME NEW u, NEW l, ChangePolicy(u, l) PROVE AccountInv'
  BY <1>1, <1>5, QuietAccount DEF ChangePolicy
<1>6. ASSUME NEW p, DeletePlan(p) PROVE AccountInv'
  <2>1. /\ planOf' = [v \in Users |-> IF planOf[v] = p THEN None ELSE planOf[v]]
        /\ cycle' = [v \in Users |-> IF planOf[v] = p THEN NoCycle ELSE cycle[v]]
        /\ owed' = [v \in Users |-> IF planOf[v] = p THEN OpenBytes(v) ELSE owed[v]]
    BY <1>6 DEF DeletePlan
  <2>2. ASSUME NEW v \in Users
        PROVE  owed'[v] \in Nat /\ (planOf'[v] # None => cycle'[v].used + OpenBytes(v)' <= owed'[v])
    BY <1>1, <1>2, <2>1 DEF AccountInv, Fewer
  <2> QED
    BY <2>1, <2>2 DEF AccountInv
<1>7. ASSUME NEW p, NEW u \in Users, AddUser(p, u) PROVE AccountInv'
  <2>1. /\ planOf' = [planOf EXCEPT ![u] = p]
        /\ cycle' = [cycle EXCEPT ![u] = [start |-> now, used |-> 0]]
        /\ owed' = [owed EXCEPT ![u] = OpenBytes(u)]
    BY <1>7 DEF AddUser
  <2>2. ASSUME NEW v \in Users
        PROVE  owed'[v] \in Nat /\ (planOf'[v] # None => cycle'[v].used + OpenBytes(v)' <= owed'[v])
    BY <1>1, <1>2, <1>3, <2>1 DEF AccountInv, Fewer
  <2> QED
    BY <1>3, <2>1, <2>2 DEF AccountInv
<1>8. ASSUME NEW p, NEW u \in Users, RemoveUser(p, u) PROVE AccountInv'
  <2>1. /\ planOf' = [planOf EXCEPT ![u] = IF @ = p THEN None ELSE @]
        /\ cycle' = [cycle EXCEPT ![u] = IF memory \/ planOf[u] = p THEN NoCycle ELSE @]
        /\ owed' = [owed EXCEPT ![u] = IF memory \/ planOf[u] = p THEN OpenBytes(u) ELSE @]
    BY <1>8 DEF RemoveUser
  <2>2. NoCycle.used = 0
    BY DEF NoCycle
  <2>3. ASSUME NEW v \in Users
        PROVE  owed'[v] \in Nat /\ (planOf'[v] # None => cycle'[v].used + OpenBytes(v)' <= owed'[v])
    <3>1. owed[v] \in Nat /\ (planOf[v] # None => cycle[v].used + OpenBytes(v) <= owed[v])
      BY DEF AccountInv
    <3>2. CASE v = u /\ (memory \/ planOf[u] = p)
      BY <1>1, <1>3, <2>1, <2>2, <3>2 DEF Fewer
    <3>3. CASE ~(v = u /\ (memory \/ planOf[u] = p))
      BY <1>1, <1>2, <1>3, <2>1, <3>1, <3>3 DEF Fewer
    <3> QED
      BY <3>2, <3>3
  <2> QED
    BY <1>3, <2>1, <2>3 DEF AccountInv
<1>9. ASSUME NEW u \in Users, ResetUser(u) PROVE AccountInv'
  <2>1. PICK c : c = [start |-> now, used |-> 0]
    OBVIOUS
  <2>2. c.used = 0 /\ Store(u, c) /\ planOf' = planOf
    BY <1>9, <2>1 DEF ResetUser
  <2> QED
    BY <1>1, <2>2, StoreAccount
<1> QED
  BY <1>4, <1>5, <1>6, <1>7, <1>8, <1>9 DEF AdminStep

LEMMA NextCharges ==
  ASSUME Begun, KernelInv, AddressesInv, AccountInv, [Next]_vars
  PROVE  AddressesInv' /\ AccountInv'
<1>1. CASE AdminStep \/ Tick \/ UNCHANGED vars
  <2>1. slot' = slot /\ record' = record /\ astray' = astray /\ updater' = updater
    BY <1>1 DEF AdminStep, CreatePlan, UpdatePlan, DeletePlan, AddUser, RemoveUser, ResetUser,
                ChangePolicy, Tick, vars
  <2>2. AddressesInv'
    BY <2>1, AddressFrame DEF AddressesInv
  <2>3. Tick \/ UNCHANGED vars => cycle' = cycle /\ owed' = owed /\ planOf' = planOf
    BY DEF Tick, vars, admin
  <2>4. AccountInv'
    BY <1>1, <2>1, <2>3, AdminAccount, SameFewer, QuietAccount DEF Begun
  <2> QED
    BY <2>2, <2>4
<1>2. CASE \E s \in Slots : ScriptStep(s) \/ ClientStep(s)
  BY <1>2, ScriptAddress, ClientAddress, ScriptAccount, ClientAccount DEF Begun
<1>3. CASE UpdaterStep
  BY <1>3, UpdaterAddress, UpdaterAccount DEF Begun
<1> QED
  BY <1>1, <1>2, <1>3 DEF Next

LEMMA InitCharges == Init => AddressesInv /\ AccountInv
<1> SUFFICES ASSUME Init PROVE AddressesInv /\ AccountInv
  OBVIOUS
<1>1. AddressesInv
  BY DEF Init, AddressesInv, AddressInv, Sleeping
<1>2. \A u \in Users : OpenBytes(u) = 0
  <2> SUFFICES ASSUME NEW u \in Users PROVE OpenBytes(u) = 0
    OBVIOUS
  <2>1. {s \in Slots : slot[s].user = u /\ slot[s].at # "forget"} = {}
    BY RateAssumption DEF Init, Free
  <2>2. SumFunctionOnSet([s \in {} |-> slot[s].bytes], {}) = 0
    BY SumRecursion, FS_EmptySet
  <2> QED
    BY <2>1, <2>2 DEF OpenBytes, SumFunction
<1>3. \A u \in Users : owed[u] = 0 /\ cycle[u].used = 0
  BY DEF Init, NoCycle
<1>4. DOMAIN owed = Users
  BY DEF Init
<1>5. AccountInv
  BY <1>2, <1>3, <1>4 DEF AccountInv
<1> QED
  BY <1>1, <1>5

\* Records count what sessions have moved, and cycles and open sessions together no
\* more than is owed.
THEOREM ChargesInvariant == Spec => [](AddressesInv /\ AccountInv)
<1>1. Init => Begun /\ KernelInv /\ AddressesInv /\ AccountInv
  BY InitBegun, InitInLine, InitCharges
<1>2. Begun /\ KernelInv /\ AddressesInv /\ AccountInv /\ [Next]_vars
        => Begun' /\ KernelInv' /\ AddressesInv' /\ AccountInv'
  BY NextBegun, NextInLine, NextCharges
<1> QED
  BY <1>1, <1>2, PTL DEF Spec

\* No byte is charged twice, by the record of a session and by what its end added
\* to the cycle.
THEOREM BytesAreChargedOnce == Spec => []ChargedOnce
<1>1. TypeOK /\ AddressesInv /\ AccountInv => ChargedOnce
  <2> SUFFICES ASSUME TypeOK, AddressesInv, AccountInv, NEW u \in Users, planOf[u] # None
               PROVE  Charged(u) <= owed[u]
    BY DEF ChargedOnce
  <2> DEFINE A == {s \in RecordsOf(u) : slot[s].at # "forget" /\ s \notin astray}
             f == [s \in A |-> record[s].bytes]
             B == OpenAt(slot, u)
             g == [s \in Slots |-> slot[s].bytes]
  <2>1. A \subseteq Slots /\ B \subseteq Slots /\ IsFiniteSet(Slots) /\ IsFiniteSet(A)
    BY FS_Subset, RateAssumption DEF RecordsOf, OpenAt
  <2>2. \A s \in A : s \in B /\ f[s] \in Nat /\ f[s] <= g[s]
    BY DEF RecordsOf, OpenAt, AddressesInv, AddressInv, TypeOK, RecordRow
  <2>3. \A s \in Slots : g[s] \in Nat
    BY SessionsTyped DEF Sessions
  <2>4. RecordBytes(A) = SumFunctionOnSet(f, A)
    BY DEF RecordBytes, SumFunction
  <2>5. OpenBytes(u) = SumFunctionOnSet(g, B)
    BY SessionsTyped, OpenBytesTotal DEF Sessions, Total
  <2>6. Charged(u) = cycle[u].used + RecordBytes(A)
    BY DEF Charged
  <2> HIDE DEF A, f, B, g
  <2>7. SumFunctionOnSet(f, A) <= SumFunctionOnSet(g, B)
    BY <2>1, <2>2, <2>3, SumCompare
  <2>8. SumFunctionOnSet(f, A) \in Nat /\ SumFunctionOnSet(g, B) \in Nat
    BY <2>1, <2>2, <2>3, SumType
  <2>9. cycle[u].used \in Nat /\ owed[u] \in Nat /\ cycle[u].used + OpenBytes(u) <= owed[u]
    BY DEF TypeOK, Cycle, AccountInv
  <2> QED
    BY <2>4, <2>5, <2>6, <2>7, <2>8, <2>9
<1> QED
  BY <1>1, ChargesInvariant, TypeCorrect, PTL
=============================================================================
