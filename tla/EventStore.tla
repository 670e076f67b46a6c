----------------------------- MODULE EventStore -----------------------------
(***************************************************************************)
(* A list of events, as a sequence from the oldest to the newest: a table  *)
(* of the database, or with max_memory_events > 0 a list in memory that    *)
(* keeps the newest ones.  An event is [server, type, source, time]; its   *)
(* source stands for the address and the text that can be searched.        *)
(***************************************************************************)
EXTENDS Naturals, Sequences, SequencesExt

CONSTANT MaxMemoryEvents   \* max_memory_events; 0 keeps events in the database

ASSUME EventStoreAssumption == MaxMemoryEvents \in Nat

UseMemoryEvents == MaxMemoryEvents > 0

\* Variant for comparison: a full list keeps the oldest.
TrimmedOldest(log) ==
    IF UseMemoryEvents /\ Len(log) > MaxMemoryEvents THEN SubSeq(log, 1, MaxMemoryEvents) ELSE log

\* The newest of a list that has grown over its limit.
Trimmed(log) ==
    IF UseMemoryEvents /\ Len(log) > MaxMemoryEvents
    THEN SubSeq(log, Len(log) - MaxMemoryEvents + 1, Len(log)) ELSE log

CreateEvent(log, event) == Trimmed(Append(log, event))

\* The events of a list at the given places, in their order.
EventsAt(log, places) ==
    LET upTo[n \in 0 .. Len(log)] ==
            IF n = 0 THEN <<>> ELSE IF n \in places THEN Append(upTo[n - 1], log[n]) ELSE upTo[n - 1]
    IN  upTo[Len(log)]

ClearServerEvents(log, server) == EventsAt(log, {n \in DOMAIN log : log[n].server # server})

\* A filter is [server, types, query, start, end]: no types, no query and no
\* times (0) filter nothing.
MatchesAllBut(e, f) ==
    /\ e.server = f.server
    /\ f.types = {} \/ e.type \in f.types
    /\ f.query = "" \/ e.source = f.query

\* In memory a range counts if both ends are given.
MatchServerEvent(e, f) ==
    /\ MatchesAllBut(e, f)
    /\ f.start # 0 /\ f.end # 0 => e.time \in f.start .. f.end

Smaller(a, b) == IF a < b THEN a ELSE b

\* Variant for comparison: pages are numbered from 0.
PageFromZero(matched, page, size) ==
    SubSeq(matched, page * size + 1, Smaller((page + 1) * size, Len(matched)))

\* A page of a list whose first page is 1.
Page(matched, page, size) ==
    SubSeq(matched, (page - 1) * size + 1, Smaller(page * size, Len(matched)))

ListServerEvents(log, f, page, size) ==
    Page(Reverse(EventsAt(log, {n \in DOMAIN log : MatchServerEvent(log[n], f)})), page, size)

\* The condition of a query of the database, which has one for every
\* combination of filters, but none for a range with one end.
MatchesQuery(e, f) ==
    /\ MatchesAllBut(e, f)
    /\ f.start = 0 \/ e.time >= f.start
    /\ f.end = 0 \/ e.time <= f.end

QueryEvents(log, f, page, size) ==
    LET matched == EventsAt(log, {n \in DOMAIN log : MatchesQuery(log[n], f)})
        offset == (page - 1) * size
    IN  IF (f.start = 0) # (f.end = 0) THEN <<>>
        ELSE [k \in 1 .. Smaller(size, IF Len(matched) > offset THEN Len(matched) - offset ELSE 0) |->
                 matched[Len(matched) + 1 - offset - k]]

=============================================================================
