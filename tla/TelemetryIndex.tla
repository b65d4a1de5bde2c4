--------------------------- MODULE TelemetryIndex ---------------------------
(***************************************************************************)
(* The in-memory index of telemetry.py that the mock router fills: the     *)
(* last request records, and the attempts of a request in a bucket.  An    *)
(* attempt is entered when it ends, and buckets are dropped in the order   *)
(* of the first attempts, whether or not the request has ended.  A         *)
(* definition called Fault is a mistake the code does not make, see        *)
(* BudgetWindow.                                                           *)
(***************************************************************************)
EXTENDS Naturals, Sequences

CONSTANT MemoryLimit        \* memory_limit, the maxlen of the deques

ASSUME IndexAssumption == MemoryLimit \in Nat \ {0}

\* deque(maxlen=MemoryLimit).append.
Pushed(s, e) ==
    IF Len(s) < MemoryLimit THEN Append(s, e) ELSE Append(Tail(s), e)

Entries(s) == {s[i] : i \in DOMAIN s}

EmptyIndex == [requests |-> << >>, buckets |-> << >>, order |-> << >>]

BucketOf(index, id) ==
    IF id \in DOMAIN index.buckets THEN index.buckets[id] ELSE << >>

\* The buckets of the ids in live, the one of id having become bucket.
Kept(index, live, id, bucket) ==
    [r \in (DOMAIN index.buckets \cup {id}) \cap live |->
       IF r = id THEN bucket ELSE index.buckets[r]]

\* Fault: every attempt moves on the order of eviction.
RecordEveryAttempt(index, id, attempt) ==
    LET order == Pushed(index.order, id) IN
    [index EXCEPT
       !.order = order,
       !.buckets = Kept(index, Entries(order), id,
                        Append(BucketOf(index, id), attempt))]

\* record_attempt: the first attempt in a bucket enters the request in the
\* order of eviction, and evicts what has left it.
RecordAttempt(index, id, attempt) ==
    LET bucket == BucketOf(index, id)
        order == IF bucket = << >> THEN Pushed(index.order, id) ELSE index.order
        live == IF bucket = << >> THEN Entries(order) ELSE DOMAIN index.buckets
    IN  [index EXCEPT
           !.order = order,
           !.buckets = Kept(index, live, id, Append(bucket, attempt))]

\* record_request.
RecordRequest(index, record) == [index EXCEPT !.requests = Pushed(@, record)]
=============================================================================
