---------------------------- MODULE RoutingIndex ----------------------------
(***************************************************************************)
(* How the real routing service enters its requests in the index of        *)
(* telemetry.py: when the executor is done, the handler records the        *)
(* attempts one by one and then the request, which drops the buckets of    *)
(* all requests that are not retained, those still being entered too.      *)
(* Only the event loop keeps handlers apart here: the lock of the sink is  *)
(* taken for each record.  A definition called Fault is a mistake the code *)
(* does not make, see BudgetWindow.                                        *)
(***************************************************************************)
EXTENDS TelemetryIndex, FiniteSets

CONSTANTS
    Requests,       \* the requests of a run, as numbers
    MaxAttempts     \* bound on the attempts of a request

VARIABLES
    count,          \* attempts of a request, 0 while it is executed
    entered,        \* of these, recorded so far
    phase,          \* executing, ready, recording, answered, or failed
    index,          \* _routing_requests and _routing_attempts
    journal         \* real_routing_attempts.jsonl

vars == <<count, entered, phase, index, journal>>

Init ==
    /\ count = [r \in Requests |-> 0]
    /\ entered = [r \in Requests |-> 0]
    /\ phase = [r \in Requests |-> "executing"]
    /\ index = [requests |-> << >>, buckets |-> << >>]
    /\ journal = << >>

Recording == {r \in Requests : phase[r] = "recording"}
Retained == Entries(index.requests)

\* The executor returns the attempts of r.
Execute(r) ==
    /\ phase[r] = "executing"
    /\ \E n \in 1..MaxAttempts : count' = [count EXCEPT ![r] = n]
    /\ phase' = [phase EXCEPT ![r] = "ready"]
    /\ UNCHANGED <<entered, index, journal>>

\* Fault: the handler can be left between two records.
ResumeFault(r) ==
    /\ phase[r] = "ready"
    /\ phase' = [phase EXCEPT ![r] = "recording"]
    /\ UNCHANGED <<count, entered, index, journal>>

\* The handler of r runs on, and awaits nothing before it is done.
Resume(r) ==
    /\ phase[r] = "ready"
    /\ Recording = {}
    /\ phase' = [phase EXCEPT ![r] = "recording"]
    /\ UNCHANGED <<count, entered, index, journal>>

\* record_routing_attempt.
EnterAttempt(r) ==
    /\ phase[r] = "recording" /\ entered[r] < count[r]
    /\ entered' = [entered EXCEPT ![r] = @ + 1]
    /\ LET attempt == <<r, entered'[r]>> IN
       /\ journal' = Append(journal, attempt)
       /\ index' = [index EXCEPT !.buckets =
                      Kept(index, DOMAIN @ \cup {r}, r,
                           Append(BucketOf(index, r), attempt))]
    /\ UNCHANGED <<count, phase>>

Live(requests) == Entries(requests)

\* record_routing_request, after which the answer is built.
EnterRequest(r) ==
    /\ phase[r] = "recording" /\ entered[r] = count[r]
    /\ phase' = [phase EXCEPT ![r] = "answered"]
    /\ LET requests == Pushed(index.requests, r) IN
       index' = [requests |-> requests,
                 buckets |-> [s \in DOMAIN index.buckets \cap Live(requests) |->
                                index.buckets[s]]]
    /\ UNCHANGED <<count, entered, journal>>

\* A file cannot be appended to: the handler raises, and what it has recorded
\* stays.
FileFails(r) ==
    /\ phase[r] = "recording"
    /\ phase' = [phase EXCEPT ![r] = "failed"]
    /\ UNCHANGED <<count, entered, index, journal>>

Next ==
    \E r \in Requests :
      Execute(r) \/ Resume(r) \/ EnterAttempt(r) \/ EnterRequest(r) \/ FileFails(r)

Spec == Init /\ [][Next]_vars

\* get_routing_request.
Lookup(r) ==
    [request |-> r \in Retained, attempts |-> BucketOf(index, r)]

-----------------------------------------------------------------------------
Failed == {r \in Requests : phase[r] = "failed"}

\* The attempts of r in the file, and the position of line i among those of
\* its request.
Lines(r) == {i \in DOMAIN journal : journal[i][1] = r}
Place(i) == Cardinality({j \in 1..i : journal[j][1] = journal[i][1]})

\* Hazard: recording a request deletes every bucket without a record, whoever
\* is filling it.  A request that is retained has all of its attempts, as they
\* are in the file; the index holds besides them only what is being entered or
\* was left behind by a handler that failed, and nothing else of those once
\* another request is recorded.
RetainedIsWhole ==
    /\ Len(index.requests) <= MemoryLimit
    /\ \A r \in Requests :
         LET found == Lookup(r) IN
         /\ found.request =>
              /\ phase[r] = "answered"
              /\ Len(found.attempts) = count[r] /\ Cardinality(Lines(r)) = count[r]
              /\ \A i \in Lines(r) : found.attempts[Place(i)] = journal[i]
         /\ found.attempts # << >> => found.request \/ r \in Recording \cup Failed
    /\ journal # << >> /\ Recording = {} /\ Retained # {} =>
         LET last == journal[Len(journal)][1] IN
         phase[last] = "answered" => DOMAIN index.buckets \subseteq Retained
=============================================================================
