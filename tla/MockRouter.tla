----------------------------- MODULE MockRouter -----------------------------
(***************************************************************************)
(* The baseline router over the mock resolvers: router/app.py, its         *)
(* policies, and the telemetry sink.  A handler runs without interruption  *)
(* between two awaits, and it awaits nothing but its resolver calls, so a  *)
(* step goes from one answer to the next call.  A definition called Fault  *)
(* is a mistake the code does not make, see BudgetWindow.                  *)
(***************************************************************************)
EXTENDS TelemetryIndex, Integers, FiniteSets

CONSTANTS
    Clients,        \* connections that can have a request in flight
    Resolvers,      \* the configured resolvers, a sequence
    Target,         \* single_static_target
    Asks,           \* policies that requests ask for
    None,           \* Python's None
    MaxRequests     \* bound on the requests of a run

Known == {"single-static", "round-robin", "sequential-failover"}
Ids == {Resolvers[i] : i \in DOMAIN Resolvers}

\* How dispatch_attempt ends: the document is accepted, or it is not (an HTTP
\* error, a rejected body, a timeout, a connection error), or any other
\* exception leaves it.
Outcomes == {"accepted", "unacceptable", "raised"}

ASSUME MockAssumption ==
    /\ Resolvers \in Seq(Ids) /\ Resolvers # << >>
    /\ \A i, j \in DOMAIN Resolvers : Resolvers[i] = Resolvers[j] => i = j
    /\ Target \in Ids /\ None \notin Ids
    /\ MaxRequests \in Nat /\ IsFiniteSet(Clients)

VARIABLES
    index,          \* the in-memory index of the sink
    journal,        \* attempts.jsonl
    ledger,         \* requests.jsonl
    rotation,       \* _index of the round-robin policy
    turns,          \* history: round-robin plans of each resolver since reset
    issued,         \* requests sent so far; a request's number is its id
    phase,          \* how far the handler of each client is
    ask,            \* the policy asked for
    id,             \* request_id
    order,          \* plan.attempt_order()
    tried,          \* the attempts that have ended
    reply           \* the response

sink == <<index, journal, ledger>>
request == <<id, order, tried>>
vars == <<sink, rotation, turns, issued, phase, ask, request, reply>>

NoReply == [kind |-> "none", returned |-> None]

Init ==
    /\ index = EmptyIndex
    /\ journal = << >> /\ ledger = << >>
    /\ rotation = 0
    /\ turns = [r \in Ids |-> 0]
    /\ issued = 0
    /\ phase = [c \in Clients |-> "idle"]
    /\ ask = [c \in Clients |-> None]
    /\ id = [c \in Clients |-> 0]
    /\ order = [c \in Clients |-> << >>]
    /\ tried = [c \in Clients |-> << >>]
    /\ reply = [c \in Clients |-> NoReply]

\* A request arrives and its handler is scheduled.
Submit(c) ==
    /\ phase[c] \in {"idle", "answered"}
    /\ issued < MaxRequests
    /\ \E a \in Asks : ask' = [ask EXCEPT ![c] = a]
    /\ issued' = issued + 1
    /\ id' = [id EXCEPT ![c] = issued']
    /\ phase' = [phase EXCEPT ![c] = "queued"]
    /\ order' = [order EXCEPT ![c] = << >>]
    /\ tried' = [tried EXCEPT ![c] = << >>]
    /\ reply' = [reply EXCEPT ![c] = NoReply]
    /\ UNCHANGED <<sink, rotation, turns>>

Answer(c, kind, returned) ==
    /\ phase' = [phase EXCEPT ![c] = "answered"]
    /\ reply' = [reply EXCEPT ![c] = [kind |-> kind, returned |-> returned]]

\* unknownPolicy.
Refuse(c) ==
    /\ phase[c] = "queued"
    /\ ask[c] \notin Known
    /\ Answer(c, "refused", None)
    /\ UNCHANGED <<sink, rotation, turns, issued, ask, request>>

\* Fault: the rotation wraps one resolver early.
AdvancedEarly == IF rotation + 2 >= Len(Resolvers) THEN 0 ELSE rotation + 1

\* RoundRobinPolicy.plan: one step per request, whatever becomes of it.
Advanced == (rotation + 1) % Len(Resolvers)

Planned(policy) ==
    CASE policy = "single-static" -> <<Target>>
      [] policy = "round-robin" -> <<Resolvers[rotation + 1]>>
      [] policy = "sequential-failover" -> Resolvers

\* Plan and call the first resolver.
Start(c) ==
    /\ phase[c] = "queued"
    /\ ask[c] \in Known
    /\ order' = [order EXCEPT ![c] = Planned(ask[c])]
    /\ phase' = [phase EXCEPT ![c] = "calling"]
    /\ IF ask[c] = "round-robin"
       THEN /\ rotation' = Advanced
            /\ turns' = [turns EXCEPT ![Resolvers[rotation + 1]] = @ + 1]
       ELSE UNCHANGED <<rotation, turns>>
    /\ UNCHANGED <<sink, issued, ask, id, tried, reply>>

Called(c) == order[c][Len(tried[c]) + 1]

\* Fault: an accepted response does not end the loop.
EndsAtLast(c, outcome) == Len(tried[c]) + 1 = Len(order[c])

Ends(c, outcome) ==
    outcome = "accepted" \/ Len(tried[c]) + 1 = Len(order[c])

\* The resolver called answers or fails: the attempt is recorded, and either
\* the next resolver is called or the request is recorded and answered.
Return(c) ==
    /\ phase[c] = "calling"
    /\ \E outcome \in Outcomes \ {"raised"} :
       LET attempt == [id |-> id[c], number |-> Len(tried[c]),
                       resolver |-> Called(c), outcome |-> outcome]
           recorded == RecordAttempt(index, id[c], attempt)
           success == outcome = "accepted"
           record == [id |-> id[c], count |-> Len(tried[c]) + 1, success |-> success]
       IN
       /\ tried' = [tried EXCEPT ![c] = Append(@, attempt)]
       /\ journal' = Append(journal, attempt)
       /\ IF Ends(c, outcome)
          THEN /\ index' = RecordRequest(recorded, record)
               /\ ledger' = Append(ledger, record)
               /\ IF success
                  THEN Answer(c, "ok", Called(c))
                  ELSE Answer(c, "noAcceptableResult", None)
          ELSE /\ index' = recorded
               /\ UNCHANGED <<ledger, phase, reply>>
    /\ UNCHANGED <<rotation, turns, issued, ask, id, order>>

\* dispatch_attempt raises: the service answers 500, and the attempts that
\* ended before stay in the sink without a record of their request.
Raise(c) ==
    /\ phase[c] = "calling"
    /\ Answer(c, "crashed", None)
    /\ UNCHANGED <<sink, rotation, turns, issued, ask, request>>

\* POST /admin/reset-policies.
Reset ==
    /\ rotation # 0
    /\ rotation' = 0
    /\ turns' = [r \in Ids |-> 0]
    /\ UNCHANGED <<sink, issued, phase, ask, request, reply>>

\* MaxRequests have been served.
Finished ==
    /\ issued = MaxRequests
    /\ \A c \in Clients : phase[c] \in {"idle", "answered"}
    /\ UNCHANGED vars

Next ==
    \/ \E c \in Clients :
         Submit(c) \/ Refuse(c) \/ Start(c) \/ Return(c) \/ Raise(c)
    \/ Reset
    \/ Finished

Spec == Init /\ [][Next]_vars

-----------------------------------------------------------------------------
Attempts ==
    [id : 1..MaxRequests, number : Nat, resolver : Ids,
     outcome : {"accepted", "unacceptable"}]
Records == [id : 1..MaxRequests, count : Nat, success : BOOLEAN]

TypeOK ==
    /\ index.requests \in Seq(Records)
    /\ \A r \in DOMAIN index.buckets :
         r \in 1..MaxRequests /\ index.buckets[r] \in Seq(Attempts)
    /\ journal \in Seq(Attempts) /\ ledger \in Seq(Records)
    /\ rotation \in 0..(Len(Resolvers) - 1)
    /\ turns \in [Ids -> 0..MaxRequests]
    /\ issued \in 0..MaxRequests
    /\ phase \in [Clients -> {"idle", "queued", "calling", "answered"}]
    /\ ask \in [Clients -> Asks \cup {None}]
    /\ id \in [Clients -> 0..MaxRequests]
    /\ order \in [Clients -> Seq(Ids)]
    /\ tried \in [Clients -> Seq(Attempts)]
    /\ reply \in [Clients -> [kind : {"none", "refused", "ok", "noAcceptableResult",
                                      "crashed"},
                              returned : Ids \cup {None}]]

\* The lines of the journal about request r.
Lines(r) == {i \in DOMAIN journal : journal[i].id = r}

\* The place of line i among those of its request.
Place(i) == Cardinality({j \in 1..i : journal[j].id = journal[i].id})

\* Since the last reset the round-robin policy has planned every resolver the
\* same number of times, or once more those the rotation has passed, however
\* the requests interleave and whatever becomes of them.
RotationFair ==
    \A i, j \in DOMAIN Resolvers :
      turns[Resolvers[i]] - turns[Resolvers[j]]
        = (IF i <= rotation THEN 1 ELSE 0) - (IF j <= rotation THEN 1 ELSE 0)

\* The two files join on request_id: a request has at most one record, and
\* its attempts are then all in the journal, numbered in the order of the
\* plan, the last of them and only that accepted when the record says success.
FilesJoin ==
    \A k \in DOMAIN ledger :
      LET record == ledger[k]
          mine == Lines(record.id)
      IN  /\ \A m \in DOMAIN ledger : ledger[m].id = record.id => m = k
          /\ Cardinality(mine) = record.count
          /\ \A i \in mine :
               /\ journal[i].number = Place(i) - 1
               /\ journal[i].outcome = "accepted" <=> record.success /\ Place(i) = record.count

\* The index is bounded and says nothing but what the journal says: the ids
\* in the order of eviction are those of the buckets, each once, and a bucket
\* holds the latest attempts of its request, without a gap.
IndexFollowsJournal ==
    /\ Len(index.order) <= MemoryLimit
    /\ \A k, m \in DOMAIN index.order : index.order[k] = index.order[m] => k = m
    /\ Entries(index.order) = DOMAIN index.buckets
    /\ \A r \in DOMAIN index.buckets :
         LET bucket == index.buckets[r]
             missing == Cardinality(Lines(r)) - Len(bucket)
         IN  /\ bucket # << >> /\ missing >= 0
             /\ \A i \in Lines(r) :
                  Place(i) > missing => bucket[Place(i) - missing] = journal[i]

\* The requests that had an attempt recorded after the first one of r.
Overtaking(r) ==
    {journal[j].id : j \in {j \in DOMAIN journal :
                              \E i \in 1..(j - 1) : journal[i].id = r}} \ {r}

\* A bucket lacks attempts of its request only if as many other requests as
\* the index can hold have recorded attempts since it was first entered.
WholeUnlessOvertaken ==
    \A i \in DOMAIN journal :
      LET r == journal[i].id IN
      Cardinality(Overtaking(r)) < MemoryLimit =>
        r \in DOMAIN index.buckets /\ Len(index.buckets[r]) = Cardinality(Lines(r))

\* Hazard: requests in flight at once share two files and one index.  What the
\* sink holds of a request is what became of it.
SinkAgrees == FilesJoin /\ IndexFollowsJournal /\ WholeUnlessOvertaken

Served == INSTANCE ResolutionService WITH
    Providers <- Ids,
    state <- [c \in Clients |->
                IF phase[c] = "idle" THEN "idle"
                ELSE IF phase[c] = "answered" THEN "closed" ELSE "open"],
    contacted <- [c \in Clients |->
                    {order[c][i] : i \in
                       1..(IF phase[c] = "calling" \/ reply[c].kind = "crashed"
                           THEN Len(tried[c]) + 1 ELSE Len(tried[c]))}],
    heard <- [c \in Clients |->
                IF reply[c].kind = "crashed" THEN {}
                ELSE {tried[c][i].resolver : i \in DOMAIN tried[c]}],
    good <- [c \in Clients |->
               {a.resolver : a \in {b \in Entries(tried[c]) : b.outcome = "accepted"}}],
    answer <- [c \in Clients |-> reply[c].kind],
    returned <- [c \in Clients |-> reply[c].returned]

\* The baseline router keeps the promise of ResolutionService to every client.
KeepsPromise == Served!Spec
=============================================================================
