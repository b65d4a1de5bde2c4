------------------------- MODULE ResolverBehaviour -------------------------
(***************************************************************************)
(* The injected behaviour of a mock resolver (resolver/settings.py) and    *)
(* what a request gets under it (resolver/app.py).  Durations are data: a  *)
(* request sleeps or does not.                                             *)
(***************************************************************************)
EXTENDS Naturals

\* ResolverBehavior: every field a scenario may set.
Behaviours(periods) ==
    [delay: BOOLEAN, timeout: BOOLEAN, error: BOOLEAN, invalid: BOOLEAN,
     every: periods]

\* ResolverBehavior(): what a reset restores.
Healthy == [delay |-> FALSE, timeout |-> FALSE, error |-> FALSE,
            invalid |-> FALSE, every |-> 0]

\* The request that is given number n fails: the injected status is returned.
Fails(b, n) == b.error \/ (b.every > 0 /\ n % b.every = 0)

\* The synthetic document, good or deliberately bad, as the features the
\* acceptance rules look at.
Document(b) ==
    [context |-> TRUE, id |-> IF b.invalid THEN "other" ELSE "requested",
     methods |-> ~b.invalid]

NoDocument == [context |-> FALSE, id |-> "missing", methods |-> FALSE]

\* The response to a well-formed DID.
ReplyTo(b, n) ==
    IF Fails(b, n) THEN [status |-> "error", document |-> NoDocument]
                   ELSE [status |-> "ok", document |-> Document(b)]

\* The response to a DID that has no method.
Refusal == [status |-> "refused", document |-> NoDocument]

Replies == {Refusal, ReplyTo([Healthy EXCEPT !.error = TRUE], 1)} \cup
           {[status |-> "ok", document |-> Document(b)] : b \in Behaviours({0})}
=============================================================================
