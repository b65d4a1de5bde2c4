------------------------- MODULE ResolutionService -------------------------
(***************************************************************************)
(* What the routing service promises a client, whatever the policy, the    *)
(* execution mode and the schedule of the event loop.  A request contacts  *)
(* providers and hears from them; it never contacts another one once it    *)
(* knows an acceptable result; it succeeds with an acceptable result, and  *)
(* fails only after it heard from everyone it contacted.                   *)
(***************************************************************************)
EXTENDS Naturals

CONSTANTS Clients, Providers, None

VARIABLES
    state,          \* of each client's request
    contacted,      \* providers its requests were sent to
    heard,          \* those whose result the service has seen
    good,           \* those whose result was acceptable
    answer,         \* how the request was answered
    returned        \* the provider named in the answer

vars == <<state, contacted, heard, good, answer, returned>>

Init ==
    /\ state = [c \in Clients |-> "idle"]
    /\ contacted = [c \in Clients |-> {}]
    /\ heard = [c \in Clients |-> {}]
    /\ good = [c \in Clients |-> {}]
    /\ answer = [c \in Clients |-> "none"]
    /\ returned = [c \in Clients |-> None]

Open(c) ==
    /\ state[c] \in {"idle", "closed"}
    /\ state' = [state EXCEPT ![c] = "open"]
    /\ contacted' = [contacted EXCEPT ![c] = {}]
    /\ heard' = [heard EXCEPT ![c] = {}]
    /\ good' = [good EXCEPT ![c] = {}]
    /\ answer' = [answer EXCEPT ![c] = "none"]
    /\ returned' = [returned EXCEPT ![c] = None]

\* More is heard, and more providers are contacted if nothing acceptable is.
Learn(c, more, results, acceptable) ==
    /\ state[c] = "open"
    /\ results \subseteq contacted[c] \ heard[c]
    /\ acceptable \subseteq results
    /\ more # {} => good[c] \cup acceptable = {}
    /\ contacted' = [contacted EXCEPT ![c] = @ \cup more]
    /\ heard' = [heard EXCEPT ![c] = @ \cup results]
    /\ good' = [good EXCEPT ![c] = @ \cup acceptable]

Progress(c) ==
    /\ \E more, results, acceptable \in SUBSET Providers :
         Learn(c, more, results, acceptable)
    /\ UNCHANGED <<state, answer, returned>>

Close(c, kind, winner) ==
    /\ state' = [state EXCEPT ![c] = "closed"]
    /\ answer' = [answer EXCEPT ![c] = kind]
    /\ returned' = [returned EXCEPT ![c] = winner]

Succeed(c) ==
    \E results, acceptable \in SUBSET Providers :
      /\ Learn(c, {}, results, acceptable)
      /\ \E winner \in good[c] \cup acceptable : Close(c, "ok", winner)

\* The last results are in and nobody's was acceptable.
Fail(c) ==
    \E results \in SUBSET Providers :
      /\ Learn(c, {}, results, {})
      /\ good[c] = {}
      /\ contacted[c] # {}
      /\ heard[c] \cup results = contacted[c]
      /\ Close(c, "noAcceptableResult", None)

\* No provider qualifies, or too few do: nobody is contacted.
Refuse(c) ==
    /\ state[c] = "open"
    /\ contacted[c] = {}
    /\ Close(c, "refused", None)
    /\ UNCHANGED <<contacted, heard, good>>

\* The service fails itself; what it had heard is lost.
Crash(c) ==
    /\ state[c] = "open"
    /\ contacted[c] # {}
    /\ good[c] = {}
    /\ heard' = [heard EXCEPT ![c] = {}]
    /\ Close(c, "crashed", None)
    /\ UNCHANGED <<contacted, good>>

Next ==
    \E c \in Clients :
      \/ Open(c) \/ Progress(c) \/ Succeed(c) \/ Fail(c) \/ Refuse(c) \/ Crash(c)

Spec == Init /\ [][Next]_vars
=============================================================================
