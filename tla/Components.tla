----------------------------- MODULE Components -----------------------------
(***************************************************************************)
(* The services that share no state with others of this project: processes *)
(* and pure code that meet only over HTTP.  Each is an instance of its     *)
(* module with constants and variables of its own; the baseline router is  *)
(* extended.  What is proved of them is in Components_proofs; MCComponents *)
(* gives TLC values for the constants.                                     *)
(***************************************************************************)
EXTENDS MockRouter

(***************************************************************************)
(* A mock resolver.                                                        *)
(***************************************************************************)
CONSTANTS Settings, Injected, MaxEvents
VARIABLES resolverBehaviour, resolverCounter, resolverLog, resolverRunning,
          resolverReplies

Resolver == INSTANCE MockResolver WITH
    behaviour <- resolverBehaviour, counter <- resolverCounter,
    log <- resolverLog, running <- resolverRunning, replies <- resolverReplies

ASSUME ResolverAssumed == Resolver!ResolverAssumption

(***************************************************************************)
(* The adapters and the acceptance profile.                                *)
(***************************************************************************)
CONSTANTS Scalar, Providers, AdapterOf, Responses
VARIABLES responses, results

Profile == INSTANCE AcceptanceProfile

ASSUME ProfileAssumed == Profile!Adapted

(***************************************************************************)
(* The index of the real routing service.                                  *)
(***************************************************************************)
CONSTANTS Requests, MaxAttempts
VARIABLES count, entered, handlerPhase, routingIndex, routingJournal

Routing == INSTANCE RoutingIndex WITH
    phase <- handlerPhase, index <- routingIndex, journal <- routingJournal

-----------------------------------------------------------------------------
\* The properties of the components, as their modules state them.

\* resolver/app.py: every request is answered once, as its arrival determined.
AnsweredAsInjected == Resolver!AnsweredAsInjected

\* profiles.py: every verdict can be attributed to the checks.
RejectionIsAttributed == Profile!RejectionIsAttributed

\* adapters.py, profiles.py, acceptance.py: verdicts on the same answer agree.
VerdictsAgree == Profile!VerdictsAgree

\* telemetry.py: a retained routing request has all of its attempts.
RetainedIsWhole == Routing!RetainedIsWhole
=============================================================================
