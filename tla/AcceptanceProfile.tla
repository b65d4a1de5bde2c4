------------------------- MODULE AcceptanceProfile -------------------------
(***************************************************************************)
(* How an HTTP response becomes an accepted result: the adapters           *)
(* (adapters.py), the profile w3c-basic-v1 (profiles.py), the ruleset      *)
(* structural-v1 of the baseline (acceptance.py), and what the real router *)
(* hands on.  A document is the features these rules look at.  A           *)
(* definition called Fault is a mistake the code does not make, see        *)
(* BudgetWindow.                                                           *)
(***************************************************************************)
EXTENDS Naturals, FiniteSets, Sequences

CONSTANTS
    None,           \* Python's None, and an absent or null JSON member
    Scalar,         \* a JSON value that is not an object
    Providers,      \* providers of a trial
    AdapterOf,      \* their adapters
    Responses       \* the responses a probe can get

Adapters == {"universal-resolver-v1", "did-document-only-v1"}

\* A document; an id is the requested DID, another string, the empty string,
\* or anything that is not a string.
Documents == [id: {"requested", "other", "empty", "not a string"},
              context: BOOLEAN, methods: BOOLEAN]

\* An error member: the words it is recognised by, in type or in title.
Errors == [type: {None, "notfound", "invalidpublickey", "weird"},
           title: {None, "methodnotsupported"}]

\* What an error member is recognised as.
Families == {"methodNotSupported", "notFound", "invalidDid", "other"}

\* A JSON object.  A member is None, a Scalar, or what it should be.  The
\* object may itself be a document, as some drivers return it.
Objects == [metadata: {None, Scalar} \cup [error: {None} \cup Errors],
            document: {None, Scalar} \cup Documents,
            self: {None} \cup Documents]

Bodies == {None, Scalar} \cup Objects

\* transport_ok, or nothing came back.
HttpResponses == [ok: {TRUE}, status: Nat,
                  contentType: {None, "json", "json;charset", "html"}, body: Bodies]
NoResponse == [ok |-> FALSE, status |-> None, contentType |-> None, body |-> None]

\* What the constants are assumed to be: None is nothing a rule can produce.
Adapted ==
    /\ IsFiniteSet(Providers) /\ AdapterOf \in [Providers -> Adapters]
    /\ NoResponse \in Responses /\ Responses \subseteq HttpResponses \cup {NoResponse}
    /\ None \notin BOOLEAN /\ None \notin Families /\ None \notin Responses
    /\ None # "requested"

IsObject(body) == body \notin {None, Scalar}
IsDocument(x) == x \notin {None, Scalar}

\* media_type_of and ACCEPTABLE_MEDIA_TYPES: parameters are stripped.
MediaTypeOf(contentType) ==
    IF contentType = "json;charset" THEN "json" ELSE contentType
Processable == {"json"}

\* extract of the two adapters.
ExtractUniversal(body) ==
    IF IsObject(body) THEN [metadata |-> body.metadata, document |-> body.document]
    ELSE [metadata |-> None, document |-> None]

\* Fault: the metadata that the bare driver does send is kept.
ExtractDocumentOnlyFault(body) ==
    IF ~IsObject(body) THEN [metadata |-> None, document |-> None]
    ELSE [metadata |-> body.metadata, document |-> body.self]

ExtractDocumentOnly(body) ==
    IF ~IsObject(body) THEN [metadata |-> None, document |-> None]
    ELSE [metadata |-> None,
          document |-> IF body.document = None THEN body.self ELSE body.document]

Extract(adapter, body) ==
    IF adapter = "universal-resolver-v1" THEN ExtractUniversal(body)
                                         ELSE ExtractDocumentOnly(body)

\* error_family: the first name that is recognised, in type or else in title.
ErrorFamily(error) ==
    IF error = None THEN None
    ELSE LET label == IF error.type # None THEN error.type ELSE error.title
         IN CASE label = "methodnotsupported" -> "methodNotSupported"
              [] label = "notfound" -> "notFound"
              [] label = "invalidpublickey" -> "invalidDid"
              [] OTHER -> "other"

(***************************************************************************)
(* evaluate_w3c_basic_v1: each check is TRUE, FALSE, or None where an      *)
(* earlier stage has failed.                                               *)
(***************************************************************************)
CheckOrder ==
    <<"transport_success", "media_type_processable", "body_parseable",
      "no_resolution_error", "did_document_present",
      "did_document_id_matches_request", "structurally_processable">>

Evaluated == {CheckOrder[i] : i \in DOMAIN CheckOrder}

\* Fault: a stage returns before it has recorded the check that failed.
StageFault(ok, body, document) ==
    IF ~ok THEN 1 ELSE IF body = None THEN 2 ELSE IF ~IsDocument(document) THEN 4 ELSE 7

Stage(ok, body, document) ==
    IF ~ok THEN 1 ELSE IF body = None THEN 3 ELSE IF ~IsDocument(document) THEN 5 ELSE 7

Checks(response, error, document) ==
    LET reached == Stage(response.ok, response.body, document)
        value(name) ==
          CASE name = "transport_success" -> response.ok
            [] name = "media_type_processable" ->
                 MediaTypeOf(response.contentType) \in Processable
            [] name = "body_parseable" -> response.body # None
            [] name = "no_resolution_error" -> error = None
            [] name = "did_document_present" -> IsDocument(document)
            [] name = "did_document_id_matches_request" -> document.id = "requested"
            [] OTHER -> document.id \in {"requested", "other"}
    IN [name \in Evaluated |->
          IF \E i \in 1..reached : CheckOrder[i] = name THEN value(name) ELSE None]

Failed(checks) == {name \in Evaluated : checks[name] = FALSE}

\* accepted is left False by the early returns.
Accepts(response, document, checks) ==
    /\ Stage(response.ok, response.body, document) = 7
    /\ Failed(checks) = {}

\* normalize: metadata and document are kept only if they are objects.
Normalized(adapter, response) ==
    LET extracted == IF response.ok /\ response.body # None
                     THEN Extract(adapter, response.body)
                     ELSE [metadata |-> None, document |-> None]
        metadata == IF extracted.metadata = Scalar THEN None ELSE extracted.metadata
        document == IF IsDocument(extracted.document) THEN extracted.document ELSE None
        error == IF metadata = None THEN None ELSE metadata.error
        checks == Checks(response, error, document)
    IN [document |-> document, metadata |-> metadata, family |-> ErrorFamily(error),
        checks |-> checks, accepted |-> Accepts(response, document, checks),
        subject |-> IF document = None \/ document.id = "not a string" THEN None
                    ELSE document.id,
        status |-> response.status, body |-> response.body]

\* What the real router puts into its answer: the member of the raw body.
Delivered(result) ==
    IF result.accepted /\ IsObject(result.body) THEN result.body.document ELSE None

\* check_did_document: structural-v1.
StructurallyValid(body) ==
    /\ IsObject(body) /\ IsDocument(body.document)
    /\ body.document.context
    /\ body.document.id = "requested"
    /\ body.document.methods

\* compare_documents: subjects and documents of the accepted results.
Comparison(results) ==
    LET accepted == {r \in results : r.accepted}
        distinct == {r.document : r \in accepted} \ {None}
    IN [exact |-> /\ accepted # {}
                  /\ Cardinality({r.subject : r \in accepted} \ {None}) = 1
                  /\ \A r \in accepted : r.subject = "requested",
        difference |-> Cardinality(distinct) > 1]

VARIABLES
    responses,      \* what each probe got, None while it runs
    results         \* the normalized results

vars == <<responses, results>>

Init ==
    /\ responses = [p \in Providers |-> None]
    /\ results = [p \in Providers |-> None]

\* The probe of p ends.
Receive(p) ==
    /\ responses[p] = None
    /\ \E r \in Responses : responses' = [responses EXCEPT ![p] = r]
    /\ UNCHANGED results

\* ... and its response is normalized.
Normalize(p) ==
    /\ responses[p] # None /\ results[p] = None
    /\ results' = [results EXCEPT ![p] = Normalized(AdapterOf[p], responses[p])]
    /\ UNCHANGED responses

Next == \E p \in Providers : Receive(p) \/ Normalize(p)

Spec == Init /\ [][Next]_vars

Known == {p \in Providers : results[p] # None}

-----------------------------------------------------------------------------
\* Hazard: a rule that is never reached.  A rejection can be attributed to a
\* rule that failed, an acceptance has every check true, and a check is left
\* open only after one that failed.
RejectionIsAttributed ==
    \A p \in Known :
      LET checks == results[p].checks
      IN /\ results[p].accepted <=> \A name \in Evaluated : checks[name] = TRUE
         /\ ~results[p].accepted => Failed(checks) # {}
         /\ \A i \in DOMAIN CheckOrder :
              checks[CheckOrder[i]] = None =>
                \E j \in 1..(i - 1) : checks[CheckOrder[j]] = FALSE

\* The same body means the same through either adapter, unless it is only one
\* of them that can see what it says: a resolution error, or a document that
\* is the body itself.
AdaptersAgree ==
    \A p \in Known :
      LET other == CHOOSE a \in Adapters : a # AdapterOf[p]
          body == responses[p].body
      IN \/ IsObject(body) /\ (body.document = None \/ ErrorFamily(
               IF body.metadata \in {None, Scalar} THEN None
               ELSE body.metadata.error) # None)
         \/ Normalized(other, responses[p]).accepted = results[p].accepted

\* What the baseline's ruleset accepts with a JSON media type and no resolution
\* error, the profile accepts as well, through either adapter.
RulesetImpliesProfile ==
    \A p \in Known :
      LET r == responses[p]
      IN /\ r.ok /\ StructurallyValid(r.body)
         /\ r.contentType \in {"json", "json;charset"}
         /\ r.body.metadata \in {None, Scalar} \/ r.body.metadata.error = None
         => results[p].accepted

\* Accepted results are about the DID that was asked for, whichever provider
\* they come from, so a trial with one has an exact subject match; a difference
\* is flagged only between two accepted documents.
AcceptedSubjectsAgree ==
    LET known == {results[p] : p \in Known}
        accepted == {r \in known : r.accepted}
    IN /\ accepted # {} <=> Comparison(known).exact
       /\ Comparison(known).difference <=>
            \E r, s \in accepted : r.document # s.document

\* The router reads the document to deliver from the raw body.  It is the one
\* that was accepted unless the document is the body itself: then it delivers
\* none.
DeliveredIsAccepted ==
    \A p \in Known :
      results[p].accepted =>
        \/ Delivered(results[p]) = results[p].document
        \/ responses[p].body.document = None /\ responses[p].body.self # None

\* Hazard: the verdict on an answer depends on who reads it.  The adapters, the
\* profile and the ruleset agree wherever they look at the same members, the
\* subjects of accepted results are the DID asked for, and what the router
\* delivers is what was accepted.
VerdictsAgree ==
    /\ AdaptersAgree
    /\ RulesetImpliesProfile
    /\ AcceptedSubjectsAgree
    /\ DeliveredIsAccepted
=============================================================================
