------------------------------ MODULE Entities ------------------------------
(***************************************************************************)
(* What makes an asset, an event, a bundle and a token valid, and how the   *)
(* middlewares complete the body of a request.                             *)
(*                                                                         *)
(* A hash is modelled by the value that is hashed, a signature by the       *)
(* address it recovers to and the value that is signed, each in a tuple:    *)
(* <<>> is a field that is absent.                                         *)
(***************************************************************************)
EXTENDS Integers, SequencesExt, FiniteSets

Absent == <<>>
Hash(x) == <<x>>
Sign(secret, x) == <<secret, x>>

\* The errors of the code, and what the client gets.
StatusOf(error) ==
    CASE error = "validation" -> 400
      [] error = "authentication" -> 401
      [] error = "permission" -> 403
      [] error = "notFound" -> 404
      [] error = "tooLarge" -> 413
      [] OTHER -> 500

-----------------------------------------------------------------------------
(* Authorization headers: [type, by, signer, expired] *)

\* ambAuthorizationHeaderMiddleware: the secret is the address it belongs to.
AmbAuthorization(header, enabled) ==
    CASE header.type = "none" -> [error |-> "no", secret |-> Absent]
      [] header.type # "none" /\ ~enabled -> [error |-> "permission", secret |-> Absent]
      [] header.type # "none" /\ enabled /\ header.type # "AMB" ->
            [error |-> "validation", secret |-> Absent]
      [] OTHER -> [error |-> "no", secret |-> <<header.by>>]

\* decodeToken
DecodeToken(header) ==
    IF header.signer # header.by \/ header.expired THEN "authentication" ELSE "no"

\* accessTokenMiddleware: where no token is required any other header is as good as none.
AccessToken(header, required) ==
    CASE header.type = "AMB_TOKEN" -> DecodeToken(header)
      [] header.type = "none" /\ required -> "authentication"
      [] header.type = "AMB" /\ required -> "validation"
      [] OTHER -> "no"

\* generateToken: the token that decodeToken is given later.
GenerateToken(secret, now, validUntil, later) ==
    [type |-> "AMB_TOKEN", by |-> secret, signer |-> secret, expired |-> validUntil < later]

-----------------------------------------------------------------------------
(* Bodies: [id, signature, idData, data] with                                 *)
(* idData: [createdBy, timestamp, level, assetId, dataHash].  Of an asset,      *)
(* level is 0, and assetId, dataHash and data are absent                       *)

Content(body) == [signature |-> body.signature, idData |-> body.idData, data |-> body.data]

HashData(body) ==
    IF body.idData.dataHash # Absent THEN body
    ELSE [body EXCEPT !.idData.dataHash = Hash(body.data)]

Presign(body, secret) ==
    IF body.signature # Absent \/ secret = Absent THEN body
    ELSE [body EXCEPT !.signature = Sign(secret[1], body.idData)]

HashContent(body) ==
    IF body.id # Absent THEN body ELSE [body EXCEPT !.id = Hash(Content(body))]

\* The middlewares of POST /assets.
CompleteAsset(body, secret) == HashContent(Presign(body, secret))

\* The middlewares of POST /assets/:assetId/events.
CompleteEvent(body, secret) == HashContent(Presign(HashData(body), secret))

\* validateSignature throws a validation error for what is not a signature at all.
ValidateSignature(body) ==
    IF body.signature[1] # body.idData.createdBy \/ body.signature[2] # body.idData
      THEN "authentication" ELSE "no"

\* What the schemas, the sizes, the fields and the timestamp limit say is in wellFormed.
ValidateAsset(body, wellFormed) ==
    IF \/ body.signature = Absent
       \/ ~wellFormed
       \/ body.id # Hash(Content(body))
      THEN "validation" ELSE ValidateSignature(body)

\* Mutant: the hash of the data is not compared with the data.
ValidateEventOnly(body, wellFormed) == ValidateAsset(body, wellFormed)

ValidateEvent(body, wellFormed) ==
    IF \/ body.signature = Absent
       \/ ~wellFormed
       \/ body.id # Hash(Content(body))
       \/ body.idData.dataHash # Hash(body.data)
      THEN "validation" ELSE ValidateSignature(body)

-----------------------------------------------------------------------------
(* Bundles *)

LATEST_BUNDLE_VERSION == 3

ExtractIds(entries) == [n \in DOMAIN entries |-> entries[n].id]

AssembleBundle(assets, events, secret) ==
    LET entries == assets \o events
        idData == [createdBy |-> secret, entriesHash |-> Hash(ExtractIds(entries)),
                   version |-> LATEST_BUNDLE_VERSION]
    IN  [bundleId |-> Hash(idData), entries |-> entries, idData |-> idData,
         signature |-> Sign(secret, idData)]

\* An invalid signature of a bundle is a validation error.  Bundles before version 3 are
\* only looked at where they are supported, and hashes and signatures not at all.
ValidateBundle(bundle, itemsLimit, supportDeprecated) ==
    IF Len(bundle.entries) > itemsLimit THEN "validation"
    ELSE IF bundle.idData.version # LATEST_BUNDLE_VERSION
      THEN IF supportDeprecated THEN "no" ELSE "validation"
    ELSE IF \/ bundle.bundleId # Hash(bundle.idData)
            \/ bundle.idData.entriesHash # Hash(ExtractIds(bundle.entries))
            \/ bundle.signature # Sign(bundle.idData.createdBy, bundle.idData)
      THEN "validation" ELSE "no"

-----------------------------------------------------------------------------
(* Queries *)

\* The first page of a query that is sorted by the timestamp: which of several events of the
\* same time are on it is not determined.
FirstPages(found, perPage) ==
    {page \in SUBSET found :
        /\ Cardinality(page) = IF perPage < Cardinality(found) THEN perPage ELSE Cardinality(found)
        /\ \A e \in page, f \in found \ page : e.idData.timestamp >= f.idData.timestamp}

\* hideEventDataIfNecessary
HideEventData(event, level) ==
    IF event.idData.level <= level THEN event ELSE [event EXCEPT !.data = Absent]

\* FindEventQueryObject: what a query may be answered with.  Only one with data criteria
\* leaves out the events above the level; of the others the data is hidden.
FindEvents(events, data, level, perPage) ==
    LET found == IF data = Absent THEN events
                 ELSE {e \in events : e.idData.level <= level /\ e.data = data}
    IN  {{HideEventData(e, level) : e \in page} : page \in FirstPages(found, perPage)}
=============================================================================
