------------------------------ MODULE ApiProofs ------------------------------
(***************************************************************************)
(* Proofs about the HTTP API, for any set of requests, any accounts and any *)
(* inputs: what a request has done it was allowed to do, no chain of        *)
(* requests makes a right, nobody reads above its level, and what is stored *)
(* is valid.                                                               *)
(***************************************************************************)
EXTENDS Api, SequenceTheorems, TLAPS

-----------------------------------------------------------------------------
(* The order of the steps *)

\* The place of a step in a sequence without duplicates is the one it is found at.
LEMMA PlaceOfStep ==
    ASSUME NEW s, Len(s) \in Nat, DOMAIN s = 1..Len(s), IsInjective(s), NEW i \in 1..Len(s)
    PROVE  SelectInSeq(s, LAMBDA x : x = s[i]) = i
<1>1. {j \in 1..Len(s) : s[j] = s[i]} = {i}
    BY DEF IsInjective
<1>2. Min({i}) = i
    BY DEF Min
<1> QED
    BY <1>1, <1>2 DEF SelectInSeq

LEMMA StepsAreDistinct ==
    ASSUME NEW op \in Ops
    PROVE  /\ Len(Steps(op)) \in Nat /\ IsInjective(Steps(op))
           /\ DOMAIN Steps(op) = 1..Len(Steps(op))
<1>1. CASE op = "addAccount"
    BY <1>1 DEF Steps, IsInjective
<1>2. CASE op = "getAccount"
    BY <1>2 DEF Steps, IsInjective
<1>3. CASE op = "modifyAccount"
    BY <1>3 DEF Steps, IsInjective
<1>4. CASE op = "findAccounts"
    BY <1>4 DEF Steps, IsInjective
<1>5. CASE op = "createAsset"
    BY <1>5 DEF Steps, IsInjective
<1>6. CASE op = "createEvent"
    BY <1>6 DEF Steps, IsInjective
<1>7. CASE op = "getAsset"
    BY <1>7 DEF Steps, IsInjective
<1>8. CASE op = "findAssets"
    BY <1>8 DEF Steps, IsInjective
<1>9. CASE op = "getEvent"
    BY <1>9 DEF Steps, IsInjective
<1>10. CASE op = "findEvents"
    BY <1>10 DEF Steps, IsInjective
<1> QED
    BY <1>1, <1>2, <1>3, <1>4, <1>5, <1>6, <1>7, <1>8, <1>9, <1>10 DEF Ops

LEMMA NextStep ==
    ASSUME NEW op \in Ops, NEW i \in 1..Len(Steps(op))
    PROVE  StepAfter(op, Steps(op)[i]) =
                IF i = Len(Steps(op)) THEN "answered" ELSE Steps(op)[i + 1]
BY StepsAreDistinct, PlaceOfStep DEF StepAfter

\* Each step of each operation and the one after it.
LEMMA OrderOfSteps ==
    /\ StepAfter("addAccount", "permission") = "creator"
    /\ StepAfter("addAccount", "creator") = "organization"
    /\ StepAfter("addAccount", "organization") = "unknown"
    /\ StepAfter("addAccount", "unknown") = "store"
    /\ \A op \in {"getAccount", "modifyAccount"} :
        /\ StepAfter(op, "sender") = "permission"
        /\ StepAfter(op, "permission") = "target"
        /\ StepAfter(op, "target") = "viewer"
        /\ StepAfter(op, "viewer") = "viewPermission"
        /\ StepAfter(op, "viewPermission") = "viewOrganization"
        /\ StepAfter(op, "viewOrganization") =
                IF op = "getAccount" THEN "answered" ELSE "managePermission"
    /\ StepAfter("modifyAccount", "managePermission") = "modifier"
    /\ StepAfter("modifyAccount", "modifier") = "modifierOrganization"
    /\ StepAfter("modifyAccount", "modifierOrganization") = "update"
    /\ StepAfter("findAccounts", "finder") = "permission"
    /\ StepAfter("findAccounts", "permission") = "find"
    /\ StepAfter("createAsset", "creator") = "organization"
    /\ StepAfter("createAsset", "organization") = "permission"
    /\ StepAfter("createAsset", "permission") = "new"
    /\ StepAfter("createEvent", "permission") = "creator"
    /\ StepAfter("createEvent", "creator") = "organization"
    /\ StepAfter("createEvent", "organization") = "asset"
    /\ StepAfter("createEvent", "asset") = "new"
    /\ \A op \in {"createAsset", "createEvent"} : StepAfter(op, "new") = "storeEntity"
    /\ \A op \in {"findAssets", "getEvent", "findEvents"} :
        /\ StepAfter(op, "level") = "events"
        /\ StepAfter(op, "events") = IF op = "findAssets" THEN "assets" ELSE "answered"
    /\ \A op \in {"getAsset", "findAssets"} : StepAfter(op, "assets") = "answered"
<1> DEFINE Follows(op, i) == StepAfter(op, Steps(op)[i]) =
                IF i = Len(Steps(op)) THEN "answered" ELSE Steps(op)[i + 1]
<1>1. \A op \in Ops : \A i \in 1..Len(Steps(op)) : Follows(op, i)
    BY NextStep
<1>2. /\ Steps("addAccount") = <<"permission", "creator", "organization", "unknown", "store">>
      /\ Steps("getAccount") =
            <<"sender", "permission", "target", "viewer", "viewPermission", "viewOrganization">>
      /\ Steps("modifyAccount") =
            <<"sender", "permission", "target", "viewer", "viewPermission", "viewOrganization",
              "managePermission", "modifier", "modifierOrganization", "update">>
      /\ Steps("findAccounts") = <<"finder", "permission", "find">>
      /\ Steps("createAsset") = <<"creator", "organization", "permission", "new", "storeEntity">>
      /\ Steps("createEvent") =
            <<"permission", "creator", "organization", "asset", "new", "storeEntity">>
      /\ Steps("getAsset") = <<"assets">>
      /\ Steps("findAssets") = <<"level", "events", "assets">>
      /\ Steps("getEvent") = <<"level", "events">>
      /\ Steps("findEvents") = <<"level", "events">>
    BY DEF Steps
<1>3. \A i \in 1..4 : Follows("addAccount", i)
    BY <1>1, <1>2 DEF Ops
<1>4. \A i \in 1..6 : Follows("getAccount", i)
    BY <1>1, <1>2 DEF Ops
<1>5. \A i \in 1..9 : Follows("modifyAccount", i)
    BY <1>1, <1>2 DEF Ops
<1>6. \A i \in 1..2 : Follows("findAccounts", i)
    BY <1>1, <1>2 DEF Ops
<1>7. \A i \in 1..4 : Follows("createAsset", i)
    BY <1>1, <1>2 DEF Ops
<1>8. \A i \in 1..5 : Follows("createEvent", i)
    BY <1>1, <1>2 DEF Ops
<1>9. \A i \in 1..1 : Follows("getAsset", i)
    BY <1>1, <1>2 DEF Ops
<1>10. \A i \in 1..3 : Follows("findAssets", i)
    BY <1>1, <1>2 DEF Ops
<1>11. \A i \in 1..2 : Follows("getEvent", i) /\ Follows("findEvents", i)
    BY <1>1, <1>2 DEF Ops
<1> QED
    BY <1>2, <1>3, <1>4, <1>5, <1>6, <1>7, <1>8, <1>9, <1>10, <1>11

\* The steps an operation has, as sets.
StepSet(op) ==
    CASE op = "addAccount" -> {"permission", "creator", "organization", "unknown", "store"}
      [] op = "getAccount" ->
            {"sender", "permission", "target", "viewer", "viewPermission", "viewOrganization"}
      [] op = "modifyAccount" ->
            {"sender", "permission", "target", "viewer", "viewPermission", "viewOrganization",
             "managePermission", "modifier", "modifierOrganization", "update"}
      [] op = "findAccounts" -> {"finder", "permission", "find"}
      [] op = "createAsset" -> {"creator", "organization", "permission", "new", "storeEntity"}
      [] op = "createEvent" ->
            {"permission", "creator", "organization", "asset", "new", "storeEntity"}
      [] op = "getAsset" -> {"assets"}
      [] op = "findAssets" -> {"level", "events", "assets"}
      [] OTHER -> {"level", "events"}

LEMMA StepSetIs ==
    ASSUME NEW op \in Ops
    PROVE  ToSet(Steps(op)) = StepSet(op) /\ Steps(op)[1] \in StepSet(op)
<1>1. CASE op = "addAccount"
    BY <1>1 DEF Steps, StepSet, ToSet
<1>2. CASE op = "getAccount"
    BY <1>2 DEF Steps, StepSet, ToSet
<1>3. CASE op = "modifyAccount"
    BY <1>3 DEF Steps, StepSet, ToSet
<1>4. CASE op = "findAccounts"
    BY <1>4 DEF Steps, StepSet, ToSet
<1>5. CASE op = "createAsset"
    BY <1>5 DEF Steps, StepSet, ToSet
<1>6. CASE op = "createEvent"
    BY <1>6 DEF Steps, StepSet, ToSet
<1>7. CASE op = "getAsset"
    BY <1>7 DEF Steps, StepSet, ToSet
<1>8. CASE op = "findAssets"
    BY <1>8 DEF Steps, StepSet, ToSet
<1>9. CASE op = "getEvent"
    BY <1>9 DEF Steps, StepSet, ToSet
<1>10. CASE op = "findEvents"
    BY <1>10 DEF Steps, StepSet, ToSet
<1> QED
    BY <1>1, <1>2, <1>3, <1>4, <1>5, <1>6, <1>7, <1>8, <1>9, <1>10 DEF Ops

-----------------------------------------------------------------------------
(* The inductive invariant *)

\* What a request asks for, its body completed or not.
RequestOK(q) ==
    /\ q.op \in Ops /\ IsBody(q.body) /\ IsChange(q.change)
    /\ q.op = "addAccount" /\ q.wellFormed =>
            q.target \in Addresses /\ {"permissions", "accessLevel"} \subseteq DOMAIN q.change

Failures == {400, 401, 403, 404, 413, 500}

Shape ==
    /\ DOMAIN pc = Requests /\ DOMAIN req = Requests /\ DOMAIN self = Requests
    /\ DOMAIN seen = Requests /\ DOMAIN status = Requests /\ DOMAIN found = Requests
    /\ DOMAIN held = Requests

EntitiesInv ==
    /\ assets \in Seq(ToSet(assets)) /\ events \in Seq(ToSet(events))
    /\ IsInjective(assets) /\ IsInjective(events)
    /\ \A e \in ToSet(assets) \cup ToSet(events) : IsBody(e) /\ IsValid(e)

DatabaseInv ==
    /\ account \in [Addresses -> Account \cup {NoAccount}]
    /\ disabled \subseteq Organizations
    /\ toggles \in 0..MaxToggles
    /\ EntitiesInv

RequestInv(r) ==
    /\ RequestOK(req[r])
    /\ pc[r] \in {"free", "answered"} \cup StepSet(req[r].op)
    /\ self[r] \in Account \cup {NoAccount}
    /\ seen[r] \in Account \cup {NoAccount}
    /\ status[r] \in {0, 200, 201} \cup Failures
    /\ pc[r] = "answered" <=> status[r] # 0
    /\ found[r] \subseteq Nat \cup {Null, Missing}
    /\ pc[r] = "free" => found[r] = {}

TypeInv == Shape /\ DatabaseInv /\ \A r \in Requests : RequestInv(r)

\* A request is at one of the steps, or has been done.
Beyond(r, steps) == pc[r] \in steps \/ status[r] \in {200, 201}

Protected(op) == ~ReadsData(op) /\ op # "getAsset"
OnTarget(op) == op \in {"getAccount", "modifyAccount"}
NeedsOrganization(op) ==
    op \in {"addAccount", "getAccount", "modifyAccount", "createAsset", "createEvent"}

\* The steps behind each check.
BehindPermission(op) ==
    IF op = "createAsset" THEN {"new", "storeEntity"}
    ELSE {"creator", "organization", "unknown", "store", "asset", "new", "storeEntity", "target",
          "viewer", "viewPermission", "viewOrganization", "managePermission", "modifier",
          "modifierOrganization", "update", "find"}

BehindSender(op) ==
    {"organization", "unknown", "store", "asset", "new", "storeEntity", "viewPermission",
     "viewOrganization", "managePermission", "modifier", "modifierOrganization", "update", "find"}
        \cup (IF op \in {"createAsset", "findAccounts"} THEN {"permission"} ELSE {})

BehindOrganization(op) ==
    {"unknown", "store", "asset", "new", "storeEntity", "managePermission", "modifier",
     "modifierOrganization", "update"}
        \cup (IF op = "createAsset" THEN {"permission"} ELSE {})

BehindTarget ==
    {"viewer", "viewPermission", "viewOrganization", "managePermission", "modifier",
     "modifierOrganization", "update"}

BehindView == {"managePermission", "modifier", "modifierOrganization", "update"}

\* What is true at a step has been remembered.
FactsInv(r) == Serving(r) => Facts(req[r]) \subseteq held[r]

PermissionInv(r) ==
    Protected(req[r].op) /\ Beyond(r, BehindPermission(req[r].op)) => Held(r, "permission")

SenderInv(r) ==
    Protected(req[r].op) /\ Beyond(r, BehindSender(req[r].op)) =>
        /\ self[r] \in Account /\ self[r].active
        /\ SenderFacts(req[r], self[r]) \subseteq held[r]

OrganizationInv(r) ==
    NeedsOrganization(req[r].op) /\ Beyond(r, BehindOrganization(req[r].op)) => OrganizationHeld(r)

TargetInv(r) ==
    OnTarget(req[r].op) /\ Beyond(r, BehindTarget) =>
        seen[r] \in Account /\ TargetFacts(seen[r]) \subseteq held[r]

ViewInv(r) ==
    OnTarget(req[r].op) /\ Beyond(r, BehindView) => SameOrganizationHeld(r)

\* Who is no super account has compared what it gives with what it has itself.
GrantInv(r) ==
    req[r].op \in {"addAccount", "modifyAccount"} /\ Beyond(r, {"unknown", "store", "update"}) =>
        \/ IsSuper(self[r])
        \/ /\ NoExceeding(self[r], req[r].change)
           /\ req[r].op = "addAccount" => SameOrganization(self[r], req[r].change)
           /\ req[r].op = "modifyAccount" => ~HasPermission(seen[r], "protected_account")

UnknownInv(r) ==
    req[r].op = "addAccount" =>
        /\ pc[r] \in {"creator", "organization", "unknown", "store"} => req[r].wellFormed
        /\ Beyond(r, {"store"}) => Held(r, "unknown")

EventInv(r) ==
    req[r].op = "createEvent" =>
        /\ Beyond(r, {"asset", "new", "storeEntity"}) =>
                req[r].body.idData.level <= self[r].accessLevel
        /\ Beyond(r, {"new", "storeEntity"}) => Held(r, "asset")

ReadInv(r) ==
    /\ pc[r] = "events" => <<"level", LevelOf(self[r])>> \in held[r]
    /\ \A n \in found[r] :
        IF ReadsData(req[r].op)
          THEN \E fact \in held[r] : fact[1] = "level" /\ n <= fact[2]
          ELSE Held(r, "super") \/ OwnOrganization(r, n)

BodyInv(r) == WritesEntity(req[r].op) /\ Serving(r) => IsValid(req[r].body)

\* Accounts are changed, and never removed.
KnownInv(r) ==
    req[r].op = "modifyAccount" /\ pc[r] \in BehindTarget =>
        req[r].target \in Addresses /\ account[req[r].target] # NoAccount

\* What one request has seen and made of it.
LocalInv(r) ==
    /\ PermissionInv(r) /\ SenderInv(r) /\ OrganizationInv(r) /\ TargetInv(r) /\ ViewInv(r)
    /\ GrantInv(r) /\ UnknownInv(r) /\ EventInv(r) /\ ReadInv(r) /\ BodyInv(r)

CheckInv(r) == FactsInv(r) /\ LocalInv(r) /\ KnownInv(r)

RightsInv ==
    /\ NoRightFromNowhere
    /\ \A r \in Requests : self[r] \in Account => self[r].permissions \subseteq granted

IInv == TypeInv /\ RightsInv /\ \A r \in Requests : CheckInv(r)

-----------------------------------------------------------------------------
(* What the middlewares make of a body *)

Signed(body) ==
    body.signature # Absent => body.signature = Sign(body.signature[1], body.signature[2])

LEMMA HashedData ==
    ASSUME NEW body, IsBody(body), Signed(body)
    PROVE  IsBody(HashData(body)) /\ Signed(HashData(body)) /\ HashData(body).data = body.data
<1>1. CASE body.idData.dataHash # Absent
    BY <1>1 DEF HashData
<1>2. CASE body.idData.dataHash = Absent
    <2>1. HashData(body) = [body EXCEPT !.idData.dataHash = Hash(body.data)]
        BY <1>2 DEF HashData
    <2>2. /\ HashData(body).signature = body.signature
          /\ HashData(body).data = body.data
        BY <2>1 DEF IsBody
    <2> QED
        BY <2>1, <2>2 DEF IsBody, Signed
<1> QED
    BY <1>1, <1>2

LEMMA Presigned ==
    ASSUME NEW body, NEW secret, IsBody(body), Signed(body)
    PROVE  /\ IsBody(Presign(body, secret)) /\ Signed(Presign(body, secret))
           /\ Presign(body, secret).data = body.data
<1>1. CASE body.signature # Absent \/ secret = Absent
    BY <1>1 DEF Presign
<1>2. CASE ~(body.signature # Absent \/ secret = Absent)
    <2>1. Presign(body, secret) = [body EXCEPT !.signature = Sign(secret[1], body.idData)]
        BY <1>2 DEF Presign
    <2>2. Presign(body, secret).signature = Sign(secret[1], body.idData)
        BY <2>1 DEF IsBody
    <2>3. Signed(Presign(body, secret))
        BY <2>2 DEF Signed, Sign
    <2> QED
        BY <2>1, <2>3 DEF IsBody
<1> QED
    BY <1>1, <1>2

LEMMA HashedContent ==
    ASSUME NEW body, IsBody(body), Signed(body)
    PROVE  /\ IsBody(HashContent(body)) /\ Signed(HashContent(body))
           /\ HashContent(body).data = body.data
<1>1. CASE body.id # Absent
    BY <1>1 DEF HashContent
<1>2. CASE body.id = Absent
    <2>1. HashContent(body) = [body EXCEPT !.id = Hash(Content(body))]
        BY <1>2 DEF HashContent
    <2>2. /\ HashContent(body).signature = body.signature
          /\ HashContent(body).data = body.data
        BY <2>1 DEF IsBody
    <2> QED
        BY <2>1, <2>2 DEF IsBody, Signed
<1> QED
    BY <1>1, <1>2

LEMMA CompletedBody ==
    ASSUME NEW q \in Inputs, NEW secret
    PROVE  /\ IsBody(Complete(q, secret)) /\ Signed(Complete(q, secret))
           /\ Complete(q, secret).data = q.body.data
<1>1. IsBody(q.body) /\ Signed(q.body)
    BY InputsAssumption DEF Signed
<1>2. CASE q.op = "createAsset"
    BY <1>1, <1>2, Presigned, HashedContent DEF Complete, CompleteAsset
<1>3. CASE q.op = "createEvent"
    BY <1>1, <1>3, HashedData, Presigned, HashedContent DEF Complete, CompleteEvent
<1> QED
    BY <1>1, <1>2, <1>3 DEF Complete

\* A body that is let through has been compared with its id, its signature and its hash.
LEMMA ValidatedBody ==
    ASSUME NEW body, NEW wellFormed, Signed(body),
           \/ ValidateAsset(body, wellFormed) = "no" /\ body.data = Absent
           \/ ValidateEvent(body, wellFormed) = "no"
    PROVE  IsValid(body)
<1>1. /\ body.signature # Absent /\ body.id = Hash(Content(body))
      /\ body.signature[1] = body.idData.createdBy /\ body.signature[2] = body.idData
    BY DEF ValidateAsset, ValidateEvent, ValidateSignature
<1>2. body.data = Absent \/ body.idData.dataHash = Hash(body.data)
    BY DEF ValidateAsset, ValidateEvent, ValidateSignature
<1> QED
    BY <1>1, <1>2 DEF Signed, IsValid

LEMMA ArrivedBody ==
    ASSUME NEW q \in Inputs, NEW secret, WritesEntity(q.op),
           FirstError(q, Complete(q, secret)) = "no"
    PROVE  IsValid(Complete(q, secret))
<1> DEFINE body == Complete(q, secret)
<1>1. Signed(body) /\ body.data = q.body.data
    BY CompletedBody
<1>2. CASE q.op = "createAsset"
    <2>1. ValidateAsset(body, q.wellFormed) = "no"
        BY <1>2 DEF FirstError, WritesEntity, ReadsData
    <2>2. body.data = Absent
        BY <1>1, <1>2, InputsAssumption
    <2> QED
        BY <1>1, <2>1, <2>2, ValidatedBody
<1>3. CASE q.op = "createEvent"
    <2>1. ValidateEvent(body, q.wellFormed) = "no"
        BY <1>3 DEF FirstError, WritesEntity, ReadsData
    <2> QED
        BY <1>1, <2>1, ValidatedBody
<1> QED
    BY <1>2, <1>3 DEF WritesEntity

-----------------------------------------------------------------------------
(* What the steps have in common *)

LEMMA Remembered ==
    ASSUME Shape, Remember, NEW r \in Requests
    PROVE  /\ DOMAIN held' = Requests
           /\ held[r] \subseteq held'[r]
           /\ FactsInv(r)'
BY DEF Shape, Remember, FactsInv

LEMMA Answered ==
    ASSUME Shape, NEW r \in Requests, NEW code, Answer(r, code)
    PROVE  pc'[r] = "answered" /\ status'[r] = code
BY DEF Shape, Answer

LEMMA Failed ==
    ASSUME Shape, NEW r \in Requests, NEW error, Fail(r, error)
    PROVE  pc'[r] = "answered" /\ status'[r] \in Failures
BY Answered DEF Fail, StatusOf, Failures

LEMMA Went ==
    ASSUME Shape, NEW r \in Requests, NEW step, Goto(r, step)
    PROVE  /\ pc'[r] = step
           /\ status'[r] = IF step = "answered" THEN 200 ELSE status[r]
BY DEF Shape, Goto, Answer

\* A step moves the request it serves and leaves the others where they are.
LEMMA OnlyMoves ==
    ASSUME Shape, NEW r \in Requests,
           \/ \E code : Answer(r, code)
           \/ \E error : Fail(r, error)
           \/ \E step : Goto(r, step)
    PROVE  /\ DOMAIN pc' = Requests /\ DOMAIN status' = Requests
           /\ \A p \in Requests \ {r} : pc'[p] = pc[p] /\ status'[p] = status[p]
BY DEF Shape, Goto, Fail, Answer

LEMMA ActionMoves ==
    ASSUME NEW r \in Requests, Serve(r), ~Arrive(r)
    PROVE  /\ \/ \E code : Answer(r, code)
              \/ \E error : Fail(r, error)
              \/ \E step : Goto(r, step)
           /\ req' = req
           /\ self' = self \/ \E a : self' = [self EXCEPT ![r] = a]
           /\ seen' = seen \/ \E a : seen' = [seen EXCEPT ![r] = a]
           /\ found' = found \/ \E f : found' = [found EXCEPT ![r] = f]
<1>1. CASE CheckPermission(r) \/ CheckSender(r) \/ ReadTarget(r) \/ CheckOrganization(r)
    BY <1>1 DEF CheckPermission, CheckSender, ReadTarget, CheckOrganization, Continue
<1>2. CASE CheckActive(r) \/ CheckUnknown(r) \/ StoreAccount(r) \/ UpdateAccount(r)
    BY <1>2 DEF CheckActive, CheckUnknown, StoreAccount, UpdateAccount, Continue
<1>3. CASE CheckAsset(r) \/ CheckNew(r) \/ StoreEntity(r)
    BY <1>3 DEF CheckAsset, CheckNew, StoreEntity, Continue
<1>4. CASE ReadLevel(r) \/ ReadEvents(r) \/ ReadAssets(r) \/ FindAccounts(r)
    BY <1>4 DEF ReadLevel, ReadEvents, ReadAssets, FindAccounts, Continue
<1> QED
    BY <1>1, <1>2, <1>3, <1>4 DEF Serve

LEMMA OthersStay ==
    ASSUME Shape, NEW r \in Requests, Serve(r)
    PROVE  /\ DOMAIN pc' = Requests /\ DOMAIN req' = Requests /\ DOMAIN self' = Requests
           /\ DOMAIN seen' = Requests /\ DOMAIN status' = Requests /\ DOMAIN found' = Requests
           /\ \A p \in Requests \ {r} :
                /\ pc'[p] = pc[p] /\ req'[p] = req[p] /\ self'[p] = self[p]
                /\ seen'[p] = seen[p] /\ status'[p] = status[p] /\ found'[p] = found[p]
<1>1. CASE Arrive(r)
    BY <1>1 DEF Shape, Arrive, Fail, Answer
<1>2. CASE ~Arrive(r)
    BY <1>2, ActionMoves, OnlyMoves DEF Shape
<1> QED
    BY <1>1, <1>2

\* What has been true of a request remains so.
LEMMA HeldIsKept ==
    ASSUME NEW r, held[r] \subseteq held'[r]
    PROVE  /\ \A fact : Held(r, fact) => Held(r, fact)'
           /\ OrganizationHeld(r) => OrganizationHeld(r)'
           /\ SameOrganizationHeld(r) => SameOrganizationHeld(r)'
<1>1. \A fact : Held(r, fact) => Held(r, fact)'
    BY DEF Held
<1>2. ASSUME OrganizationHeld(r) PROVE OrganizationHeld(r)'
    <2>1. CASE Held(r, "super")
        BY <1>1, <2>1 DEF OrganizationHeld
    <2>2. ASSUME NEW o \in Places,
                 {<<"sender in", o>>, <<"enabled", o>>} \subseteq held[r]
          PROVE  OrganizationHeld(r)'
        BY <2>2 DEF OrganizationHeld
    <2> QED
        BY <1>2, <2>1, <2>2 DEF OrganizationHeld
<1>3. ASSUME SameOrganizationHeld(r) PROVE SameOrganizationHeld(r)'
    <2>1. CASE Held(r, "super")
        BY <1>1, <2>1 DEF SameOrganizationHeld
    <2>2. ASSUME NEW o \in Places, <<"target in", o>> \in held[r],
                 o \in Falsy \/ <<"sender in", o>> \in held[r]
          PROVE  SameOrganizationHeld(r)'
        BY <2>2 DEF SameOrganizationHeld
    <2> QED
        BY <1>3, <2>1, <2>2 DEF SameOrganizationHeld
<1> QED
    BY <1>1, <1>2, <1>3

\* What a request has read is still allowed.
LEMMA ReadStays ==
    ASSUME NEW r, ReadInv(r), held[r] \subseteq held'[r], req'[r] = req[r], found'[r] = found[r],
           pc'[r] = "events" => <<"level", LevelOf(self'[r])>> \in held'[r]
    PROVE  ReadInv(r)'
<1>1. \A n : OwnOrganization(r, n) => OwnOrganization(r, n)'
    BY DEF OwnOrganization
<1>2. ASSUME NEW n \in found[r], ReadsData(req[r].op)
      PROVE  \E fact \in held'[r] : fact[1] = "level" /\ n <= fact[2]
    BY <1>2 DEF ReadInv
<1>3. ASSUME NEW n \in found[r], ~ReadsData(req[r].op)
      PROVE  Held(r, "super")' \/ OwnOrganization(r, n)'
    BY <1>1, <1>3, HeldIsKept DEF ReadInv
<1> QED
    BY <1>2, <1>3 DEF ReadInv

\* What a request knows is not lost while it waits.
LEMMA LocalStays ==
    ASSUME NEW r \in Requests, RequestInv(r), LocalInv(r),
           pc'[r] = pc[r], req'[r] = req[r], self'[r] = self[r],
           seen'[r] = seen[r], status'[r] = status[r], found'[r] = found[r],
           held[r] \subseteq held'[r]
    PROVE  RequestInv(r)' /\ LocalInv(r)'
<1>1. RequestInv(r)'
    BY DEF RequestInv
<1>2. /\ OrganizationHeld(r) => OrganizationHeld(r)'
      /\ SameOrganizationHeld(r) => SameOrganizationHeld(r)'
    BY HeldIsKept
<1>3. PermissionInv(r)' /\ SenderInv(r)'
    BY DEF LocalInv, PermissionInv, SenderInv, Beyond, Held
<1>4. OrganizationInv(r)'
    BY <1>2 DEF LocalInv, OrganizationInv, Beyond
<1>5. TargetInv(r)'
    BY DEF LocalInv, TargetInv, Beyond
<1>6. ViewInv(r)'
    BY <1>2 DEF LocalInv, ViewInv, Beyond
<1>7. GrantInv(r)'
    BY DEF LocalInv, GrantInv, Beyond
<1>8. UnknownInv(r)'
    BY DEF LocalInv, UnknownInv, Beyond, Held
<1>9. EventInv(r)'
    BY DEF LocalInv, EventInv, Beyond, Held
<1>10. ReadInv(r)'
    BY ReadStays DEF LocalInv, ReadInv
<1>11. BodyInv(r)'
    BY DEF LocalInv, BodyInv, Serving
<1> QED
    BY <1>1, <1>3, <1>4, <1>5, <1>6, <1>7, <1>8, <1>9, <1>10, <1>11 DEF LocalInv

\* Nor is anything claimed of a request that has failed.
LEMMA LocalFails ==
    ASSUME NEW r \in Requests, RequestInv(r), LocalInv(r),
           pc'[r] = "answered", status'[r] \in Failures, RequestOK(req'[r]),
           req'[r] = req[r] \/ found'[r] = {}, found'[r] = found[r] \/ found'[r] = {},
           self'[r] \in Account \cup {NoAccount}, seen'[r] \in Account \cup {NoAccount},
           held[r] \subseteq held'[r]
    PROVE  RequestInv(r)' /\ LocalInv(r)'
<1>1. RequestInv(r)'
    BY DEF RequestInv, Failures
<1>2. "answered" \notin BehindTarget /\ "answered" \notin BehindView
      /\ \A op : /\ "answered" \notin BehindPermission(op)
                 /\ "answered" \notin BehindSender(op)
                 /\ "answered" \notin BehindOrganization(op)
    BY DEF BehindTarget, BehindView, BehindPermission, BehindSender, BehindOrganization
<1>3. status'[r] \notin {200, 201}
    BY DEF Failures
<1>4. \A steps : "answered" \notin steps => ~Beyond(r, steps)'
    BY <1>3 DEF Beyond
<1>5. PermissionInv(r)' /\ SenderInv(r)' /\ OrganizationInv(r)' /\ TargetInv(r)' /\ ViewInv(r)'
    BY <1>2, <1>4 DEF PermissionInv, SenderInv, OrganizationInv, TargetInv, ViewInv
<1>6. GrantInv(r)' /\ UnknownInv(r)' /\ EventInv(r)' /\ BodyInv(r)'
    BY <1>4 DEF GrantInv, UnknownInv, EventInv, BodyInv, Serving
<1>7. ReadInv(r)'
    BY ReadStays DEF LocalInv, ReadInv
<1> QED
    BY <1>1, <1>5, <1>6, <1>7 DEF LocalInv

-----------------------------------------------------------------------------
(* What each step makes of what its request knows *)

\* The facts a request may rely on at a step.
LEMMA KnownFacts ==
    ASSUME NEW r \in Requests, FactsInv(r), Serving(r)
    PROVE  /\ SenderFacts(req[r], SenderAccount(req[r])) \subseteq held[r]
           /\ TargetFacts(TargetAccount(req[r])) \subseteq held[r]
           /\ \A o \in Places \ disabled : <<"enabled", o>> \in held[r]
           /\ <<"level", LevelOf(SenderAccount(req[r]))>> \in held[r]
           /\ HasAsset(req[r].body.idData.assetId) => Held(r, "asset")
BY DEF FactsInv, Facts, Held, If

LEMMA FactsOfSender ==
    ASSUME NEW q, NEW a, a # NoAccount
    PROVE  /\ MayDo(a, Needed(q.op)) => <<"permission", 0>> \in SenderFacts(q, a)
           /\ a.active => <<"active", 0>> \in SenderFacts(q, a)
           /\ IsSuper(a) => <<"super", 0>> \in SenderFacts(q, a)
           /\ NoExceeding(a, q.change) => <<"grants", 0>> \in SenderFacts(q, a)
           /\ q.body.idData.level <= a.accessLevel => <<"level suffices", 0>> \in SenderFacts(q, a)
           /\ <<"sender in", a.organization>> \in SenderFacts(q, a)
BY DEF SenderFacts, If

LEMMA FactsOfTarget ==
    ASSUME NEW t
    PROVE  /\ t = NoAccount => <<"unknown", 0>> \in TargetFacts(t)
           /\ t # NoAccount =>
                /\ ~HasPermission(t, "protected_account") => <<"unprotected", 0>> \in TargetFacts(t)
                /\ <<"target in", t.organization>> \in TargetFacts(t)
BY DEF TargetFacts, If

LEMMA AccountsRead ==
    ASSUME TypeInv, NEW r \in Requests
    PROVE  /\ SenderAccount(req[r]) \in Account \cup {NoAccount}
           /\ TargetAccount(req[r]) \in Account \cup {NoAccount}
BY DEF TypeInv, DatabaseInv, SenderAccount, TargetAccount

LEMMA PermissionChecked ==
    ASSUME TypeInv, NEW r \in Requests, CheckInv(r), CheckPermission(r), Remember
    PROVE  RequestInv(r)' /\ LocalInv(r)'
<1>1. /\ Shape /\ RequestInv(r) /\ LocalInv(r) /\ FactsInv(r)
      /\ held[r] \subseteq held'[r]
      /\ req' = req /\ self' = self /\ seen' = seen /\ found' = found
      /\ pc[r] \in {"permission", "viewPermission", "managePermission"}
    BY Remembered DEF TypeInv, CheckInv, CheckPermission
<1>2. CASE \E error : Fail(r, error)
    BY <1>1, <1>2, Failed, LocalFails DEF RequestInv
<1>3. CASE ~\E error : Fail(r, error)
    <2> DEFINE next == StepAfter(req[r].op, pc[r])
    <2>1. /\ SenderAccount(req[r]) # NoAccount
          /\ MayDo(SenderAccount(req[r]), Needed(req[r].op))
          /\ req[r].op = "addAccount" \/ pc[r] = "managePermission" => req[r].wellFormed
          /\ Goto(r, next)
        BY <1>3 DEF CheckPermission, Continue
    <2>2. \/ req[r].op = "addAccount" /\ pc[r] = "permission" /\ next = "creator"
          \/ OnTarget(req[r].op) /\ pc[r] = "permission" /\ next = "target"
          \/ OnTarget(req[r].op) /\ pc[r] = "viewPermission" /\ next = "viewOrganization"
          \/ req[r].op = "modifyAccount" /\ pc[r] = "managePermission" /\ next = "modifier"
          \/ req[r].op = "findAccounts" /\ pc[r] = "permission" /\ next = "find"
          \/ req[r].op = "createAsset" /\ pc[r] = "permission" /\ next = "new"
          \/ req[r].op = "createEvent" /\ pc[r] = "permission" /\ next = "creator"
        BY <1>1, OrderOfSteps DEF RequestInv, RequestOK, StepSet, Ops, OnTarget
    <2>3. status[r] = 0 /\ Serving(r)
        BY <1>1 DEF RequestInv, Serving
    <2>4. pc'[r] = next /\ status'[r] = 0
        BY <1>1, <2>1, <2>2, <2>3, Went
    <2>5. Held(r, "permission")'
        BY <1>1, <2>1, <2>3, KnownFacts, FactsOfSender DEF Held
    <2> HIDE DEF next
    <2>6. RequestInv(r)'
        BY <1>1, <2>2, <2>3, <2>4 DEF RequestInv, StepSet, OnTarget
    <2>7. PermissionInv(r)'
        BY <2>5 DEF PermissionInv
    <2>8. SenderInv(r)'
        BY <1>1, <2>2, <2>4 DEF LocalInv, SenderInv, Beyond, BehindSender, OnTarget
    <2>9. OrganizationInv(r)'
        BY <1>1, <2>2, <2>4, HeldIsKept
           DEF LocalInv, OrganizationInv, Beyond, BehindOrganization, OnTarget
    <2>10. TargetInv(r)'
        BY <1>1, <2>2, <2>4 DEF LocalInv, TargetInv, Beyond, BehindTarget, OnTarget
    <2>11. ViewInv(r)'
        BY <1>1, <2>2, <2>4, HeldIsKept DEF LocalInv, ViewInv, Beyond, BehindView, OnTarget
    <2>12. GrantInv(r)'
        BY <2>2, <2>4 DEF GrantInv, Beyond
    <2>13. UnknownInv(r)'
        BY <1>1, <2>1, <2>2, <2>4 DEF UnknownInv, Beyond, OnTarget
    <2>14. EventInv(r)'
        BY <1>1, <2>2, <2>4 DEF LocalInv, EventInv, Beyond, OnTarget
    <2>15. ReadInv(r)'
        BY <1>1, <2>2, <2>4, ReadStays DEF LocalInv
    <2>16. BodyInv(r)'
        BY <1>1, <2>3 DEF LocalInv, BodyInv
    <2> QED
        BY <2>6, <2>7, <2>8, <2>9, <2>10, <2>11, <2>12, <2>13, <2>14, <2>15, <2>16 DEF LocalInv
<1> QED
    BY <1>2, <1>3

\* An account and the one it looks at belong together only if they have both been seen in
\* the organization.
LEMMA SeenTogether ==
    ASSUME NEW r, NEW a \in Account, NEW b \in Account, SameOrganization(a, b),
           <<"sender in", a.organization>> \in held'[r], TargetFacts(b) \subseteq held'[r],
           b # NoAccount
    PROVE  SameOrganizationHeld(r)'
<1>1. "organization" \in DOMAIN b /\ a.organization \in Places /\ b.organization \in Places
    BY DEF Account
<1>2. <<"target in", b.organization>> \in held'[r]
    BY FactsOfTarget
<1>3. CASE b.organization \in Falsy
    BY <1>1, <1>2, <1>3 DEF SameOrganizationHeld
<1>4. CASE b.organization = a.organization
    <2>1. {<<"sender in", a.organization>>, <<"target in", a.organization>>} \subseteq held'[r]
        BY <1>2, <1>4
    <2> QED
        BY <1>1, <2>1 DEF SameOrganizationHeld
<1> QED
    BY <1>1, <1>3, <1>4 DEF SameOrganization

LEMMA SenderChecked ==
    ASSUME TypeInv, NEW r \in Requests, CheckInv(r), CheckSender(r), Remember
    PROVE  RequestInv(r)' /\ LocalInv(r)'
<1>1. /\ Shape /\ RequestInv(r) /\ LocalInv(r) /\ FactsInv(r)
      /\ held[r] \subseteq held'[r]
      /\ req' = req /\ self' = [self EXCEPT ![r] = SenderAccount(req[r])] /\ seen' = seen /\ found' = found
      /\ pc[r] \in {"sender", "finder"}
    BY Remembered DEF TypeInv, CheckInv, CheckSender
<1>2. status[r] = 0 /\ Serving(r)
    BY <1>1 DEF RequestInv, Serving
<1>3. CASE \E error : Fail(r, error)
    BY <1>1, <1>3, Failed, LocalFails, AccountsRead DEF RequestInv, Shape
<1>4. CASE ~\E error : Fail(r, error)
    <2>1. /\ SenderAccount(req[r]) # NoAccount
          /\ pc[r] = "finder" => SenderAccount(req[r]).active
          /\ Goto(r, StepAfter(req[r].op, pc[r]))
        BY <1>4, <1>1 DEF CheckSender, Continue
    <2>2. \/ OnTarget(req[r].op) /\ pc[r] = "sender"
          \/ req[r].op = "findAccounts" /\ pc[r] = "finder"
        BY <1>1 DEF RequestInv, RequestOK, StepSet, Ops, OnTarget
    <2>3. pc'[r] = "permission" /\ status'[r] = 0
        BY <1>1, <1>2, <2>1, <2>2, OrderOfSteps, Went DEF OnTarget
    <2>4. req[r].op = "findAccounts" =>
              self'[r] \in Account /\ self'[r].active /\ SenderFacts(req[r], self'[r]) \subseteq held'[r]
        BY <1>1, <1>2, <2>1, <2>2, AccountsRead, KnownFacts DEF Shape, OnTarget
    <2>5. RequestInv(r)'
        BY <1>1, <1>2, <2>2, <2>3, AccountsRead DEF RequestInv, StepSet, OnTarget, Shape
    <2>6. PermissionInv(r)'
        BY <1>1, <2>2, <2>3 DEF LocalInv, PermissionInv, Beyond, BehindPermission, OnTarget, Held
    <2>7. SenderInv(r)'
        BY <1>1, <2>2, <2>3, <2>4 DEF SenderInv, Beyond, BehindSender, OnTarget
    <2>8. OrganizationInv(r)'
        BY <1>1, <2>2, <2>3, HeldIsKept
           DEF LocalInv, OrganizationInv, Beyond, BehindOrganization, OnTarget
    <2>9. TargetInv(r)'
        BY <1>1, <2>2, <2>3 DEF LocalInv, TargetInv, Beyond, BehindTarget, OnTarget
    <2>10. ViewInv(r)'
        BY <1>1, <2>2, <2>3, HeldIsKept DEF LocalInv, ViewInv, Beyond, BehindView, OnTarget
    <2>11. GrantInv(r)'
        BY <1>1, <2>2, <2>3 DEF LocalInv, GrantInv, Beyond, OnTarget
    <2>12. UnknownInv(r)'
        BY <1>1, <2>2, <2>3 DEF LocalInv, UnknownInv, Beyond, OnTarget, Held
    <2>13. EventInv(r)'
        BY <1>1, <2>2, <2>3 DEF LocalInv, EventInv, Beyond, OnTarget, Held
    <2>14. ReadInv(r)'
        BY <1>1, <2>2, <2>3, ReadStays DEF LocalInv
    <2>15. BodyInv(r)'
        BY <1>1, <1>2 DEF LocalInv, BodyInv
    <2> QED
        BY <2>5, <2>6, <2>7, <2>8, <2>9, <2>10, <2>11, <2>12, <2>13, <2>14, <2>15 DEF LocalInv
<1> QED
    BY <1>3, <1>4

LEMMA TargetRead ==
    ASSUME TypeInv, NEW r \in Requests, CheckInv(r), ReadTarget(r), Remember
    PROVE  RequestInv(r)' /\ LocalInv(r)'
<1>1. /\ Shape /\ RequestInv(r) /\ LocalInv(r) /\ FactsInv(r)
      /\ held[r] \subseteq held'[r]
      /\ req' = req /\ self' = self /\ seen' = [seen EXCEPT ![r] = TargetAccount(req[r])] /\ found' = found
      /\ pc[r] = "target"
    BY Remembered DEF TypeInv, CheckInv, ReadTarget
<1>2. status[r] = 0 /\ Serving(r)
    BY <1>1 DEF RequestInv, Serving
<1>3. CASE \E error : Fail(r, error)
    BY <1>1, <1>3, Failed, LocalFails, AccountsRead DEF RequestInv, Shape
<1>4. CASE ~\E error : Fail(r, error)
    <2>1. /\ TargetAccount(req[r]) # NoAccount
          /\ Goto(r, StepAfter(req[r].op, pc[r]))
        BY <1>4, <1>1 DEF ReadTarget, Continue
    <2>2. OnTarget(req[r].op)
        BY <1>1 DEF RequestInv, RequestOK, StepSet, Ops, OnTarget
    <2>3. pc'[r] = "viewer" /\ status'[r] = 0
        BY <1>1, <1>2, <2>1, <2>2, OrderOfSteps, Went DEF OnTarget
    <2>4. RequestInv(r)'
        BY <1>1, <1>2, <2>2, <2>3, AccountsRead DEF RequestInv, StepSet, OnTarget, Shape
    <2>5. PermissionInv(r)'
        BY <1>1, <2>2, <2>3 DEF LocalInv, PermissionInv, Beyond, BehindPermission, OnTarget, Held
    <2>6. SenderInv(r)'
        BY <1>1, <2>2, <2>3 DEF LocalInv, SenderInv, Beyond, BehindSender, OnTarget
    <2>7. OrganizationInv(r)'
        BY <1>1, <2>2, <2>3, HeldIsKept
           DEF LocalInv, OrganizationInv, Beyond, BehindOrganization, OnTarget
    <2>8. TargetInv(r)'
        BY <1>1, <1>2, <2>1, AccountsRead, KnownFacts DEF TargetInv, Shape
    <2>9. ViewInv(r)'
        BY <1>1, <2>2, <2>3, HeldIsKept DEF LocalInv, ViewInv, Beyond, BehindView, OnTarget
    <2>10. GrantInv(r)'
        BY <1>1, <2>2, <2>3 DEF LocalInv, GrantInv, Beyond, OnTarget
    <2>11. UnknownInv(r)'
        BY <1>1, <2>2, <2>3 DEF LocalInv, UnknownInv, Beyond, OnTarget, Held
    <2>12. EventInv(r)'
        BY <1>1, <2>2, <2>3 DEF LocalInv, EventInv, Beyond, OnTarget, Held
    <2>13. ReadInv(r)'
        BY <1>1, <2>2, <2>3, ReadStays DEF LocalInv
    <2>14. BodyInv(r)'
        BY <1>1, <1>2 DEF LocalInv, BodyInv
    <2> QED
        BY <2>4, <2>5, <2>6, <2>7, <2>8, <2>9, <2>10, <2>11, <2>12, <2>13, <2>14 DEF LocalInv
<1> QED
    BY <1>3, <1>4

LEMMA ActiveChecked ==
    ASSUME TypeInv, NEW r \in Requests, CheckInv(r), CheckActive(r), Remember
    PROVE  RequestInv(r)' /\ LocalInv(r)'
<1>1. /\ Shape /\ RequestInv(r) /\ LocalInv(r) /\ FactsInv(r)
      /\ held[r] \subseteq held'[r]
      /\ req' = req /\ self' = [self EXCEPT ![r] = SenderAccount(req[r])] /\ seen' = seen /\ found' = found
      /\ pc[r] \in {"creator", "viewer", "modifier"}
    BY Remembered DEF TypeInv, CheckInv, CheckActive
<1>2. status[r] = 0 /\ Serving(r)
    BY <1>1 DEF RequestInv, Serving
<1>3. CASE \E error : Fail(r, error)
    BY <1>1, <1>3, Failed, LocalFails, AccountsRead DEF RequestInv, Shape
<1>4. CASE ~\E error : Fail(r, error)
    <2>1. /\ SenderAccount(req[r]) # NoAccount /\ SenderAccount(req[r]).active
          /\ Goto(r, IF IsSuper(SenderAccount(req[r])) THEN StepOfSuper(req[r].op, pc[r])
                     ELSE StepAfter(req[r].op, pc[r]))
          /\ self'[r] = SenderAccount(req[r])
        BY <1>4, <1>1 DEF CheckActive, Shape
    <2>2. LET super == IsSuper(SenderAccount(req[r]))
          IN  \/ req[r].op = "addAccount" /\ pc[r] = "creator"
                  /\ pc'[r] = IF super THEN "unknown" ELSE "organization"
              \/ WritesEntity(req[r].op) /\ pc[r] = "creator" /\ pc'[r] = "organization"
              \/ OnTarget(req[r].op) /\ pc[r] = "viewer"
                  /\ pc'[r] = IF ~super THEN "viewPermission"
                              ELSE IF req[r].op = "getAccount" THEN "answered" ELSE "managePermission"
              \/ req[r].op = "modifyAccount" /\ pc[r] = "modifier"
                  /\ pc'[r] = IF super THEN "update" ELSE "modifierOrganization"
        BY <1>1, <2>1, Went, OrderOfSteps DEF RequestInv, RequestOK, StepSet, Ops, OnTarget, WritesEntity, StepOfSuper
    <2>3. status'[r] = IF pc'[r] = "answered" THEN 200 ELSE 0
        BY <1>1, <1>2, <2>1, Went
    <2>4. IsSuper(SenderAccount(req[r])) => OrganizationHeld(r)' /\ SameOrganizationHeld(r)'
        BY <1>1, <1>2, <2>1, KnownFacts, FactsOfSender DEF Held, OrganizationHeld, SameOrganizationHeld
    <2>5. RequestInv(r)'
        BY <1>1, <1>2, <2>2, <2>3, AccountsRead
           DEF RequestInv, StepSet, OnTarget, Shape, WritesEntity
    <2>6. PermissionInv(r)'
        BY <1>1, <2>2, <2>3
           DEF LocalInv, PermissionInv, Beyond, BehindPermission, OnTarget, Held, WritesEntity
    <2>7. SenderInv(r)'
        BY <1>1, <1>2, <2>1, AccountsRead, KnownFacts DEF SenderInv, Shape
    <2>8. OrganizationInv(r)'
        BY <1>1, <2>1, <2>2, <2>3, <2>4, HeldIsKept
           DEF LocalInv, OrganizationInv, Beyond, BehindOrganization, OnTarget, WritesEntity
    <2>9. TargetInv(r)'
        BY <1>1, <2>2, <2>3 DEF LocalInv, TargetInv, Beyond, BehindTarget, OnTarget, WritesEntity
    <2>10. ViewInv(r)'
        BY <1>1, <2>1, <2>2, <2>3, <2>4, HeldIsKept
           DEF LocalInv, ViewInv, Beyond, BehindView, OnTarget, WritesEntity
    <2>11. GrantInv(r)'
        BY <1>1, <2>2, <2>3 DEF GrantInv, Beyond, OnTarget, WritesEntity, Shape
    <2>12. UnknownInv(r)'
        BY <1>1, <2>2, <2>3 DEF LocalInv, UnknownInv, Beyond, OnTarget, Held, WritesEntity
    <2>13. EventInv(r)'
        BY <1>1, <2>2, <2>3 DEF EventInv, Beyond, OnTarget, WritesEntity
    <2>14. ReadInv(r)'
        BY <1>1, <2>2, <2>3, ReadStays DEF LocalInv
    <2>15. BodyInv(r)'
        BY <1>1, <1>2 DEF LocalInv, BodyInv
    <2> QED
        BY <2>5, <2>6, <2>7, <2>8, <2>9, <2>10, <2>11, <2>12, <2>13, <2>14, <2>15 DEF LocalInv
<1> QED
    BY <1>3, <1>4

LEMMA OrganizationChecked ==
    ASSUME TypeInv, NEW r \in Requests, CheckInv(r), CheckOrganization(r), Remember
    PROVE  RequestInv(r)' /\ LocalInv(r)'
<1>1. /\ Shape /\ RequestInv(r) /\ LocalInv(r) /\ FactsInv(r)
      /\ held[r] \subseteq held'[r]
      /\ req' = req /\ self' = self /\ seen' = seen /\ found' = found
      /\ pc[r] \in {"organization", "viewOrganization", "modifierOrganization"}
    BY Remembered DEF TypeInv, CheckInv, CheckOrganization
<1>2. status[r] = 0 /\ Serving(r)
    BY <1>1 DEF RequestInv, Serving
<1>3. CASE \E error : Fail(r, error)
    BY <1>1, <1>3, Failed, LocalFails, AccountsRead DEF RequestInv, Shape
<1>4. CASE ~\E error : Fail(r, error)
    <2>1. self[r].organization \notin disabled /\ Fits(r) /\ Goto(r, StepAfter(req[r].op, pc[r]))
        BY <1>4, <1>1 DEF CheckOrganization, Continue
    <2>2. \/ req[r].op = "addAccount" /\ pc[r] = "organization" /\ pc'[r] = "unknown"
          \/ req[r].op = "createAsset" /\ pc[r] = "organization" /\ pc'[r] = "permission"
          \/ req[r].op = "createEvent" /\ pc[r] = "organization" /\ pc'[r] = "asset"
          \/ OnTarget(req[r].op) /\ pc[r] = "viewOrganization"
              /\ pc'[r] = IF req[r].op = "getAccount" THEN "answered" ELSE "managePermission"
          \/ req[r].op = "modifyAccount" /\ pc[r] = "modifierOrganization" /\ pc'[r] = "update"
        BY <1>1, <2>1, Went, OrderOfSteps DEF RequestInv, RequestOK, StepSet, Ops, OnTarget
    <2>3. status'[r] = IF pc'[r] = "answered" THEN 200 ELSE 0
        BY <1>1, <1>2, <2>1, Went
    <2>4. /\ self[r] \in Account /\ SenderFacts(req[r], self[r]) \subseteq held[r]
          /\ <<"sender in", self[r].organization>> \in held'[r]
          /\ <<"enabled", self[r].organization>> \in held'[r]
          /\ self[r].organization \in Places
        BY <1>1, <1>2, <2>1, <2>2, KnownFacts, FactsOfSender, ApiAssumption DEF LocalInv, SenderInv, Beyond, BehindSender, Account, Protected, ReadsData, OnTarget
    <2>5. pc[r] = "viewOrganization" => SameOrganizationHeld(r)'
        BY <1>1, <2>1, <2>2, <2>4, SeenTogether, ApiAssumption DEF LocalInv, TargetInv, Fits, Beyond, BehindTarget, OnTarget
    <2>6. RequestInv(r)'
        BY <1>1, <1>2, <2>2, <2>3, AccountsRead DEF RequestInv, StepSet, OnTarget, Shape
    <2>7. PermissionInv(r)'
        BY <1>1, <2>2, <2>3 DEF LocalInv, PermissionInv, Beyond, BehindPermission, OnTarget, Held
    <2>8. SenderInv(r)'
        BY <1>1, <2>2, <2>3 DEF LocalInv, SenderInv, Beyond, BehindSender, OnTarget
    <2>9. OrganizationInv(r)'
        BY <1>1, <2>4 DEF OrganizationInv, OrganizationHeld
    <2>10. TargetInv(r)'
        BY <1>1, <2>2, <2>3 DEF LocalInv, TargetInv, Beyond, BehindTarget, OnTarget
    <2>11. ViewInv(r)'
        BY <1>1, <2>2, <2>3, <2>5, HeldIsKept DEF LocalInv, ViewInv, Beyond, BehindView, OnTarget
    <2>12. GrantInv(r)'
        BY <1>1, <2>1, <2>2, <2>3 DEF GrantInv, Fits, Beyond, OnTarget
    <2>13. UnknownInv(r)'
        BY <1>1, <2>2, <2>3 DEF LocalInv, UnknownInv, Beyond, OnTarget, Held
    <2>14. EventInv(r)'
        BY <1>1, <2>1, <2>2, <2>3 DEF EventInv, Fits, Beyond, OnTarget
    <2>15. ReadInv(r)'
        BY <1>1, <2>2, <2>3, ReadStays DEF LocalInv
    <2>16. BodyInv(r)'
        BY <1>1, <1>2 DEF LocalInv, BodyInv
    <2> QED
        BY <2>6, <2>7, <2>8, <2>9, <2>10, <2>11, <2>12, <2>13, <2>14, <2>15, <2>16 DEF LocalInv
<1> QED
    BY <1>3, <1>4

LEMMA UnknownChecked ==
    ASSUME TypeInv, NEW r \in Requests, CheckInv(r), CheckUnknown(r), Remember
    PROVE  RequestInv(r)' /\ LocalInv(r)'
<1>1. /\ Shape /\ RequestInv(r) /\ LocalInv(r) /\ FactsInv(r)
      /\ held[r] \subseteq held'[r]
      /\ req' = req /\ self' = self /\ seen' = seen /\ found' = found
      /\ pc[r] = "unknown"
    BY Remembered DEF TypeInv, CheckInv, CheckUnknown
<1>2. status[r] = 0 /\ Serving(r)
    BY <1>1 DEF RequestInv, Serving
<1>3. CASE \E error : Fail(r, error)
    BY <1>1, <1>3, Failed, LocalFails, AccountsRead DEF RequestInv, Shape
<1>4. CASE ~\E error : Fail(r, error)
    <2>1. TargetAccount(req[r]) = NoAccount /\ Goto(r, StepAfter(req[r].op, pc[r]))
        BY <1>4, <1>1 DEF CheckUnknown, Continue
    <2>2. req[r].op = "addAccount"
        BY <1>1 DEF RequestInv, RequestOK, StepSet, Ops, OnTarget, WritesEntity, ReadsData
    <2>3. pc'[r] = "store" /\ status'[r] = 0
        BY <1>1, <1>2, <2>1, <2>2, OrderOfSteps, Went
    <2>4. RequestInv(r)'
        BY <1>1, <1>2, <2>2, <2>3, AccountsRead DEF RequestInv, StepSet, OnTarget, Shape
    <2>5. PermissionInv(r)'
        BY <1>1, <2>2, <2>3 DEF LocalInv, PermissionInv, Beyond, BehindPermission, OnTarget, Held
    <2>6. SenderInv(r)'
        BY <1>1, <2>2, <2>3 DEF LocalInv, SenderInv, Beyond, BehindSender, OnTarget
    <2>7. OrganizationInv(r)'
        BY <1>1, <2>2, <2>3, HeldIsKept
           DEF LocalInv, OrganizationInv, Beyond, BehindOrganization, OnTarget
    <2>8. TargetInv(r)'
        BY <1>1, <2>2, <2>3 DEF LocalInv, TargetInv, Beyond, BehindTarget, OnTarget
    <2>9. ViewInv(r)'
        BY <1>1, <2>2, <2>3, HeldIsKept DEF LocalInv, ViewInv, Beyond, BehindView, OnTarget
    <2>10. GrantInv(r)'
        BY <1>1, <2>2, <2>3 DEF LocalInv, GrantInv, Beyond, OnTarget
    <2>11. UnknownInv(r)'
        BY <1>1, <1>2, <2>1, KnownFacts, FactsOfTarget DEF LocalInv, UnknownInv, Held
    <2>12. EventInv(r)'
        BY <1>1, <2>2, <2>3 DEF LocalInv, EventInv, Beyond, OnTarget, Held
    <2>13. ReadInv(r)'
        BY <1>1, <2>2, <2>3, ReadStays DEF LocalInv
    <2>14. BodyInv(r)'
        BY <1>1, <1>2 DEF LocalInv, BodyInv
    <2> QED
        BY <2>4, <2>5, <2>6, <2>7, <2>8, <2>9, <2>10, <2>11, <2>12, <2>13, <2>14 DEF LocalInv
<1> QED
    BY <1>3, <1>4

LEMMA AssetChecked ==
    ASSUME TypeInv, NEW r \in Requests, CheckInv(r), CheckAsset(r), Remember
    PROVE  RequestInv(r)' /\ LocalInv(r)'
<1>1. /\ Shape /\ RequestInv(r) /\ LocalInv(r) /\ FactsInv(r)
      /\ held[r] \subseteq held'[r]
      /\ req' = req /\ self' = self /\ seen' = seen /\ found' = found
      /\ pc[r] = "asset"
    BY Remembered DEF TypeInv, CheckInv, CheckAsset
<1>2. status[r] = 0 /\ Serving(r)
    BY <1>1 DEF RequestInv, Serving
<1>3. CASE \E error : Fail(r, error)
    BY <1>1, <1>3, Failed, LocalFails, AccountsRead DEF RequestInv, Shape
<1>4. CASE ~\E error : Fail(r, error)
    <2>1. HasAsset(req[r].body.idData.assetId) /\ Goto(r, StepAfter(req[r].op, pc[r]))
        BY <1>4, <1>1 DEF CheckAsset, Continue
    <2>2. req[r].op = "createEvent"
        BY <1>1 DEF RequestInv, RequestOK, StepSet, Ops, OnTarget, WritesEntity, ReadsData
    <2>3. pc'[r] = "new" /\ status'[r] = 0
        BY <1>1, <1>2, <2>1, <2>2, OrderOfSteps, Went
    <2>4. RequestInv(r)'
        BY <1>1, <1>2, <2>2, <2>3, AccountsRead DEF RequestInv, StepSet, OnTarget, Shape
    <2>5. PermissionInv(r)'
        BY <1>1, <2>2, <2>3 DEF LocalInv, PermissionInv, Beyond, BehindPermission, OnTarget, Held
    <2>6. SenderInv(r)'
        BY <1>1, <2>2, <2>3 DEF LocalInv, SenderInv, Beyond, BehindSender, OnTarget
    <2>7. OrganizationInv(r)'
        BY <1>1, <2>2, <2>3, HeldIsKept
           DEF LocalInv, OrganizationInv, Beyond, BehindOrganization, OnTarget
    <2>8. TargetInv(r)'
        BY <1>1, <2>2, <2>3 DEF LocalInv, TargetInv, Beyond, BehindTarget, OnTarget
    <2>9. ViewInv(r)'
        BY <1>1, <2>2, <2>3, HeldIsKept DEF LocalInv, ViewInv, Beyond, BehindView, OnTarget
    <2>10. GrantInv(r)'
        BY <1>1, <2>2, <2>3 DEF LocalInv, GrantInv, Beyond, OnTarget
    <2>11. UnknownInv(r)'
        BY <1>1, <2>2, <2>3 DEF LocalInv, UnknownInv, Beyond, OnTarget, Held
    <2>12. EventInv(r)'
        BY <1>1, <1>2, <2>1, KnownFacts, HeldIsKept, ZenonT(60) DEF LocalInv, EventInv, Beyond
    <2>13. ReadInv(r)'
        BY <1>1, <2>2, <2>3, ReadStays DEF LocalInv
    <2>14. BodyInv(r)'
        BY <1>1, <1>2 DEF LocalInv, BodyInv
    <2> QED
        BY <2>4, <2>5, <2>6, <2>7, <2>8, <2>9, <2>10, <2>11, <2>12, <2>13, <2>14 DEF LocalInv
<1> QED
    BY <1>3, <1>4

LEMMA NewChecked ==
    ASSUME TypeInv, NEW r \in Requests, CheckInv(r), CheckNew(r), Remember
    PROVE  RequestInv(r)' /\ LocalInv(r)'
<1>1. /\ Shape /\ RequestInv(r) /\ LocalInv(r) /\ FactsInv(r)
      /\ held[r] \subseteq held'[r]
      /\ req' = req /\ self' = self /\ seen' = seen /\ found' = found
      /\ pc[r] = "new"
    BY Remembered DEF TypeInv, CheckInv, CheckNew
<1>2. status[r] = 0 /\ Serving(r)
    BY <1>1 DEF RequestInv, Serving
<1>3. CASE \E error : Fail(r, error)
    BY <1>1, <1>3, Failed, LocalFails, AccountsRead DEF RequestInv, Shape
<1>4. CASE ~\E error : Fail(r, error)
    <2>1. Goto(r, StepAfter(req[r].op, pc[r]))
        BY <1>4, <1>1 DEF CheckNew, Continue
    <2>2. req[r].op \in {"createAsset", "createEvent"}
        BY <1>1 DEF RequestInv, RequestOK, StepSet, Ops, OnTarget, WritesEntity, ReadsData
    <2>3. pc'[r] = "storeEntity" /\ status'[r] = 0
        BY <1>1, <1>2, <2>1, <2>2, OrderOfSteps, Went
    <2>4. RequestInv(r)'
        BY <1>1, <1>2, <2>2, <2>3, AccountsRead DEF RequestInv, StepSet, OnTarget, Shape
    <2>5. PermissionInv(r)'
        BY <1>1, <2>2, <2>3 DEF LocalInv, PermissionInv, Beyond, BehindPermission, OnTarget, Held
    <2>6. SenderInv(r)'
        BY <1>1, <2>2, <2>3 DEF LocalInv, SenderInv, Beyond, BehindSender, OnTarget
    <2>7. OrganizationInv(r)'
        BY <1>1, <2>2, <2>3, HeldIsKept
           DEF LocalInv, OrganizationInv, Beyond, BehindOrganization, OnTarget
    <2>8. TargetInv(r)'
        BY <1>1, <2>2, <2>3 DEF LocalInv, TargetInv, Beyond, BehindTarget, OnTarget
    <2>9. ViewInv(r)'
        BY <1>1, <2>2, <2>3, HeldIsKept DEF LocalInv, ViewInv, Beyond, BehindView, OnTarget
    <2>10. GrantInv(r)'
        BY <1>1, <2>2, <2>3 DEF LocalInv, GrantInv, Beyond, OnTarget
    <2>11. UnknownInv(r)'
        BY <1>1, <2>2, <2>3 DEF LocalInv, UnknownInv, Beyond, OnTarget, Held
    <2>12. EventInv(r)'
        BY <1>1, <2>2, <2>3 DEF LocalInv, EventInv, Beyond, OnTarget, Held
    <2>13. ReadInv(r)'
        BY <1>1, <2>2, <2>3, ReadStays DEF LocalInv
    <2>14. BodyInv(r)'
        BY <1>1, <1>2 DEF LocalInv, BodyInv
    <2> QED
        BY <2>4, <2>5, <2>6, <2>7, <2>8, <2>9, <2>10, <2>11, <2>12, <2>13, <2>14 DEF LocalInv
<1> QED
    BY <1>3, <1>4

LEMMA AccountStored ==
    ASSUME TypeInv, NEW r \in Requests, CheckInv(r), StoreAccount(r), Remember
    PROVE  RequestInv(r)' /\ LocalInv(r)'
<1>1. /\ Shape /\ RequestInv(r) /\ LocalInv(r) /\ FactsInv(r)
      /\ held[r] \subseteq held'[r]
      /\ req' = req /\ self' = self /\ seen' = seen /\ found' = found
      /\ pc[r] = "store"
    BY Remembered DEF TypeInv, CheckInv, StoreAccount
<1>2. status[r] = 0 /\ Serving(r)
    BY <1>1 DEF RequestInv, Serving
<1>3. Answer(r, 201)
    BY <1>1 DEF StoreAccount
<1>4. req[r].op = "addAccount"
    BY <1>1 DEF RequestInv, RequestOK, StepSet, Ops, OnTarget, WritesEntity, ReadsData
<1>5. pc'[r] = "answered" /\ status'[r] = 201
    BY <1>1, <1>3, Answered
<1>6. RequestInv(r)'
    BY <1>1, <1>2, <1>4, <1>5, AccountsRead DEF RequestInv, StepSet, OnTarget, Shape
<1>7. PermissionInv(r)'
    BY <1>1, <1>4, <1>5 DEF LocalInv, PermissionInv, Beyond, BehindPermission, OnTarget, Held
<1>8. SenderInv(r)'
    BY <1>1, <1>4, <1>5 DEF LocalInv, SenderInv, Beyond, BehindSender, OnTarget
<1>9. OrganizationInv(r)'
    BY <1>1, <1>4, <1>5, HeldIsKept
       DEF LocalInv, OrganizationInv, Beyond, BehindOrganization, OnTarget
<1>10. TargetInv(r)'
    BY <1>1, <1>4, <1>5 DEF LocalInv, TargetInv, Beyond, BehindTarget, OnTarget
<1>11. ViewInv(r)'
    BY <1>1, <1>4, <1>5, HeldIsKept DEF LocalInv, ViewInv, Beyond, BehindView, OnTarget
<1>12. GrantInv(r)'
    BY <1>1, <1>4, <1>5 DEF LocalInv, GrantInv, Beyond, OnTarget
<1>13. UnknownInv(r)'
    BY <1>1, <1>4, <1>5 DEF LocalInv, UnknownInv, Beyond, OnTarget, Held
<1>14. EventInv(r)'
    BY <1>1, <1>4, <1>5 DEF LocalInv, EventInv, Beyond, OnTarget, Held
<1>15. ReadInv(r)'
    BY <1>1, <1>4, <1>5, ReadStays DEF LocalInv
<1>16. BodyInv(r)'
    BY <1>1, <1>2 DEF LocalInv, BodyInv
<1> QED
    BY <1>6, <1>7, <1>8, <1>9, <1>10, <1>11, <1>12, <1>13, <1>14, <1>15, <1>16 DEF LocalInv

LEMMA AccountUpdated ==
    ASSUME TypeInv, NEW r \in Requests, CheckInv(r), UpdateAccount(r), Remember
    PROVE  RequestInv(r)' /\ LocalInv(r)'
<1>1. /\ Shape /\ RequestInv(r) /\ LocalInv(r) /\ FactsInv(r)
      /\ held[r] \subseteq held'[r]
      /\ req' = req /\ self' = self /\ seen' = seen /\ found' = found
      /\ pc[r] = "update"
    BY Remembered DEF TypeInv, CheckInv, UpdateAccount
<1>2. status[r] = 0 /\ Serving(r)
    BY <1>1 DEF RequestInv, Serving
<1>3. Answer(r, 200)
    BY <1>1 DEF UpdateAccount
<1>4. req[r].op = "modifyAccount"
    BY <1>1 DEF RequestInv, RequestOK, StepSet, Ops, OnTarget, WritesEntity, ReadsData
<1>5. pc'[r] = "answered" /\ status'[r] = 200
    BY <1>1, <1>3, Answered
<1>6. RequestInv(r)'
    BY <1>1, <1>2, <1>4, <1>5, AccountsRead DEF RequestInv, StepSet, OnTarget, Shape
<1>7. PermissionInv(r)'
    BY <1>1, <1>4, <1>5 DEF LocalInv, PermissionInv, Beyond, BehindPermission, OnTarget, Held
<1>8. SenderInv(r)'
    BY <1>1, <1>4, <1>5 DEF LocalInv, SenderInv, Beyond, BehindSender, OnTarget
<1>9. OrganizationInv(r)'
    BY <1>1, <1>4, <1>5, HeldIsKept
       DEF LocalInv, OrganizationInv, Beyond, BehindOrganization, OnTarget
<1>10. TargetInv(r)'
    BY <1>1, <1>4, <1>5 DEF LocalInv, TargetInv, Beyond, BehindTarget, OnTarget
<1>11. ViewInv(r)'
    BY <1>1, <1>4, <1>5, HeldIsKept DEF LocalInv, ViewInv, Beyond, BehindView, OnTarget
<1>12. GrantInv(r)'
    BY <1>1, <1>4, <1>5 DEF LocalInv, GrantInv, Beyond, OnTarget
<1>13. UnknownInv(r)'
    BY <1>1, <1>4, <1>5 DEF LocalInv, UnknownInv, Beyond, OnTarget, Held
<1>14. EventInv(r)'
    BY <1>1, <1>4, <1>5 DEF LocalInv, EventInv, Beyond, OnTarget, Held
<1>15. ReadInv(r)'
    BY <1>1, <1>4, <1>5, ReadStays DEF LocalInv
<1>16. BodyInv(r)'
    BY <1>1, <1>2 DEF LocalInv, BodyInv
<1> QED
    BY <1>6, <1>7, <1>8, <1>9, <1>10, <1>11, <1>12, <1>13, <1>14, <1>15, <1>16 DEF LocalInv

LEMMA EntityStored ==
    ASSUME TypeInv, NEW r \in Requests, CheckInv(r), StoreEntity(r), Remember
    PROVE  RequestInv(r)' /\ LocalInv(r)'
<1>1. /\ Shape /\ RequestInv(r) /\ LocalInv(r) /\ FactsInv(r)
      /\ held[r] \subseteq held'[r]
      /\ req' = req /\ self' = self /\ seen' = seen /\ found' = found
      /\ pc[r] = "storeEntity"
    BY Remembered DEF TypeInv, CheckInv, StoreEntity
<1>2. status[r] = 0 /\ Serving(r)
    BY <1>1 DEF RequestInv, Serving
<1>3. CASE \E error : Fail(r, error)
    BY <1>1, <1>3, Failed, LocalFails, AccountsRead DEF RequestInv, Shape
<1>4. CASE ~\E error : Fail(r, error)
    <2>1. Answer(r, 201)
        BY <1>4, <1>1 DEF StoreEntity
    <2>2. req[r].op \in {"createAsset", "createEvent"}
        BY <1>1 DEF RequestInv, RequestOK, StepSet, Ops, OnTarget, WritesEntity, ReadsData
    <2>3. pc'[r] = "answered" /\ status'[r] = 201
        BY <1>1, <2>1, Answered
    <2>4. RequestInv(r)'
        BY <1>1, <1>2, <2>2, <2>3, AccountsRead DEF RequestInv, StepSet, OnTarget, Shape
    <2>5. PermissionInv(r)'
        BY <1>1, <2>2, <2>3 DEF LocalInv, PermissionInv, Beyond, BehindPermission, OnTarget, Held
    <2>6. SenderInv(r)'
        BY <1>1, <2>2, <2>3 DEF LocalInv, SenderInv, Beyond, BehindSender, OnTarget
    <2>7. OrganizationInv(r)'
        BY <1>1, <2>2, <2>3, HeldIsKept
           DEF LocalInv, OrganizationInv, Beyond, BehindOrganization, OnTarget
    <2>8. TargetInv(r)'
        BY <1>1, <2>2, <2>3 DEF LocalInv, TargetInv, Beyond, BehindTarget, OnTarget
    <2>9. ViewInv(r)'
        BY <1>1, <2>2, <2>3, HeldIsKept DEF LocalInv, ViewInv, Beyond, BehindView, OnTarget
    <2>10. GrantInv(r)'
        BY <1>1, <2>2, <2>3 DEF LocalInv, GrantInv, Beyond, OnTarget
    <2>11. UnknownInv(r)'
        BY <1>1, <2>2, <2>3 DEF LocalInv, UnknownInv, Beyond, OnTarget, Held
    <2>12. EventInv(r)'
        BY <1>1, <2>2, <2>3 DEF LocalInv, EventInv, Beyond, OnTarget, Held
    <2>13. ReadInv(r)'
        BY <1>1, <2>2, <2>3, ReadStays DEF LocalInv
    <2>14. BodyInv(r)'
        BY <1>1, <1>2 DEF LocalInv, BodyInv
    <2> QED
        BY <2>4, <2>5, <2>6, <2>7, <2>8, <2>9, <2>10, <2>11, <2>12, <2>13, <2>14 DEF LocalInv
<1> QED
    BY <1>3, <1>4

LEMMA LevelRead ==
    ASSUME TypeInv, NEW r \in Requests, CheckInv(r), ReadLevel(r), Remember
    PROVE  RequestInv(r)' /\ LocalInv(r)'
<1>1. /\ Shape /\ RequestInv(r) /\ LocalInv(r) /\ FactsInv(r)
      /\ held[r] \subseteq held'[r]
      /\ req' = req /\ self' = [self EXCEPT ![r] = SenderAccount(req[r])] /\ seen' = seen /\ found' = found
      /\ pc[r] = "level"
    BY Remembered DEF TypeInv, CheckInv, ReadLevel
<1>2. status[r] = 0 /\ Serving(r)
    BY <1>1 DEF RequestInv, Serving
<1>3. Goto(r, StepAfter(req[r].op, pc[r]))
    BY <1>1 DEF ReadLevel, Continue
<1>4. req[r].op \in {"findAssets", "getEvent", "findEvents"}
    BY <1>1 DEF RequestInv, RequestOK, StepSet, Ops, OnTarget, WritesEntity, ReadsData
<1>5. pc'[r] = "events" /\ status'[r] = 0
    BY <1>1, <1>2, <1>3, <1>4, OrderOfSteps, Went
<1>6. RequestInv(r)'
    BY <1>1, <1>2, <1>4, <1>5, AccountsRead DEF RequestInv, StepSet, OnTarget, Shape
<1>7. PermissionInv(r)'
    BY <1>1, <1>4 DEF PermissionInv, Protected, ReadsData
<1>8. SenderInv(r)'
    BY <1>1, <1>4 DEF SenderInv, Protected, ReadsData
<1>9. OrganizationInv(r)'
    BY <1>1, <1>4 DEF OrganizationInv, NeedsOrganization
<1>10. TargetInv(r)'
    BY <1>1, <1>4 DEF TargetInv, OnTarget
<1>11. ViewInv(r)'
    BY <1>1, <1>4 DEF ViewInv, OnTarget
<1>12. GrantInv(r)'
    BY <1>1, <1>4 DEF GrantInv
<1>13. UnknownInv(r)'
    BY <1>1, <1>4 DEF UnknownInv
<1>14. EventInv(r)'
    BY <1>1, <1>4 DEF EventInv
<1>15. ReadInv(r)'
    BY <1>1, <1>2, KnownFacts, ReadStays DEF LocalInv, Shape
<1>16. BodyInv(r)'
    BY <1>1, <1>4 DEF BodyInv, WritesEntity
<1> QED
    BY <1>6, <1>7, <1>8, <1>9, <1>10, <1>11, <1>12, <1>13, <1>14, <1>15, <1>16 DEF LocalInv

LEMMA AssetsRead ==
    ASSUME TypeInv, NEW r \in Requests, CheckInv(r), ReadAssets(r), Remember
    PROVE  RequestInv(r)' /\ LocalInv(r)'
<1>1. /\ Shape /\ RequestInv(r) /\ LocalInv(r) /\ FactsInv(r)
      /\ held[r] \subseteq held'[r]
      /\ req' = req /\ self' = self /\ seen' = seen /\ found' = found
      /\ pc[r] = "assets"
    BY Remembered DEF TypeInv, CheckInv, ReadAssets
<1>2. status[r] = 0 /\ Serving(r)
    BY <1>1 DEF RequestInv, Serving
<1>3. CASE \E error : Fail(r, error)
    BY <1>1, <1>3, Failed, LocalFails, AccountsRead DEF RequestInv, Shape
<1>4. CASE ~\E error : Fail(r, error)
    <2>1. Goto(r, StepAfter(req[r].op, pc[r]))
        BY <1>4, <1>1 DEF ReadAssets, Continue
    <2>2. req[r].op \in {"getAsset", "findAssets"}
        BY <1>1 DEF RequestInv, RequestOK, StepSet, Ops, OnTarget, WritesEntity, ReadsData
    <2>3. pc'[r] = "answered" /\ status'[r] = 200
        BY <1>1, <1>2, <2>1, <2>2, OrderOfSteps, Went
    <2>4. RequestInv(r)'
        BY <1>1, <1>2, <2>2, <2>3, AccountsRead DEF RequestInv, StepSet, OnTarget, Shape
    <2>5. PermissionInv(r)'
        BY <1>1, <2>2 DEF PermissionInv, Protected, ReadsData
    <2>6. SenderInv(r)'
        BY <1>1, <2>2 DEF SenderInv, Protected, ReadsData
    <2>7. OrganizationInv(r)'
        BY <1>1, <2>2 DEF OrganizationInv, NeedsOrganization
    <2>8. TargetInv(r)'
        BY <1>1, <2>2 DEF TargetInv, OnTarget
    <2>9. ViewInv(r)'
        BY <1>1, <2>2 DEF ViewInv, OnTarget
    <2>10. GrantInv(r)'
        BY <1>1, <2>2 DEF GrantInv
    <2>11. UnknownInv(r)'
        BY <1>1, <2>2 DEF UnknownInv
    <2>12. EventInv(r)'
        BY <1>1, <2>2 DEF EventInv
    <2>13. ReadInv(r)'
        BY <1>1, <2>2, <2>3, ReadStays DEF LocalInv
    <2>14. BodyInv(r)'
        BY <1>1, <2>2 DEF BodyInv, WritesEntity
    <2> QED
        BY <2>4, <2>5, <2>6, <2>7, <2>8, <2>9, <2>10, <2>11, <2>12, <2>13, <2>14 DEF LocalInv
<1> QED
    BY <1>3, <1>4
\* A page of events shows the data of none above the level, and if the query has data
\* criteria there is none above the level on it.
LEMMA EventsFound ==
    ASSUME TypeInv, NEW r \in Requests, NEW read \in EventsRead(r), NEW e \in read
    PROVE  /\ e.idData.level \in Nat
           /\ e.data # Absent \/ (req[r].op # "getEvent" /\ req[r].body.data # Absent) =>
                e.idData.level <= LevelOf(self[r])
<1> DEFINE level == LevelOf(self[r])
           wanted == {x \in ToSet(events) : x.idData.level <= level /\ x.data = req[r].body.data}
<1>1. \A x \in ToSet(events) :
        /\ HideEventData(x, level).idData = x.idData
        /\ x.idData.level \in Nat
        /\ HideEventData(x, level).data # Absent => x.idData.level <= level
    <2> SUFFICES ASSUME NEW x \in ToSet(events)
                 PROVE  /\ HideEventData(x, level).idData = x.idData
                        /\ x.idData.level \in Nat
                        /\ HideEventData(x, level).data # Absent => x.idData.level <= level
        OBVIOUS
    <2>1. IsBody(x)
        BY DEF TypeInv, DatabaseInv, EntitiesInv
    <2> HIDE DEF level
    <2>2. CASE x.idData.level <= level
        BY <2>1, <2>2 DEF HideEventData, IsBody
    <2>3. CASE ~(x.idData.level <= level)
        <3>1. HideEventData(x, level) = [x EXCEPT !.data = Absent]
            BY <2>3 DEF HideEventData
        <3> QED
            BY <2>1, <3>1 DEF IsBody
    <2> QED
        BY <2>2, <2>3
<1>2. CASE req[r].op = "getEvent"
    <2>1. PICK x \in ToSet(events) : e = HideEventData(x, level)
        BY <1>2 DEF EventsRead
    <2> HIDE DEF level
    <2>2. e.data # Absent => e.idData.level <= level
        BY <1>1, <2>1
    <2> QED
        BY <1>1, <1>2, <2>1, <2>2 DEF level
<1>3. CASE req[r].op # "getEvent"
    <2>1. read \in FindEvents(ToSet(events), req[r].body.data, level, DefaultPerPage)
        BY <1>3 DEF EventsRead
    <2>2. PICK page \in SUBSET (IF req[r].body.data = Absent THEN ToSet(events) ELSE wanted) :
                read = {HideEventData(x, level) : x \in page}
        BY <2>1 DEF FindEvents, FirstPages
    <2>3. PICK x \in page : e = HideEventData(x, level)
        BY <2>2
    <2>4. x \in ToSet(events) /\ (req[r].body.data # Absent => x.idData.level <= level)
        BY <2>2, <2>3
    <2> HIDE DEF level
    <2>5. e.data # Absent \/ req[r].body.data # Absent => e.idData.level <= level
        BY <1>1, <2>3, <2>4
    <2> QED
        BY <1>1, <2>3, <2>4, <2>5 DEF level
<1> QED
    BY <1>2, <1>3

LEMMA EventsAnswered ==
    ASSUME TypeInv, NEW r \in Requests, CheckInv(r), ReadEvents(r), Remember
    PROVE  RequestInv(r)' /\ LocalInv(r)'
<1>1. PICK read \in EventsRead(r) :
        /\ found' = [found EXCEPT ![r] = {e.idData.level : e \in {e \in read :
                        e.data # Absent \/ (req[r].op # "getEvent" /\ req[r].body.data # Absent)}}]
        /\ IF req[r].op = "getEvent" /\ read = {} THEN Fail(r, "notFound") ELSE Continue(r)
    BY DEF ReadEvents
<1>2. /\ Shape /\ RequestInv(r) /\ LocalInv(r) /\ FactsInv(r)
      /\ held[r] \subseteq held'[r]
      /\ req' = req /\ self' = self /\ seen' = seen
      /\ pc[r] = "events"
    BY Remembered DEF TypeInv, CheckInv, ReadEvents
<1>3. status[r] = 0 /\ Serving(r) /\ req[r].op \in {"findAssets", "getEvent", "findEvents"}
    BY <1>2 DEF RequestInv, Serving, RequestOK, StepSet, Ops
<1>4. found'[r] \subseteq Nat /\ \A n \in found'[r] : n <= LevelOf(self[r])
    BY <1>1, <1>2, EventsFound DEF Shape
<1>5. <<"level", LevelOf(self[r])>> \in held'[r]
    BY <1>2 DEF LocalInv, ReadInv
<1>6. ReadInv(r)' \/ pc'[r] = "events"
    <2>1. ASSUME NEW n \in found'[r]
          PROVE  \E fact \in held'[r] : fact[1] = "level" /\ n <= fact[2]
        <3> WITNESS <<"level", LevelOf(self[r])>> \in held'[r]
        <3> QED
            BY <1>4, <2>1
    <2> QED
        BY <1>2, <1>3, <2>1 DEF ReadInv, ReadsData
<1>7. CASE Fail(r, "notFound") /\ read = {}
    <2>1. found'[r] = {}
        BY <1>1, <1>2, <1>7 DEF Shape
    <2> QED
        BY <1>2, <1>7, <2>1, Failed, LocalFails DEF RequestInv
<1>8. CASE Continue(r)
    <2>1. pc'[r] = IF req[r].op = "findAssets" THEN "assets" ELSE "answered"
        BY <1>2, <1>3, <1>8, OrderOfSteps, Went DEF Continue
    <2>2. status'[r] = IF req[r].op = "findAssets" THEN 0 ELSE 200
        BY <1>2, <1>3, <1>8, OrderOfSteps, Went DEF Continue
    <2>3. RequestInv(r)'
        BY <1>2, <1>3, <1>4, <2>1, <2>2 DEF RequestInv, StepSet
    <2>4. PermissionInv(r)' /\ SenderInv(r)'
        BY <1>2, <1>3 DEF PermissionInv, SenderInv, Protected, ReadsData
    <2>5. OrganizationInv(r)' /\ TargetInv(r)' /\ ViewInv(r)'
        BY <1>2, <1>3 DEF OrganizationInv, TargetInv, ViewInv, NeedsOrganization, OnTarget
    <2>6. GrantInv(r)' /\ UnknownInv(r)' /\ EventInv(r)' /\ BodyInv(r)'
        BY <1>2, <1>3 DEF GrantInv, UnknownInv, EventInv, BodyInv, WritesEntity
    <2> QED
        BY <1>6, <2>1, <2>3, <2>4, <2>5, <2>6 DEF LocalInv
<1> QED
    BY <1>1, <1>7, <1>8

\* Who is no super account gets accounts that its own organization finds.
LEMMA AccountsFound ==
    ASSUME TypeInv, NEW r \in Requests, CheckInv(r), FindAccounts(r), Remember
    PROVE  RequestInv(r)' /\ LocalInv(r)'
<1>1. /\ Shape /\ RequestInv(r) /\ LocalInv(r) /\ FactsInv(r)
      /\ held[r] \subseteq held'[r]
      /\ req' = req /\ self' = self /\ seen' = seen
      /\ pc[r] = "find"
    BY Remembered DEF TypeInv, CheckInv, FindAccounts
<1>2. status[r] = 0 /\ Serving(r) /\ req[r].op = "findAccounts"
    BY <1>1 DEF RequestInv, Serving, RequestOK, StepSet, Ops
<1>3. pc'[r] = "answered" /\ status'[r] = 200
    BY <1>1, Answered DEF FindAccounts
<1>4. /\ self[r] \in Account /\ SenderFacts(req[r], self[r]) \subseteq held'[r]
      /\ Held(r, "permission")' /\ self[r].active
    BY <1>1, <1>2 DEF LocalInv, SenderInv, PermissionInv, Beyond, BehindSender, BehindPermission,
                      Protected, ReadsData, Held
<1>5. /\ found'[r] \subseteq {account[a].organization :
                                a \in {a \in Addresses : account[a] # NoAccount}}
      /\ IsSuper(self[r]) \/ found'[r] \subseteq Matching(self[r].organization)
    BY <1>1 DEF FindAccounts, Shape
<1>6. found'[r] \subseteq Nat \cup {Null, Missing}
    <2>1. \A a \in Addresses :
            account[a] # NoAccount => account[a].organization \in Nat \cup {Null, Missing}
        BY ApiAssumption DEF TypeInv, DatabaseInv, Account, Places
    <2> QED
        BY <1>5, <2>1
<1>7. RequestInv(r)'
    BY <1>1, <1>3, <1>6 DEF RequestInv
<1>8. ReadInv(r)'
    <2>1. <<"sender in", self[r].organization>> \in held'[r]
          /\ (IsSuper(self[r]) => <<"super", 0>> \in held'[r])
        BY <1>4, FactsOfSender, ApiAssumption
    <2>2. ASSUME NEW n \in found'[r], ~IsSuper(self[r])
          PROVE  \/ n = self[r].organization \/ self[r].organization = Missing
                 \/ n = Missing /\ self[r].organization = Null
        BY <1>5, <2>2 DEF Matching
    <2> QED
        BY <1>1, <1>2, <1>3, <2>1, <2>2 DEF ReadInv, Held, ReadsData, OwnOrganization
<1>9. PermissionInv(r)' /\ SenderInv(r)'
    BY <1>1, <1>4 DEF PermissionInv, SenderInv
<1>10. OrganizationInv(r)' /\ TargetInv(r)' /\ ViewInv(r)'
    BY <1>1, <1>2 DEF OrganizationInv, TargetInv, ViewInv, NeedsOrganization, OnTarget
<1>11. GrantInv(r)' /\ UnknownInv(r)' /\ EventInv(r)' /\ BodyInv(r)'
    BY <1>1, <1>2 DEF GrantInv, UnknownInv, EventInv, BodyInv, WritesEntity
<1> QED
    BY <1>7, <1>8, <1>9, <1>10, <1>11 DEF LocalInv

LEMMA Arrived ==
    ASSUME TypeInv, NEW r \in Requests, CheckInv(r), Arrive(r), Remember
    PROVE  RequestInv(r)' /\ LocalInv(r)'
<1>1. /\ Shape /\ RequestInv(r) /\ LocalInv(r)
      /\ held[r] \subseteq held'[r]
      /\ self' = self /\ seen' = seen /\ found' = found
      /\ pc[r] = "free" /\ found[r] = {} /\ status[r] = 0
    BY Remembered DEF TypeInv, CheckInv, Arrive, RequestInv
<1> DEFINE secret(q) == AmbAuthorization(q.header, SecretsEnabled).secret
           body(q) == Complete(q, secret(q))
<1>2. PICK q \in Inputs :
        /\ req' = [req EXCEPT ![r] = [q EXCEPT !.body = body(q)]]
        /\ IF FirstError(q, body(q)) = "no"
             THEN pc' = [pc EXCEPT ![r] = Steps(q.op)[1]] /\ UNCHANGED status
             ELSE Fail(r, FirstError(q, body(q)))
    BY DEF Arrive
<1>3. /\ IsBody(body(q))
      /\ WritesEntity(q.op) /\ FirstError(q, body(q)) = "no" => IsValid(body(q))
    BY CompletedBody, ArrivedBody
<1> HIDE DEF body
<1>4. /\ req'[r] = [q EXCEPT !.body = body(q)]
      /\ req'[r].op = q.op /\ req'[r].body = body(q) /\ req'[r].target = q.target
      /\ req'[r].change = q.change /\ req'[r].wellFormed = q.wellFormed
    BY <1>1, <1>2, InputsAssumption DEF Shape
<1>5. RequestOK(req'[r])
    BY <1>3, <1>4, InputsAssumption DEF RequestOK
<1>6. CASE FirstError(q, body(q)) # "no"
    BY <1>1, <1>2, <1>5, <1>6, Failed, LocalFails DEF RequestInv
<1>7. CASE FirstError(q, body(q)) = "no"
    <2>1. q.op \in Ops /\ pc'[r] = Steps(q.op)[1] /\ status'[r] = 0
        BY <1>1, <1>2, <1>7, InputsAssumption DEF Shape
    <2>2. pc'[r] \in StepSet(q.op) /\ pc'[r] # "answered" /\ pc'[r] # "free"
        BY <2>1, StepSetIs DEF StepSet
    <2>3. RequestInv(r)'
        BY <1>1, <1>4, <1>5, <2>1, <2>2 DEF RequestInv
    <2>4. pc'[r] \in {"permission", "sender", "finder", "creator", "assets", "level"}
          /\ (pc'[r] = "permission" => q.op \in {"addAccount", "createEvent"})
          /\ (pc'[r] = "creator" => q.op = "createAsset")
        BY <2>1 DEF Steps, Ops
    <2>5. PermissionInv(r)' /\ SenderInv(r)'
        BY <1>4, <2>1, <2>4 DEF PermissionInv, SenderInv, Beyond, BehindPermission, BehindSender
    <2>6. OrganizationInv(r)' /\ TargetInv(r)' /\ ViewInv(r)'
        BY <1>4, <2>1, <2>4
           DEF OrganizationInv, TargetInv, ViewInv, Beyond, BehindOrganization, BehindTarget,
               BehindView
    <2>7. GrantInv(r)' /\ UnknownInv(r)' /\ EventInv(r)'
        BY <1>4, <2>1, <2>4 DEF GrantInv, UnknownInv, EventInv, Beyond
    <2>8. ReadInv(r)' /\ BodyInv(r)'
        BY <1>1, <1>3, <1>4, <1>7, <2>4 DEF ReadInv, BodyInv
    <2> QED
        BY <2>3, <2>5, <2>6, <2>7, <2>8 DEF LocalInv
<1> QED
    BY <1>6, <1>7

-----------------------------------------------------------------------------
(* The database, and the rights in it *)

LEMMA AddedAccount ==
    ASSUME NEW change, IsChange(change),
           {"permissions", "accessLevel"} \subseteq DOMAIN change
    PROVE  LET a == Over([active |-> TRUE], Over(change, [organization |-> Null]))
           IN  a \in Account /\ a.permissions = change.permissions
<1> DEFINE rest == Over(change, [organization |-> Null])
           a == Over([active |-> TRUE], rest)
<1>1. /\ DOMAIN rest = DOMAIN change \cup {"organization"}
      /\ \A f \in DOMAIN rest : rest[f] = IF f \in DOMAIN change THEN change[f] ELSE Null
    BY DEF Over
<1>2. /\ rest.permissions = change.permissions /\ rest.accessLevel = change.accessLevel
      /\ rest.organization \in Places
    BY <1>1 DEF IsChange, Places
<1> HIDE DEF rest
<1>3. a = [f \in {"active"} \cup DOMAIN rest |-> IF f = "active" THEN TRUE ELSE rest[f]]
    <2> DEFINE one == [active |-> TRUE]
    <2>1. DOMAIN one = {"active"} /\ one["active"] = TRUE
        OBVIOUS
    <2>2. a = [f \in DOMAIN one \cup DOMAIN rest |-> IF f \in DOMAIN one THEN one[f] ELSE rest[f]]
        BY DEF Over
    <2> HIDE DEF one, a
    <2> QED
        BY <2>1, <2>2
<1>4. {"active"} \cup DOMAIN rest = {"active", "permissions", "accessLevel", "organization"}
    BY <1>1 DEF IsChange
<1>5. a = [active |-> TRUE, permissions |-> change.permissions,
           accessLevel |-> change.accessLevel, organization |-> rest.organization]
    BY <1>2, <1>3, <1>4
<1>6. a \in Account /\ a.permissions = change.permissions
    <2>1. change.permissions \subseteq Permissions /\ change.accessLevel \in Nat
        BY DEF IsChange
    <2> HIDE DEF a
    <2> QED
        BY <1>2, <1>5, <2>1 DEF Account
<1> QED
    BY <1>6 DEF rest

LEMMA ChangedAccount ==
    ASSUME NEW change, IsChange(change), NEW old \in Account
    PROVE  /\ Over(change, old) \in Account
           /\ Over(change, old).permissions =
                IF "permissions" \in DOMAIN change THEN change.permissions ELSE old.permissions
<1>1. DOMAIN old = {"active", "permissions", "accessLevel", "organization"}
    BY DEF Account
<1>2. DOMAIN change \cup DOMAIN old = {"active", "permissions", "accessLevel", "organization"}
    BY <1>1 DEF IsChange
<1>3. Over(change, old) =
        [f \in {"active", "permissions", "accessLevel", "organization"} |->
            IF f \in DOMAIN change THEN change[f] ELSE old[f]]
    BY <1>2 DEF Over
<1>4. /\ old.active \in BOOLEAN /\ old.permissions \subseteq Permissions
      /\ old.accessLevel \in Nat /\ old.organization \in Places
    BY DEF Account
<1>5. Over(change, old) =
        [active |-> IF "active" \in DOMAIN change THEN change.active ELSE old.active,
         permissions |-> IF "permissions" \in DOMAIN change THEN change.permissions
                         ELSE old.permissions,
         accessLevel |-> IF "accessLevel" \in DOMAIN change THEN change.accessLevel
                         ELSE old.accessLevel,
         organization |-> IF "organization" \in DOMAIN change THEN change.organization
                          ELSE old.organization]
    BY <1>3
<1> QED
    BY <1>4, <1>5 DEF Account, IsChange, Places

\* A permission somebody passes on, it has; and one it has was there or was given.
LEMMA PassedOn ==
    ASSUME RightsInv, NEW r \in Requests, LocalInv(r), Grants(r),
           \/ req[r].op = "addAccount" /\ pc[r] = "store"
           \/ req[r].op = "modifyAccount" /\ pc[r] = "update"
    PROVE  /\ granted \subseteq granted'
           /\ "permissions" \in DOMAIN req[r].change => req[r].change.permissions \subseteq granted'
<1>1. self[r] \in Account
    BY DEF LocalInv, SenderInv, Beyond, BehindSender, Protected, ReadsData
<1>2. IsSuper(self[r]) \/ NoExceeding(self[r], req[r].change)
    BY DEF LocalInv, GrantInv, Beyond
<1>3. self[r].permissions \subseteq granted
    BY <1>1 DEF RightsInv
<1> QED
    BY <1>2, <1>3 DEF Grants, NoExceeding

LEMMA SequenceGrows ==
    ASSUME NEW s, s \in Seq(ToSet(s)), NEW e
    PROVE  /\ Append(s, e) \in Seq(ToSet(Append(s, e)))
           /\ ToSet(Append(s, e)) = ToSet(s) \cup {e}
           /\ (IsInjective(s) /\ e \notin ToSet(s)) => IsInjective(Append(s, e))
<1>1. s \in Seq(ToSet(s) \cup {e}) /\ Append(s, e) \in Seq(ToSet(s) \cup {e})
    OBVIOUS
<1>2. /\ Len(Append(s, e)) = Len(s) + 1
      /\ DOMAIN Append(s, e) = 1..(Len(s) + 1)
      /\ \A i \in 1..Len(s) : Append(s, e)[i] = s[i]
      /\ Append(s, e)[Len(s) + 1] = e
      /\ DOMAIN s = 1..Len(s) /\ Len(s) \in Nat
    BY <1>1
<1>3. ToSet(Append(s, e)) = ToSet(s) \cup {e}
    BY <1>2 DEF ToSet
<1>4. ASSUME IsInjective(s), e \notin ToSet(s) PROVE IsInjective(Append(s, e))
    BY <1>2, <1>4 DEF IsInjective, ToSet
<1> QED
    BY <1>1, <1>3, <1>4

LEMMA EntityInserted ==
    ASSUME TypeInv, NEW r \in Requests, CheckInv(r), StoreEntity(r)
    PROVE  EntitiesInv'
<1>1. WritesEntity(req[r].op) /\ Serving(r) /\ EntitiesInv
    BY DEF StoreEntity, TypeInv, DatabaseInv, RequestInv, RequestOK, StepSet, Ops, Serving,
           WritesEntity
<1>2. IsBody(req[r].body) /\ IsValid(req[r].body)
    BY <1>1 DEF CheckInv, LocalInv, BodyInv, TypeInv, RequestInv, RequestOK
<1>3. CASE HasEntity(req[r].body.id)
    BY <1>1, <1>3 DEF StoreEntity, EntitiesInv
<1>4. CASE ~HasEntity(req[r].body.id)
    <2>1. req[r].body \notin ToSet(assets) /\ req[r].body \notin ToSet(events)
        BY <1>4 DEF HasEntity, HasAsset, ToSet
    <2>2. InsertOne(r)
        BY <1>4 DEF StoreEntity
    <2>3. CASE assets' = Append(assets, req[r].body) /\ UNCHANGED events
        BY <1>1, <1>2, <2>1, <2>3, SequenceGrows DEF EntitiesInv
    <2>4. CASE events' = Append(events, req[r].body) /\ UNCHANGED assets
        BY <1>1, <1>2, <2>1, <2>4, SequenceGrows DEF EntitiesInv
    <2> QED
        BY <2>2, <2>3, <2>4 DEF InsertOne
<1> QED
    BY <1>3, <1>4

\* Accounts are added and changed, and rights given, so that none comes from nowhere.
DatabaseGrows ==
    /\ DatabaseInv'
    /\ NoRightFromNowhere'
    /\ granted \subseteq granted'
    /\ \A a \in Addresses : account[a] # NoAccount => account'[a] # NoAccount

LEMMA AccountWritten ==
    ASSUME TypeInv, RightsInv, NEW r \in Requests, CheckInv(r),
           StoreAccount(r) \/ UpdateAccount(r)
    PROVE  DatabaseGrows
<1>1. RequestInv(r) /\ LocalInv(r) /\ KnownInv(r)
    BY DEF CheckInv, TypeInv
<1>2. PICK new \in Account :
        /\ req[r].target \in Addresses
        /\ account' = [account EXCEPT ![req[r].target] = new]
        /\ new.permissions \subseteq granted'
        /\ granted \subseteq granted'
    <2>1. CASE StoreAccount(r)
        <3> DEFINE new == Over([active |-> TRUE], Over(req[r].change, [organization |-> Null]))
        <3>1. req[r].op = "addAccount" /\ pc[r] = "store"
            BY <1>1, <2>1 DEF StoreAccount, RequestInv, RequestOK, StepSet, Ops
        <3>2. /\ req[r].target \in Addresses /\ IsChange(req[r].change)
              /\ {"permissions", "accessLevel"} \subseteq DOMAIN req[r].change
            BY <1>1, <3>1 DEF RequestInv, RequestOK, LocalInv, UnknownInv
        <3>3. new \in Account /\ new.permissions = req[r].change.permissions
            BY <3>2, AddedAccount
        <3>4. account' = [account EXCEPT ![req[r].target] = new] /\ Grants(r)
            BY <2>1 DEF StoreAccount
        <3>5. granted \subseteq granted' /\ req[r].change.permissions \subseteq granted'
            BY <1>1, <3>1, <3>2, <3>4, PassedOn
        <3> QED
            BY <3>2, <3>3, <3>4, <3>5
    <2>2. CASE UpdateAccount(r)
        <3> DEFINE old == account[req[r].target]
                   new == Over(req[r].change, old)
        <3>1. req[r].op = "modifyAccount" /\ pc[r] = "update"
            BY <1>1, <2>2 DEF UpdateAccount, RequestInv, RequestOK, StepSet, Ops
        <3>2. req[r].target \in Addresses /\ old \in Account /\ IsChange(req[r].change)
            BY <1>1, <3>1 DEF KnownInv, BehindTarget, TypeInv, DatabaseInv, RequestInv, RequestOK
        <3>3. /\ new \in Account
              /\ new.permissions = IF "permissions" \in DOMAIN req[r].change
                                     THEN req[r].change.permissions ELSE old.permissions
            BY <3>2, ChangedAccount
        <3>4. account' = [account EXCEPT ![req[r].target] = new] /\ Grants(r)
            BY <2>2 DEF UpdateAccount
        <3>5. /\ granted \subseteq granted'
              /\ "permissions" \in DOMAIN req[r].change =>
                    req[r].change.permissions \subseteq granted'
            BY <1>1, <3>1, <3>4, PassedOn
        <3>6. old.permissions \subseteq granted
            BY <3>2, ApiAssumption DEF RightsInv, NoRightFromNowhere
        <3> QED
            BY <3>2, <3>3, <3>4, <3>5, <3>6
    <2> QED
        BY <2>1, <2>2
<1>3. account \in [Addresses -> Account \cup {NoAccount}]
    BY DEF TypeInv, DatabaseInv
<1>4. /\ account' \in [Addresses -> Account \cup {NoAccount}]
      /\ account'[req[r].target] = new
      /\ \A a \in Addresses \ {req[r].target} : account'[a] = account[a]
    BY <1>2, <1>3
<1>5. UNCHANGED <<disabled, assets, events, toggles>>
    BY DEF StoreAccount, UpdateAccount
<1>6. DatabaseInv'
    BY <1>4, <1>5 DEF TypeInv, DatabaseInv, EntitiesInv
<1>7. NoRightFromNowhere'
    BY <1>2, <1>4 DEF RightsInv, NoRightFromNowhere
<1>8. \A a \in Addresses : account[a] # NoAccount => account'[a] # NoAccount
    BY <1>2, <1>4, ApiAssumption
<1> QED
    BY <1>2, <1>6, <1>7, <1>8 DEF DatabaseGrows

LEMMA DatabaseStep ==
    ASSUME TypeInv, RightsInv, NEW r \in Requests, CheckInv(r), Serve(r)
    PROVE  DatabaseGrows
<1>1. CASE StoreAccount(r) \/ UpdateAccount(r)
    BY <1>1, AccountWritten
<1>2. CASE StoreEntity(r)
    <2>1. EntitiesInv'
        BY <1>2, EntityInserted
    <2>2. UNCHANGED <<account, disabled, granted, toggles>>
        BY <1>2 DEF StoreEntity
    <2> QED
        BY <2>1, <2>2 DEF TypeInv, DatabaseInv, DatabaseGrows, RightsInv, NoRightFromNowhere
<1>3. CASE UNCHANGED <<account, disabled, assets, events, granted, toggles>>
    BY <1>3 DEF TypeInv, DatabaseInv, EntitiesInv, DatabaseGrows, RightsInv, NoRightFromNowhere
<1> QED
    BY <1>1, <1>2, <1>3
       DEF Serve, Arrive, CheckPermission, CheckSender, ReadTarget, CheckActive,
           CheckOrganization, CheckUnknown, CheckAsset, CheckNew, ReadLevel, ReadEvents,
           ReadAssets, FindAccounts, dbVars

LEMMA DatabaseToggled ==
    ASSUME TypeInv, RightsInv, NEW o \in Organizations, Toggle(o)
    PROVE  DatabaseGrows
<1>1. disabled' \subseteq Organizations /\ toggles' \in 0..MaxToggles
    BY ApiAssumption DEF Toggle, TypeInv, DatabaseInv
<1> QED
    BY <1>1 DEF Toggle, TypeInv, DatabaseInv, EntitiesInv, DatabaseGrows, RightsInv,
               NoRightFromNowhere

-----------------------------------------------------------------------------
(* The invariant is inductive *)

LEMMA Served ==
    ASSUME TypeInv, NEW r \in Requests, CheckInv(r), Serve(r), Remember
    PROVE  RequestInv(r)' /\ LocalInv(r)'
BY Arrived, PermissionChecked, SenderChecked, TargetRead, ActiveChecked, OrganizationChecked,
   UnknownChecked, AccountStored, AccountUpdated, AssetChecked, NewChecked, EntityStored,
   LevelRead, EventsAnswered, AssetsRead, AccountsFound
   DEF Serve

LEMMA SelfRead ==
    ASSUME NEW r \in Requests, Serve(r)
    PROVE  self' = self \/ self' = [self EXCEPT ![r] = SenderAccount(req[r])]
<1>1. CASE CheckSender(r) \/ CheckActive(r) \/ ReadLevel(r)
    BY <1>1 DEF CheckSender, CheckActive, ReadLevel
<1>2. CASE ~(CheckSender(r) \/ CheckActive(r) \/ ReadLevel(r))
    BY <1>2 DEF Serve, Arrive, CheckPermission, ReadTarget, CheckOrganization, CheckUnknown,
                StoreAccount, UpdateAccount, CheckAsset, CheckNew, StoreEntity, ReadEvents,
                ReadAssets, FindAccounts
<1> QED
    BY <1>1, <1>2

\* The steps before a request knows its target.
LEMMA FirstSteps ==
    ASSUME NEW r \in Requests, Serve(r)
    PROVE  /\ pc[r] = "free" => Arrive(r)
           /\ pc[r] = "sender" => CheckSender(r)
           /\ pc[r] = "permission" => CheckPermission(r)
           /\ pc[r] = "target" => ReadTarget(r)
           /\ pc[r] # "answered"
BY DEF Serve, Arrive, CheckSender, CheckPermission, ReadTarget, CheckActive, CheckOrganization,
       CheckUnknown, StoreAccount, UpdateAccount, CheckAsset, CheckNew, StoreEntity, ReadLevel,
       ReadEvents, ReadAssets, FindAccounts

LEMMA TargetStays ==
    ASSUME TypeInv, NEW r \in Requests, CheckInv(r), Serve(r), DatabaseGrows
    PROVE  KnownInv(r)'
<1> SUFFICES ASSUME req'[r].op = "modifyAccount", pc'[r] \in BehindTarget
             PROVE  req'[r].target \in Addresses /\ account'[req'[r].target] # NoAccount
    BY DEF KnownInv
<1>1. Shape /\ RequestInv(r)
    BY DEF TypeInv
<1>2. pc'[r] \notin {"answered", "permission", "target", "sender"}
    BY DEF BehindTarget
<1>3. pc[r] # "free"
    <2> SUFFICES ASSUME Arrive(r) PROVE FALSE
        BY FirstSteps
    <2>1. PICK q \in Inputs :
            LET body == Complete(q, AmbAuthorization(q.header, SecretsEnabled).secret)
            IN  /\ req' = [req EXCEPT ![r] = [q EXCEPT !.body = body]]
                /\ \/ pc' = [pc EXCEPT ![r] = Steps(q.op)[1]]
                   \/ Fail(r, FirstError(q, body))
        BY DEF Arrive
    <2>2. req'[r].op = q.op
        BY <1>1, <2>1, InputsAssumption DEF Shape
    <2>3. pc'[r] = "sender" \/ pc'[r] = "answered"
        BY <1>1, <2>1, <2>2, Failed DEF Shape, Steps
    <2> QED
        BY <1>2, <2>3
<1>4. req' = req /\ req[r].op = "modifyAccount"
    BY <1>3, ActionMoves DEF Arrive
<1>5. CASE pc[r] \in BehindTarget
    BY <1>4, <1>5 DEF CheckInv, KnownInv, DatabaseGrows
<1>6. CASE pc[r] \notin BehindTarget
    <2>1. pc[r] \in {"sender", "permission", "target"}
        BY <1>1, <1>3, <1>4, <1>6, FirstSteps DEF RequestInv, StepSet, BehindTarget
    <2>2. pc[r] # "sender"
        <3> SUFFICES ASSUME pc[r] = "sender", CheckSender(r) PROVE FALSE
            BY FirstSteps
        <3>1. (\E error : Fail(r, error)) \/ Goto(r, "permission")
            BY <1>4, OrderOfSteps DEF CheckSender, Continue
        <3> QED
            BY <1>1, <1>2, <3>1, Failed, Went
    <2>3. pc[r] # "permission"
        <3> SUFFICES ASSUME pc[r] = "permission", CheckPermission(r) PROVE FALSE
            BY FirstSteps
        <3>1. (\E error : Fail(r, error)) \/ Goto(r, "target")
            BY <1>4, OrderOfSteps DEF CheckPermission, Continue
        <3> QED
            BY <1>1, <1>2, <3>1, Failed, Went
    <2>4. ReadTarget(r)
        BY <2>1, <2>2, <2>3, FirstSteps
    <2>5. TargetAccount(req[r]) # NoAccount
        BY <1>1, <1>2, <2>4, Failed DEF ReadTarget
    <2> QED
        BY <1>4, <2>5 DEF TargetAccount, DatabaseGrows
<1> QED
    BY <1>5, <1>6

LEMMA InitIInv == Init => IInv
<1> SUFFICES ASSUME Init PROVE IInv
    OBVIOUS
<1>1. Shape
    BY DEF Init, Shape
<1>2. DatabaseInv
    BY ApiAssumption, EntitiesAssumption DEF Init, DatabaseInv, EntitiesInv
<1>3. (CHOOSE q \in Inputs : TRUE) \in Inputs
    BY InputsAssumption
<1>4. ASSUME NEW r \in Requests
      PROVE  RequestInv(r) /\ CheckInv(r)
    <2>1. /\ pc[r] = "free" /\ self[r] = NoAccount /\ seen[r] = NoAccount /\ status[r] = 0
          /\ found[r] = {} /\ req[r] \in Inputs
        BY <1>3 DEF Init
    <2>2. RequestInv(r)
        BY <2>1, InputsAssumption DEF RequestInv, RequestOK
    <2>3. \A steps : "free" \notin steps => ~Beyond(r, steps)
        BY <2>1 DEF Beyond
    <2>4. "free" \notin BehindTarget /\ "free" \notin BehindView
          /\ \A op : /\ "free" \notin BehindPermission(op)
                     /\ "free" \notin BehindSender(op)
                     /\ "free" \notin BehindOrganization(op)
        BY DEF BehindTarget, BehindView, BehindPermission, BehindSender, BehindOrganization
    <2>5. PermissionInv(r) /\ SenderInv(r) /\ OrganizationInv(r) /\ TargetInv(r) /\ ViewInv(r)
        BY <2>3, <2>4 DEF PermissionInv, SenderInv, OrganizationInv, TargetInv, ViewInv
    <2>6. GrantInv(r) /\ UnknownInv(r) /\ EventInv(r) /\ ReadInv(r)
        BY <2>1, <2>3 DEF GrantInv, UnknownInv, EventInv, ReadInv
    <2>7. BodyInv(r) /\ FactsInv(r) /\ KnownInv(r)
        BY <2>1, <2>4 DEF BodyInv, FactsInv, KnownInv, Serving
    <2> QED
        BY <2>2, <2>5, <2>6, <2>7 DEF CheckInv, LocalInv
<1>5. RightsInv
    BY ApiAssumption DEF Init, RightsInv, NoRightFromNowhere
<1> QED
    BY <1>1, <1>2, <1>4, <1>5 DEF IInv, TypeInv

LEMMA ServeIInv ==
    ASSUME IInv, NEW r \in Requests, Serve(r), Remember
    PROVE  IInv'
<1>1. TypeInv /\ Shape /\ RightsInv /\ \A p \in Requests : RequestInv(p) /\ CheckInv(p)
    BY DEF IInv, TypeInv
<1>2. DatabaseGrows
    BY <1>1, DatabaseStep
<1>3. Shape'
    BY <1>1, OthersStay, Remembered DEF Shape
<1>4. ASSUME NEW p \in Requests
      PROVE  RequestInv(p)' /\ CheckInv(p)'
    <2>1. FactsInv(p)' /\ held[p] \subseteq held'[p]
        BY <1>1, Remembered
    <2>2. CASE p = r
        BY <1>1, <1>2, <2>1, <2>2, Served, TargetStays DEF CheckInv
    <2>3. CASE p # r
        <3>1. /\ pc'[p] = pc[p] /\ req'[p] = req[p] /\ self'[p] = self[p]
              /\ seen'[p] = seen[p] /\ status'[p] = status[p] /\ found'[p] = found[p]
            BY <1>1, <2>3, OthersStay
        <3>2. RequestInv(p)' /\ LocalInv(p)'
            BY <1>1, <2>1, <3>1, LocalStays DEF CheckInv
        <3>3. KnownInv(p)'
            BY <1>1, <1>2, <3>1 DEF CheckInv, KnownInv, DatabaseGrows
        <3> QED
            BY <2>1, <3>2, <3>3 DEF CheckInv
    <2> QED
        BY <2>2, <2>3
<1>5. RightsInv'
    <2>1. ASSUME NEW p \in Requests, self'[p] \in Account
          PROVE  self'[p].permissions \subseteq granted'
        <3>1. CASE self'[p] = self[p]
            BY <1>1, <1>2, <2>1, <3>1 DEF RightsInv, DatabaseGrows
        <3>2. CASE self'[p] = SenderAccount(req[r])
            <4>1. Sender(req[r]) \in Addresses
                  /\ self'[p] = account[Sender(req[r])] /\ self'[p] # NoAccount
                BY <2>1, <3>2, ApiAssumption DEF SenderAccount
            <4> QED
                BY <1>1, <1>2, <4>1 DEF RightsInv, NoRightFromNowhere, DatabaseGrows
        <3> QED
            BY <1>1, <3>1, <3>2, SelfRead DEF Shape
    <2> QED
        BY <1>2, <2>1 DEF RightsInv, DatabaseGrows
<1> QED
    BY <1>2, <1>3, <1>4, <1>5 DEF IInv, TypeInv, DatabaseGrows

LEMMA ToggleIInv ==
    ASSUME IInv, NEW o \in Organizations, Toggle(o), Remember
    PROVE  IInv'
<1>1. TypeInv /\ Shape /\ RightsInv /\ \A p \in Requests : RequestInv(p) /\ CheckInv(p)
    BY DEF IInv, TypeInv
<1>2. DatabaseGrows
    BY <1>1, DatabaseToggled
<1>3. UNCHANGED <<pc, req, self, seen, status, found, account, granted>>
    BY DEF Toggle, requestVars
<1>4. Shape'
    BY <1>1, <1>3 DEF Shape, Remember
<1>5. ASSUME NEW p \in Requests
      PROVE  RequestInv(p)' /\ CheckInv(p)'
    <2>1. FactsInv(p)' /\ held[p] \subseteq held'[p]
        BY <1>1, Remembered
    <2>2. RequestInv(p)' /\ LocalInv(p)'
        BY <1>1, <1>3, <2>1, LocalStays DEF CheckInv
    <2>3. KnownInv(p)'
        BY <1>1, <1>3 DEF CheckInv, KnownInv
    <2> QED
        BY <2>1, <2>2, <2>3 DEF CheckInv
<1>6. RightsInv'
    BY <1>1, <1>3 DEF RightsInv, NoRightFromNowhere
<1> QED
    BY <1>2, <1>4, <1>5, <1>6 DEF IInv, TypeInv, DatabaseGrows

LEMMA StutterIInv ==
    ASSUME IInv, UNCHANGED vars
    PROVE  IInv'
<1>1. UNCHANGED <<account, disabled, assets, events, pc, req, self, seen, status, found, toggles,
                  held, granted>>
    BY DEF vars, dbVars, requestVars
<1>2. Shape' /\ DatabaseInv' /\ RightsInv'
    BY <1>1 DEF IInv, TypeInv, Shape, DatabaseInv, EntitiesInv, RightsInv, NoRightFromNowhere
<1>3. ASSUME NEW p \in Requests
      PROVE  RequestInv(p)' /\ CheckInv(p)'
    <2>1. RequestInv(p) /\ LocalInv(p) /\ FactsInv(p) /\ KnownInv(p)
        BY DEF IInv, TypeInv, CheckInv
    <2>2. RequestInv(p)' /\ LocalInv(p)'
        BY <1>1, <2>1, LocalStays
    <2>3. Facts(req[p])' = Facts(req[p])
        BY <1>1 DEF Facts, SenderAccount, TargetAccount, HasEntity, HasAsset
    <2>4. FactsInv(p)' /\ KnownInv(p)'
        BY <1>1, <2>1, <2>3 DEF FactsInv, KnownInv, Serving
    <2> QED
        BY <2>2, <2>4 DEF CheckInv
<1> QED
    BY <1>2, <1>3 DEF IInv, TypeInv

LEMMA NextIInv == IInv /\ [Next]_vars => IInv'
BY ServeIInv, ToggleIInv, StutterIInv DEF Next

LEMMA Invariance == Spec => []IInv
BY InitIInv, NextIInv, PTL DEF Spec

-----------------------------------------------------------------------------
(* Theorems *)

LEMMA TypeOKHolds == IInv => TypeOK
<1> SUFFICES ASSUME IInv PROVE TypeOK
    OBVIOUS
<1>1. DatabaseInv /\ \A r \in Requests : RequestInv(r)
    BY DEF IInv, TypeInv
<1>2. ASSUME NEW r \in Requests
      PROVE  /\ pc[r] \in {"free", "answered"} \cup ToSet(Steps(req[r].op))
             /\ req[r].op \in Ops
             /\ self[r] \in Account \cup {NoAccount}
             /\ seen[r] \in Account \cup {NoAccount}
             /\ status[r] \in {0, 200, 201, 400, 401, 403, 404, 413, 500}
             /\ pc[r] = "answered" <=> status[r] # 0
             /\ found[r] \subseteq Nat \cup {Null, Missing}
    BY <1>1, StepSetIs DEF RequestInv, RequestOK, Failures
<1> QED
    BY <1>1, <1>2 DEF TypeOK, DatabaseInv, EntitiesInv

LEMMA ConditionsHold ==
    ASSUME IInv, NEW r \in Requests, status[r] \in {200, 201}
    PROVE  /\ ~ReadsData(req[r].op) /\ req[r].op # "getAsset" =>
                Held(r, "permission") /\ Held(r, "active")
           /\ NeedsOrganization(req[r].op) => OrganizationHeld(r)
           /\ req[r].op \in {"addAccount", "modifyAccount"} => Held(r, "grants") \/ Held(r, "super")
           /\ req[r].op = "addAccount" =>
                /\ Held(r, "unknown")
                /\ \/ Held(r, "super")
                   \/ "organization" \notin DOMAIN req[r].change
                   \/ req[r].change.organization = 0
                   \/ <<"sender in", req[r].change.organization>> \in held[r]
           /\ OnTarget(req[r].op) => SameOrganizationHeld(r)
           /\ req[r].op = "modifyAccount" => Held(r, "unprotected") \/ Held(r, "super")
           /\ req[r].op = "createEvent" => Held(r, "level suffices") /\ Held(r, "asset")
<1>1. LocalInv(r) /\ \A steps : Beyond(r, steps)
    BY DEF IInv, CheckInv, Beyond
<1>2. Protected(req[r].op) =>
        /\ self[r] # NoAccount /\ self[r].active /\ Held(r, "permission")
        /\ SenderFacts(req[r], self[r]) \subseteq held[r]
    BY <1>1, ApiAssumption DEF LocalInv, PermissionInv, SenderInv
<1>3. Protected(req[r].op) =>
        /\ Held(r, "active") /\ <<"sender in", self[r].organization>> \in held[r]
        /\ IsSuper(self[r]) => Held(r, "super")
        /\ NoExceeding(self[r], req[r].change) => Held(r, "grants")
        /\ req[r].body.idData.level <= self[r].accessLevel => Held(r, "level suffices")
    <2>1. CASE Protected(req[r].op)
        <3> DEFINE a == self[r]
                   q == req[r]
        <3>1. a # NoAccount /\ a.active /\ SenderFacts(q, a) \subseteq held[r]
            BY <1>2, <2>1
        <3> HIDE DEF a, q
        <3>2. /\ <<"active", 0>> \in held[r] /\ <<"sender in", a.organization>> \in held[r]
              /\ IsSuper(a) => <<"super", 0>> \in held[r]
              /\ NoExceeding(a, q.change) => <<"grants", 0>> \in held[r]
              /\ q.body.idData.level <= a.accessLevel => <<"level suffices", 0>> \in held[r]
            BY <3>1, FactsOfSender
        <3> QED
            BY <3>2 DEF a, q, Held
    <2> QED
        BY <2>1
<1>4. NeedsOrganization(req[r].op) => OrganizationHeld(r)
    BY <1>1 DEF LocalInv, OrganizationInv
<1>5. OnTarget(req[r].op) => SameOrganizationHeld(r)
    BY <1>1 DEF LocalInv, ViewInv
<1>6. req[r].op \in {"addAccount", "modifyAccount"} =>
        \/ Held(r, "super")
        \/ /\ Held(r, "grants")
           /\ req[r].op = "addAccount" => SameOrganization(self[r], req[r].change)
           /\ req[r].op = "modifyAccount" => ~HasPermission(seen[r], "protected_account")
    BY <1>1, <1>3 DEF LocalInv, GrantInv, Protected, ReadsData
<1>7. req[r].op = "addAccount" =>
        /\ Held(r, "unknown")
        /\ \/ Held(r, "super")
           \/ "organization" \notin DOMAIN req[r].change
           \/ req[r].change.organization = 0
           \/ <<"sender in", req[r].change.organization>> \in held[r]
    <2>1. "organization" \in DOMAIN req[r].change => req[r].change.organization \in Organizations
        BY DEF IInv, TypeInv, RequestInv, RequestOK, IsChange
    <2>2. SameOrganization(self[r], req[r].change) =>
            \/ "organization" \notin DOMAIN req[r].change
            \/ req[r].change.organization = 0
            \/ req[r].change.organization = self[r].organization
        BY <2>1, ApiAssumption DEF SameOrganization, Falsy
    <2> QED
        BY <1>1, <1>3, <1>6, <2>2 DEF LocalInv, UnknownInv, Protected, ReadsData
<1>8. req[r].op = "modifyAccount" => Held(r, "unprotected") \/ Held(r, "super")
    <2> SUFFICES ASSUME req[r].op = "modifyAccount", ~Held(r, "super")
                 PROVE  Held(r, "unprotected")
        OBVIOUS
    <2>1. seen[r] \in Account /\ TargetFacts(seen[r]) \subseteq held[r]
        BY <1>1 DEF LocalInv, TargetInv, OnTarget
    <2>2. ~HasPermission(seen[r], "protected_account")
        BY <1>6
    <2>3. seen[r] # NoAccount
        BY <2>1, ApiAssumption
    <2>4. <<"unprotected", 0>> \in TargetFacts(seen[r])
        BY <2>2, <2>3 DEF TargetFacts, If
    <2> QED
        BY <2>1, <2>4 DEF Held
<1>9. req[r].op = "createEvent" => Held(r, "level suffices") /\ Held(r, "asset")
    BY <1>1, <1>3 DEF LocalInv, EventInv, Protected, ReadsData
<1> QED
    BY <1>2, <1>3, <1>4, <1>5, <1>6, <1>7, <1>8, <1>9 DEF Protected

LEMMA EveryConditionHolds == IInv => EveryConditionHeld
BY ConditionsHold DEF EveryConditionHeld, NeedsOrganization, OnTarget

LEMMA StoredAreValid == IInv => StoredIsValid
<1> SUFFICES ASSUME IInv PROVE StoredIsValid
    OBVIOUS
<1>1. EntitiesInv
    BY DEF IInv, TypeInv, DatabaseInv
<1>2. \A e \in Stored : IsValid(e)
    BY <1>1 DEF EntitiesInv, Stored, Range, ToSet
<1>3. ASSUME Len(assets) + Len(events) <= ItemsLimit
      PROVE  ValidateBundle(AssembleBundle(assets, events, "node"), ItemsLimit, FALSE) = "no"
    <2> DEFINE idData == [createdBy |-> "node",
                          entriesHash |-> Hash(ExtractIds(assets \o events)),
                          version |-> LATEST_BUNDLE_VERSION]
               bundle == [bundleId |-> Hash(idData), entries |-> assets \o events,
                          idData |-> idData, signature |-> Sign("node", idData)]
    <2>1. AssembleBundle(assets, events, "node") = bundle
        BY DEF AssembleBundle
    <2>2. Len(assets \o events) = Len(assets) + Len(events)
        <3>1. /\ assets \in Seq(ToSet(assets) \cup ToSet(events))
              /\ events \in Seq(ToSet(assets) \cup ToSet(events))
            BY <1>1 DEF EntitiesInv
        <3> QED
            BY <3>1, ConcatProperties
    <2>3. ItemsLimit \in Nat /\ Len(assets) \in Nat /\ Len(events) \in Nat
        BY <1>1, ApiAssumption DEF EntitiesInv
    <2>4. ~(Len(bundle.entries) > ItemsLimit)
        BY <1>3, <2>2, <2>3
    <2>5. /\ bundle.idData.version = LATEST_BUNDLE_VERSION
          /\ bundle.bundleId = Hash(bundle.idData)
          /\ bundle.idData.entriesHash = Hash(ExtractIds(bundle.entries))
          /\ bundle.signature = Sign(bundle.idData.createdBy, bundle.idData)
        OBVIOUS
    <2> HIDE DEF bundle
    <2> QED
        BY <2>1, <2>4, <2>5 DEF ValidateBundle
<1> QED
    BY <1>2, <1>3 DEF StoredIsValid

\* Every request is at a step of its operation and is answered once it is through, and no
\* entity is stored twice (the handlers of the routes, storeAsset and storeEvent).
THEOREM TypeCorrect == Spec => []TypeOK
BY Invariance, TypeOKHolds, PTL

\* What a request has done it was allowed to do: between its arrival and its answer each
\* condition of AccountAccessDefinitions that its operation has was true at some moment,
\* although each is checked against another reading of the database.
THEOREM OnlyAllowed == Spec => []EveryConditionHeld
BY Invariance, EveryConditionHolds, PTL

LEMMA ReadsHold == IInv => ReadsAreAllowed
BY DEF IInv, CheckInv, LocalInv, ReadInv, ReadsAreAllowed

\* hideEventDataIfNecessary and the criteria of FindEventQueryObject show, or answer about,
\* no data above the level the account of the token had since the request came, and
\* findAccounts, to who is no super account, only accounts of its organization, as long as its
\* document has that field and it is not null.
THEOREM ReadsWithinRights == Spec => []ReadsAreAllowed
BY Invariance, ReadsHold, PTL

LEMMA RightsHold == IInv => NoRightFromNowhere
BY DEF IInv, RightsInv

\* addAccount and modifyAccount pass on only permissions that were there at first or that a
\* super account gave, however their requests overlap.
THEOREM RightsAreGiven == Spec => []NoRightFromNowhere
BY Invariance, RightsHold, PTL

\* What validateAsset and validateEvent let through and the repository has stored is valid,
\* and so is the bundle that is made of it, if it is not too large.
THEOREM OnlyValidIsStored == Spec => []StoredIsValid
BY Invariance, StoredAreValid, PTL
=============================================================================
