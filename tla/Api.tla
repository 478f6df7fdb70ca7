--------------------------------- MODULE Api ---------------------------------
(***************************************************************************)
(* The HTTP API of a Hermes node: accounts and their rights, assets and     *)
(* events, and what a client may read of them.  A request is checked in     *)
(* many steps, and each reads the database anew: others change accounts     *)
(* and organizations, and store entities, between any two of them.          *)
(*                                                                         *)
(* A request is [op, header, target, change, body, wellFormed]: target is   *)
(* the account it is about, change the fields it has for it, and wellFormed *)
(* says whether its fields have the right types and ranges.                 *)
(***************************************************************************)
EXTENDS Entities, FiniteSetsExt, Functions

CONSTANTS
    Requests,           \* requests that are served, each at any time
    Inputs,             \* what each of them may ask for
    Addresses, Admin,   \* accounts, and the built-in one
    Nobody, NoAccount,  \* the sender without a token, and an account that is not there
    Organizations,      \* numbers; 0 is no organization as well
    Null, Missing,      \* an organization that is null, or a document without the field
    InitialAccounts,    \* the databases the requests may find
    OldAssets,          \* the assets they hold
    OldEvents,          \*   and the events
    SecretsEnabled,     \* authorizationWithSecretKeyEnabled
    DefaultPerPage,     \* perPage of a query that has none
    ItemsLimit,         \* bundleItemsCountLimit
    MaxToggles          \* bound: how often organizations are disabled or enabled

Permissions == {"super_account", "register_accounts", "manage_accounts", "create_asset",
                "create_event", "protected_account"}

\* An account that is added without an organization is stored with null; one from before
\* there were organizations has no such field, if it is no super account.
Places == Organizations \cup {Null, Missing}
Falsy == {0, Null, Missing}

Account == [active : BOOLEAN, permissions : SUBSET Permissions, accessLevel : Nat,
            organization : Places]

DefaultAdminAccount ==
    [active |-> TRUE, permissions |-> {"super_account", "manage_accounts", "register_accounts"},
     accessLevel |-> 1000, organization |-> 0]

ASSUME ApiAssumption ==
    /\ Admin \in Addresses /\ Nobody \notin Addresses
    /\ 0 \in Organizations /\ Organizations \subseteq Nat
    /\ Null # Missing /\ Null \notin Organizations /\ Missing \notin Organizations
    /\ \A accounts \in InitialAccounts : accounts[Admin] = DefaultAdminAccount
    /\ SecretsEnabled \in BOOLEAN
    /\ {DefaultPerPage, ItemsLimit, MaxToggles} \subseteq Nat
    /\ NoAccount \notin Account
    /\ InitialAccounts \subseteq [Addresses -> Account \cup {NoAccount}]

Ops == {"addAccount", "getAccount", "modifyAccount", "findAccounts", "createAsset",
        "createEvent", "getAsset", "findAssets", "getEvent", "findEvents"}

\* Bodies and changes have these fields; the fields of an asset that only events have, and
\* those of a change that the request leaves out, are absent.
IsBody(body) ==
    /\ body = [id |-> body.id, signature |-> body.signature, idData |-> body.idData,
               data |-> body.data]
    /\ body.idData = [createdBy |-> body.idData.createdBy, timestamp |-> body.idData.timestamp,
                      level |-> body.idData.level, assetId |-> body.idData.assetId,
                      dataHash |-> body.idData.dataHash]
    /\ body.idData.level \in Nat

IsChange(change) ==
    /\ DOMAIN change \subseteq {"active", "permissions", "accessLevel", "organization"}
    /\ "active" \in DOMAIN change => change.active \in BOOLEAN
    /\ "permissions" \in DOMAIN change => change.permissions \subseteq Permissions
    /\ "accessLevel" \in DOMAIN change => change.accessLevel \in Nat
    /\ "organization" \in DOMAIN change => change.organization \in Organizations

ASSUME InputsAssumption ==
    /\ Inputs # {}
    /\ \A q \in Inputs :
        /\ q = [op |-> q.op, header |-> q.header, target |-> q.target, change |-> q.change,
                body |-> q.body, wellFormed |-> q.wellFormed]
        /\ q.op \in Ops /\ IsBody(q.body) /\ IsChange(q.change)
        /\ q.op = "addAccount" /\ q.wellFormed =>
                q.target \in Addresses /\ {"permissions", "accessLevel"} \subseteq DOMAIN q.change
        /\ q.op = "createAsset" => q.body.data = Absent
        /\ q.body.signature # Absent =>
                q.body.signature = Sign(q.body.signature[1], q.body.signature[2])

\* Signed by its creator, with the ids and hashes of what it holds.
IsValid(e) ==
    /\ e.id = Hash(Content(e))
    /\ e.signature = Sign(e.idData.createdBy, e.idData)
    /\ e.data # Absent => e.idData.dataHash = Hash(e.data)

ASSUME EntitiesAssumption ==
    /\ OldAssets \in Seq(ToSet(OldAssets)) /\ OldEvents \in Seq(ToSet(OldEvents))
    /\ IsInjective(OldAssets) /\ IsInjective(OldEvents)
    /\ \A e \in ToSet(OldAssets) \cup ToSet(OldEvents) : IsBody(e) /\ IsValid(e)

VARIABLES
    account,    \* the collection accounts
    disabled,   \* organizations that are not active
    assets,     \* the collections of entities
    events,
    toggles,
    pc,         \* where each request is
    req,        \* what it asks for, its body completed
    self, seen, \* the accounts it has read: the sender's, and the target
    status,     \* of the answer, 0 before
    found,      \* access levels of the events whose data it has read, or organizations of
                \*   the accounts
    held,       \* what has been true of it at some moment since it came
    granted     \* rights that super accounts have given, or that were there at first

dbVars == <<account, disabled, assets, events>>
requestVars == <<pc, req, self, seen, status, found>>
vars == <<dbVars, requestVars, toggles, held, granted>>

-----------------------------------------------------------------------------
(* AccountAccessDefinitions *)

HasPermission(a, p) == p \in a.permissions
IsSuper(a) == HasPermission(a, "super_account")
MayDo(a, p) == IsSuper(a) \/ HasPermission(a, p)

\* Mutant: only the access levels are compared.
NoExceedingLevel(a, change) ==
    "accessLevel" \in DOMAIN change => change.accessLevel <= a.accessLevel

NoExceeding(a, change) ==
    /\ "permissions" \in DOMAIN change => change.permissions \subseteq a.permissions
    /\ "accessLevel" \in DOMAIN change => change.accessLevel <= a.accessLevel

\* Mutant: it is enough to belong to some organization.
SomeOrganization(a, other) ==
    "organization" \in DOMAIN other => other.organization \in Falsy \/ a.organization \notin Falsy

\* What is falsy is nobody's organization: everybody may manage who is in it.
SameOrganization(a, other) ==
    "organization" \in DOMAIN other =>
        other.organization \in Falsy \/ other.organization = a.organization

LevelOf(a) == IF a = NoAccount THEN 0 ELSE a.accessLevel

-----------------------------------------------------------------------------
(* The order of the steps of each operation *)

Steps(op) ==
    CASE op = "addAccount" -> <<"permission", "creator", "organization", "unknown", "store">>
      [] op = "getAccount" ->
            <<"sender", "permission", "target", "viewer", "viewPermission", "viewOrganization">>
      [] op = "modifyAccount" ->
            <<"sender", "permission", "target", "viewer", "viewPermission", "viewOrganization",
              "managePermission", "modifier", "modifierOrganization", "update">>
      [] op = "findAccounts" -> <<"finder", "permission", "find">>
      [] op = "createAsset" -> <<"creator", "organization", "permission", "new", "storeEntity">>
      [] op = "createEvent" ->
            <<"permission", "creator", "organization", "asset", "new", "storeEntity">>
      [] op = "getAsset" -> <<"assets">>
      [] op = "findAssets" -> <<"level", "events", "assets">>
      [] OTHER -> <<"level", "events">>

\* The permission an operation needs.
Needed(op) ==
    CASE op = "addAccount" -> "register_accounts"
      [] op = "createAsset" -> "create_asset"
      [] op = "createEvent" -> "create_event"
      [] OTHER -> "manage_accounts"

WritesEntity(op) == op \in {"createAsset", "createEvent"}
ReadsData(op) == op \in {"getEvent", "findEvents", "findAssets"}

StepAfter(op, step) ==
    LET n == SelectInSeq(Steps(op), LAMBDA s : s = step)
    IN  IF n = Len(Steps(op)) THEN "answered" ELSE Steps(op)[n + 1]

\* Where a super account goes on from.
StepOfSuper(op, step) ==
    CASE step = "creator" /\ op = "addAccount" -> "unknown"
      [] step = "viewer" -> StepAfter(op, "viewOrganization")
      [] step = "modifier" -> "update"
      [] OTHER -> StepAfter(op, step)

Sender(q) ==
    CASE WritesEntity(q.op) -> q.body.idData.createdBy
      [] ~WritesEntity(q.op) /\ q.header.type = "AMB_TOKEN" -> q.header.by
      [] OTHER -> Nobody

SenderAccount(q) == IF Sender(q) \in Addresses THEN account[Sender(q)] ELSE NoAccount
TargetAccount(q) == IF q.target \in Addresses THEN account[q.target] ELSE NoAccount

Stored == Range(assets) \cup Range(events)
HasAsset(id) == \E n \in DOMAIN assets : assets[n].id = id
HasEntity(id) == HasAsset(id) \/ \E n \in DOMAIN events : events[n].id = id

\* What is true of a request, and of the accounts it is about: pairs of a condition and a
\* number.
If(condition, fact) == IF condition THEN {<<fact, 0>>} ELSE {}

SenderFacts(q, a) ==
    IF a = NoAccount THEN {}
    ELSE If(MayDo(a, Needed(q.op)), "permission")
         \cup If(a.active, "active")
         \cup If(IsSuper(a), "super")
         \cup If(NoExceeding(a, q.change), "grants")
         \cup If(q.body.idData.level <= a.accessLevel, "level suffices")
         \cup {<<"sender in", a.organization>>}

TargetFacts(t) ==
    IF t = NoAccount THEN {<<"unknown", 0>>}
    ELSE If(~HasPermission(t, "protected_account"), "unprotected")
         \cup {<<"known", 0>>, <<"target in", t.organization>>}

Facts(q) ==
    SenderFacts(q, SenderAccount(q))
        \cup TargetFacts(TargetAccount(q))
        \cup {<<"enabled", o>> : o \in Places \ disabled}
        \cup {<<"level", LevelOf(SenderAccount(q))>>}
        \cup If(HasAsset(q.body.idData.assetId), "asset")
        \cup If(~HasEntity(q.body.id), "new")

Serving(r) == pc[r] \notin {"free", "answered"}
\* Facts are added with every step, after it and before it is answered.
Remember == held' = [r \in Requests |-> IF Serving(r)' THEN held[r] \cup Facts(req[r])'
                                        ELSE held[r]]

-----------------------------------------------------------------------------
Init ==
    /\ account \in InitialAccounts
    /\ disabled = {}
    /\ assets = OldAssets
    /\ events = OldEvents
    /\ toggles = 0
    /\ pc = [r \in Requests |-> "free"]
    /\ req = [r \in Requests |-> CHOOSE q \in Inputs : TRUE]
    /\ self = [r \in Requests |-> NoAccount]
    /\ seen = [r \in Requests |-> NoAccount]
    /\ status = [r \in Requests |-> 0]
    /\ found = [r \in Requests |-> {}]
    /\ held = [r \in Requests |-> {}]
    /\ granted = UNION {account[a].permissions : a \in {a \in Addresses : account[a] # NoAccount}}

TypeOK ==
    /\ account \in [Addresses -> Account \cup {NoAccount}]
    /\ disabled \subseteq Organizations
    /\ toggles \in 0..MaxToggles
    /\ \A r \in Requests :
        /\ pc[r] \in {"free", "answered"} \cup ToSet(Steps(req[r].op))
        /\ req[r].op \in Ops
        /\ self[r] \in Account \cup {NoAccount}
        /\ seen[r] \in Account \cup {NoAccount}
        /\ status[r] \in {0, 200, 201, 400, 401, 403, 404, 413, 500}
        /\ pc[r] = "answered" <=> status[r] # 0
        /\ found[r] \subseteq Nat \cup {Null, Missing}
    /\ IsInjective(assets) /\ IsInjective(events)

Answer(r, code) ==
    /\ status' = [status EXCEPT ![r] = code]
    /\ pc' = [pc EXCEPT ![r] = "answered"]

Fail(r, error) == Answer(r, StatusOf(error))

Goto(r, step) ==
    IF step = "answered" THEN Answer(r, 200)
    ELSE pc' = [pc EXCEPT ![r] = step] /\ UNCHANGED status

Continue(r) == Goto(r, StepAfter(req[r].op, pc[r]))

-----------------------------------------------------------------------------
(* A request comes: the middlewares and what its handler does before it waits *)

\* The body as the middlewares hand it on, and the first error.
Complete(q, secret) ==
    CASE q.op = "createAsset" -> CompleteAsset(q.body, secret)
      [] q.op = "createEvent" -> CompleteEvent(q.body, secret)
      [] OTHER -> q.body

FirstError(q, body) ==
    LET authorization == AmbAuthorization(q.header, SecretsEnabled).error
    IN  IF WritesEntity(q.op) /\ authorization # "no" THEN authorization
        ELSE CASE q.op = "createAsset" -> ValidateAsset(body, q.wellFormed)
               [] q.op = "createEvent" -> ValidateEvent(body, q.wellFormed)
               [] q.op = "getAsset" -> "no"
               [] ReadsData(q.op) -> IF AccessToken(q.header, FALSE) # "no"
                                       THEN AccessToken(q.header, FALSE)
                                     ELSE IF q.wellFormed THEN "no" ELSE "validation"
               [] OTHER -> AccessToken(q.header, TRUE)

Arrive(r) ==
    /\ pc[r] = "free"
    /\ \E q \in Inputs :
        LET body == Complete(q, AmbAuthorization(q.header, SecretsEnabled).secret)
            error == FirstError(q, body)
        IN  /\ req' = [req EXCEPT ![r] = [q EXCEPT !.body = body]]
            /\ IF error = "no"
                 THEN pc' = [pc EXCEPT ![r] = Steps(q.op)[1]] /\ UNCHANGED status
                 ELSE Fail(r, error)
    /\ UNCHANGED <<dbVars, self, seen, found, granted, toggles>>

-----------------------------------------------------------------------------
(* The checks *)

\* ensureHasPermission.  What a request to add or change an account wants is validated
\* right after it; the built-in account is refused before.
CheckPermission(r) ==
    /\ pc[r] \in {"permission", "viewPermission", "managePermission"}
    /\ LET a == SenderAccount(req[r])
       IN  IF \/ pc[r] = "managePermission" /\ req[r].target = Admin
              \/ a = NoAccount
              \/ ~MayDo(a, Needed(req[r].op))
             THEN Fail(r, "permission")
           ELSE IF /\ req[r].op = "addAccount" \/ pc[r] = "managePermission"
                   /\ ~req[r].wellFormed
             THEN Fail(r, "validation")
           ELSE Continue(r)
    /\ UNCHANGED <<dbVars, req, self, seen, found, granted, toggles>>

\* The first lines of getAccount and findAccounts.
CheckSender(r) ==
    /\ pc[r] \in {"sender", "finder"}
    /\ LET a == SenderAccount(req[r])
       IN  /\ IF a = NoAccount \/ (pc[r] = "finder" /\ ~a.active)
                THEN Fail(r, "permission")
              ELSE IF pc[r] = "finder" /\ ~req[r].wellFormed
                THEN Fail(r, "validation")
              ELSE Continue(r)
           /\ self' = [self EXCEPT ![r] = a]
    /\ UNCHANGED <<dbVars, req, seen, found, granted, toggles>>

ReadTarget(r) ==
    /\ pc[r] = "target"
    /\ LET t == TargetAccount(req[r])
       IN  /\ IF t = NoAccount THEN Fail(r, "notFound") ELSE Continue(r)
           /\ seen' = [seen EXCEPT ![r] = t]
    /\ UNCHANGED <<dbVars, req, self, found, granted, toggles>>

\* ensureActiveAccount: a sender that is not there is an error in the program.
CheckActive(r) ==
    /\ pc[r] \in {"creator", "viewer", "modifier"}
    /\ LET a == SenderAccount(req[r])
       IN  /\ IF a = NoAccount
                THEN Fail(r, "TypeError")
              ELSE IF ~a.active \/ (pc[r] = "modifier" /\ Sender(req[r]) = req[r].target)
                THEN Fail(r, "permission")
              ELSE Goto(r, IF IsSuper(a) THEN StepOfSuper(req[r].op, pc[r])
                           ELSE StepAfter(req[r].op, pc[r]))
           /\ self' = [self EXCEPT ![r] = a]
    /\ UNCHANGED <<dbVars, req, seen, found, granted, toggles>>

\* The checks that follow ensureActiveOrganization without another await.
Fits(r) ==
    CASE pc[r] = "viewOrganization" -> SameOrganization(self[r], seen[r])
      [] pc[r] = "modifierOrganization" ->
            /\ NoExceeding(self[r], req[r].change)
            /\ SameOrganization(self[r], seen[r])
            /\ ~HasPermission(seen[r], "protected_account")
      [] req[r].op = "addAccount" ->
            NoExceeding(self[r], req[r].change) /\ SameOrganization(self[r], req[r].change)
      [] req[r].op = "createEvent" -> req[r].body.idData.level <= self[r].accessLevel
      [] OTHER -> TRUE

CheckOrganization(r) ==
    /\ pc[r] \in {"organization", "viewOrganization", "modifierOrganization"}
    /\ IF self[r].organization \in disabled \/ ~Fits(r) THEN Fail(r, "permission") ELSE Continue(r)
    /\ UNCHANGED <<dbVars, req, self, seen, found, granted, toggles>>

-----------------------------------------------------------------------------
(* The effects *)

CheckUnknown(r) ==
    /\ pc[r] = "unknown"
    /\ IF TargetAccount(req[r]) # NoAccount THEN Fail(r, "validation") ELSE Continue(r)
    /\ UNCHANGED <<dbVars, req, self, seen, found, granted, toggles>>

\* Rights that come from a super account may be passed on from then on.
Grants(r) ==
    granted' = IF IsSuper(self[r]) /\ "permissions" \in DOMAIN req[r].change
                 THEN granted \cup req[r].change.permissions
                 ELSE granted

\* The fields of one record, and the ones of another that it has not.
Over(change, rest) ==
    [f \in DOMAIN change \cup DOMAIN rest |-> IF f \in DOMAIN change THEN change[f] ELSE rest[f]]

\* store is an upsert: of two requests for one address the later one is what remains.
StoreAccount(r) ==
    /\ pc[r] = "store"
    /\ account' = [account EXCEPT ![req[r].target] =
                     Over([active |-> TRUE], Over(req[r].change, [organization |-> Null]))]
    /\ Grants(r)
    /\ Answer(r, 201)
    /\ UNCHANGED <<disabled, assets, events, req, self, seen, found, toggles>>

UpdateAccount(r) ==
    /\ pc[r] = "update"
    /\ account' = [account EXCEPT ![req[r].target] = Over(req[r].change, @)]
    /\ Grants(r)
    /\ Answer(r, 200)
    /\ UNCHANGED <<disabled, assets, events, req, self, seen, found, toggles>>

CheckAsset(r) ==
    /\ pc[r] = "asset"
    /\ IF HasAsset(req[r].body.idData.assetId) THEN Continue(r) ELSE Fail(r, "validation")
    /\ UNCHANGED <<dbVars, req, self, seen, found, granted, toggles>>

CheckNew(r) ==
    /\ pc[r] = "new"
    /\ IF HasEntity(req[r].body.id) THEN Fail(r, "validation") ELSE Continue(r)
    /\ UNCHANGED <<dbVars, req, self, seen, found, granted, toggles>>

InsertOne(r) ==
    IF req[r].op = "createAsset"
      THEN assets' = Append(assets, req[r].body) /\ UNCHANGED events
      ELSE events' = Append(events, req[r].body) /\ UNCHANGED assets

\* Mutant: what CheckNew has seen is relied on.
StoreUnseen(r) ==
    /\ pc[r] = "storeEntity"
    /\ InsertOne(r)
    /\ Answer(r, 201)
    /\ UNCHANGED <<account, disabled, req, self, seen, found, granted, toggles>>

\* storeAsset, storeEvent: an entity that has come in the meantime is left as it is; if it
\* comes between the two calls of the method, the unique index refuses the second.
StoreEntity(r) ==
    /\ pc[r] = "storeEntity"
    /\ IF ~HasEntity(req[r].body.id)
         THEN InsertOne(r) /\ Answer(r, 201)
         ELSE UNCHANGED <<assets, events>> /\ (Answer(r, 201) \/ Fail(r, "duplicate key"))
    /\ UNCHANGED <<account, disabled, req, self, seen, found, granted, toggles>>

-----------------------------------------------------------------------------
(* The answers *)

\* getTokenCreatorAccessLevel: 0 without a token or without an account.
ReadLevel(r) ==
    /\ pc[r] = "level"
    /\ self' = [self EXCEPT ![r] = SenderAccount(req[r])]
    /\ Continue(r)
    /\ UNCHANGED <<dbVars, req, seen, found, granted, toggles>>

\* Mutant: a query is answered with the level of the node's own administrator.
EventsOfAdmin(r) == FindEvents(ToSet(events), req[r].body.data, 1000, DefaultPerPage)

\* The events an operation may read.  The identifiers of findAssets are data criteria, and of
\* the events that have them only the first page is looked at.
EventsRead(r) ==
    LET level == LevelOf(self[r])
    IN  IF req[r].op = "getEvent"
          THEN {{HideEventData(e, level) : e \in {e \in ToSet(events) : e.id = req[r].body.id}}}
          ELSE FindEvents(ToSet(events), req[r].body.data, level, DefaultPerPage)

\* Of an event whose data is hidden the client learns nothing the level is for; one that
\* was found by its data is an answer about the data even so.
ReadEvents(r) ==
    /\ pc[r] = "events"
    /\ \E read \in EventsRead(r) :
        /\ found' = [found EXCEPT ![r] = {e.idData.level : e \in {e \in read :
                        e.data # Absent \/ (req[r].op # "getEvent" /\ req[r].body.data # Absent)}}]
        /\ IF req[r].op = "getEvent" /\ read = {} THEN Fail(r, "notFound") ELSE Continue(r)
    /\ UNCHANGED <<dbVars, req, self, seen, granted, toggles>>

ReadAssets(r) ==
    /\ pc[r] = "assets"
    /\ IF req[r].op = "getAsset" /\ ~HasAsset(req[r].body.id)
         THEN Fail(r, "notFound") ELSE Continue(r)
    /\ UNCHANGED <<dbVars, req, self, seen, found, granted, toggles>>

\* The organizations a criterion finds: one that is undefined is dropped, and null is
\* what a field that is missing is equal to as well.
Matching(organization) ==
    CASE organization = Missing -> Places
      [] organization = Null -> {Null, Missing}
      [] OTHER -> {organization}

\* Who is no super account is given its own organization as the criterion.
FindAccounts(r) ==
    /\ pc[r] = "find"
    /\ LET criterion == CASE ~IsSuper(self[r]) -> self[r].organization
                          [] IsSuper(self[r]) /\ "organization" \in DOMAIN req[r].change ->
                                req[r].change.organization
                          [] OTHER -> Missing
       IN  found' = [found EXCEPT ![r] =
                        {account[a].organization : a \in {a \in Addresses : account[a] # NoAccount}}
                            \cap Matching(criterion)]
    /\ Answer(r, 200)
    /\ UNCHANGED <<dbVars, req, self, seen, granted, toggles>>

-----------------------------------------------------------------------------
\* OrganizationRepository.disable and enable, called by the program that manages
\* organizations.
Toggle(o) ==
    /\ toggles < MaxToggles
    /\ toggles' = toggles + 1
    /\ disabled' = IF o \in disabled THEN disabled \ {o} ELSE disabled \cup {o}
    /\ UNCHANGED <<account, assets, events, requestVars, granted>>

Serve(r) ==
    \/ Arrive(r) \/ CheckPermission(r) \/ CheckSender(r) \/ ReadTarget(r) \/ CheckActive(r)
    \/ CheckOrganization(r) \/ CheckUnknown(r) \/ StoreAccount(r) \/ UpdateAccount(r)
    \/ CheckAsset(r) \/ CheckNew(r) \/ StoreEntity(r)
    \/ ReadLevel(r) \/ ReadEvents(r) \/ ReadAssets(r) \/ FindAccounts(r)

Next ==
    /\ \/ \E r \in Requests : Serve(r)
       \/ \E o \in Organizations \ {0} : Toggle(o)
    /\ Remember

Spec == Init /\ [][Next]_vars

-----------------------------------------------------------------------------
(* Properties *)

Held(r, fact) == <<fact, 0>> \in held[r]

OrganizationHeld(r) ==
    \/ Held(r, "super")
    \/ \E o \in Places : {<<"sender in", o>>, <<"enabled", o>>} \subseteq held[r]

SameOrganizationHeld(r) ==
    \/ Held(r, "super")
    \/ \E o \in Places : /\ <<"target in", o>> \in held[r]
                         /\ o \in Falsy \/ <<"sender in", o>> \in held[r]

OwnOrganization(r, n) ==
    \/ <<"sender in", n>> \in held[r] \/ <<"sender in", Missing>> \in held[r]
    \/ n = Missing /\ <<"sender in", Null>> \in held[r]

\* What a request has done, it was allowed to do: each condition of its operation held at
\* some moment between its arrival and its answer.  In particular, who has lost a right
\* or whose organization has been disabled before the request came gets nothing.
EveryConditionHeld ==
    \A r \in Requests : status[r] \in {200, 201} =>
        /\ ~ReadsData(req[r].op) /\ req[r].op # "getAsset" =>
                Held(r, "permission") /\ Held(r, "active")
        /\ req[r].op \in {"addAccount", "getAccount", "modifyAccount", "createAsset", "createEvent"} =>
                OrganizationHeld(r)
        /\ req[r].op \in {"addAccount", "modifyAccount"} => Held(r, "grants") \/ Held(r, "super")
        /\ req[r].op = "addAccount" =>
                /\ Held(r, "unknown")
                /\ \/ Held(r, "super")
                   \/ "organization" \notin DOMAIN req[r].change
                   \/ req[r].change.organization = 0
                   \/ <<"sender in", req[r].change.organization>> \in held[r]
        /\ req[r].op \in {"getAccount", "modifyAccount"} => SameOrganizationHeld(r)
        /\ req[r].op = "modifyAccount" => Held(r, "unprotected") \/ Held(r, "super")
        /\ req[r].op = "createEvent" => Held(r, "level suffices") /\ Held(r, "asset")

\* Nobody reads the data of an event, or finds one by its data, above the access level its
\* account had since the request came.  The accounts somebody reads are of an organization
\* it was in, if it is no super account; but whose document has no field organization
\* reads those of all, and whose organization is null those without the field as well.
ReadsAreAllowed ==
    \A r \in Requests : \A n \in found[r] :
        IF ReadsData(req[r].op)
          THEN \E fact \in held[r] : fact[1] = "level" /\ n <= fact[2]
          ELSE Held(r, "super") \/ OwnOrganization(r, n)

\* A permission some account has was there at first or was given by a super account: no
\* chain of requests of others, however they overlap, makes one.
NoRightFromNowhere ==
    \A a \in Addresses : account[a] # NoAccount => account[a].permissions \subseteq granted

\* An entity in the database is signed by its creator, its ids and hashes are those of
\* what it holds, and the bundle made of all of them is valid for the other nodes.
StoredIsValid ==
    /\ \A e \in Stored : IsValid(e)
    /\ Len(assets) + Len(events) <= ItemsLimit =>
        ValidateBundle(AssembleBundle(assets, events, "node"), ItemsLimit, FALSE) = "no"
=============================================================================
