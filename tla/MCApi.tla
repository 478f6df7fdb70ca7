------------------------------- MODULE MCApi -------------------------------
(* Small instances of Api for TLC. *)
EXTENDS Api, TLC

CONSTANTS r1, r2

TwoRequests == {r1, r2}
Symmetry == Permutations(TwoRequests)

FourAddresses == {"admin", "x", "y", "z"}

With(active, permissions, level, organization) ==
    [active |-> active, permissions |-> permissions, accessLevel |-> level,
     organization |-> organization]

Manager == With(TRUE, {"register_accounts", "manage_accounts", "create_event"}, 1, 1)

\* x manages accounts, until the administrator disables it or moves it to another
\* organization; y is a colleague, a manager from before there were organizations, or a
\* protected one without an organization.
SmallDatabases ==
    {[a \in FourAddresses |-> CASE a = "admin" -> DefaultAdminAccount
                                [] a = "x" -> Manager
                                [] a = "y" -> y
                                [] a = "z" -> NoAccount] :
        y \in {With(TRUE, {"create_asset", "create_event"}, 2, 1),
               With(TRUE, {"manage_accounts"}, 1, Missing),
               With(TRUE, {"protected_account", "register_accounts", "manage_accounts"}, 0, Null)}}

Token(a) == [type |-> "AMB_TOKEN", by |-> a, signer |-> a, expired |-> FALSE]
Secret(a) == [type |-> "AMB", by |-> a, signer |-> a, expired |-> FALSE]
NoHeader == [type |-> "none", by |-> Nobody, signer |-> Nobody, expired |-> FALSE]

BareBody(a, timestamp, level, assetId, data) ==
    [id |-> Absent, signature |-> Absent, data |-> data,
     idData |-> [createdBy |-> a, timestamp |-> timestamp, level |-> level, assetId |-> assetId,
                 dataHash |-> Absent]]

AssetBody(a, timestamp) == BareBody(a, timestamp, 0, Absent, Absent)
FirstAsset == CompleteAsset(AssetBody("y", 1), <<"y">>)
OtherAsset == CompleteAsset(AssetBody("z", 9), <<"z">>)
EventBody(a, timestamp, level, data) == BareBody(a, timestamp, level, FirstAsset.id, data)
Event(timestamp, level) == CompleteEvent(EventBody("y", timestamp, level, <<"identifier">>), <<"y">>)

OneAsset == <<FirstAsset>>
TwoEvents == <<Event(1, 0), Event(2, 2)>>

Request(op, header, target, change, body) ==
    [op |-> op, header |-> header, target |-> target, change |-> change, body |-> body,
     wellFormed |-> TRUE]

NoBody == AssetBody("x", 0)
NoChange == [accessLevel |-> 0]

Add(by, target, change) == Request("addAccount", Token(by), target, change, NoBody)
Modify(by, target, change) == Request("modifyAccount", Token(by), target, change, NoBody)

InOrganization == [permissions |-> {"create_event"}, accessLevel |-> 1, organization |-> 1]
AddRequests ==
    {Add("admin", "z", [permissions |-> {"super_account"}, accessLevel |-> 2]),
     Add("x", "z", InOrganization), Add("x", "y", InOrganization),
     Add("x", "z", [InOrganization EXCEPT !.organization = 2]),
     Add("x", "z", [InOrganization EXCEPT !.accessLevel = 2]),
     Add("y", "z", [permissions |-> {"register_accounts"}, accessLevel |-> 0])}

ModifyRequests ==
    {Modify("admin", "x", change) :
        change \in {[active |-> FALSE], [organization |-> 2], [permissions |-> {"manage_accounts"}]}}
    \cup {Modify("admin", "y", [permissions |-> {"manage_accounts", "create_event"}])}
    \cup {Modify("x", "y", change) :
        change \in {[permissions |-> {"manage_accounts"}], [permissions |-> {"create_asset"}],
                    [accessLevel |-> 2]}}
    \cup {Modify("x", target, [active |-> TRUE]) : target \in {"admin", "x", "z"}}
    \cup {Modify("y", "x", [permissions |-> {"manage_accounts"}, accessLevel |-> 0])}

AccountReads ==
    {Request("getAccount", Token(by), "y", NoChange, NoBody) : by \in {"admin", "x"}}
    \cup {Request("findAccounts", Token(by), "y", [organization |-> 1], NoBody) :
        by \in {"admin", "x", "y"}}

WriteRequests ==
    {Request("createAsset", Secret("y"), Nobody, NoChange, body) :
        body \in {AssetBody("y", 3), FirstAsset, CompleteAsset(AssetBody("y", 3), <<"z">>),
                  [AssetBody("y", 3) EXCEPT !.id = FirstAsset.id]}}
    \cup {Request("createAsset", Secret("z"), Nobody, NoChange, AssetBody("z", 3))}
    \cup {Request("createEvent", Secret("x"), Nobody, NoChange, body) :
        body \in {EventBody("x", 3, level, <<"identifier">>) : level \in 1..2}
            \cup {[EventBody("x", 3, 0, <<"identifier">>) EXCEPT !.idData.dataHash = Hash(<<"other">>)],
                  [EventBody("x", 3, 0, <<"identifier">>) EXCEPT !.idData.assetId = OtherAsset.id]}}

DataReads ==
    {Request("findEvents", header, Nobody, NoChange, body) :
        header \in {NoHeader, Token("x")}, body \in {NoBody, Event(2, 2)}}
    \cup {Request("findAssets", Token("y"), Nobody, NoChange, Event(2, 2)),
          Request("getEvent", Token("y"), Nobody, NoChange, Event(2, 2)),
          Request("getEvent", NoHeader, Nobody, NoChange, FirstAsset)}
    \cup {Request("getAsset", NoHeader, Nobody, NoChange, body) : body \in {FirstAsset, NoBody}}

WrongRequests ==
    {Request("findEvents", [Token("x") EXCEPT !.signer = "y"], Nobody, NoChange, NoBody),
     Request("addAccount", NoHeader, "z", InOrganization, NoBody),
     Request("addAccount", Secret("x"), "z", InOrganization, NoBody),
     Request("createAsset", [Token("x") EXCEPT !.expired = TRUE], Nobody, NoChange, NoBody)}
    \cup {[Request(op, Token("x"), "y", NoChange, NoBody) EXCEPT !.wellFormed = FALSE] :
            op \in {"addAccount", "modifyAccount", "findAccounts", "findEvents"}}

SmallInputs ==
    AddRequests \cup ModifyRequests \cup AccountReads \cup WriteRequests \cup DataReads
        \cup WrongRequests
=============================================================================
