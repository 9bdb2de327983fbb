---------------------------- MODULE CustomerData ----------------------------
(***************************************************************************)
(* What the client makes of the order data of HKD and HTD                  *)
(* (_parse_customer_information() of hkd.py and the constructors of        *)
(* models.py): the bank lists orders of every kind, the result keeps BTD   *)
(* only.  A BTF service descriptor is a model value; whether the texts are *)
(* well formed is one flag per element.                                    *)
(***************************************************************************)
EXTENDS Lists, SequencesExt

CONSTANTS
    Services,      \* the BTF service descriptors
    Requester,     \* the subscriber's own user ID
    NoService,     \* an OrderInfo or Permission without a Service
    NoAccount,     \* a Permission without an AccountID
    Unrestricted   \* an AccountInfo without UsageOrderTypes: None

ASSUME CustomerAssumption ==
    NoService \notin Services /\ Unrestricted \notin Seq(Services)

CustomerForms ==
    [source: {"HKD", "HTD"}, hostMatches: BOOLEAN,
     orders: Seq([order: STRING, service: Services \cup {NoService}]),
     accounts: Seq([id: STRING, restrictions: Seq(Services) \cup {Unrestricted},
                    wellFormed: BOOLEAN]),
     users: Seq([id: STRING, wellFormed: BOOLEAN,
                 permissions: Seq([order: STRING, service: Services \cup {NoService},
                                   account: STRING \cup {NoAccount}])])]

Distinct(s) == \A i, j \in 1..Len(s) : s[i] = s[j] => i = j

(* _order_info *)
OrderInfoAccepted(o) == o.order = "BTD" => o.service # NoService

(* The services of the customer, of all orders and of BTD. *)
FullCatalog(info) == {o.service : o \in ToSet(info.orders)} \ {NoService}
BtdServices(info) ==
    LET btd == Keep(info.orders, {o \in ToSet(info.orders) : o.order = "BTD"})
    IN  [i \in 1..Len(btd) |-> btd[i].service]

(* _account, and the check and projection of its restrictions in _partner. *)
AccountAccepted(info, a) ==
    /\ a.wellFormed
    /\ a.restrictions # Unrestricted =>
           /\ Distinct(a.restrictions)
           /\ ToSet(a.restrictions) \subseteq FullCatalog(info)

ProjectedFalsy(info, a) ==   \* mutant: an empty list of restrictions is taken for none
    LET kept == Keep(a.restrictions, ToSet(BtdServices(info)))
    IN  [id |-> a.id,
         restrictions |-> IF a.restrictions = Unrestricted \/ kept = <<>> THEN Unrestricted
                          ELSE kept]
Projected(info, a) ==
    [id |-> a.id,
     restrictions |->
         IF a.restrictions = Unrestricted THEN Unrestricted
         ELSE Keep(a.restrictions, ToSet(BtdServices(info)))]

(* _partner *)
PartnerAccepted(info) ==
    /\ info.hostMatches
    /\ info.orders # <<>>
    /\ \A o \in ToSet(info.orders) : OrderInfoAccepted(o)
    /\ Distinct(BtdServices(info))
    /\ \A a \in ToSet(info.accounts) : AccountAccepted(info, a)

(* _permission *)
PermissionAccepted(p) == p.order = "BTD" => p.service # NoService

(* _user keeps the BTD permissions; DiscoveredUser refuses to have one twice. *)
BtdPermissions(u) == Keep(u.permissions, {p \in ToSet(u.permissions) : p.order = "BTD"})
DiscoveredUserAccepted(u) == u.wellFormed /\ Distinct(BtdPermissions(u))

UserAccepted(info, u) ==
    /\ u.permissions # <<>>
    /\ \A p \in ToSet(u.permissions) :
           /\ PermissionAccepted(p)
           /\ p.account \in {a.id : a \in ToSet(info.accounts)} \cup {NoAccount}
    /\ DiscoveredUserAccepted(u)

(* CustomerInformation.__post_init__ *)
InformationAccepted(source, accounts, services, users) ==
    /\ users # <<>>
    /\ source = "HTD" => Len(users) = 1
    /\ Distinct([i \in 1..Len(accounts) |-> accounts[i].id])
    /\ Distinct([i \in 1..Len(users) |-> users[i].id])
    /\ \A u \in ToSet(users) : \A p \in ToSet(u.permissions) :
           /\ p.service \in ToSet(services)
           /\ p.account \in {a.id : a \in ToSet(accounts)} \cup {NoAccount}

NoInformation == [kind |-> "none"]

(* _parse_customer_information *)
CustomerInformation(info) ==
    LET accounts == [i \in 1..Len(info.accounts) |-> Projected(info, info.accounts[i])]
        users == [i \in 1..Len(info.users) |->
                     [id |-> info.users[i].id,
                      permissions |-> BtdPermissions(info.users[i])]]
    IN  IF /\ Len(info.users) >= 1
           /\ info.source = "HTD" => Len(info.users) = 1
           /\ PartnerAccepted(info)
           /\ \A u \in ToSet(info.users) : UserAccepted(info, u)
           /\ Requester \in {u.id : u \in ToSet(info.users)}
           /\ InformationAccepted(info.source, accounts, BtdServices(info), users)
        THEN [kind |-> "customer", accounts |-> accounts, services |-> BtdServices(info),
              users |-> users]
        ELSE NoInformation

-----------------------------------------------------------------------------
(* BTD services an account may be used for, as the bank's order data says it: *)
(* all of the customer's, or those its restrictions name.                     *)
UsableForBtd(info, a) ==
    LET btd == {o.service : o \in {x \in ToSet(info.orders) : x.order = "BTD"}}
    IN  IF a.restrictions = Unrestricted THEN btd ELSE ToSet(a.restrictions) \cap btd

(* The same, as a reader of the result finds it. *)
UsableInResult(result, a) ==
    IF a.restrictions = Unrestricted THEN ToSet(result.services)
    ELSE ToSet(a.restrictions)

(* Reducing the bank's catalogue to BTD changes no right: an account restricted *)
(* to other orders does not become unrestricted, every permission kept names a  *)
(* service and an account of the result, and the subscriber finds itself.       *)
RightsKept(info, result) ==
    result.kind = "customer" =>
        /\ \A i \in 1..Len(info.accounts) :
               UsableInResult(result, result.accounts[i]) = UsableForBtd(info, info.accounts[i])
        /\ \A u \in ToSet(result.users) : \A p \in ToSet(u.permissions) :
               /\ p.service \in ToSet(result.services)
               /\ p.account # NoAccount =>
                      \E a \in ToSet(result.accounts) : a.id = p.account
        /\ \E u \in ToSet(result.users) : u.id = Requester
=============================================================================
