------------------------------ MODULE RouteGuard ------------------------------
(***************************************************************************)
(* One request on its way to a guarded route: the CSRF middleware,         *)
(* current_user, and guard(expr) with its precondition, its grants and its *)
(* resolver of resource grants, read one after another from a database     *)
(* that others change meanwhile.  What the database says is a set of       *)
(* facts.  A permission expression is a tree of ALL, ANY and leaves, here  *)
(* the sequence of its nodes: the root first, children after their parent. *)
(***************************************************************************)
EXTENDS Naturals, Sequences, FiniteSets

CONSTANTS
  Situations,   \* what may arrive: [shape, expr, facts], see MCAccess
  Names,        \* the permissions
  MaxChanges    \* bound: changes of the facts while the request is served

VARIABLES
  facts,    \* what the database says now
  shape,    \* the request: [cookie, bearer, origin, mutating, params, factory]
  expr,     \* the route's expression
  stop,     \* where the request is
  permits,      \* what guard has read: [tenant, platform], sets of names
  grants,   \* the resource resolver: "flat", "deny", "consumer" or "none" yet
  status,   \* the answer, 0 before it
  before,   \* history: what the database has said since the request arrived
  changes

guardVars == <<facts, shape, expr, stop, permits, grants, status, before, changes>>

SessionValid   == <<"session">>
AccountEnabled == <<"enabled">>
TenantActive   == <<"active">>
Membership     == <<"member">>
Alive(n)       == <<"live", n>>      \* the permission and a role that bundles it are active
Holds(scope, n) == <<scope, n>>   \* a role of that scope, with the permission in its bundle

Stops == {"csrf", "session", "user", "tenant", "membership", "roles", "perms", "platform",
          "factory", "evaluate", "done"}

-----------------------------------------------------------------------------
(* Permission expressions.                                                 *)

Leaf(n, on)  == [op |-> "perm", name |-> n, on |-> on, kids |-> {}]
Node(op, ks) == [op |-> op, name |-> "", on |-> "", kids |-> ks]

Scopes   == {"platform", "tenant", "resource", "wildcard"}
NodeType == [op : {"perm", "all", "any"}, name : Names \cup {""}, on : Scopes \cup {""},
             kids : SUBSET Nat]

\* An empty ALL or ANY is refused when it is constructed.
WellFormed(e) ==
  /\ e \in Seq(NodeType) /\ e # <<>>
  /\ \A i \in DOMAIN e :
       /\ e[i].kids \subseteq (i + 1) .. Len(e)
       /\ IF e[i].op = "perm" THEN e[i].name \in Names /\ e[i].on \in Scopes ELSE e[i].kids # {}

LeafNodes(e) == {i \in DOMAIN e : e[i].op = "perm"}
Leaves(e)    == {e[i] : i \in LeafNodes(e)}

\* The path parameters of a leaf's pattern.
Params(on) == CASE on = "platform" -> {}
                [] on = "tenant"   -> {"tenant_id"}
                [] OTHER           -> {"tenant_id", "resource_id"} \ (IF on = "wildcard"
                                                                      THEN {"resource_id"} ELSE {})

ResourceParams(e) == UNION {Params(l.on) : l \in Leaves(e)}
NeedsTenant == "tenant_id" \in ResourceParams(expr)

\* Mutant: a leaf is looked up in both domains.
LeafHoldsAnywhere(l, c) == Params(l.on) \subseteq c.path /\ l.name \in c.tenant \cup c.platform

\* Mutant: a platform leaf asks for the path's tenant as well.
LeafHoldsInTenant(l, c) ==
  /\ {"tenant_id"} \cup Params(l.on) \subseteq c.path
  /\ CASE l.on = "platform" -> l.name \in c.platform
       [] l.on = "wildcard" -> FALSE
       [] l.on = "resource" -> l.name \in c.resource
       [] OTHER             -> l.name \in c.tenant

\* A wildcard leaf denies; a missing parameter denies.
LeafHolds(l, c) ==
  /\ Params(l.on) \subseteq c.path
  /\ CASE l.on = "platform" -> l.name \in c.platform
       [] l.on = "wildcard" -> FALSE
       [] l.on = "resource" -> l.name \in c.resource
       [] OTHER             -> l.name \in c.tenant

\* evaluate_async: the verdict of each node, from its children's.
Verdicts(e, c) ==
  LET verdict[i \in DOMAIN e] ==
        CASE e[i].op = "perm" -> LeafHolds(e[i], c)
          [] e[i].op = "any"  -> \E k \in e[i].kids : verdict[k]
          [] OTHER            -> e[i].kids # {} /\ \A k \in e[i].kids : verdict[k]
  IN  verdict

Evaluate(e, c) == Verdicts(e, c)[1]

-----------------------------------------------------------------------------
Move(to) == stop' = to
Refuse(code) == /\ Move("done") /\ status' = code
                /\ UNCHANGED <<facts, shape, expr, permits, grants, before, changes>>
Proceed(to)  == /\ Move(to)
                /\ UNCHANGED <<facts, shape, expr, permits, grants, status, before, changes>>
ReadThen(ok, to, code) == IF ok THEN Proceed(to) ELSE Refuse(code)

\* Mutant: any Authorization header exempts the request.
ExemptedByHeader == shape.cookie # "absent" /\ shape.bearer = "absent"

\* Whether the middleware looks at where a mutating request comes from.
Checked == shape.cookie # "absent"

CSRFMiddleware ==
  /\ stop = "csrf"
  /\ ReadThen(shape.mutating /\ Checked => shape.origin \in {"host", "listed"}, "session", 403)

\* The cookie, unless it is empty; then the Bearer token.
FromCookie == shape.cookie \notin {"absent", "empty"}
Credential == IF FromCookie THEN shape.cookie ELSE shape.bearer

ReadSession ==
  /\ stop = "session"
  /\ ReadThen(Credential = "live" /\ SessionValid \in facts, "user", 401)

ReadUser ==
  /\ stop = "user"
  /\ ReadThen(AccountEnabled \in facts, IF NeedsTenant THEN "tenant" ELSE "platform", 401)

\* Mutant: membership is left to the permissions.
MemberUnchecked == TRUE

IsMember == Membership \in facts

LoadTenantRow ==
  /\ stop = "tenant"
  /\ ReadThen("tenant_id" \in shape.params /\ TenantActive \in facts, "membership", 404)

HasMembership ==
  /\ stop = "membership"
  /\ ReadThen(IsMember, "roles", 404)

Held(scope) == {n \in Names : Holds(scope, n) \in facts}

\* tenant_permissions: the roles of the membership, then their live permissions.
ReadRoles ==
  /\ stop = "roles"
  /\ permits' = [permits EXCEPT !.tenant = Held("tenant")]
  /\ Move("perms")
  /\ UNCHANGED <<facts, shape, expr, grants, status, before, changes>>

ReadPermissions ==
  /\ stop = "perms"
  /\ permits' = [permits EXCEPT !.tenant = {n \in @ : Alive(n) \in facts}]
  /\ Move("platform")
  /\ UNCHANGED <<facts, shape, expr, grants, status, before, changes>>

PlatformPermissions ==
  /\ stop = "platform"
  /\ permits' = [permits EXCEPT !.platform = {n \in Held("platform") : Alive(n) \in facts}]
  /\ Move("factory")
  /\ UNCHANGED <<facts, shape, expr, grants, status, before, changes>>

\* A registered factory owns the grants of a tenant-scoped route: one that
\* raises, is a coroutine, or has no resource_grant denies.
Resolver == IF shape.factory = "none" \/ ~NeedsTenant THEN "flat"
            ELSE IF shape.factory \in {"broken", "silent"} THEN "deny" ELSE "consumer"

CallFactory ==
  /\ stop = "factory"
  /\ grants' = Resolver
  /\ Move("evaluate")
  /\ UNCHANGED <<facts, shape, expr, permits, status, before, changes>>

\* The flat default asks the database; a consumer's resolver answers TRUE, or
\* FALSE, something else, raises or takes too long.
ResourceGrants ==
  CASE grants = "flat"     -> {n \in Held("resource") : Alive(n) \in facts}
    [] grants = "consumer" -> IF shape.factory = "grants" THEN Names ELSE {}
    [] OTHER               -> {}

Decide ==
  /\ stop = "evaluate"
  /\ LET c == [tenant |-> permits.tenant, platform |-> permits.platform, resource |-> ResourceGrants,
               path |-> shape.params]
     IN  Refuse(IF Evaluate(expr, c) THEN 200 ELSE 403)

-----------------------------------------------------------------------------
\* What the others do: a fact ends or begins.  With a membership go the roles it
\* holds (CASCADE), and no role is granted without one.
Dependent(f) == f[1] \in {"tenant", "resource"}
Named == UNION {{Alive(n), Holds("tenant", n), Holds("platform", n), Holds("resource", n)} :
                n \in Names}

Changed(now) ==
  /\ changes < MaxChanges /\ stop # "done" /\ now # facts
  /\ facts' = now /\ before' = before \cup now /\ changes' = changes + 1
  /\ UNCHANGED <<shape, expr, stop, permits, grants, status>>

EndFact(f)    == Changed(facts \ (IF f = Membership THEN {f} \cup {g \in Named : Dependent(g)}
                                                  ELSE {f}))

BeginFact(f)  == /\ f \in Named /\ Dependent(f) => Membership \in facts
                 /\ Changed(facts \cup {f})

Facts == {SessionValid, AccountEnabled, TenantActive, Membership} \cup Named

Shapes == [cookie : {"absent", "empty", "blank", "live", "dead"}, bearer : {"absent", "live", "dead"},
           origin : {"none", "host", "listed", "foreign"}, mutating : BOOLEAN,
           params : SUBSET {"tenant_id", "resource_id"},
           factory : {"none", "broken", "silent", "grants", "refuses"}]

ASSUME GuardAssumption ==
  /\ MaxChanges \in Nat
  /\ \A s \in Situations :
       /\ s.shape \in Shapes /\ WellFormed(s.expr) /\ s.facts \subseteq Facts
       /\ \A f \in s.facts : Dependent(f) => Membership \in s.facts

GuardInit ==
  \E s \in Situations :
    /\ shape = s.shape /\ expr = s.expr /\ facts = s.facts
    /\ before = s.facts
    /\ stop = "csrf" /\ permits = [tenant |-> {}, platform |-> {}] /\ grants = "none"
    /\ status = 0 /\ changes = 0

Precondition == CSRFMiddleware \/ ReadSession \/ ReadUser \/ LoadTenantRow \/ HasMembership
Authorization == ReadRoles \/ ReadPermissions \/ PlatformPermissions \/ CallFactory \/ Decide

GuardNext == Precondition \/ Authorization \/ \E f \in Facts : EndFact(f) \/ BeginFact(f)

GuardSpec == GuardInit /\ [][GuardNext]_guardVars
-----------------------------------------------------------------------------
GuardTypeOK ==
  /\ facts \subseteq before /\ before \subseteq Facts
  /\ shape \in Shapes /\ WellFormed(expr) /\ changes \in Nat
  /\ stop \in Stops /\ status \in {0, 200, 401, 403, 404}
  /\ permits \in [tenant : SUBSET Names, platform : SUBSET Names]
  /\ grants \in {"none", "flat", "deny", "consumer"}
  /\ \A f \in facts \cap Named : Dependent(f) => Membership \in facts

\* What facts entitle to, said without the order of the reads: the leaf's own
\* scope counts and no other.
LeafEntitled(l, fs) ==
  /\ l.on # "wildcard" /\ Params(l.on) \subseteq shape.params
  /\ IF l.on = "resource" /\ shape.factory # "none" THEN shape.factory = "grants"
     ELSE {Holds(l.on, l.name), Alive(l.name)} \subseteq fs

\* Some nodes, the root among them, bear each other out.
Entitles(e, fs) ==
  \E S \in SUBSET DOMAIN e :
    /\ 1 \in S
    /\ \A i \in S : CASE e[i].op = "all" -> e[i].kids \subseteq S
                      [] e[i].op = "any" -> e[i].kids \cap S # {}
                      [] OTHER           -> LeafEntitled(e[i], fs)

Reachable(fs) == /\ {SessionValid, AccountEnabled} \subseteq fs
                 /\ NeedsTenant => "tenant_id" \in shape.params /\ {TenantActive, Membership} \subseteq fs

\* A request that is let through was entitled to it by what the database said
\* while it was served: nothing revoked before it arrived is honoured, no scope
\* stands in for another, and a resolver that fails denies.
AllowedWasEntitled ==
  status = 200 => Reachable(before) /\ Entitles(expr, before)

\* A 403 tells that the tenant exists: who was never a member of it while the
\* request was served gets 404.
StrangersLearnNothing ==
  status = 403 /\ stop = "done" /\ grants # "none" =>
    (NeedsTenant => {TenantActive, Membership} \subseteq before)

Authenticated == /\ stop \notin {"csrf", "session"} /\ status # 401
                 /\ ~(status = 403 /\ grants = "none")

\* Whoever is let in by the cookie to change something came from this host or a
\* listed one: the middleware and current_user agree on which credential counts.
CookieWritesAreOwn ==
  shape.mutating /\ FromCookie /\ Authenticated => shape.origin \in {"host", "listed"}

\* If nothing changes meanwhile, the answer is the one the facts call for.
QuietAnswer ==
  stop = "done" /\ changes = 0 /\ shape.origin = "host" =>
    (status = 200 <=> Credential = "live" /\ Reachable(facts) /\ Entitles(expr, facts))

\* What the guard may never do, whatever changes between its reads.
GuardSound == AllowedWasEntitled /\ StrangersLearnNothing /\ CookieWritesAreOwn
=============================================================================
