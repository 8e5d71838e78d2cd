------------------------------- MODULE MCAccess -------------------------------
(***************************************************************************)
(* Who may do what: the authentication routes, the route guard, the seeds  *)
(* of the authorization tables and the role service, side by side.  They   *)
(* share no state here; a behaviour is one of one part, `part', while the  *)
(* others rest in one state of theirs.                                     *)
(***************************************************************************)
EXTENDS AuthSessions, RouteGuard, AuthzSeed, RoleService, TLC

CONSTANTS ann, bob, old, new, q1, q2, q3, s1, s2, s3, r1, r2, r3, Plain

VARIABLE part

A(kind, who, what, pw) == [kind |-> kind, who |-> who, what |-> what, pw |-> pw]

MCInviteOf == ("k1" :> ann) @@ ("k2" :> ann)

MCAsks ==
  <<A("login", ann, "-", old), A("login", ann, "-", new), A("logout", ann, Nobody, old),
   A("set", ann, "k1", new), A("set", ann, "k2", new), A("remove", ann, "-", old),
   A("signup", bob, "acme", old), A("signup", bob, "globex", old)>>

\* Three of them, in no particular order: the requests differ only in their name.
MCPlans == {(q1 :> MCAsks[t[1]]) @@ (q2 :> MCAsks[t[2]]) @@ (q3 :> MCAsks[t[3]]) :
              t \in {p \in (1..8) \X (1..8) \X (1..8) : p[1] <= p[2] /\ p[2] < p[3]}}

Ann(weak) == [secret |-> (ann :> [pw |-> old, weak |-> weak]) @@ (bob :> Nobody),
              rows   |-> {[by |-> Nobody, user |-> ann, pw |-> old]}]

Invited == [secret |-> (ann :> [pw |-> Nobody, weak |-> FALSE]) @@ (bob :> Nobody), rows |-> {}]

MCAuthStarts == {Ann(TRUE), Ann(FALSE), Invited}

-----------------------------------------------------------------------------
\* Requests with every pair of credentials and every origin, on an easy route;
\* and signed-in ones on every route, with every resolver.
Shape(c, b, o, w, ps, fac) == [cookie |-> c, bearer |-> b, origin |-> o, mutating |-> w,
                               params |-> ps, factory |-> fac]
OneTenant == {"tenant_id"}
Both      == {"tenant_id", "resource_id"}

R == Leaf("read", "tenant")
P == Leaf("run", "platform")
M == Leaf("manage", "resource")

Routes == {<<R>>, <<P>>, <<Node("all", {2, 3}), R, M>>,
           <<Node("any", {2, 5}), Node("all", {3, 4}), P, R, M>>,
           <<Node("any", {2, 3}), Leaf("read", "wildcard"), M>>}

Everything == {SessionValid, AccountEnabled, TenantActive, Membership, Holds("tenant", "read"),
               Holds("platform", "run"), Holds("resource", "manage")}
              \cup {Alive(n) : n \in {"read", "run", "manage"}}

\* A database that lacks at most one of the facts (a change may end another), and
\* one whose operator holds the tenant's permission on the platform.
Databases == {Everything} \cup {Everything \ {f} : f \in Everything \ {Membership}}
             \cup {(Everything \ {Membership, Holds("tenant", "read"), Holds("resource", "manage")})
                      \cup {Holds("platform", "read")}}

MCSituations ==
  {[shape |-> Shape(c, b, o, w, OneTenant, "none"), expr |-> <<R>>, facts |-> fs] :
     c \in {"absent", "empty", "blank", "live", "dead"}, b \in {"absent", "live", "dead"},
     o \in {"none", "host", "listed", "foreign"}, w \in BOOLEAN,
     fs \in {Everything, Everything \ {SessionValid}}}
  \cup
  {[shape |-> Shape("live", "absent", "host", TRUE, ps, fac), expr |-> e, facts |-> fs] :
     ps \in {{}, OneTenant, Both}, fac \in {"none", "broken", "silent", "grants", "refuses"},
     e \in Routes, fs \in Databases}
-----------------------------------------------------------------------------
\* Releases: one that renames a permission, one in another order that declares a
\* role again, and four that a seed refuses.
Permit(n, live)     == [name |-> n, domain |-> "tenant", live |-> live]
Bundle(n, d, ps)    == [name |-> n, domain |-> d, bundle |-> ps]
Catalog(ps, rs)     == [perms |-> ps, roles |-> rs]

C1 == Catalog(<<Permit("read", TRUE), Permit("run", TRUE)>>,
              <<Bundle("admin", "tenant", {"read", "run"}), Bundle("viewer", "tenant", {"read"})>>)
C2 == Catalog(<<Permit("read", TRUE), Permit("manage", TRUE)>>,
              <<Bundle("admin", "tenant", {"read", "manage"})>>)
C3 == Catalog(<<Permit("run", TRUE), Permit("read", FALSE)>>, <<Bundle("viewer", "tenant", {"run"})>>)

Refused == {Catalog(<<Permit("read", live)>>, rs) :
              live \in BOOLEAN,
              rs \in {<<Bundle("viewer", "tenant", {"read"})>>, <<Bundle("viewer", "platform", {"read"})>>,
                     <<Bundle("viewer", "tenant", {"run"})>>,
                     <<Bundle("viewer", "tenant", {}), Bundle("viewer", "tenant", {"read"})>>}}

Three(a, b, c) == (s1 :> a) @@ (s2 :> b) @@ (s3 :> c)

MCReleases == {Three(C1, C1, C1), Three(C2, C2, C2), Three(C1, C1, C2), Three(C1, C2, C3),
               Three(C1, C3, C3)} \cup {Three(C1, C2, c) : c \in Refused}

MCSeedStarts == {[perm |-> [n \in PermNames |-> Absent], role |-> [r \in RoleNames |-> Absent],
                  rows |-> {}]}
-----------------------------------------------------------------------------
RoleStart(a, b, act) == [held |-> (ann :> a) @@ (bob :> b), active |-> act]

\* One founder and a member; two admins; a catalog with an inactive role.
MCRoleStarts == {RoleStart({Admin}, {Plain}, Grants), RoleStart({Admin, Plain}, {Admin}, Grants),
                 RoleStart({Admin}, {Admin, Plain}, {Plain})}

\* Two requests that take roles away, in no particular order, and a third of any
\* kind.  Memberships are added and removed whatever the grant.
Rivals ==
  /\ req[r2].kind \in {"revoke", "remove"} /\ req[r3].kind \in {"revoke", "remove"}
  /\ req[r2].kind = "remove" => req[r3].kind = "remove"
  /\ \A t \in Requests : req[t].kind \in {"add", "remove"} => req[t].grant = Plain
-----------------------------------------------------------------------------
AuthIdle  == /\ ask = (q1 :> MCAsks[1]) @@ (q2 :> MCAsks[1]) @@ (q3 :> MCAsks[2])
             /\ secret = Ann(TRUE).secret
             /\ AuthInit
GuardIdle == /\ shape = Shape("live", "absent", "host", TRUE, OneTenant, "none")
             /\ expr = <<R>> /\ facts = Everything
             /\ GuardInit
SeedIdle  == release = Three(C1, C1, C1) /\ SeedInit
RoleIdle  == /\ req = [t \in Requests |-> [kind |-> "grant", user |-> ann, grant |-> Plain]]
             /\ held = RoleStart({Admin}, {Plain}, Grants).held /\ active = Grants
             /\ Init

AccessInit ==
  \/ part = "auth"  /\ AuthInit  /\ GuardIdle /\ SeedIdle /\ RoleIdle
  \/ part = "guard" /\ AuthIdle  /\ GuardInit /\ SeedIdle /\ RoleIdle
  \/ part = "seed"  /\ AuthIdle  /\ GuardIdle /\ SeedInit /\ RoleIdle
  \/ part = "roles" /\ AuthIdle  /\ GuardIdle /\ SeedIdle /\ Init /\ Rivals

AccessNext ==
  /\ UNCHANGED part
  /\ \/ part = "auth"  /\ AuthNext  /\ UNCHANGED <<guardVars, seedVars, vars>>
     \/ part = "guard" /\ GuardNext /\ UNCHANGED <<authVars, seedVars, vars>>
     \/ part = "seed"  /\ SeedNext  /\ UNCHANGED <<authVars, guardVars, vars>>
     \/ part = "roles" /\ Next      /\ UNCHANGED <<authVars, guardVars, seedVars>>

AccessVars == <<part, authVars, guardVars, seedVars, vars>>

\* A part at rest has no request begun, so its fairness asks nothing.
AccessSpec == /\ AccessInit /\ [][AccessNext]_AccessVars
              /\ AuthFairness
              /\ \A t \in Requests : WF_vars(Serve(t))

-----------------------------------------------------------------------------

\* Every variable of the four parts keeps its type.
AccessTypes == TypeOK /\ AuthTypeOK /\ GuardTypeOK /\ SeedTypeOK

\* Every request that is begun is answered, whether it signs in or manages roles:
\* no cycle of row locks holds one for ever.
RequestsAnswered == EveryRequestAnswered /\ AuthAnswered
=============================================================================
