----------------------------- MODULE RoleService -----------------------------
(***************************************************************************)
(* Role assignments of one tenant, as the multitenantauth battery keeps    *)
(* them in the control database (authz/service.py) and as the member and   *)
(* role routes drive them.  Every request is one READ COMMITTED            *)
(* transaction of PostgreSQL.  Each SQL statement whose result a later     *)
(* statement relies on is an action of its own; the last flush of a        *)
(* request and its commit are one action, because the rows a flush has     *)
(* written are locked, and invisible to the others, until the commit.      *)
(*                                                                         *)
(* A grant is what one assignment row says: a tenant role, or a resource   *)
(* role on one resource.  The two tables and the two pairs of functions    *)
(* are alike, except that only the tenant role named Admin is guarded.     *)
(***************************************************************************)
EXTENDS Naturals

CONSTANTS
  Users,           \* the people who are, or may become, members
  Grants,          \* the tenant roles and the (resource, role) pairs
  Admin,           \* the tenant role settings.admin_role_name names
  Requests,        \* the requests that arrive, each handled once
  StartingStates,  \* [held, active] pairs the database may start from
  None             \* no lock owner, no answer

ASSUME AdminAssumption == Admin \in Grants
ASSUME NoneAssumption  == None \notin Requests
ASSUME StartAssumption ==
  StartingStates \subseteq [held : [Users -> SUBSET Grants], active : SUBSET Grants]

VARIABLES
  active,    \* the roles whose is_active is true
  member,    \* member[u]: u has a tenant_membership row
  joined,    \* joined[u]: membership rows u has had; the last is the live one's id
  held,      \* held[u]: the grants with an assignment row under u's membership
  granted,   \* granted[u][g]: rows inserted for (u, g), each with its 'grant' event
  revoked,   \* revoked[u][g]: 'revoke' events recorded for (u, g)
  memLock,   \* who holds u's membership row FOR UPDATE
  rowLock,   \* who holds u's Admin assignment row FOR UPDATE
  req,       \* what each request asks for
  pc,        \* the statement each request has reached
  mid,       \* the membership id the request's session has loaded (0: none)
  row,       \* the assignment id revoke_role has selected
  captured,  \* the grants remove_member has captured
  want,      \* admin rows of the lock statement's snapshot still to be locked
  got,       \* admin rows the lock statement has locked and returned
  answer     \* how the request was answered

db     == <<active, member, joined, held, granted, revoked>>
locks  == <<memLock, rowLock>>
locals == <<mid, row, captured, want, got>>
vars   == <<db, locks, req, pc, locals, answer>>

Kinds   == {"grant", "add", "revoke", "remove"}
Asked   == [kind : Kinds, user : Users, grant : Grants]
Row     == [user : Users, mid : Nat, id : Nat]
Answers == {None, "ok", "noop", "not_found", "refused", "invalid", "error", "deadlock"}
Stages  == {"new", "selecting", "inserting", "loaded", "finding", "capturing",
            "asserting", "locking", "deleting", "done"}

-----------------------------------------------------------------------------
(* The rows                                                                *)

Admins    == {u \in Users : Admin \in held[u]}
AdminRow(u) == [user |-> u, mid |-> joined[u], id |-> granted[u][Admin]]
AdminRows == {AdminRow(u) : u \in Admins}

\* The membership row with the id the request has loaded is still there.
Live(t) == member[req[t].user] /\ joined[req[t].user] = mid[t]

\* The assignment row of the request's (membership, grant) pair is there.
Assigned(t) == Live(t) /\ req[t].grant \in held[req[t].user]

FreeFor(t, owner) == owner \in {None, t}

-----------------------------------------------------------------------------
(* Moving a request on, and ending its transaction                         *)

Goto(t, stage) == pc' = [pc EXCEPT ![t] = stage]

\* Mutant: the session is not closed, and its locks outlive the request.
FinishKeepingLocks(t, a) ==
  /\ pc'     = [pc EXCEPT ![t] = "done"]
  /\ answer' = [answer EXCEPT ![t] = a]
  /\ UNCHANGED locks

\* COMMIT or ROLLBACK: the answer goes out and every lock of t is released.
Finish(t, a) ==
  /\ pc'      = [pc EXCEPT ![t] = "done"]
  /\ answer'  = [answer EXCEPT ![t] = a]
  /\ memLock' = [u \in Users |-> IF memLock[u] = t THEN None ELSE memLock[u]]
  /\ rowLock' = [u \in Users |-> IF rowLock[u] = t THEN None ELSE rowLock[u]]

\* Refused, failed or without effect: nothing is written.
Abandon(t, a) == Finish(t, a) /\ UNCHANGED <<db, req, locals>>

Advance(t, stage) == Goto(t, stage) /\ UNCHANGED <<db, req, answer>>

-----------------------------------------------------------------------------
(* The routes                                                              *)

\* The role and member routes load the membership the URL names, 404 when it
\* is not there; service functions then find it in the identity map.
LoadMembership(t, stage) ==
  \/ /\ ~ member[req[t].user]
     /\ Abandon(t, "not_found")
  \/ /\ member[req[t].user]
     /\ mid' = [mid EXCEPT ![t] = joined[req[t].user]]
     /\ Advance(t, stage)
     /\ UNCHANGED <<locks, row, captured, want, got>>

GrantRoute(t)  == pc[t] = "new" /\ req[t].kind = "grant"  /\ LoadMembership(t, "selecting")
RevokeRoute(t) == pc[t] = "new" /\ req[t].kind = "revoke" /\ LoadMembership(t, "loaded")
RemoveRoute(t) == pc[t] = "new" /\ req[t].kind = "remove" /\ LoadMembership(t, "loaded")

\* add_membership: get the user's membership, or leave it to be created.
AddMembership(t) ==
  /\ pc[t] = "new" /\ req[t].kind = "add"
  /\ mid' = [mid EXCEPT ![t] = IF member[req[t].user] THEN joined[req[t].user] ELSE 0]
  /\ Advance(t, "selecting")
  /\ UNCHANGED <<locks, row, captured, want, got>>

-----------------------------------------------------------------------------
(* assign_role and assign_resource_role                                    *)

\* add_membership found no membership, and another request has created one.
Duplicate(t) == mid[t] = 0 /\ member[req[t].user]

\* The role must be active; a row that is already there makes it a no-op.
SelectAssignment(t) ==
  /\ pc[t] = "selecting" /\ ~ Duplicate(t)
  /\ \/ /\ req[t].grant \notin active
        /\ Abandon(t, "invalid")
     \/ /\ req[t].grant \in active
        /\ Assigned(t)
        /\ Abandon(t, "noop")
     \/ /\ req[t].grant \in active
        /\ ~ Assigned(t)
        /\ Advance(t, "inserting")
        /\ UNCHANGED <<locks, locals>>

\* INSERT, 'grant' event and COMMIT.
RecordGrant(t) ==
  LET u == req[t].user  g == req[t].grant IN
  /\ held'    = [held EXCEPT ![u] = @ \cup {g}]
  /\ granted' = [granted EXCEPT ![u][g] = @ + 1]
  /\ Finish(t, "ok")
  /\ UNCHANGED <<active, revoked, req, locals>>

\* The foreign key takes the membership row FOR KEY SHARE, so the INSERT waits
\* for whoever holds that row FOR UPDATE.
InsertAssignment(t) ==
  /\ pc[t] = "inserting" /\ mid[t] # 0
  /\ Live(t) /\ ~ Assigned(t)
  /\ FreeFor(t, memLock[req[t].user])
  /\ RecordGrant(t)
  /\ UNCHANGED <<member, joined>>

\* No membership was found: insert it with its first assignment.
InsertMembership(t) ==
  /\ pc[t] = "inserting" /\ mid[t] = 0
  /\ ~ member[req[t].user]
  /\ member' = [member EXCEPT ![req[t].user] = TRUE]
  /\ joined' = [joined EXCEPT ![req[t].user] = @ + 1]
  /\ RecordGrant(t)

\* IntegrityError, from a unique constraint or from the foreign key: the grant
\* routes roll back and answer 204, add_member lets it become a 500.  The new
\* membership is flushed before the role is looked at.
InsertConflict(t) ==
  /\ \/ pc[t] \in {"selecting", "inserting"} /\ Duplicate(t)
     \/ pc[t] = "inserting" /\ mid[t] # 0 /\ (~ Live(t) \/ Assigned(t))
  /\ Abandon(t, IF req[t].kind = "grant" THEN "noop" ELSE "error")

-----------------------------------------------------------------------------
(* _assert_not_last_admin                                                  *)

\* The admin role must resolve to an active role (RuntimeError otherwise); the
\* SELECT ... FOR UPDATE then sees the admin rows committed before it starts.
SnapshotAdmins(t) ==
  /\ pc[t] = "asserting"
  /\ \/ /\ Admin \notin active
        /\ Abandon(t, "error")
     \/ /\ Admin \in active
        /\ want' = [want EXCEPT ![t] = AdminRows]
        /\ Advance(t, "locking")
        /\ UNCHANGED <<locks, mid, row, captured, got>>

\* The join locks the assignment row, then its membership row, row by row in
\* an order the statement does not fix.
LockAssignmentRow(t, r) ==
  /\ pc[t] = "locking" /\ r \in want[t] /\ r \in AdminRows
  /\ rowLock[r.user] = None
  /\ rowLock' = [rowLock EXCEPT ![r.user] = t]
  /\ UNCHANGED <<db, memLock, req, pc, locals, answer>>

LockMembershipRow(t, r) ==
  /\ pc[t] = "locking" /\ r \in want[t] /\ r \in AdminRows
  /\ rowLock[r.user] = t
  /\ FreeFor(t, memLock[r.user])
  /\ memLock' = [memLock EXCEPT ![r.user] = t]
  /\ want'    = [want EXCEPT ![t] = @ \ {r}]
  /\ got'     = [got EXCEPT ![t] = @ \cup {r}]
  /\ UNCHANGED <<db, rowLock, req, pc, mid, row, captured, answer>>

\* A row deleted since the snapshot is left out of the result; a row inserted
\* since then was never in it.
SkipDeletedRow(t, r) ==
  /\ pc[t] = "locking" /\ r \in want[t] /\ r \notin AdminRows
  /\ want' = [want EXCEPT ![t] = @ \ {r}]
  /\ UNCHANGED <<db, locks, req, pc, mid, row, captured, got, answer>>

\* The membership being removed is among the locked ones, and the only one.
IsLastAdmin(t) ==
  \E r \in got[t] : got[t] = {r} /\ r.user = req[t].user /\ r.mid = mid[t]

CountAdmins(t) ==
  /\ pc[t] = "locking" /\ want[t] = {}
  /\ \/ /\ IsLastAdmin(t)
        /\ Abandon(t, "refused")
     \/ /\ ~ IsLastAdmin(t)
        /\ Advance(t, IF req[t].kind = "revoke" THEN "finding" ELSE "deleting")
        /\ UNCHANGED <<locks, locals>>

-----------------------------------------------------------------------------
(* revoke_role and revoke_resource_role                                    *)

RevokeRole(t) ==
  /\ pc[t] = "loaded" /\ req[t].kind = "revoke"
  /\ Advance(t, IF req[t].grant = Admin THEN "asserting" ELSE "finding")
  /\ UNCHANGED <<locks, locals>>

\* SELECT the assignment; nothing to revoke is a no-op without an event.
FindAssignment(t) ==
  /\ pc[t] = "finding"
  /\ \/ /\ ~ Assigned(t)
        /\ Abandon(t, "noop")
     \/ /\ Assigned(t)
        /\ row' = [row EXCEPT ![t] = granted[req[t].user][req[t].grant]]
        /\ Advance(t, "deleting")
        /\ UNCHANGED <<locks, mid, captured, want, got>>

\* The row selected earlier, by its primary key, is still there.
RowMatches(t) ==
  /\ req[t].grant \in held[req[t].user]
  /\ granted[req[t].user][req[t].grant] = row[t]

\* DELETE by primary key, 'revoke' event and COMMIT.  The event does not depend
\* on how many rows the DELETE matched.
DeleteAssignment(t) ==
  LET u == req[t].user  g == req[t].grant IN
  /\ pc[t] = "deleting" /\ req[t].kind = "revoke"
  /\ RowMatches(t) /\ g = Admin => FreeFor(t, rowLock[u])
  /\ held'    = [held EXCEPT ![u] = IF RowMatches(t) THEN @ \ {g} ELSE @]
  /\ revoked' = [revoked EXCEPT ![u][g] = @ + 1]
  /\ Finish(t, "ok")
  /\ UNCHANGED <<active, member, joined, granted, req, locals>>

-----------------------------------------------------------------------------
(* remove_member                                                           *)

\* Mutant: SELECT the membership without FOR UPDATE.
ReadMembership(t) ==
  /\ pc[t] = "loaded" /\ req[t].kind = "remove"
  /\ \/ ~ Live(t) /\ Abandon(t, "error")
     \/ Live(t) /\ Advance(t, "capturing") /\ UNCHANGED <<locks, locals>>

\* SELECT the membership FOR UPDATE; it may be gone since the route loaded it,
\* and the ValueError is not caught.
LockMembership(t) ==
  /\ pc[t] = "loaded" /\ req[t].kind = "remove"
  /\ \/ /\ ~ Live(t)
        /\ Abandon(t, "error")
     \/ /\ Live(t)
        /\ FreeFor(t, memLock[req[t].user])
        /\ memLock' = [memLock EXCEPT ![req[t].user] = t]
        /\ Advance(t, "capturing")
        /\ UNCHANGED <<rowLock, locals>>

CaptureAssignments(t) ==
  LET here == held[req[t].user] IN
  /\ pc[t] = "capturing"
  /\ captured' = [captured EXCEPT ![t] = here]
  /\ Advance(t, IF Admin \in here THEN "asserting" ELSE "deleting")
  /\ UNCHANGED <<locks, mid, row, want, got>>

\* DELETE the membership (its assignments CASCADE), one 'revoke' event for each
\* captured assignment, COMMIT.
DeleteMembership(t) ==
  LET u == req[t].user IN
  /\ pc[t] = "deleting" /\ req[t].kind = "remove"
  /\ Admin \in held[u] => FreeFor(t, rowLock[u])
  /\ member'  = [member EXCEPT ![u] = FALSE]
  /\ held'    = [held EXCEPT ![u] = {}]
  /\ revoked' = [revoked EXCEPT ![u] =
                   [g \in Grants |-> @[g] + IF g \in captured[t] THEN 1 ELSE 0]]
  /\ Finish(t, "ok")
  /\ UNCHANGED <<active, joined, granted, req, locals>>

-----------------------------------------------------------------------------
(* PostgreSQL's deadlock detector                                          *)

\* The locks t may be waiting for.
Blockers(t) ==
  LET u == req[t].user
      free == {None, t} IN
  CASE pc[t] = "locking" ->
         UNION {{rowLock[r.user]} \cup IF rowLock[r.user] = t THEN {memLock[r.user]} ELSE {} :
                r \in want[t] \cap AdminRows} \ free
    [] pc[t] = "inserting" /\ Live(t)                        -> {memLock[u]} \ free
    [] pc[t] = "loaded" /\ req[t].kind = "remove" /\ Live(t) -> {memLock[u]} \ free
    [] pc[t] = "deleting" /\ Admin \in held[u]               -> {rowLock[u]} \ free
    [] OTHER                                                 -> {}

\* t waits, through others, for itself.
InCycle(t) ==
  \A S \in SUBSET Requests :
    /\ Blockers(t) \subseteq S
    /\ \A s \in S : Blockers(s) \subseteq S
    => t \in S

\* One transaction of a cycle is rolled back; no route catches the error.
DeadlockAbort(t) == InCycle(t) /\ Abandon(t, "deadlock")

-----------------------------------------------------------------------------
Init ==
  /\ \E s \in StartingStates :
       /\ held    = s.held
       /\ active  = s.active
       /\ member  = [u \in Users |-> s.held[u] # {}]
       /\ joined  = [u \in Users |-> IF s.held[u] # {} THEN 1 ELSE 0]
       /\ granted = [u \in Users |-> [g \in Grants |-> IF g \in s.held[u] THEN 1 ELSE 0]]
  /\ revoked  = [u \in Users |-> [g \in Grants |-> 0]]
  /\ memLock  = [u \in Users |-> None]
  /\ rowLock  = [u \in Users |-> None]
  /\ req \in [Requests -> Asked]
  /\ pc       = [t \in Requests |-> "new"]
  /\ mid      = [t \in Requests |-> 0]
  /\ row      = [t \in Requests |-> 0]
  /\ captured = [t \in Requests |-> {}]
  /\ want     = [t \in Requests |-> {}]
  /\ got      = [t \in Requests |-> {}]
  /\ answer   = [t \in Requests |-> None]

Arrive(t) == GrantRoute(t) \/ RevokeRoute(t) \/ RemoveRoute(t) \/ AddMembership(t)

\* Mutant: the admin rows are read without FOR UPDATE.
ReadRows(t) ==
  \E r \in want[t] :
    \/ /\ pc[t] = "locking" /\ r \in AdminRows
       /\ want' = [want EXCEPT ![t] = @ \ {r}]
       /\ got'  = [got EXCEPT ![t] = @ \cup {r}]
       /\ UNCHANGED <<db, locks, req, pc, mid, row, captured, answer>>
    \/ SkipDeletedRow(t, r)

LockRows(t) ==
  \E r \in want[t] :
    LockAssignmentRow(t, r) \/ LockMembershipRow(t, r) \/ SkipDeletedRow(t, r)

Serve(t) ==
  \/ SelectAssignment(t)
  \/ InsertAssignment(t)
  \/ InsertMembership(t)
  \/ InsertConflict(t)
  \/ SnapshotAdmins(t)
  \/ LockRows(t)
  \/ CountAdmins(t)
  \/ RevokeRole(t)
  \/ FindAssignment(t)
  \/ DeleteAssignment(t)
  \/ LockMembership(t)
  \/ CaptureAssignments(t)
  \/ DeleteMembership(t)
  \/ DeadlockAbort(t)

Next == \E t \in Requests : Arrive(t) \/ Serve(t)

Spec == Init /\ [][Next]_vars

\* A worker thread that has begun a request goes on with it, and the server
\* grants a free lock or breaks a cycle.  Nothing makes a request arrive.
FairSpec == Spec /\ \A t \in Requests : WF_vars(Serve(t))

-----------------------------------------------------------------------------
(* Properties                                                              *)

\* Every variable has its type.
TypeOK ==
  /\ active   \in SUBSET Grants
  /\ member   \in [Users -> BOOLEAN]
  /\ joined   \in [Users -> Nat]
  /\ held     \in [Users -> SUBSET Grants]
  /\ granted  \in [Users -> [Grants -> Nat]]
  /\ revoked  \in [Users -> [Grants -> Nat]]
  /\ memLock  \in [Users -> Requests \cup {None}]
  /\ rowLock  \in [Users -> Requests \cup {None}]
  /\ req      \in [Requests -> Asked]
  /\ pc       \in [Requests -> Stages]
  /\ mid      \in [Requests -> Nat]
  /\ row      \in [Requests -> Nat]
  /\ captured \in [Requests -> SUBSET Grants]
  /\ want     \in [Requests -> SUBSET Row]
  /\ got      \in [Requests -> SUBSET Row]
  /\ answer   \in [Requests -> Answers]

\* The row this request would delete was among those it locked and counted.
Counted(t) == AdminRow(req[t].user) \in got[t]

\* A removal or demotion whose own admin row was counted under the lock never
\* takes a tenant from some admins to none (service.py: _assert_not_last_admin).
CountedRemovalsKeepAnAdmin ==
  [][\A t \in Requests :
       /\ pc[t] = "deleting" /\ pc'[t] = "done"
       /\ req[t].kind = "remove" \/ Counted(t)
       /\ Admins # {}
       => Admins' # {}]_vars

\* Every assignment row that is gone has its 'revoke' event, however it went:
\* no 'grant' is left dangling as the last audit word (remove_member).
EveryRemovalAudited ==
  \A u \in Users, g \in Grants :
    granted[u][g] <= revoked[u][g] + IF g \in held[u] THEN 1 ELSE 0

\* Once served, a request is answered, so that again and again none is open: lock
\* waits end, or the cycle they form is broken.
EveryRequestAnswered == []<>(\A t \in Requests : pc[t] \in {"new", "done"})

\* "a tenant can never be left with zero admins": no step takes the last admin.
NeverOrphaned == [][Admins # {} => Admins' # {}]_vars

\* "Only a row that actually existed is a real revoke": no more 'revoke' events
\* than rows that have gone.
NoPhantomRevoke ==
  \A u \in Users, g \in Grants :
    revoked[u][g] + (IF g \in held[u] THEN 1 ELSE 0) <= granted[u][g]
=============================================================================
