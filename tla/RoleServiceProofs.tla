-------------------------- MODULE RoleServiceProofs --------------------------
(***************************************************************************)
(* Proofs about RoleService, for any users, grants and requests.           *)
(***************************************************************************)
EXTENDS RoleService, TLAPS

-----------------------------------------------------------------------------
(* The inductive invariant                                                 *)

\* Only members have assignment rows (the foreign key, and the CASCADE).
HeldByMembers == \A u \in Users : ~ member[u] => held[u] = {}

\* Which requests come to a stage that two kinds of request might share.
StageOfKind(t) ==
  /\ pc[t] = "capturing" => req[t].kind = "remove"
  /\ pc[t] = "finding"   => req[t].kind = "revoke"

\* The row revoke_role selected was inserted; while it is there, so is the
\* membership it belongs to.
FoundRow(t) ==
  /\ row[t] <= granted[req[t].user][req[t].grant]
  /\ pc[t] = "deleting" /\ req[t].kind = "revoke" /\ RowMatches(t) => Live(t)

\* Nothing has been locked by the admin check before it starts.
NothingLockedYet(t) ==
  pc[t] \in {"new", "selecting", "inserting", "loaded", "capturing", "asserting"}
    => got[t] = {}

\* The rows the admin check returned are still there, and still locked.
LockedRowsLive(t) ==
  pc[t] \in {"locking", "finding", "deleting"} =>
    \A r \in got[t] :
      r.user \in Admins /\ r = AdminRow(r.user) /\ rowLock[r.user] = t

\* A request past the count is not removing the only admin it counted.
PastTheCount(t) == pc[t] \in {"finding", "deleting"} => ~ IsLastAdmin(t)

Removing(t, stages) == req[t].kind = "remove" /\ pc[t] \in stages

\* remove_member holds its membership row FOR UPDATE, so nobody adds an
\* assignment to it: what it captured covers what it will delete.
RemoverHoldsMembership(t) ==
  /\ Removing(t, {"capturing", "asserting", "locking", "deleting"})
       => Live(t) /\ memLock[req[t].user] = t
  /\ Removing(t, {"asserting", "locking", "deleting"})
       => held[req[t].user] \subseteq captured[t]

\* ... and an admin row it will delete is one it has counted.
RemoverCountsItself(t) ==
  Admin \in held[req[t].user] =>
    /\ Removing(t, {"locking"}) => AdminRow(req[t].user) \in want[t] \cup got[t]
    /\ Removing(t, {"deleting"}) => AdminRow(req[t].user) \in got[t]

RequestOK(t) ==
  /\ StageOfKind(t)
  /\ FoundRow(t)
  /\ NothingLockedYet(t)
  /\ LockedRowsLive(t)
  /\ PastTheCount(t)
  /\ RemoverHoldsMembership(t)
  /\ RemoverCountsItself(t)

IInv ==
  /\ TypeOK
  /\ HeldByMembers
  /\ EveryRemovalAudited
  /\ \A t \in Requests : RequestOK(t)

-----------------------------------------------------------------------------
(* Type correctness                                                        *)

LEMMA FinishType ==
  ASSUME TypeOK, NEW t \in Requests, NEW a \in Answers, Finish(t, a)
  PROVE  /\ pc' \in [Requests -> Stages] /\ answer' \in [Requests -> Answers]
         /\ memLock' \in [Users -> Requests \cup {None}]
         /\ rowLock' \in [Users -> Requests \cup {None}]
  BY DEF TypeOK, Finish, Stages

LEMMA AbandonType ==
  ASSUME TypeOK, NEW t \in Requests, NEW a \in Answers, Abandon(t, a)
  PROVE  TypeOK'
  BY FinishType DEF TypeOK, Abandon, db, locals

LEMMA ArriveType ==
  ASSUME TypeOK, NEW t \in Requests, Arrive(t)
  PROVE  TypeOK'
<1>1. ASSUME NEW stage \in Stages, LoadMembership(t, stage)
      PROVE  TypeOK'
  <2>1. CASE Abandon(t, "not_found")
    BY <2>1, AbandonType DEF Answers
  <2>2. CASE ~ Abandon(t, "not_found")
    <3>1. joined[req[t].user] \in Nat
      BY DEF TypeOK, Asked
    <3>2. /\ mid' = [mid EXCEPT ![t] = joined[req[t].user]]
          /\ pc' = [pc EXCEPT ![t] = stage]
          /\ UNCHANGED <<db, req, answer, locks, row, captured, want, got>>
      BY <1>1, <2>2 DEF LoadMembership, Advance, Goto
    <3> QED
      BY <3>1, <3>2 DEF TypeOK, db, locks
  <2> QED BY <2>1, <2>2
<1>2. CASE AddMembership(t)
  BY <1>2 DEF TypeOK, AddMembership, Advance, Goto, db, locks, Asked, Stages
<1> QED
  BY <1>1, <1>2 DEF Arrive, GrantRoute, RevokeRoute, RemoveRoute, Stages

LEMMA AdminRowType ==
  ASSUME TypeOK
  PROVE  AdminRows \in SUBSET Row
  BY AdminAssumption DEF TypeOK, AdminRows, AdminRow, Admins, Row

LEMMA ServeType ==
  ASSUME TypeOK, NEW t \in Requests, Serve(t)
  PROVE  TypeOK'
<1> USE DEF TypeOK
<1>A. \A a \in Answers : Abandon(t, a) => TypeOK'
  BY AbandonType
<1>0. req[t].user \in Users /\ req[t].grant \in Grants
  BY DEF Asked
<1>1. CASE SelectAssignment(t)
  BY <1>1, <1>A DEF SelectAssignment, Advance, Goto, db, locks, locals, Stages, Answers
<1>2. CASE InsertAssignment(t)
  BY <1>0, <1>2, FinishType DEF InsertAssignment, RecordGrant, Answers, locals
<1>3. CASE InsertMembership(t)
  BY <1>0, <1>3, FinishType DEF InsertMembership, RecordGrant, Answers, locals
<1>4. CASE InsertConflict(t)
  BY <1>4, <1>A DEF InsertConflict, Answers
<1>5. CASE SnapshotAdmins(t)
  BY <1>5, <1>A, AdminRowType
     DEF SnapshotAdmins, Advance, Goto, db, locks, Stages, Answers
<1>6. CASE LockRows(t)
  <2> PICK r \in want[t] :
        LockAssignmentRow(t, r) \/ LockMembershipRow(t, r) \/ SkipDeletedRow(t, r)
    BY <1>6 DEF LockRows
  <2> r \in Row
    OBVIOUS
  <2> r.user \in Users
    BY DEF Row
  <2>1. CASE LockAssignmentRow(t, r)
    BY <2>1 DEF LockAssignmentRow, db, locals
  <2>2. CASE LockMembershipRow(t, r)
    BY <2>2 DEF LockMembershipRow, db, locals
  <2>3. CASE SkipDeletedRow(t, r)
    BY <2>3 DEF SkipDeletedRow, db, locks
  <2> QED BY <2>1, <2>2, <2>3
<1>7. CASE CountAdmins(t)
  BY <1>7, <1>A DEF CountAdmins, Advance, Goto, db, locks, locals, Stages, Answers
<1>8. CASE RevokeRole(t)
  BY <1>8 DEF RevokeRole, Advance, Goto, db, locks, locals, Stages
<1>9. CASE FindAssignment(t)
  <2>1. granted[req[t].user][req[t].grant] \in Nat
    BY <1>0
  <2>2. CASE \E a \in Answers : Abandon(t, a)
    BY <2>2, <1>A
  <2>3. CASE \A a \in Answers : ~ Abandon(t, a)
    BY <2>1, <2>3, <1>9 DEF FindAssignment, Advance, Goto, db, locks, Stages, Answers
  <2> QED BY <2>2, <2>3
<1>10. CASE DeleteAssignment(t)
  BY <1>0, <1>10, FinishType DEF DeleteAssignment, Answers, locals
<1>11. CASE LockMembership(t)
  BY <1>0, <1>11, <1>A DEF LockMembership, Advance, Goto, db, locals, Stages, Answers
<1>12. CASE CaptureAssignments(t)
  BY <1>0, <1>12 DEF CaptureAssignments, Advance, Goto, db, locks, Stages
<1>13. CASE DeleteMembership(t)
  BY <1>0, <1>13, FinishType DEF DeleteMembership, Answers, locals
<1>14. CASE DeadlockAbort(t)
  BY <1>14, <1>A DEF DeadlockAbort, Answers
<1> QED
  BY <1>1, <1>2, <1>3, <1>4, <1>5, <1>6, <1>7, <1>8, <1>9, <1>10, <1>11, <1>12,
     <1>13, <1>14 DEF Serve

\* Every reachable state is well typed.
THEOREM TypeCorrect == Spec => []TypeOK
<1>1. Init => TypeOK
  BY StartAssumption DEF Init, TypeOK, Stages, Answers
<1>2. TypeOK /\ [Next]_vars => TypeOK'
  BY ArriveType, ServeType DEF Next, vars, db, locks, locals, TypeOK
<1> QED
  BY <1>1, <1>2, PTL DEF Spec

-----------------------------------------------------------------------------
(* The inductive invariant is preserved                                    *)

\* What a step of t leaves to another request: its place, its locals, and the
\* locks it holds.
Untouched(s) ==
  /\ pc'[s] = pc[s] /\ mid'[s] = mid[s] /\ row'[s] = row[s]
  /\ captured'[s] = captured[s] /\ want'[s] = want[s] /\ got'[s] = got[s]
  /\ req' = req
  /\ \A u \in Users : /\ memLock[u] = s => memLock'[u] = s
                      /\ rowLock[u] = s => rowLock'[u] = s

LEMMA FinishLeavesOthers ==
  ASSUME TypeOK, NEW t \in Requests, NEW a, Finish(t, a), UNCHANGED <<req, locals>>,
         NEW s \in Requests, s # t
  PROVE  Untouched(s)
BY DEF TypeOK, Finish, Untouched, locals

\* A step that writes no row keeps what is known of the other requests.
LEMMA OthersKept ==
  ASSUME IInv, UNCHANGED db, NEW s \in Requests, Untouched(s)
  PROVE  RequestOK(s)'
<1>0. req[s].user \in Users /\ RequestOK(s)
  BY DEF IInv, TypeOK, Asked
<1>1. Live(s)' = Live(s) /\ Admins' = Admins /\ RowMatches(s)' = RowMatches(s)
  BY DEF Untouched, db, Live, Admins, RowMatches
<1>2. \A u : AdminRow(u)' = AdminRow(u)
  BY DEF AdminRow, db
<1>3. IsLastAdmin(s)' = IsLastAdmin(s)
  BY DEF IsLastAdmin, Untouched
<1>4. StageOfKind(s)' /\ FoundRow(s)' /\ NothingLockedYet(s)' /\ PastTheCount(s)'
  BY <1>0, <1>1, <1>3 DEF RequestOK, StageOfKind, FoundRow, NothingLockedYet,
     PastTheCount, Untouched, db
<1>5. LockedRowsLive(s)'
  BY <1>0, <1>1, <1>2 DEF RequestOK, LockedRowsLive, Untouched, Admins
<1>6. RemoverHoldsMembership(s)' /\ RemoverCountsItself(s)'
  BY <1>0, <1>1, <1>2 DEF RequestOK, RemoverHoldsMembership, RemoverCountsItself,
     Removing, Untouched, db
<1> QED BY <1>4, <1>5, <1>6 DEF RequestOK

\* A request that has ended is held to nothing but the row it once selected.
LEMMA EndedOK ==
  ASSUME IInv, NEW t \in Requests, NEW a, Finish(t, a), UNCHANGED <<req, locals>>,
         granted[req[t].user][req[t].grant] <= granted'[req[t].user][req[t].grant],
         granted'[req[t].user][req[t].grant] \in Nat
  PROVE  RequestOK(t)'
<1>1. pc'[t] = "done" /\ row'[t] = row[t] /\ req' = req
  BY DEF IInv, TypeOK, Finish, locals
<1>2. row'[t] <= granted'[req[t].user][req[t].grant]
  BY <1>1 DEF IInv, RequestOK, FoundRow, TypeOK, Asked
<1> QED
  BY <1>1, <1>2 DEF RequestOK, StageOfKind, FoundRow, NothingLockedYet, LockedRowsLive,
     PastTheCount, RemoverHoldsMembership, RemoverCountsItself, Removing

\* A grant never adds a row under a membership another request is removing, and
\* never brings back a row another request has selected or counted.
LEMMA GrantKeepsOthers ==
  ASSUME IInv, NEW t \in Requests, InsertAssignment(t) \/ InsertMembership(t),
         NEW s \in Requests, s # t
  PROVE  RequestOK(s)'
<1> DEFINE u == req[t].user
           g == req[t].grant
<1>0. /\ u \in Users /\ g \in Grants
      /\ req[s].user \in Users /\ req[s].grant \in Grants
      /\ RequestOK(s)
  BY DEF IInv, TypeOK, Asked
<1>1. /\ held' = [held EXCEPT ![u] = @ \cup {g}]
      /\ granted' = [granted EXCEPT ![u][g] = @ + 1]
      /\ g \notin held[u]
      /\ UNCHANGED <<active, revoked>>
  BY <1>0 DEF InsertAssignment, InsertMembership, RecordGrant, Assigned, IInv, HeldByMembers
<1>2. Untouched(s)
  BY FinishLeavesOthers DEF IInv, InsertAssignment, InsertMembership, RecordGrant
<1>3. /\ \A v \in Users : member[v] => member'[v] /\ joined'[v] = joined[v]
      /\ \A v \in Users : joined'[v] # joined[v] => v = u /\ ~ member[v]
      /\ member[u] => FreeFor(t, memLock[u]) /\ Live(t)
  BY <1>0 DEF IInv, TypeOK, InsertAssignment, InsertMembership
<1>4. \A v \in Users : held[v] # {} => member[v]
  BY DEF IInv, HeldByMembers
<1>5. granted[u][g] \in Nat /\ granted'[u][g] = granted[u][g] + 1
  BY <1>0, <1>1 DEF IInv, TypeOK
<1>6. \A v \in Users, h \in Grants :
        v # u \/ h # g => /\ granted'[v][h] = granted[v][h]
                          /\ h \in held'[v] <=> h \in held[v]
  BY <1>0, <1>1 DEF IInv, TypeOK
<1>7. FoundRow(s)'
  <2>1. row[s] <= granted[req[s].user][req[s].grant] /\ row[s] \in Nat
    BY <1>0 DEF RequestOK, FoundRow, IInv, TypeOK
  <2>2. CASE req[s].user = u /\ req[s].grant = g
    BY <1>0, <1>2, <1>5, <2>1, <2>2 DEF FoundRow, RowMatches, Untouched
  <2>3. CASE req[s].user # u \/ req[s].grant # g
    <3>1. RowMatches(s)' => RowMatches(s) /\ member[req[s].user]
      BY <1>0, <1>2, <1>4, <1>6, <2>3 DEF RowMatches, Untouched
    <3>2. Live(s) /\ member[req[s].user] => Live(s)'
      BY <1>0, <1>2, <1>3 DEF Live, Untouched
    <3> QED
      BY <1>0, <1>2, <1>6, <2>1, <2>3, <3>1, <3>2 DEF RequestOK, FoundRow, Untouched
  <2> QED BY <2>2, <2>3
<1>8. LockedRowsLive(s)'
  <2> SUFFICES ASSUME pc[s] \in {"locking", "finding", "deleting"}, NEW r \in got[s]
               PROVE  /\ r.user \in Admins' /\ r = AdminRow(r.user)'
                      /\ rowLock'[r.user] = s
    BY <1>2 DEF LockedRowsLive, Untouched
  <2>1. r.user \in Admins /\ r = AdminRow(r.user) /\ rowLock[r.user] = s
    BY <1>0 DEF RequestOK, LockedRowsLive
  <2>2. r.user \in Users /\ Admin \in held[r.user] /\ member[r.user]
    BY <1>4, <2>1 DEF Admins
  <2>3. r.user # u \/ Admin # g
    BY <1>1, <2>2
  <2>4. granted'[r.user][Admin] = granted[r.user][Admin] /\ Admin \in held'[r.user]
    BY <1>6, <2>2, <2>3, AdminAssumption
  <2>5. joined'[r.user] = joined[r.user]
    BY <1>3, <2>2
  <2> QED
    BY <1>2, <2>1, <2>2, <2>4, <2>5 DEF Untouched, AdminRow, Admins
<1>9. Removing(s, {"capturing", "asserting", "locking", "deleting"}) => req[s].user # u
  BY <1>0, <1>3, NoneAssumption
     DEF RequestOK, RemoverHoldsMembership, Live, FreeFor
<1>10. RemoverHoldsMembership(s)' /\ RemoverCountsItself(s)'
  <2>1. CASE Removing(s, {"capturing", "asserting", "locking", "deleting"})
    <3>1. held'[req[s].user] = held[req[s].user] /\ joined'[req[s].user] = joined[req[s].user]
          /\ granted'[req[s].user] = granted[req[s].user] /\ member'[req[s].user]
      BY <1>0, <1>1, <1>3, <1>9, <2>1 DEF IInv, TypeOK, RequestOK, RemoverHoldsMembership, Live
    <3> QED
      BY <1>0, <1>2, <2>1, <3>1 DEF RequestOK, RemoverHoldsMembership, RemoverCountsItself,
         Removing, Untouched, Live, AdminRow
  <2>2. CASE ~ Removing(s, {"capturing", "asserting", "locking", "deleting"})
    BY <1>2, <2>2 DEF RemoverHoldsMembership, RemoverCountsItself, Removing, Untouched
  <2> QED BY <2>1, <2>2
<1>11. StageOfKind(s)' /\ NothingLockedYet(s)' /\ PastTheCount(s)'
  BY <1>0, <1>2 DEF RequestOK, StageOfKind, NothingLockedYet, PastTheCount, IsLastAdmin, Untouched
<1> QED
  BY <1>7, <1>8, <1>10, <1>11 DEF RequestOK

\* A DELETE waits for the admin rows another request has counted.
LEMMA DeleteKeepsOthers ==
  ASSUME IInv, NEW t \in Requests, DeleteAssignment(t) \/ DeleteMembership(t),
         NEW s \in Requests, s # t
  PROVE  RequestOK(s)'
<1> DEFINE u == req[t].user
<1>0. u \in Users /\ req[s].user \in Users /\ req[s].grant \in Grants /\ RequestOK(s)
  BY DEF IInv, TypeOK, Asked
<1>1. Untouched(s) /\ UNCHANGED <<joined, granted>>
  BY FinishLeavesOthers DEF IInv, DeleteAssignment, DeleteMembership, locals
<1>2. /\ \A v \in Users : held'[v] \subseteq held[v]
      /\ \A v \in Users : v # u => held'[v] = held[v] /\ member'[v] = member[v]
  <2>1. CASE DeleteAssignment(t)
    <3>1. held'[u] \subseteq held[u]
      BY <1>0, <2>1 DEF IInv, TypeOK, DeleteAssignment
    <3>2. \A v \in Users : v # u => held'[v] = held[v] /\ member'[v] = member[v]
      BY <1>0, <2>1 DEF IInv, TypeOK, DeleteAssignment
    <3> QED BY <3>1, <3>2
  <2>2. CASE DeleteMembership(t)
    BY <1>0, <2>2 DEF IInv, TypeOK, DeleteMembership
  <2> QED BY <2>1, <2>2
<1>3. Admin \in held[u] /\ Admin \notin held'[u] => FreeFor(t, rowLock[u])
  BY <1>0 DEF IInv, TypeOK, DeleteAssignment, DeleteMembership
<1>4. member'[u] = member[u] \/ (held'[u] = {} /\ memLock[u] = t)
  BY <1>0 DEF IInv, TypeOK, DeleteAssignment, DeleteMembership, RequestOK,
     RemoverHoldsMembership, Removing
<1>5. FoundRow(s)'
  BY <1>0, <1>1, <1>2, <1>4 DEF RequestOK, FoundRow, RowMatches, Live, Untouched
<1>6. LockedRowsLive(s)'
  <2> SUFFICES ASSUME pc[s] \in {"locking", "finding", "deleting"}, NEW r \in got[s]
               PROVE  /\ r.user \in Admins' /\ r = AdminRow(r.user)'
                      /\ rowLock'[r.user] = s
    BY <1>1 DEF LockedRowsLive, Untouched
  <2>1. r.user \in Admins /\ r = AdminRow(r.user) /\ rowLock[r.user] = s
    BY <1>0 DEF RequestOK, LockedRowsLive
  <2>2. Admin \in held'[r.user]
    BY <1>2, <1>3, <2>1, NoneAssumption DEF Admins, FreeFor
  <2> QED
    BY <1>1, <2>1, <2>2 DEF Untouched, AdminRow, Admins
<1>7. RemoverHoldsMembership(s)'
  BY <1>0, <1>1, <1>2, <1>4 DEF RequestOK, RemoverHoldsMembership, Removing, Untouched, Live
<1>8. RemoverCountsItself(s)'
  BY <1>0, <1>1, <1>2 DEF RequestOK, RemoverCountsItself, Removing, Untouched, AdminRow
<1>9. StageOfKind(s)' /\ NothingLockedYet(s)' /\ PastTheCount(s)'
  BY <1>0, <1>1 DEF RequestOK, StageOfKind, NothingLockedYet, PastTheCount, IsLastAdmin, Untouched
<1> QED
  BY <1>5, <1>6, <1>7, <1>8, <1>9 DEF RequestOK

\* A step that writes no row need only be checked for the request that takes it.
LEMMA QuietStep ==
  ASSUME IInv, TypeOK', NEW t \in Requests, UNCHANGED db,
         \A s \in Requests : s # t => Untouched(s),
         RequestOK(t)'
  PROVE  IInv'
<1>1. HeldByMembers' /\ EveryRemovalAudited'
  BY DEF IInv, HeldByMembers, EveryRemovalAudited, db
<1>2. \A s \in Requests : RequestOK(s)'
  BY OthersKept
<1> QED BY <1>1, <1>2 DEF IInv

LEMMA AbandonKeeps ==
  ASSUME IInv, NEW t \in Requests, NEW a \in Answers, Abandon(t, a)
  PROVE  IInv'
<1>1. TypeOK'
  BY AbandonType DEF IInv
<1>2. \A s \in Requests : s # t => Untouched(s)
  BY FinishLeavesOthers DEF IInv, Abandon
<1>3. RequestOK(t)'
  <2>1. granted[req[t].user][req[t].grant] \in Nat
    BY DEF IInv, TypeOK, Asked
  <2>2. granted' = granted
    BY DEF Abandon, db
  <2> QED BY <2>1, <2>2, EndedOK DEF Abandon
<1> QED BY <1>1, <1>2, <1>3, QuietStep DEF Abandon

\* A step of t that keeps its session going and only reads rows and locks.
LEMMA AdvanceLeavesOthers ==
  ASSUME TypeOK, NEW t \in Requests, NEW stage, Advance(t, stage), UNCHANGED locks,
         mid' = [mid EXCEPT ![t] = mid'[t]], row' = [row EXCEPT ![t] = row'[t]],
         captured' = [captured EXCEPT ![t] = captured'[t]],
         want' = [want EXCEPT ![t] = want'[t]], got' = got
  PROVE  /\ UNCHANGED db /\ req' = req /\ pc'[t] = stage
         /\ \A s \in Requests : s # t => Untouched(s)
BY DEF TypeOK, Advance, Goto, Untouched, locks

LEMMA ArriveKeeps ==
  ASSUME IInv, NEW t \in Requests, Arrive(t)
  PROVE  IInv'
<1>0. TypeOK /\ TypeOK' /\ RequestOK(t) /\ got[t] = {}
  BY ArriveType DEF IInv, RequestOK, NothingLockedYet, Arrive, GrantRoute, RevokeRoute,
     RemoveRoute, AddMembership
<1>1. CASE Abandon(t, "not_found")
  BY <1>1, AbandonKeeps DEF Answers
<1>2. CASE ~ Abandon(t, "not_found")
  <2>1. PICK stage \in {"selecting", "loaded"} :
          /\ Advance(t, stage)
          /\ mid' = [mid EXCEPT ![t] = mid'[t]]
          /\ UNCHANGED <<locks, row, captured, want, got>>
    BY <1>0, <1>2 DEF TypeOK, Arrive, GrantRoute, RevokeRoute, RemoveRoute, AddMembership,
       LoadMembership
  <2>2. /\ UNCHANGED db /\ req' = req /\ pc'[t] = stage
        /\ \A s \in Requests : s # t => Untouched(s)
    <3>1. /\ row' = [row EXCEPT ![t] = row'[t]] /\ want' = [want EXCEPT ![t] = want'[t]]
          /\ captured' = [captured EXCEPT ![t] = captured'[t]]
      BY <1>0, <2>1 DEF TypeOK
    <3> QED BY <1>0, <2>1, <3>1, AdvanceLeavesOthers
  <2>3. RequestOK(t)'
    BY <1>0, <2>1, <2>2 DEF RequestOK, StageOfKind, FoundRow, NothingLockedYet, LockedRowsLive,
       PastTheCount, RemoverHoldsMembership, RemoverCountsItself, Removing, db
  <2> QED BY <1>0, <2>2, <2>3, QuietStep
<1> QED BY <1>1, <1>2

\* Statements before and after the admin check.
LEMMA StatementKeeps ==
  ASSUME IInv, NEW t \in Requests,
         \/ SelectAssignment(t) \/ RevokeRole(t) \/ FindAssignment(t)
         \/ LockMembership(t) \/ CaptureAssignments(t)
  PROVE  IInv'
<1> USE DEF RequestOK, StageOfKind, FoundRow, NothingLockedYet, LockedRowsLive,
        PastTheCount, RemoverHoldsMembership, RemoverCountsItself, Removing
<1>0. TypeOK /\ TypeOK' /\ RequestOK(t) /\ req[t].user \in Users /\ req[t].grant \in Grants
  BY ServeType DEF IInv, Serve, TypeOK, Asked
<1>1. CASE \E a \in Answers : Abandon(t, a)
  BY <1>1, AbandonKeeps
<1>2. ASSUME \A a \in Answers : ~ Abandon(t, a)
      PROVE  IInv'
  <2> USE DEF Answers
  <2>1. CASE SelectAssignment(t)
    <3>1. Advance(t, "inserting") /\ UNCHANGED <<locks, locals>> /\ pc[t] = "selecting"
      BY <1>2, <2>1 DEF SelectAssignment
    <3>2. \A s \in Requests : s # t => Untouched(s)
      BY <1>0, <3>1 DEF Advance, Goto, TypeOK, Untouched, locks, locals
    <3>3. RequestOK(t)'
      BY <1>0, <3>1 DEF Advance, Goto, TypeOK, db, locals
    <3> QED BY <1>0, <3>1, <3>2, <3>3, QuietStep DEF Advance
  <2>2. CASE RevokeRole(t)
    <3>1. PICK stage \in {"asserting", "finding"} :
            Advance(t, stage) /\ UNCHANGED <<locks, locals>>
      BY <2>2 DEF RevokeRole
    <3>2. \A s \in Requests : s # t => Untouched(s)
      BY <1>0, <3>1 DEF Advance, Goto, TypeOK, Untouched, locks, locals
    <3>3. RequestOK(t)'
      BY <1>0, <2>2, <3>1 DEF RevokeRole, Advance, Goto, TypeOK, db, locals, IsLastAdmin
    <3> QED BY <1>0, <3>1, <3>2, <3>3, QuietStep DEF Advance
  <2>3. CASE FindAssignment(t)
    <3>1. /\ pc[t] = "finding" /\ Assigned(t) /\ Advance(t, "deleting")
          /\ row' = [row EXCEPT ![t] = granted[req[t].user][req[t].grant]]
          /\ UNCHANGED <<locks, mid, captured, want, got>>
      BY <1>2, <2>3 DEF FindAssignment
    <3>2. \A s \in Requests : s # t => Untouched(s)
      BY <1>0, <3>1 DEF Advance, Goto, TypeOK, Untouched, locks
    <3>3. Live(t)' /\ UNCHANGED <<db, locks, req, got>> /\ pc'[t] = "deleting"
      BY <1>0, <3>1 DEF Assigned, Live, Advance, Goto, TypeOK, db
    <3>4. FoundRow(t)'
      <4>1. granted[req[t].user][req[t].grant] \in Nat
        BY <1>0 DEF TypeOK
      <4>2. row'[t] = granted'[req'[t].user][req'[t].grant]
        BY <1>0, <3>1, <3>3 DEF TypeOK, db
      <4> QED BY <3>3, <4>1, <4>2 DEF db
    <3>5. IsLastAdmin(t)' = IsLastAdmin(t)
      BY <3>1, <3>3 DEF IsLastAdmin
    <3>6. LockedRowsLive(t)'
      BY <1>0, <3>1, <3>3 DEF Admins, AdminRow, db, locks
    <3> QED BY <1>0, <3>1, <3>2, <3>3, <3>4, <3>5, <3>6, QuietStep
  <2>4. CASE LockMembership(t)
    <3>1. /\ pc[t] = "loaded" /\ req[t].kind = "remove" /\ Live(t)
          /\ FreeFor(t, memLock[req[t].user])
          /\ memLock' = [memLock EXCEPT ![req[t].user] = t]
          /\ Advance(t, "capturing") /\ UNCHANGED <<rowLock, locals>>
      BY <1>2, <2>4 DEF LockMembership
    <3>2. \A s \in Requests : s # t => Untouched(s)
      BY <1>0, <3>1, NoneAssumption DEF Advance, Goto, TypeOK, Untouched, locals, FreeFor
    <3>3. RequestOK(t)'
      BY <1>0, <3>1 DEF Advance, Goto, TypeOK, db, locals, Live
    <3> QED BY <1>0, <3>1, <3>2, <3>3, QuietStep DEF Advance
  <2>5. CASE CaptureAssignments(t)
    <3>1. PICK stage \in {"asserting", "deleting"} :
            /\ pc[t] = "capturing" /\ Advance(t, stage)
            /\ captured' = [captured EXCEPT ![t] = held[req[t].user]]
            /\ stage = "deleting" => Admin \notin held[req[t].user]
            /\ UNCHANGED <<locks, mid, row, want, got>>
      BY <2>5 DEF CaptureAssignments
    <3>2. \A s \in Requests : s # t => Untouched(s)
      BY <1>0, <3>1 DEF Advance, Goto, TypeOK, Untouched, locks
    <3>3. RequestOK(t)'
      BY <1>0, <3>1 DEF Advance, Goto, TypeOK, db, locks, Live, IsLastAdmin
    <3> QED BY <1>0, <3>1, <3>2, <3>3, QuietStep DEF Advance
  <2> QED BY <2>1, <2>2, <2>3, <2>4, <2>5
<1> QED BY <1>1, <1>2

\* The admin check.
LEMMA AdminCheckKeeps ==
  ASSUME IInv, NEW t \in Requests, SnapshotAdmins(t) \/ LockRows(t) \/ CountAdmins(t)
  PROVE  IInv'
<1> USE DEF RequestOK, StageOfKind, FoundRow, NothingLockedYet, LockedRowsLive,
        PastTheCount, RemoverHoldsMembership, RemoverCountsItself, Removing
<1>0. /\ TypeOK /\ TypeOK' /\ RequestOK(t)
      /\ req[t].user \in Users /\ req[t].grant \in Grants
  BY ServeType DEF IInv, Serve, TypeOK, Asked
<1>1. CASE \E a \in Answers : Abandon(t, a)
  BY <1>1, AbandonKeeps
<1>2. ASSUME \A a \in Answers : ~ Abandon(t, a)
      PROVE  IInv'
  <2> USE DEF Answers
  <2>1. CASE SnapshotAdmins(t)
    <3>1. /\ pc[t] = "asserting" /\ want' = [want EXCEPT ![t] = AdminRows]
          /\ Advance(t, "locking") /\ UNCHANGED <<locks, mid, row, captured, got>>
      BY <1>2, <2>1 DEF SnapshotAdmins
    <3>2. \A s \in Requests : s # t => Untouched(s)
      BY <1>0, <3>1 DEF Advance, Goto, TypeOK, Untouched, locks
    <3>3. want'[t] = AdminRows /\ got'[t] = {} /\ pc'[t] = "locking" /\ UNCHANGED <<db, req>>
      BY <1>0, <3>1 DEF Advance, Goto, TypeOK
    <3>4. RemoverCountsItself(t)'
      BY <1>0, <3>3 DEF AdminRows, AdminRow, Admins, db
    <3>5. RequestOK(t)'
      BY <1>0, <3>1, <3>3, <3>4 DEF db, locks, Live
    <3> QED BY <1>0, <3>2, <3>3, <3>5, QuietStep
  <2>2. CASE LockRows(t)
    <3> PICK r \in want[t] :
          LockAssignmentRow(t, r) \/ LockMembershipRow(t, r) \/ SkipDeletedRow(t, r)
      BY <2>2 DEF LockRows
    <3>1. /\ UNCHANGED <<db, req, pc, mid, row, captured>> /\ pc[t] = "locking"
          /\ want' = [want EXCEPT ![t] = want'[t]] /\ got' = [got EXCEPT ![t] = got'[t]]
      BY <1>0 DEF LockAssignmentRow, LockMembershipRow, SkipDeletedRow, TypeOK, locals
    <3>2. r.user \in Users
      BY <1>0 DEF TypeOK, Row
    <3>3. \A s \in Requests : s # t => Untouched(s)
      BY <1>0, <3>1, <3>2, NoneAssumption DEF TypeOK, Untouched, LockAssignmentRow,
         LockMembershipRow, SkipDeletedRow, locks, FreeFor
    <3>4. \A u \in Users : /\ rowLock[u] = t => rowLock'[u] = t
                           /\ memLock[u] = t => memLock'[u] = t
      BY <1>0, <3>2 DEF TypeOK, LockAssignmentRow, LockMembershipRow, SkipDeletedRow, locks
    <3>5. UNCHANGED <<Admins, AdminRows>> /\ \A u : AdminRow(u)' = AdminRow(u)
      BY <3>1 DEF Admins, AdminRows, AdminRow, db
    <3>6. got'[t] = got[t]
          \/ /\ got'[t] = got[t] \cup {r} /\ r \in AdminRows /\ rowLock[r.user] = t
      BY <1>0 DEF TypeOK, LockAssignmentRow, LockMembershipRow, SkipDeletedRow, locals
    <3>7. LockedRowsLive(t)'
      <4>1. r \in AdminRows => r.user \in Admins /\ r = AdminRow(r.user)
        BY DEF AdminRows, AdminRow
      <4>2. \A q \in got'[t] :
              q.user \in Admins /\ q = AdminRow(q.user) /\ rowLock[q.user] = t
        BY <1>0, <3>1, <3>6, <4>1
      <4> QED BY <3>4, <3>5, <4>2 DEF Admins
    <3>8. want[t] \cup got[t] \subseteq want'[t] \cup got'[t] \cup {r}
          /\ (r \in want'[t] \cup got'[t] \/ r \notin AdminRows)
      BY <1>0 DEF TypeOK, LockAssignmentRow, LockMembershipRow, SkipDeletedRow, locals
    <3>9. RemoverCountsItself(t)'
      <4>1. Admin \in held[req[t].user] => AdminRow(req[t].user) \in AdminRows
        BY <1>0 DEF AdminRows, Admins
      <4> QED BY <1>0, <3>1, <3>5, <3>8, <4>1 DEF db
    <3>10. RequestOK(t)'
      BY <1>0, <3>1, <3>4, <3>7, <3>9 DEF db, Live, RowMatches
    <3> QED BY <1>0, <3>1, <3>3, <3>10, QuietStep
  <2>3. CASE CountAdmins(t)
    <3>1. PICK stage \in {"finding", "deleting"} :
            /\ pc[t] = "locking" /\ want[t] = {} /\ ~ IsLastAdmin(t)
            /\ stage = "finding" <=> req[t].kind = "revoke"
            /\ Advance(t, stage) /\ UNCHANGED <<locks, locals>>
      BY <1>2, <2>3 DEF CountAdmins
    <3>2. \A s \in Requests : s # t => Untouched(s)
      BY <1>0, <3>1 DEF Advance, Goto, TypeOK, Untouched, locks, locals
    <3>3. UNCHANGED <<db, req, locks, locals>> /\ pc'[t] = stage
      BY <1>0, <3>1 DEF Advance, Goto, TypeOK
    <3>4. UNCHANGED <<Admins, AdminRows, IsLastAdmin(t), Live(t)>>
          /\ \A u : AdminRow(u)' = AdminRow(u)
      BY <3>3 DEF Admins, AdminRows, AdminRow, IsLastAdmin, Live, db, locals
    <3>5. RequestOK(t)'
      BY <1>0, <3>1, <3>3, <3>4 DEF db, locks, locals, Admins
    <3> QED BY <1>0, <3>2, <3>3, <3>5, QuietStep
  <2> QED BY <2>1, <2>2, <2>3
<1> QED BY <1>1, <1>2

\* INSERT or DELETE, event and commit.
LEMMA WriteKeeps ==
  ASSUME IInv, NEW t \in Requests,
         \/ InsertAssignment(t) \/ InsertMembership(t)
         \/ DeleteAssignment(t) \/ DeleteMembership(t)
  PROVE  IInv'
<1> DEFINE u == req[t].user
           g == req[t].grant
<1>0. TypeOK /\ TypeOK' /\ RequestOK(t) /\ u \in Users /\ g \in Grants
  BY ServeType DEF IInv, Serve, TypeOK, Asked
<1>1. \A s \in Requests : s # t => RequestOK(s)'
  BY GrantKeepsOthers, DeleteKeepsOthers
<1>2. CASE InsertAssignment(t) \/ InsertMembership(t)
  <2>1. /\ held' = [held EXCEPT ![u] = @ \cup {g}]
        /\ granted' = [granted EXCEPT ![u][g] = @ + 1]
        /\ Finish(t, "ok") /\ UNCHANGED <<active, revoked, req, locals>>
        /\ g \notin held[u] /\ member'[u]
    BY <1>0, <1>2 DEF TypeOK, InsertAssignment, InsertMembership, RecordGrant, Assigned, Live,
       IInv, HeldByMembers
  <2>2. \A v \in Users : v # u => member'[v] = member[v] /\ held'[v] = held[v]
    BY <1>0, <1>2, <2>1 DEF TypeOK, InsertAssignment, InsertMembership
  <2>3. HeldByMembers'
    BY <2>1, <2>2 DEF IInv, HeldByMembers
  <2>4. EveryRemovalAudited'
    <3> SUFFICES ASSUME NEW v \in Users, NEW h \in Grants
                 PROVE  granted'[v][h] <= revoked'[v][h] + IF h \in held'[v] THEN 1 ELSE 0
      BY DEF EveryRemovalAudited
    <3>1. granted[v][h] <= revoked[v][h] + IF h \in held[v] THEN 1 ELSE 0
      BY DEF IInv, EveryRemovalAudited
    <3>2. granted[v][h] \in Nat /\ revoked[v][h] \in Nat /\ revoked' = revoked
      BY <1>0, <2>1 DEF TypeOK
    <3>3. CASE v = u /\ h = g
      <4>1. granted'[v][h] = granted[v][h] + 1 /\ h \in held'[v] /\ h \notin held[v]
        BY <1>0, <2>1, <3>3 DEF TypeOK
      <4> QED BY <3>1, <3>2, <4>1
    <3>4. CASE v # u \/ h # g
      <4>1. granted'[v][h] = granted[v][h] /\ (h \in held'[v] <=> h \in held[v])
        BY <1>0, <2>1, <3>4 DEF TypeOK
      <4> QED BY <3>1, <3>2, <4>1
    <3> QED BY <3>3, <3>4
  <2>5. RequestOK(t)'
    <3>1. granted[u][g] \in Nat /\ granted'[u][g] = granted[u][g] + 1
      BY <1>0, <2>1 DEF TypeOK
    <3> QED BY <2>1, <3>1, EndedOK
  <2> QED BY <1>0, <1>1, <2>3, <2>4, <2>5 DEF IInv
<1>3. CASE DeleteAssignment(t)
  <2>1. /\ held' = [held EXCEPT ![u] = IF RowMatches(t) THEN @ \ {g} ELSE @]
        /\ revoked' = [revoked EXCEPT ![u][g] = @ + 1]
        /\ Finish(t, "ok") /\ UNCHANGED <<active, member, joined, granted, req, locals>>
    BY <1>3 DEF DeleteAssignment
  <2>2. \A v \in Users : held'[v] \subseteq held[v] /\ held[v] \ held'[v] \subseteq {g}
    BY <1>0, <2>1 DEF TypeOK
  <2>3. \A v \in Users : v # u => held'[v] = held[v]
    BY <1>0, <2>1 DEF TypeOK
  <2>4. HeldByMembers'
    BY <2>1, <2>2 DEF IInv, HeldByMembers
  <2>5. EveryRemovalAudited'
    <3> SUFFICES ASSUME NEW v \in Users, NEW h \in Grants
                 PROVE  granted'[v][h] <= revoked'[v][h] + IF h \in held'[v] THEN 1 ELSE 0
      BY DEF EveryRemovalAudited
    <3>1. granted[v][h] <= revoked[v][h] + IF h \in held[v] THEN 1 ELSE 0
      BY DEF IInv, EveryRemovalAudited
    <3>2. granted[v][h] \in Nat /\ revoked[v][h] \in Nat /\ granted' = granted
      BY <1>0, <2>1 DEF TypeOK
    <3>3. CASE v = u /\ h = g
      <4>1. revoked'[v][h] = revoked[v][h] + 1
        BY <1>0, <2>1, <3>3 DEF TypeOK
      <4> QED BY <3>1, <3>2, <4>1
    <3>4. CASE v # u \/ h # g
      <4>1. revoked'[v][h] = revoked[v][h]
        BY <1>0, <2>1, <3>4 DEF TypeOK
      <4>2. h \in held'[v] <=> h \in held[v]
        BY <2>2, <2>3, <3>4
      <4> QED BY <3>1, <3>2, <4>1, <4>2
    <3> QED BY <3>3, <3>4
  <2>6. RequestOK(t)'
    <3>1. granted[u][g] \in Nat /\ granted'[u][g] = granted[u][g]
      BY <1>0, <2>1 DEF TypeOK
    <3> QED BY <2>1, <3>1, EndedOK
  <2> QED BY <1>0, <1>1, <2>4, <2>5, <2>6 DEF IInv
<1>4. CASE DeleteMembership(t)
  <2>1. /\ member'  = [member EXCEPT ![u] = FALSE]
        /\ held'    = [held EXCEPT ![u] = {}]
        /\ revoked' = [revoked EXCEPT ![u] =
                         [h \in Grants |-> @[h] + IF h \in captured[t] THEN 1 ELSE 0]]
        /\ Finish(t, "ok") /\ UNCHANGED <<active, joined, granted, req, locals>>
        /\ pc[t] = "deleting" /\ req[t].kind = "remove"
    BY <1>4 DEF DeleteMembership
  <2>2. HeldByMembers'
    BY <1>0, <2>1 DEF IInv, HeldByMembers, TypeOK
  <2>3. EveryRemovalAudited'
    <3> SUFFICES ASSUME NEW v \in Users, NEW h \in Grants
                 PROVE  granted'[v][h] <= revoked'[v][h] + IF h \in held'[v] THEN 1 ELSE 0
      BY DEF EveryRemovalAudited
    <3>1. granted[v][h] <= revoked[v][h] + IF h \in held[v] THEN 1 ELSE 0
      BY DEF IInv, EveryRemovalAudited
    <3>2. granted[v][h] \in Nat /\ revoked[v][h] \in Nat /\ granted' = granted
      BY <1>0, <2>1 DEF TypeOK
    <3>3. held[u] \subseteq captured[t]
      BY <1>0, <2>1 DEF RequestOK, RemoverHoldsMembership, Removing
    <3>4. CASE v = u
      <4>1. revoked'[v][h] = revoked[v][h] + IF h \in captured[t] THEN 1 ELSE 0
        BY <1>0, <2>1, <3>4 DEF TypeOK
      <4>2. h \notin held'[v]
        BY <1>0, <2>1, <3>4 DEF TypeOK
      <4> QED BY <3>1, <3>2, <3>3, <3>4, <4>1, <4>2
    <3>5. CASE v # u
      <4>1. revoked'[v] = revoked[v] /\ held'[v] = held[v]
        BY <1>0, <2>1, <3>5 DEF TypeOK
      <4> QED BY <3>1, <3>2, <4>1
    <3> QED BY <3>4, <3>5
  <2>4. RequestOK(t)'
    <3>1. granted[u][g] \in Nat /\ granted'[u][g] = granted[u][g]
      BY <1>0, <2>1 DEF TypeOK
    <3> QED BY <2>1, <3>1, EndedOK
  <2> QED BY <1>0, <1>1, <2>2, <2>3, <2>4 DEF IInv
<1> QED BY <1>2, <1>3, <1>4

LEMMA InitOK == Init => IInv
<1> SUFFICES ASSUME Init PROVE IInv
  OBVIOUS
<1>1. TypeOK
  BY StartAssumption DEF Init, TypeOK, Stages, Answers
<1>2. HeldByMembers /\ EveryRemovalAudited
  <2>1. PICK s \in StartingStates :
          /\ held = s.held /\ member = [u \in Users |-> s.held[u] # {}]
          /\ granted = [u \in Users |-> [g \in Grants |-> IF g \in s.held[u] THEN 1 ELSE 0]]
    BY DEF Init
  <2>2. HeldByMembers
    BY <2>1 DEF HeldByMembers
  <2>3. ASSUME NEW u \in Users, NEW g \in Grants
        PROVE  granted[u][g] <= revoked[u][g] + IF g \in held[u] THEN 1 ELSE 0
    <3>1. granted[u][g] = IF g \in held[u] THEN 1 ELSE 0
      BY <2>1
    <3>2. revoked[u][g] = 0
      BY DEF Init
    <3> QED BY <3>1, <3>2
  <2> QED BY <2>2, <2>3 DEF EveryRemovalAudited
<1>3. ASSUME NEW t \in Requests PROVE RequestOK(t)
  <2>1. pc[t] = "new" /\ row[t] = 0 /\ got[t] = {}
    BY DEF Init
  <2>2. granted[req[t].user][req[t].grant] \in Nat
    BY <1>1 DEF TypeOK, Asked
  <2> QED BY <2>1, <2>2 DEF RequestOK, StageOfKind, FoundRow, NothingLockedYet,
     LockedRowsLive, PastTheCount, RemoverHoldsMembership, RemoverCountsItself, Removing
<1> QED BY <1>1, <1>2, <1>3 DEF IInv

LEMMA StutterKeeps == ASSUME IInv, UNCHANGED vars PROVE IInv'
<1>1. UNCHANGED <<db, memLock, rowLock, req, pc, mid, row, captured, want, got, answer>>
  BY DEF vars, locks, locals
<1>2. TypeOK'
  BY <1>1 DEF IInv, TypeOK, db
<1>3. HeldByMembers' /\ EveryRemovalAudited'
  BY <1>1 DEF IInv, HeldByMembers, EveryRemovalAudited, db
<1>4. \A s \in Requests : RequestOK(s)'
  <2>1. \A s \in Requests : Untouched(s)
    BY <1>1 DEF Untouched
  <2> QED BY <1>1, <2>1, OthersKept
<1> QED BY <1>2, <1>3, <1>4 DEF IInv

LEMMA NextKeeps == IInv /\ [Next]_vars => IInv'
<1> SUFFICES ASSUME IInv, [Next]_vars PROVE IInv'
  OBVIOUS
<1>1. ASSUME NEW t \in Requests, Arrive(t) PROVE IInv'
  BY <1>1, ArriveKeeps
<1>2. ASSUME NEW t \in Requests, Serve(t) PROVE IInv'
  <2>1. CASE InsertConflict(t) \/ DeadlockAbort(t)
    BY <2>1, AbandonKeeps DEF InsertConflict, DeadlockAbort, Answers
  <2> QED
    BY <1>2, <2>1, StatementKeeps, AdminCheckKeeps, WriteKeeps DEF Serve
<1> QED BY <1>1, <1>2, StutterKeeps DEF Next

-----------------------------------------------------------------------------
(* The theorems                                                            *)

\* In every reachable state the inductive invariant holds.
THEOREM Invariance == Spec => []IInv
BY InitOK, NextKeeps, PTL DEF Spec

\* Whatever users, grants and requests there are, every assignment row that has
\* gone has its 'revoke' event: remove_member's lock and capture, the events of
\* revoke_role, and the unique constraint together.
THEOREM RemovalsAudited == Spec => []EveryRemovalAudited
<1>1. IInv => EveryRemovalAudited
  BY DEF IInv
<1> QED BY <1>1, Invariance, PTL

\* A DELETE that takes a counted admin row leaves another counted one.
LEMMA AnotherAdminStays ==
  ASSUME IInv, NEW t \in Requests, pc[t] = "deleting", Live(t), Counted(t)
  PROVE  \E v \in Admins : v # req[t].user
<1>1. ~ IsLastAdmin(t) /\ LockedRowsLive(t) /\ req[t].user \in Users
  BY DEF IInv, RequestOK, PastTheCount, TypeOK, Asked
<1>2. AdminRow(req[t].user).user = req[t].user /\ AdminRow(req[t].user).mid = mid[t]
  BY DEF AdminRow, Live
<1>3. PICK r \in got[t] : r # AdminRow(req[t].user)
  BY <1>1, <1>2 DEF IsLastAdmin, Counted
<1> QED BY <1>1, <1>3 DEF LockedRowsLive

\* The admin check keeps its promise for every removal whose own row it counted,
\* with any number of users and of concurrent requests.
THEOREM CountedRemovals == Spec => CountedRemovalsKeepAnAdmin
<1>1. ASSUME IInv, [Next]_vars, NEW t \in Requests,
             pc[t] = "deleting", pc'[t] = "done",
             req[t].kind = "remove" \/ Counted(t), Admins # {}
      PROVE  Admins' # {}
  <2>0. /\ TypeOK /\ RequestOK(t) /\ req[t].user \in Users /\ req[t].grant \in Grants
        /\ "deleting" # "done"
    BY <1>1 DEF IInv, TypeOK, Asked
  <2>1. PICK s \in Requests : Arrive(s) \/ Serve(s)
    BY <1>1, <2>0 DEF Next, vars
  <2>2. CASE UNCHANGED db
    BY <1>1, <2>2 DEF Admins, db
  <2>3. CASE InsertAssignment(s) \/ InsertMembership(s)
    <3>1. req[s].user \in Users /\ held' = [held EXCEPT ![req[s].user] = @ \cup {req[s].grant}]
      BY <2>0, <2>3 DEF TypeOK, Asked, InsertAssignment, InsertMembership, RecordGrant
    <3> QED BY <1>1, <2>0, <3>1 DEF Admins, TypeOK
  <2>4. CASE DeleteAssignment(s) \/ DeleteMembership(s)
    <3>1. s = t
      <4>1. pc' = [pc EXCEPT ![s] = "done"]
        BY <2>4 DEF DeleteAssignment, DeleteMembership, Finish
      <4> QED BY <1>1, <2>0, <4>1 DEF TypeOK
    <3>2. \A v \in Users : v # req[t].user => held'[v] = held[v]
      BY <2>0, <2>4, <3>1 DEF DeleteAssignment, DeleteMembership, TypeOK
    <3>3. CASE Live(t) /\ Counted(t)
      BY <1>1, <3>2, <3>3, AnotherAdminStays DEF Admins
    <3>4. CASE ~ (Live(t) /\ Counted(t))
      <4>1. CASE DeleteMembership(s)
        <5>1. Admin \notin held[req[t].user]
          BY <1>1, <2>0, <3>1, <3>4, <4>1 DEF DeleteMembership, RequestOK,
             RemoverHoldsMembership, RemoverCountsItself, Removing, Counted
        <5> QED BY <1>1, <3>2, <5>1 DEF Admins
      <4>2. CASE DeleteAssignment(s)
        <5>1. ~ RowMatches(t)
          BY <1>1, <2>0, <3>1, <3>4, <4>2 DEF DeleteAssignment, RequestOK, FoundRow
        <5>2. held' = held
          BY <2>0, <3>1, <4>2, <5>1 DEF DeleteAssignment, TypeOK
        <5> QED BY <1>1, <5>2 DEF Admins
      <4> QED BY <2>4, <4>1, <4>2
    <3> QED BY <3>3, <3>4
  <2>5. UNCHANGED db \/ InsertAssignment(s) \/ InsertMembership(s)
        \/ DeleteAssignment(s) \/ DeleteMembership(s)
    BY <2>1 DEF Arrive, Serve, GrantRoute, RevokeRoute, RemoveRoute, AddMembership,
       LoadMembership, SelectAssignment, InsertConflict, SnapshotAdmins, LockRows,
       LockAssignmentRow, LockMembershipRow, SkipDeletedRow, CountAdmins, RevokeRole,
       FindAssignment, LockMembership, CaptureAssignments, DeadlockAbort, Abandon, Advance
  <2> QED BY <2>2, <2>3, <2>4, <2>5
<1> DEFINE P == \A t \in Requests :
       /\ pc[t] = "deleting" /\ pc'[t] = "done"
       /\ req[t].kind = "remove" \/ Counted(t)
       /\ Admins # {}
       => Admins' # {}
<1>2. IInv /\ [Next]_vars => [P]_vars
  BY <1>1
<1> QED BY <1>2, Invariance, PTL DEF Spec, CountedRemovalsKeepAnAdmin
=============================================================================
