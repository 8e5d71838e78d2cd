----------------------------- MODULE AuthSessions -----------------------------
(***************************************************************************)
(* The authentication routes over the control database: signup, login,     *)
(* logout and set-password, beside the removal of a member and the time    *)
(* that passes.  A request is one transaction, READ COMMITTED; a statement *)
(* that writes a row, or inserts a unique key, waits for the transaction   *)
(* that holds it, and PostgreSQL breaks the cycles this makes.  The ORM    *)
(* flushes at commit: what set-password changes in the account and the     *)
(* membership is written after its two statements.                         *)
(***************************************************************************)
EXTENDS Naturals, FiniteSets

CONSTANTS
  Accounts,      \* canonical emails, taken or not
  Passwords,
  Labels,        \* slugs a signup may ask for
  Invites,       \* token hashes of invite_token
  InviteOf,      \* InviteOf[k]: the account k was minted for, as a member of one tenant
  AuthRequests,
  Plans,         \* what the requests may ask: each [kind, who, what, pw]
  AuthStarts,    \* [secret, rows] the database may start from
  Life,          \* the life of an invite
  Horizon,       \* bound: how far the clock runs
  Nobody

\* app_user: weak for outdated cost parameters; pw Nobody: none set; Nobody: no such row.
Account == [pw : Passwords \cup {Nobody}, weak : BOOLEAN]

SessionRows == [by : AuthRequests \cup {Nobody}, user : Accounts, pw : Passwords]

\* An invite is presented for the account it was minted for; a database refers to
\* accounts that are there, and has no session of an older password.
ASSUME AuthAssumption ==
  /\ Life \in Nat /\ Horizon \in Nat
  /\ InviteOf \in [Invites -> Accounts]
  /\ Nobody \notin Accounts \cup Passwords \cup AuthRequests \cup Account
  /\ \A plan \in Plans : \A t \in AuthRequests :
       /\ plan = [s \in AuthRequests |-> plan[s]]
       /\ plan[t].kind \in {"login", "logout", "set", "remove", "signup"}
       /\ plan[t].who \in Accounts /\ plan[t].pw \in Passwords
       /\ plan[t].kind = "set" => plan[t].what \in Invites /\ InviteOf[plan[t].what] = plan[t].who
       /\ plan[t].kind = "signup" => plan[t].what \in Labels
  /\ \A start \in AuthStarts :
       /\ start.secret \in [Accounts -> Account \cup {Nobody}] /\ start.rows \subseteq SessionRows
       /\ \A k \in Invites : start.secret[InviteOf[k]] # Nobody
       /\ \A s \in start.rows : start.secret[s.user] # Nobody /\ s.pw = start.secret[s.user].pw

VARIABLES
  clock,
  secret,     \* app_user: an Account or Nobody
  sessions,   \* session rows [by, user, pw]; by (who opened it) and pw are history
  invites,    \* invite_token: "fresh", "used" or "gone" (CASCADE)
  belongs,     \* tenant_membership: "none", "invited" or "accepted"
  founded,    \* founded[l]: who founded the tenant with the slug l
  holds,      \* holds[t]: the rows t's transaction has locked
  at,         \* where each request is
  ask,        \* what it asks
  local,      \* the handler's variables: [now, seen, doomed]
  reply,
  overtaken   \* history: accounts one of whose logins a reset has overtaken

authData == <<secret, sessions, invites, belongs, founded>>
authVars == <<clock, authData, holds, at, ask, local, reply, overtaken>>

Rows == ({"user", "member"} \X Accounts) \cup ({"invite"} \X Invites) \cup ({"slug"} \X Labels)

AuthStages == {"new", "begun", "verified", "redeemed", "deleted", "flushed", "stamped",
               "checked", "registered", "locked", "end"}

Mine(t) == ask[t].who

\* The row the next statement of t has to lock.
Needed(t) ==
  CASE at[t] = "begun"   /\ ask[t].kind = "set"    -> {<<"invite", ask[t].what>>}
    [] at[t] = "deleted"                           -> {<<"user", Mine(t)>>}
    [] at[t] = "flushed"                           -> {<<"member", Mine(t)>>}
    [] at[t] = "verified" /\ local[t].seen.weak    -> {<<"user", Mine(t)>>}
    [] at[t] = "begun"   /\ ask[t].kind = "remove" -> {<<"member", Mine(t)>>}
    [] at[t] = "locked"  -> {<<"invite", k>> : k \in {j \in Invites : InviteOf[j] = Mine(t)
                                                                      /\ invites[j] # "gone"}}
    [] at[t] = "checked"    -> {<<"slug", ask[t].what>>}
    [] at[t] = "registered" -> {<<"user", Mine(t)>>}
    [] OTHER -> {}

Obstructs(s, t) == s # t /\ holds[s] \cap Needed(t) # {}
CanLock(t)  == \A s \in AuthRequests : ~Obstructs(s, t)

To(t, stage) == at' = [at EXCEPT ![t] = stage]
LockNeeded(t) == CanLock(t) /\ holds' = [holds EXCEPT ![t] = @ \cup Needed(t)]

Answer(t, r) ==
  /\ To(t, "end")
  /\ reply' = [reply EXCEPT ![t] = r]
  /\ holds' = [holds EXCEPT ![t] = {}]

Fail(t, r) == Answer(t, r) /\ UNCHANGED <<clock, authData, ask, local, overtaken>>

-----------------------------------------------------------------------------
\* A request arrives; set-password and signup take the time of day first.
Begin(t) ==
  /\ at[t] = "new"
  /\ To(t, "begun")
  /\ local' = [local EXCEPT ![t].now = clock]
  /\ UNCHANGED <<clock, authData, holds, ask, reply, overtaken>>

Doing(t, kind, stage) == ask[t].kind = kind /\ at[t] = stage

\* login: the account as its SELECT sees it, and the check of the password.
Verify(t) ==
  /\ Doing(t, "login", "begun")
  /\ LET row == secret[Mine(t)] IN
       IF row # Nobody /\ row.pw = ask[t].pw
       THEN /\ To(t, "verified")
            /\ local' = [local EXCEPT ![t].seen = row]
            /\ UNCHANGED <<clock, authData, holds, ask, reply, overtaken>>
       ELSE Fail(t, 401)

SessionRow(t) == [by |-> t, user |-> Mine(t), pw |-> ask[t].pw]

\* A reset of the account has committed since the login read it, or has already
\* deleted its sessions.
Overtaken(t) ==
  \/ secret[Mine(t)].pw # local[t].seen.pw
  \/ \E r \in AuthRequests : /\ ask[r].kind = "set" /\ Mine(r) = Mine(t)
                             /\ at[r] \in {"deleted", "flushed", "stamped"}

\* Its commit: the re-hash, if the parameters have changed, and the session.
CommitLogin(t) ==
  /\ Doing(t, "login", "verified") /\ CanLock(t)
  /\ secret' = IF local[t].seen.weak
               THEN [secret EXCEPT ![Mine(t)] = [pw |-> ask[t].pw, weak |-> FALSE]] ELSE secret
  /\ sessions' = sessions \cup {SessionRow(t)}
  /\ overtaken' = IF Overtaken(t) THEN overtaken \cup {Mine(t)} ELSE overtaken
  /\ Answer(t, 200)
  /\ UNCHANGED <<clock, invites, belongs, founded, ask, local>>

\* logout: one DELETE of the session it presents.
Logout(t) ==
  /\ Doing(t, "logout", "begun")
  /\ sessions' = {s \in sessions : s.by # ask[t].what}
  /\ Answer(t, 204)
  /\ UNCHANGED <<clock, secret, invites, belongs, founded, ask, local, overtaken>>

-----------------------------------------------------------------------------
Redeemable(t) == invites[ask[t].what] = "fresh" /\ Life > local[t].now

\* Mutant: the condition is looked at before the row is waited for.
RedeemUnlocked(t) ==
  /\ Doing(t, "set", "begun")
  /\ IF Redeemable(t)
     THEN /\ To(t, "redeemed")
          /\ UNCHANGED <<clock, authData, holds, ask, local, reply, overtaken>>
     ELSE Fail(t, 400)

\* set-password: UPDATE invite_token ... RETURNING.
Redeem(t) ==
  /\ Doing(t, "set", "begun") /\ CanLock(t)
  /\ IF Redeemable(t)
     THEN /\ LockNeeded(t)
          /\ To(t, "redeemed")
          /\ UNCHANGED <<clock, authData, ask, local, reply, overtaken>>
     ELSE Fail(t, 400)

Theirs(t) == {s \in sessions : s.user = Mine(t)}

\* Mutant: the session the user presents, if any, is all that goes.
DeleteNoSession(t) ==
  /\ Doing(t, "set", "redeemed")
  /\ To(t, "deleted")
  /\ UNCHANGED <<clock, authData, holds, ask, local, reply, overtaken>>

\* DELETE FROM session WHERE user_id = ...: the rows its snapshot has.
DeleteSessions(t) ==
  /\ Doing(t, "set", "redeemed")
  /\ local' = [local EXCEPT ![t].doomed = Theirs(t)]
  /\ To(t, "deleted")
  /\ UNCHANGED <<clock, authData, holds, ask, reply, overtaken>>

\* The flush at commit: the account, then the membership.
FlushUser(t) ==
  /\ Doing(t, "set", "deleted") /\ LockNeeded(t)
  /\ To(t, "flushed")
  /\ UNCHANGED <<clock, authData, ask, local, reply, overtaken>>

FlushMembership(t) ==
  /\ Doing(t, "set", "flushed") /\ LockNeeded(t)
  /\ To(t, "stamped")
  /\ UNCHANGED <<clock, authData, ask, local, reply, overtaken>>

\* A session opened since the DELETE stays.
CommitPassword(t) ==
  /\ Doing(t, "set", "stamped")
  /\ secret' = [secret EXCEPT ![Mine(t)] = [pw |-> ask[t].pw, weak |-> FALSE]]
  /\ invites' = [invites EXCEPT ![ask[t].what] = "used"]
  /\ belongs' = [belongs EXCEPT ![Mine(t)] = "accepted"]
  /\ sessions' = sessions \ local[t].doomed
  /\ Answer(t, 204)
  /\ UNCHANGED <<clock, founded, ask, local, overtaken>>

-----------------------------------------------------------------------------
\* remove_member: the membership FOR UPDATE, then its DELETE with the invites
\* that cascade.
LockMember(t) ==
  /\ Doing(t, "remove", "begun") /\ CanLock(t)
  /\ IF belongs[Mine(t)] = "none" THEN Fail(t, 404)
     ELSE /\ LockNeeded(t)
          /\ To(t, "locked")
          /\ UNCHANGED <<clock, authData, ask, local, reply, overtaken>>

RemoveMember(t) ==
  /\ Doing(t, "remove", "locked") /\ CanLock(t)
  /\ belongs' = [belongs EXCEPT ![Mine(t)] = "none"]
  /\ invites' = [k \in Invites |-> IF InviteOf[k] = Mine(t) THEN "gone" ELSE invites[k]]
  /\ Answer(t, 204)
  /\ UNCHANGED <<clock, secret, sessions, founded, ask, local, overtaken>>

-----------------------------------------------------------------------------
\* signup: the two look-ups, the tenant, the account with its membership and its
\* session, each of which may meet the same key of another request.
PreCheck(t) ==
  /\ Doing(t, "signup", "begun")
  /\ IF secret[Mine(t)] # Nobody \/ founded[ask[t].what] # Nobody THEN Fail(t, 409)
     ELSE /\ To(t, "checked")
          /\ UNCHANGED <<clock, authData, holds, ask, local, reply, overtaken>>

RegisterFounded(t) ==
  /\ Doing(t, "signup", "checked") /\ CanLock(t)
  /\ IF founded[ask[t].what] # Nobody THEN Fail(t, 409)
     ELSE /\ LockNeeded(t)
          /\ To(t, "registered")
          /\ UNCHANGED <<clock, authData, ask, local, reply, overtaken>>

\* Mutant: the collision of the email is answered without the rollback.
FoundTenantKept(t) ==
  /\ Doing(t, "signup", "registered") /\ CanLock(t)
  /\ founded' = [founded EXCEPT ![ask[t].what] = Mine(t)]
  /\ IF secret[Mine(t)] # Nobody
     THEN Answer(t, 409) /\ UNCHANGED <<secret, sessions>>
     ELSE /\ secret' = [secret EXCEPT ![Mine(t)] = [pw |-> ask[t].pw, weak |-> FALSE]]
          /\ sessions' = sessions \cup {SessionRow(t)}
          /\ Answer(t, 201)
  /\ UNCHANGED <<clock, invites, belongs, ask, local, overtaken>>

FoundTenant(t) ==
  /\ Doing(t, "signup", "registered") /\ CanLock(t)
  /\ IF secret[Mine(t)] # Nobody THEN Fail(t, 409)
     ELSE /\ secret' = [secret EXCEPT ![Mine(t)] = [pw |-> ask[t].pw, weak |-> FALSE]]
          /\ founded' = [founded EXCEPT ![ask[t].what] = Mine(t)]
          /\ sessions' = sessions \cup {SessionRow(t)}
          /\ Answer(t, 201)
          /\ UNCHANGED <<clock, invites, belongs, ask, local, overtaken>>

-----------------------------------------------------------------------------
\* The members of a cycle of waits.
WaitCycle(S) == /\ \A t \in S : \E s \in S : Obstructs(s, t)
                /\ \A s \in S : \E t \in S : Obstructs(s, t)

\* PostgreSQL aborts one of them: deadlock_detected, an error 500.
BreakDeadlock(t) ==
  /\ \E S \in SUBSET AuthRequests : t \in S /\ WaitCycle(S)
  /\ Fail(t, 500)

Pass ==
  /\ clock < Horizon
  /\ clock' = clock + 1
  /\ UNCHANGED <<authData, holds, at, ask, local, reply, overtaken>>

AuthInit ==
  \E start \in AuthStarts :
    /\ clock = 0
    /\ secret = start.secret /\ sessions = start.rows
    /\ invites = [k \in Invites |-> "fresh"]
    /\ belongs = [u \in Accounts |-> IF \E k \in Invites : InviteOf[k] = u
                                    THEN "invited" ELSE "none"]
    /\ founded = [l \in Labels |-> Nobody]
    /\ holds = [t \in AuthRequests |-> {}]
    /\ at = [t \in AuthRequests |-> "new"]
    /\ ask \in Plans
    /\ local = [t \in AuthRequests |-> [now |-> 0, seen |-> Nobody, doomed |-> {}]]
    /\ reply = [t \in AuthRequests |-> 0]
    /\ overtaken = {}

Login(t)       == Verify(t) \/ CommitLogin(t)
SetPassword(t) == Redeem(t) \/ DeleteSessions(t) \/ FlushUser(t) \/ FlushMembership(t)
                  \/ CommitPassword(t)
Removal(t)     == LockMember(t) \/ RemoveMember(t)
Signup(t)      == PreCheck(t) \/ RegisterFounded(t) \/ FoundTenant(t)

AuthStep(t) == Login(t) \/ Logout(t) \/ SetPassword(t) \/ Removal(t) \/ Signup(t)

AuthNext ==
  \/ \E t \in AuthRequests : \/ Begin(t)
                             \/ AuthStep(t)
                             \/ BreakDeadlock(t)
  \/ Pass

AuthSpec == AuthInit /\ [][AuthNext]_authVars

AuthFairness == \A t \in AuthRequests : WF_authVars(AuthStep(t)) /\ WF_authVars(BreakDeadlock(t))
-----------------------------------------------------------------------------
AuthTypeOK ==
  /\ clock \in Nat
  /\ secret \in [Accounts -> Account \cup {Nobody}]
  /\ sessions \subseteq SessionRows
  /\ \A k \in Invites : \/ invites[k] \in {"fresh", "gone"}
                        \/ invites[k] = "used" /\ secret[InviteOf[k]].pw \in Passwords
  /\ belongs \in [Accounts -> {"none", "invited", "accepted"}]
  /\ founded \in [Labels -> Accounts \cup {Nobody}]
  /\ holds \in [AuthRequests -> SUBSET Rows]
  /\ at \in [AuthRequests -> AuthStages]
  /\ reply \in [AuthRequests -> {0, 200, 201, 204, 400, 401, 404, 409, 500}]
  /\ overtaken \subseteq Accounts

\* An invite is redeemed once, by one request, however many present it at once.
InvitesSingleUse ==
  \A t, s \in AuthRequests :
    t # s /\ ask[t].kind = "set" /\ ask[s].kind = "set" /\ ask[t].what = ask[s].what =>
      ~(reply[t] = 204 /\ reply[s] = 204)

\* A signup is whole or nothing: the founder of every tenant is an account, and a
\* tenant was founded by a signup that was answered 201 (no orphan is left by a
\* collision of emails).
SignupsWhole ==
  \A l \in Labels : founded[l] # Nobody =>
    /\ secret[founded[l]] # Nobody
    /\ \E t \in AuthRequests : /\ ask[t].kind = "signup" /\ reply[t] = 201
                               /\ ask[t].what = l /\ Mine(t) = founded[l]

\* Every session was opened with the password the account has now, unless a login
\* raced a reset of the same account: a credential reset ends all sessions.
ResetEndsSessions ==
  \A s \in sessions : s.user \notin overtaken => s.pw = secret[s.user].pw

\* "a credential reset must not leave old sessions live" (routes/auth.py:20-22),
\* whatever runs beside it.
ResetRevokes == \A s \in sessions : s.pw = secret[s.user].pw

\* Every authentication request that was begun is answered, so that again and
\* again none is open: redemptions and removals that wait for one another in a
\* cycle are untied.
AuthAnswered == []<>(\A t \in AuthRequests : at[t] \in {"new", "end"})

\* Redemptions and signups are done once and as a whole, whatever runs beside them.
RequestsAreWhole == InvitesSingleUse /\ SignupsWhole
=============================================================================
